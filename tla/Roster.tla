------------------------------- MODULE Roster -------------------------------
(* roster.json: which processes supervise a stack.                            *)
(*   cross-process/roster.ts   claim, heartbeat, release, sweepStaleHolders   *)
(*   cli/wirings/up.ts         installLiveSupervisorRoster                    *)
(* Each mutation is lock, read, write, unlock; the lock is taken as exclusive *)
(* here (StackLock says when it is).  A process that restarts is another      *)
(* member of Procs.                                                           *)
EXTENDS FiniteSets

CONSTANTS
  Procs,     \* process lives that run `up` on the stack
  Crashable, \* the ones that may be killed at any step
  Twins,     \* <<p, q>>: q runs under the pid p had, and no start-time stamp
             \* tells them apart
  FailingIO, \* the ones whose lock may time out and whose write may fail
  None

ASSUME RosterAssumption ==
  /\ Crashable \subseteq Procs
  /\ Twins \subseteq Crashable \X Procs
  /\ \A p \in Procs : <<p, p>> \notin Twins
  /\ FailingIO \subseteq Procs
  /\ None \notin Procs

VARIABLES
  roster, \* whose entries the file holds
  stale,  \* the processes whose heartbeatAt is older than staleAfterMillis
  lock,   \* whose lock file is at stack.lock
  torn,   \* the processes killed between the creation of it and its body
  pc,     \* where each process is
  op,     \* the mutation it is in, or was in last
  view,   \* the entries it keeps of the document it read
  sole,   \* the processes whose claim returned soleHolder
  kept    \* it ended without removing its entry: the release failed

vars == <<roster, stale, lock, torn, pc, op, view, sole, kept>>

TypeOK ==
  /\ roster \subseteq Procs
  /\ stale \subseteq Procs
  /\ lock \in Procs \cup {None}
  /\ torn \subseteq Procs
  /\ pc \in [Procs -> {"idle", "lock", "read", "write", "unlock", "up",
                       "refused", "left", "dead"}]
  /\ op \in [Procs -> {"none", "claim", "beat", "release", "withdraw", "failed"}]
  /\ view \in [Procs -> SUBSET Procs]
  /\ sole \subseteq Procs
  /\ kept \subseteq Procs

Init ==
  /\ roster = {}
  /\ stale = {}
  /\ lock = None
  /\ torn = {}
  /\ pc = [p \in Procs |-> "idle"]
  /\ op = [p \in Procs |-> "none"]
  /\ view = [p \in Procs |-> {}]
  /\ sole = {}
  /\ kept = {}

Dead(p) == pc[p] = "dead"
Running(p) == pc[p] \notin {"idle", "refused", "left", "dead"}

(* checkHolderLiveness of p's entry.                                          *)
LooksAlive(p) == Running(p) \/ \E q \in Procs : <<p, q>> \in Twins /\ Running(q)

(* isOwnEntry, of p's entry for q.                                            *)
OwnEntry(q, p) == p = q \/ <<p, q>> \in Twins

Goto(p, l) == pc' = [pc EXCEPT ![p] = l]
(* Where a process goes on when its mutation is over, or given up.            *)
Afterwards(o) == IF o = "beat" THEN "up" ELSE IF o = "release" THEN "left" ELSE "refused"
Enter(p, o) == Goto(p, "lock") /\ op' = [op EXCEPT ![p] = o]

-----------------------------------------------------------------------------
(* `up` claims the stack.  A pid is reused after its process ended.           *)
Start(p) ==
  /\ pc[p] = "idle"
  /\ \A q \in Procs : <<q, p>> \in Twins => Dead(q)
  /\ Enter(p, "claim")
  /\ UNCHANGED <<roster, stale, lock, torn, view, sole, kept>>

(* Mutant: the lock does not exclude.                                         *)
LockSteals(p) ==
  /\ pc[p] = "lock"
  /\ lock' = p
  /\ Goto(p, "read")
  /\ UNCHANGED <<roster, stale, torn, op, view, sole, kept>>

(* acquireStackLock; the lock of a dead process is reclaimed: one that has no *)
(* body only when it is 30 seconds old, which is longer than a process waits. *)
Free == \A q \in Procs : lock = q => q \in torn \/ ~LooksAlive(q)

Lock(p) ==
  /\ pc[p] = "lock" /\ Free
  /\ lock' = p
  /\ Goto(p, "read")
  /\ UNCHANGED <<roster, stale, torn, op, view, sole, kept>>

(* StackLockTimeoutError: `up` fails, the heartbeat waits for its next turn,  *)
(* a release is given up.                                                     *)
LockFails(p) ==
  /\ p \in FailingIO \/ lock \in torn
  /\ pc[p] = "lock"
  /\ Goto(p, Afterwards(op[p]))
  /\ kept' = IF op[p] \in {"release", "withdraw"} THEN kept \cup {p} ELSE kept
  /\ UNCHANGED <<roster, stale, lock, torn, op, view, sole>>

(* Mutant: a late heartbeat alone evicts.                                     *)
SweptByAge == roster \ stale

(* readRoster; a claim goes on to sweepStaleHolders: an entry goes only if    *)
(* its heartbeat is stale and its process does not look alive.  A file that   *)
(* does not decode would be read as empty: none of these steps leaves one, as *)
(* the document is renamed into place.                                        *)
Swept == {p \in roster : p \notin stale \/ LooksAlive(p)}

Read(p) ==
  /\ pc[p] = "read"
  /\ view' = [view EXCEPT ![p] = IF op[p] = "claim" THEN Swept ELSE roster]
  /\ Goto(p, "write")
  /\ UNCHANGED <<roster, stale, lock, torn, op, sole, kept>>

(* The entry is appended to the survivors.                                    *)
WriteClaim(p) ==
  /\ pc[p] = "write" /\ op[p] = "claim"
  /\ roster' = view[p] \cup {p}
  /\ stale' = stale \ {p}
  /\ sole' = IF view[p] = {} THEN sole \cup {p} ELSE sole \ {p}
  /\ Goto(p, "unlock")
  /\ UNCHANGED <<lock, torn, op, view, kept>>

(* Own entries get a new heartbeatAt; a document without one is not written.  *)
WriteBeat(p) ==
  /\ pc[p] = "write" /\ op[p] = "beat"
  /\ LET own == {q \in view[p] : OwnEntry(p, q)} IN
       /\ roster' = IF own = {} THEN roster ELSE view[p]
       /\ stale' = stale \ own
  /\ Goto(p, "unlock")
  /\ UNCHANGED <<lock, torn, op, view, sole, kept>>

(* Own entries are filtered out, by a shutdown or by a claim that lost.       *)
WriteRelease(p) ==
  /\ pc[p] = "write" /\ op[p] \in {"release", "withdraw"}
  /\ roster' = {q \in view[p] : ~OwnEntry(p, q)}
  /\ Goto(p, "unlock")
  /\ UNCHANGED <<stale, lock, torn, op, view, sole, kept>>

(* RosterIoError: the temporary file is not renamed, the roster is unchanged. *)
WriteFails(p) ==
  /\ p \in FailingIO
  /\ pc[p] = "write"
  /\ Goto(p, "unlock")
  /\ op' = [op EXCEPT ![p] = IF @ = "claim" THEN "failed" ELSE @]
  /\ kept' = IF op[p] \in {"release", "withdraw"} THEN kept \cup {p} ELSE kept
  /\ UNCHANGED <<roster, stale, lock, torn, view, sole>>

(* Mutant: soleHolder is not looked at.                                       *)
UnlockUnchecked(p) ==
  /\ pc[p] = "unlock"
  /\ lock' = IF lock = p THEN None ELSE lock
  /\ Goto(p, IF op[p] = "claim" THEN "up" ELSE Afterwards(op[p]))
  /\ UNCHANGED <<roster, stale, torn, op, view, sole, kept>>

(* The lock's finalizer, and what follows the mutation: the sole holder       *)
(* supervises, another claimer withdraws its entry and is refused.            *)
Unlock(p) ==
  /\ pc[p] = "unlock"
  /\ lock' = IF lock = p THEN None ELSE lock
  /\ \/ op[p] = "claim" /\ p \notin sole /\ Enter(p, "withdraw")
     \/ /\ op[p] # "claim" \/ p \in sole
        /\ Goto(p, IF op[p] = "claim" THEN "up" ELSE Afterwards(op[p]))
        /\ UNCHANGED op
  /\ UNCHANGED <<roster, stale, torn, view, sole, kept>>

(* heartbeatFiber wakes up.                                                   *)
Beat(p) ==
  /\ pc[p] = "up"
  /\ Enter(p, "beat")
  /\ UNCHANGED <<roster, stale, lock, torn, view, sole, kept>>

(* Mutant: no finalizer releases the entry.                                   *)
ShutDownOnly(p) ==
  /\ pc[p] = "up" \/ (op[p] = "beat" /\ pc[p] \in {"lock", "read", "write", "unlock"})
  /\ lock' = IF lock = p THEN None ELSE lock
  /\ Goto(p, "left")
  /\ op' = [op EXCEPT ![p] = "release"]
  /\ UNCHANGED <<roster, stale, torn, view, sole, kept>>

(* The scope of `up` closes: the heartbeat is interrupted, wherever it is,    *)
(* and lets go of the lock; then the entry is released.                       *)
ShutDown(p) ==
  /\ pc[p] = "up" \/ (op[p] = "beat" /\ pc[p] \in {"lock", "read", "write", "unlock"})
  /\ lock' = IF lock = p THEN None ELSE lock
  /\ Enter(p, "release")
  /\ UNCHANGED <<roster, stale, torn, view, sole, kept>>

(* SIGKILL, power loss: the lock file and the entry stay.                     *)
Crash(p) ==
  /\ p \in Crashable
  /\ Running(p)
  /\ Goto(p, "dead")
  /\ \/ UNCHANGED <<lock, torn>>
     \/ pc[p] = "lock" /\ Free /\ lock' = p /\ torn' = torn \cup {p}
  /\ UNCHANGED <<roster, stale, op, view, sole, kept>>

(* A heartbeat is late: the process is slow, stopped or dead.                 *)
GrowStale(p) ==
  /\ p \in roster \ stale
  /\ stale' = stale \cup {p}
  /\ UNCHANGED <<roster, lock, torn, pc, op, view, sole, kept>>

-----------------------------------------------------------------------------
Step(p) ==
  \/ Lock(p) \/ LockFails(p) \/ Read(p)
  \/ WriteClaim(p) \/ WriteBeat(p) \/ WriteRelease(p) \/ WriteFails(p) \/ Unlock(p)

Next == \E p \in Procs :
  Start(p) \/ Step(p) \/ Beat(p) \/ ShutDown(p) \/ Crash(p) \/ GrowStale(p)

Spec == Init /\ [][Next]_vars

(* The mutations of a running process end if it gets the lock; who cannot get *)
(* it gives up.                                                               *)
Fairness == \A p \in Procs :
  /\ WF_vars(Read(p)) /\ WF_vars(WriteClaim(p)) /\ WF_vars(WriteBeat(p))
  /\ WF_vars(WriteRelease(p)) /\ WF_vars(Unlock(p))
  /\ SF_vars(Lock(p)) /\ WF_vars(LockFails(p))

FairSpec == Spec /\ Fairness

-----------------------------------------------------------------------------
(* From the moment `up` goes on after its claim to the removal of its entry.  *)
Supervises(p) ==
  \/ pc[p] = "up"
  \/ op[p] = "beat" /\ pc[p] \in {"lock", "read", "write", "unlock"}
  \/ op[p] = "release" /\ pc[p] \in {"lock", "read", "write"}

(* Two supervisors never run the same stack (installLiveSupervisorRoster).    *)
AtMostOneSupervisor ==
  \A p, q \in Procs : Supervises(p) /\ Supervises(q) => p = q

(* The supervisor is in the file, and looks alive to whoever reads it without *)
(* the lock (probeSupervisorPresence), however late its heartbeats are.       *)
SupervisorIsListed == \A p \in Procs : Supervises(p) => p \in roster /\ LooksAlive(p)

(* A process that ended orderly has no entry left, and none comes back with   *)
(* another process's write, unless its release failed.                        *)
NoResurrection ==
  \A p \in Procs : pc[p] \in {"left", "refused"} /\ p \notin kept => p \notin roster

(* The entry of a live process goes only by its own hand: "a live holder with *)
(* a stale heartbeat is NOT evicted" (roster.ts:86).                          *)
OnlyTheDeadAreEvicted ==
  [][\A p \in Procs : p \in roster \ roster' => ~Running(p) \/ op[p] \in {"release", "withdraw"}]_vars

(* Each process in turn supervises alone.                                     *)
Abstract == INSTANCE SingleSupervisor WITH supervisors <- {p \in Procs : Supervises(p)}
ImplementsSingleSupervisor == Abstract!Spec

(* A shutdown, or a refused claim, takes its entry away: neither a peer's     *)
(* write nor the lock of a dead process keeps it there, unless that lock has  *)
(* no body, or the process's own I/O fails.                                   *)
Leaves(p) == op[p] \in {"release", "withdraw"} /\ ~Dead(p)
EntryIsRemoved == \A p \in Procs : Leaves(p) ~> p \notin roster \/ p \in kept \/ Dead(p)
-----------------------------------------------------------------------------
(* The inductive invariant: who holds the lock, what a writer knows, and      *)
(* which entries the file may hold.                                           *)
LockInv ==
  /\ \A p \in Procs : pc[p] \in {"read", "write", "unlock"} => lock = p
  /\ \A p \in torn : Dead(p)

(* What is about to be written is the file, less entries of processes that    *)
(* are not running.                                                           *)
ViewInv == \A p \in Procs :
  pc[p] = "write" => view[p] \subseteq roster /\ \A q \in roster : Running(q) => q \in view[p]

TwinInv == \A p, q \in Procs : <<p, q>> \in Twins /\ pc[q] # "idle" => Dead(p)

KeptInv == \A p \in kept :
  op[p] \in {"release", "withdraw"} /\ pc[p] \in {"unlock", "left", "refused", "dead"}

Claimed(p) == pc[p] = "unlock" /\ op[p] = "claim"

ListedInv == \A p \in Procs : Supervises(p) \/ Claimed(p) => p \in roster

UnlistedInv == \A p \in roster :
  \/ Dead(p) \/ p \in kept \/ Supervises(p) \/ Claimed(p)
  \/ op[p] = "withdraw" /\ pc[p] \in {"lock", "read", "write"}

(* The sole holder counts as a supervisor from its write on.                  *)
Holds(p) == Supervises(p) \/ (Claimed(p) /\ p \in sole)
SoleInv == \A p, q \in Procs : Holds(p) /\ Holds(q) => p = q

RosterInv ==
  /\ TypeOK
  /\ LockInv /\ ViewInv /\ TwinInv /\ KeptInv
  /\ ListedInv /\ UnlistedInv /\ SoleInv
=============================================================================
