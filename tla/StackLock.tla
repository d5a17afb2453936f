------------------------------ MODULE StackLock ------------------------------
(* The cross-process file lock of devstack (stack.lock, and the router,       *)
(* codegen, publish and Move-build locks that reuse it).                      *)
(*   cross-process/stack-lock.ts          acquireStackLock, tryAcquireSync    *)
(*   cross-process/reclaim-stale-file.ts  reclaimUnparseableStaleFile         *)
(*   cross-process/liveness.ts            checkHolderLiveness                 *)
(* Every file-system call is one step: another process may run between any    *)
(* two of them.  A process that restarts has a new pid: it is another member  *)
(* of Procs.                                                                  *)
EXTENDS FiniteSets

CONSTANTS
  Procs,        \* process lives that contend for the lock
  Crashable,    \* the ones that may be killed at any step
  Recycled,     \* the ones whose pid is recycled while no start-time stamp tells
  FailingWrites,\* the ones whose body write may fail after the O_EXCL create
  Ids,          \* file identities (ino, dev, mtime)
  None          \* no file, no holder, no identity

(* What can be at `path`: `parses` tells whether the body has been flushed,   *)
(* `old` whether the mtime is outside the staleness window.                   *)
File == [id : Ids, owner : Procs, parses : BOOLEAN, old : BOOLEAN]

ASSUME ConstantsAssumption ==
  /\ Crashable \subseteq Procs
  /\ Recycled \subseteq Procs
  /\ FailingWrites \subseteq Procs
  /\ None \notin Procs
  /\ None \notin Ids
  /\ None \notin File

VARIABLES
  file,     \* what is at `path`: None or a File
  pc,       \* where each process is in acquireStackLock
  holder,   \* lastHolder: whose body the last probe read
  ident,    \* identity of the file a reclaim decision is about
  stale,    \* `before.mtimeMs` was outside the staleness window
  mine,     \* identity of the file this process created with O_EXCL
  clobbered \* history: an unlink removed a file other than the one it was decided on

vars == <<file, pc, holder, ident, stale, mine, clobbered>>

PCs == {"idle", "attempt", "top", "writing", "held", "read", "probe", "unlinkDead",
        "stat", "parse", "restat", "reread", "unlinkStale", "dead"}

TypeOK ==
  /\ file \in File \cup {None}
  /\ pc \in [Procs -> PCs]
  /\ holder \in [Procs -> Procs \cup {None}]
  /\ ident \in [Procs -> Ids \cup {None}]
  /\ stale \in [Procs -> BOOLEAN]
  /\ mine \in [Procs -> Ids \cup {None}]
  /\ clobbered \in BOOLEAN

Init ==
  /\ file = None
  /\ pc = [p \in Procs |-> "idle"]
  /\ holder = [p \in Procs |-> None]
  /\ ident = [p \in Procs |-> None]
  /\ stale = [p \in Procs |-> FALSE]
  /\ mine = [p \in Procs |-> None]
  /\ clobbered = FALSE

Crashed(p) == pc[p] = "dead"

(* parseLockBody accepts what is at `path`: the body has been flushed.        *)
BodyParses == file # None /\ file.parses

Goto(p, l) == pc' = [pc EXCEPT ![p] = l]

(* What p learnt about the file does not survive its loop iteration.          *)
Forget(p) ==
  /\ holder' = [holder EXCEPT ![p] = None]
  /\ ident' = [ident EXCEPT ![p] = None]
  /\ stale' = [stale EXCEPT ![p] = FALSE]

(* A file created now differs from every file somebody still remembers.       *)
FreshIds ==
  {i \in Ids : /\ file = None \/ file.id # i
               /\ \A q \in Procs : ident[q] # i /\ mine[q] # i}

(* The identity of the file at `path` as identityOf reports it.               *)
Identity == IF file = None THEN None ELSE file.id

-----------------------------------------------------------------------------
(* A caller enters acquireStackLock; its first attempt is never out of time.  *)
Start(p) ==
  /\ pc[p] = "idle"
  /\ Goto(p, "attempt")
  /\ UNCHANGED <<file, holder, ident, stale, mine, clobbered>>

(* The head of every later iteration, after a backoff or a reclaim.           *)
Retry(p) ==
  /\ pc[p] = "top"
  /\ Goto(p, "attempt")
  /\ UNCHANGED <<file, holder, ident, stale, mine, clobbered>>

(* elapsed > timeoutMillis: StackLockTimeoutError.                            *)
TimeOut(p) ==
  /\ pc[p] = "top"
  /\ Goto(p, "idle")
  /\ UNCHANGED <<file, holder, ident, stale, mine, clobbered>>

(* Mutant: the open flag is w, not wx.                                        *)
CreateOver(p) ==
  /\ pc[p] = "attempt"
  /\ \E i \in FreshIds :
        /\ file' = [id |-> i, owner |-> p, parses |-> FALSE, old |-> FALSE]
        /\ mine' = [mine EXCEPT ![p] = i]
  /\ Goto(p, "writing")
  /\ UNCHANGED <<holder, ident, stale, clobbered>>

(* writeFileSync(path, body, {flag: 'wx'}): the exclusive create comes first, *)
(* the body is flushed by a later system call.                                *)
Create(p) ==
  /\ pc[p] = "attempt"
  /\ file = None
  /\ \E i \in FreshIds :
        /\ file' = [id |-> i, owner |-> p, parses |-> FALSE, old |-> FALSE]
        /\ mine' = [mine EXCEPT ![p] = i]
  /\ Goto(p, "writing")
  /\ UNCHANGED <<holder, ident, stale, clobbered>>

(* The body reaches the inode p created, which may no longer be at `path`.    *)
WriteBody(p) ==
  /\ pc[p] = "writing"
  /\ file' = IF file # None /\ file.id = mine[p]
               THEN [file EXCEPT !.parses = TRUE] ELSE file
  /\ Goto(p, "held")
  /\ UNCHANGED <<holder, ident, stale, mine, clobbered>>

(* The write fails (ENOSPC, EIO): StackLockIoError, and the empty file stays. *)
WriteFails(p) ==
  /\ p \in FailingWrites
  /\ pc[p] = "writing"
  /\ Goto(p, "idle")
  /\ mine' = [mine EXCEPT ![p] = None]
  /\ UNCHANGED <<file, holder, ident, stale, clobbered>>

(* EEXIST.                                                                    *)
Miss(p) ==
  /\ pc[p] = "attempt"
  /\ file # None
  /\ Goto(p, "read")
  /\ UNCHANGED <<file, holder, ident, stale, mine, clobbered>>

(* Mutant: a body that does not parse is waited for, never reclaimed.         *)
ReadBodyOnly(p) ==
  /\ pc[p] = "read"
  /\ \/ /\ BodyParses
        /\ holder' = [holder EXCEPT ![p] = file.owner]
        /\ ident' = [ident EXCEPT ![p] = file.id]
        /\ Goto(p, "probe")
     \/ /\ ~BodyParses
        /\ Goto(p, "top")
        /\ UNCHANGED <<holder, ident>>
  /\ UNCHANGED <<file, stale, mine, clobbered>>

(* existsSync, readFileSync and parseLockBody of the existing body: a parsed  *)
(* holder is probed, a null one goes through the re-stat guard.               *)
ReadBody(p) ==
  /\ pc[p] = "read"
  /\ \/ /\ BodyParses
        /\ holder' = [holder EXCEPT ![p] = file.owner]
        /\ ident' = [ident EXCEPT ![p] = file.id]
        /\ Goto(p, "probe")
     \/ /\ ~BodyParses
        /\ Goto(p, "stat")
        /\ UNCHANGED <<holder, ident>>
  /\ UNCHANGED <<file, stale, mine, clobbered>>

(* Mutant: the probe takes every holder for dead.                             *)
AnyHolderIsDead(h) == h \in Procs

(* checkHolderLiveness: a recycled pid that no stamp disputes counts as alive.*)
HolderIsDead(h) == Crashed(h) /\ h \notin Recycled

Probe(p) ==
  /\ pc[p] = "probe"
  /\ \/ /\ HolderIsDead(holder[p])
        /\ Goto(p, "unlinkDead")
        /\ UNCHANGED <<holder, ident, stale>>
     \/ /\ ~HolderIsDead(holder[p])
        /\ Goto(p, "top")
        /\ Forget(p)
  /\ UNCHANGED <<file, mine, clobbered>>

(* unlinkSync(path) is path-based: it removes whatever is there by now.       *)
UnlinkPath(p) ==
  /\ file' = None
  /\ clobbered' = (clobbered \/ (file # None /\ file.id # ident[p]))

UnlinkDead(p) ==
  /\ pc[p] = "unlinkDead"
  /\ UnlinkPath(p)
  /\ Goto(p, "top")
  /\ Forget(p)
  /\ UNCHANGED mine

-----------------------------------------------------------------------------
(* reclaimUnparseableStaleFile: stat, read, stat again, read again, unlink.   *)
(* It ends with `top` whatever the outcome: reclaimed loops at once, absent,  *)
(* parseable, fresh and changed back off first.                               *)
LeaveAlone(p) == Goto(p, "top") /\ Forget(p)

Stat(p) ==
  /\ pc[p] = "stat"
  /\ \/ file = None /\ LeaveAlone(p)
     \/ /\ file # None
        /\ ident' = [ident EXCEPT ![p] = file.id]
        /\ stale' = [stale EXCEPT ![p] = file.old]
        /\ Goto(p, "parse")
        /\ UNCHANGED holder
  /\ UNCHANGED <<file, mine, clobbered>>

Parse(p) ==
  LET orphan == file # None /\ ~BodyParses /\ stale[p] IN
  /\ pc[p] = "parse"
  /\ \/ orphan /\ Goto(p, "restat") /\ UNCHANGED <<holder, ident, stale>>
     \/ ~orphan /\ LeaveAlone(p)
  /\ UNCHANGED <<file, mine, clobbered>>

Restat(p) ==
  LET same == file # None /\ file.id = ident[p] IN
  /\ pc[p] = "restat"
  /\ \/ same /\ Goto(p, "reread") /\ UNCHANGED <<holder, ident, stale>>
     \/ ~same /\ LeaveAlone(p)
  /\ UNCHANGED <<file, mine, clobbered>>

Reread(p) ==
  LET orphan == file # None /\ ~BodyParses IN
  /\ pc[p] = "reread"
  /\ \/ orphan /\ Goto(p, "unlinkStale") /\ UNCHANGED <<holder, ident, stale>>
     \/ ~orphan /\ LeaveAlone(p)
  /\ UNCHANGED <<file, mine, clobbered>>

UnlinkStale(p) ==
  /\ pc[p] = "unlinkStale"
  /\ UnlinkPath(p)
  /\ Goto(p, "top")
  /\ Forget(p)
  /\ UNCHANGED mine

-----------------------------------------------------------------------------
(* The finalizer of the caller's scope: an unconditional unlink of `path`.    *)
Release(p) ==
  /\ pc[p] = "held"
  /\ file' = None
  /\ Goto(p, "idle")
  /\ mine' = [mine EXCEPT ![p] = None]
  /\ UNCHANGED <<holder, ident, stale, clobbered>>

(* The process is killed: finalizers do not run, its file stays.              *)
Crash(p) ==
  /\ p \in Crashable
  /\ ~Crashed(p)
  /\ Goto(p, "dead")
  /\ Forget(p)
  /\ mine' = [mine EXCEPT ![p] = None]
  /\ UNCHANGED <<file, clobbered>>

(* staleAfterMillis pass since the file's mtime.  A writer that lives needs   *)
(* microseconds from its create to its flush, never the 30 seconds.           *)
Age ==
  /\ file # None
  /\ ~file.old
  /\ ~(pc[file.owner] = "writing" /\ mine[file.owner] = file.id)
  /\ file' = [file EXCEPT !.old = TRUE]
  /\ UNCHANGED <<pc, holder, ident, stale, mine, clobbered>>

Attempt(p) ==
  \/ Create(p) \/ WriteBody(p) \/ Miss(p) \/ ReadBody(p) \/ Probe(p)
  \/ UnlinkDead(p) \/ Stat(p) \/ Parse(p) \/ Restat(p) \/ Reread(p)
  \/ UnlinkStale(p)

Next ==
  \/ \E p \in Procs :
        \/ Start(p) \/ Attempt(p) \/ WriteFails(p) \/ Retry(p) \/ TimeOut(p)
        \/ Release(p) \/ Crash(p)
  \/ Age

Spec == Init /\ [][Next]_vars

(* A live process runs on (Attempt), callers keep their scopes short          *)
(* (Release), the heartbeat fiber comes back every ten seconds (Start), time  *)
(* passes (Age).  Nothing favours Retry over TimeOut, but one of them is taken.*)
LockFairness ==
  /\ WF_vars(Age)
  /\ \A p \in Procs : WF_vars(Start(p) \/ Attempt(p) \/ Retry(p) \/ TimeOut(p) \/ Release(p))
FairSpec == Spec /\ LockFairness

-----------------------------------------------------------------------------
InCriticalSection == {p \in Procs : pc[p] = "held"}

(* At most one live process holds the lock.                                   *)
MutualExclusion == \A p, q \in InCriticalSection : p = q

(* Short of an unlink that hit another file than the one it was decided on,   *)
(* the lock excludes, whatever crashes and failed writes did before: O_EXCL,  *)
(* the liveness probe and the re-stat guard leave no other hole.              *)
ExclusionUnlessClobbered == ~clobbered => MutualExclusion

(* Why ExclusionUnlessClobbered is inductive.                                 *)
(* Who is writing or holding created a file (mine); if that file is still at  *)
(* `path`, it is theirs, unflushed and young until flushed.                   *)
InLock(p) == pc[p] \in {"writing", "held"}
At(i) == file # None /\ file.id = i

CreatorsInv == \A p \in Procs :
  /\ InLock(p) <=> mine[p] # None
  /\ InLock(p) /\ At(mine[p]) =>
        /\ file.owner = p
        /\ pc[p] = "writing" => ~file.parses /\ ~file.old
        /\ pc[p] = "held" => file.parses

(* A dead-holder decision is about a file of a process that is dead.          *)
DeadDecisionInv == \A p \in Procs :
  pc[p] \in {"probe", "unlinkDead"} =>
    /\ holder[p] # None
    /\ ident[p] # None
    /\ At(ident[p]) => file.owner = holder[p]
    /\ pc[p] = "unlinkDead" => Crashed(holder[p])

(* An orphan decision is about a file that was old and unflushed.             *)
StaleDecisionInv == \A p \in Procs :
  pc[p] \in {"parse", "restat", "reread", "unlinkStale"} =>
    /\ ident[p] # None
    /\ stale[p] /\ At(ident[p]) => file.old
    /\ pc[p] # "parse" => stale[p]
    /\ pc[p] = "unlinkStale" /\ At(ident[p]) => ~file.parses

(* Nobody's file is taken away while they write or hold.                      *)
OwnersInv == ~clobbered => \A p \in Procs : InLock(p) => At(mine[p])

LockInv ==
  TypeOK /\ CreatorsInv /\ DeadDecisionInv /\ StaleDecisionInv /\ OwnersInv

(* Where nobody is killed and every write succeeds, no reclaim comes to its   *)
(* unlink: the file at `path` is that of a process that writes or holds.      *)
CrashFree == Crashable = {} /\ FailingWrites = {}

CrashFreeInv ==
  /\ ~clobbered
  /\ file # None => InLock(file.owner) /\ mine[file.owner] = file.id
  /\ \A p \in Procs :
        /\ pc[p] \notin {"dead", "unlinkDead", "reread", "unlinkStale"}
        /\ pc[p] = "restat" => ~At(ident[p])

(* Reclaim takes the file only of a process that is neither writing nor       *)
(* holding: the live one's lock goes away by its own finalizer, or by a       *)
(* clobber.                                                                   *)
OnlyOrphansAreReclaimed ==
  [][\A p \in Procs :
       (/\ file # None /\ file' = None /\ ~clobbered'
        /\ file.id = mine[p] /\ pc[p] \in {"writing", "held"})
       => pc'[p] = "idle"]_vars

OwnedByDead == file # None /\ HolderIsDead(file.owner)

(* A process that died under the lock, body written or not, does not block    *)
(* its peers for ever (acquireStackLock's comment).                           *)
OrphanIsReclaimed == OwnedByDead ~> ~OwnedByDead
=============================================================================
