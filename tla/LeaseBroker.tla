----------------------------- MODULE LeaseBroker -----------------------------
(* substrate/runtime/lease-broker/service.ts: leases with FIFO waiters, for   *)
(* one key (keys share nothing).  A release hands the lease to the first      *)
(* waiter and then resolves its signal; an interrupted waiter cleans up in    *)
(* two updates of the state, between which the scheduler may run others.      *)
EXTENDS Naturals, Sequences

CONSTANTS
  Calls,      \* calls of acquire or tryAcquire
  Owner,      \* Owner[c]: the owner a call names; calls may share one
  Preempted,  \* calls whose fiber yields between the two updates of its clean-up
  Nobody

ASSUME LeaseAssumption ==
  /\ Preempted \subseteq Calls
  /\ \A c \in Calls : Owner[c] # Nobody

VARIABLES
  holder,     \* KeyEntry.holder; Nobody when the key has no entry
  waiters,    \* KeyEntry.waiters
  at,         \* where each call is
  promoted,   \* the waiter a releasing call is about to signal
  signalled   \* calls whose deferred is resolved

leaseVars == <<holder, waiters, at, promoted, signalled>>

Points == {"new", "waiting", "held", "cancelled", "relinquish", "remove", "signal",
           "done", "leaked"}

LeaseTypeOK ==
  /\ holder \in {Owner[c] : c \in Calls} \cup {Nobody}
  /\ waiters \in Seq(Calls)
  /\ at \in [Calls -> Points]
  /\ promoted \in [Calls -> Calls \cup {Nobody}]
  /\ signalled \subseteq Calls

LeaseInit ==
  /\ holder = Nobody /\ waiters = <<>>
  /\ at = [c \in Calls |-> "new"]
  /\ promoted = [c \in Calls |-> Nobody]
  /\ signalled = {}

Queued(c) == \E i \in DOMAIN waiters : waiters[i] = c

(* The waiters without the one at i.                                          *)
Without(i) == [j \in 1 .. Len(waiters) - 1 |-> IF j < i THEN waiters[j] ELSE waiters[j + 1]]
Dequeue(c) ==
  \/ \E i \in DOMAIN waiters : waiters[i] = c /\ waiters' = Without(i)
  \/ ~Queued(c) /\ UNCHANGED waiters

GoTo(c, p) == at' = [at EXCEPT ![c] = p]

-----------------------------------------------------------------------------
Claim(c) ==
  /\ at[c] = "new" /\ holder = Nobody
  /\ holder' = Owner[c] /\ waiters' = <<>>
  /\ GoTo(c, "held")
  /\ UNCHANGED <<promoted, signalled>>

Enqueue(c) ==
  /\ at[c] = "new" /\ holder # Nobody
  /\ waiters' = Append(waiters, c)
  /\ GoTo(c, "waiting")
  /\ UNCHANGED <<holder, promoted, signalled>>

(* tryAcquire returns null.                                                   *)
TurnAway(c) ==
  /\ at[c] = "new" /\ holder # Nobody
  /\ GoTo(c, "done")
  /\ UNCHANGED <<holder, waiters, promoted, signalled>>

Wake(c) ==
  /\ at[c] = "waiting" /\ c \in signalled
  /\ GoTo(c, "held")
  /\ UNCHANGED <<holder, waiters, promoted, signalled>>

(* An interrupt may come before the signal, or after it and before the        *)
(* waiter has run.                                                            *)
Interrupt(c) ==
  /\ at[c] = "waiting"
  /\ GoTo(c, "cancelled")
  /\ UNCHANGED <<holder, waiters, promoted, signalled>>

(* Mutant: whoever is cancelled while waiting is taken off the queue only.    *)
CheckNever(c) ==
  /\ at[c] = "cancelled"
  /\ Dequeue(c) /\ GoTo(c, "done")
  /\ UNCHANGED <<holder, promoted, signalled>>

(* cleanupCancelledWait.                                                      *)
Check(c) ==
  /\ at[c] = "cancelled"
  /\ \/ /\ holder = Owner[c] /\ ~Queued(c)
        /\ GoTo(c, "relinquish") /\ UNCHANGED waiters
     \/ /\ ~(holder = Owner[c] /\ ~Queued(c))
        /\ IF c \in Preempted THEN GoTo(c, "remove") /\ UNCHANGED waiters
                              ELSE GoTo(c, "done") /\ Dequeue(c)
  /\ UNCHANGED <<holder, promoted, signalled>>

(* removeWaiterIfQueued: a release may have promoted the waiter meanwhile.    *)
Remove(c) ==
  /\ at[c] = "remove"
  /\ GoTo(c, IF Queued(c) THEN "done" ELSE "leaked")
  /\ Dequeue(c)
  /\ UNCHANGED <<holder, promoted, signalled>>

(* Mutant: the last waiter is served first.                                   *)
ReleaseToLast(c) ==
  /\ at[c] \in {"held", "relinquish"} /\ waiters # <<>>
  /\ holder' = Owner[waiters[Len(waiters)]] /\ waiters' = Without(Len(waiters))
  /\ promoted' = [promoted EXCEPT ![c] = waiters[Len(waiters)]]
  /\ GoTo(c, "signal")
  /\ UNCHANGED signalled

(* releaseAndPromote, from the finalizer or the clean-up.                     *)
Release(c) ==
  /\ at[c] \in {"held", "relinquish"} /\ waiters # <<>>
  /\ holder' = Owner[Head(waiters)] /\ waiters' = Tail(waiters)
  /\ promoted' = [promoted EXCEPT ![c] = Head(waiters)]
  /\ GoTo(c, "signal")
  /\ UNCHANGED signalled

ReleaseLast(c) ==
  /\ at[c] \in {"held", "relinquish"} /\ waiters = <<>>
  /\ holder' = Nobody
  /\ GoTo(c, "done")
  /\ UNCHANGED <<waiters, promoted, signalled>>

Signal(c) ==
  /\ at[c] = "signal"
  /\ signalled' = signalled \cup {promoted[c]}
  /\ GoTo(c, "done")
  /\ UNCHANGED <<holder, waiters, promoted>>

LeaseStep(c) == Wake(c) \/ Check(c) \/ Remove(c) \/ Release(c) \/ ReleaseLast(c) \/ Signal(c)
LeaseNext == \E c \in Calls : Claim(c) \/ Enqueue(c) \/ TurnAway(c) \/ Interrupt(c) \/ LeaseStep(c)

LeaseSpec == LeaseInit /\ [][LeaseNext]_leaseVars

(* Fibers that can run do, and whoever holds the lease closes its scope.      *)
LeaseFairness == \A c \in Calls : WF_leaseVars(LeaseStep(c))

-----------------------------------------------------------------------------
(* A call has the lease from its claim or its promotion on, awake or not; a   *)
(* leaked lease stays with a call that is gone.                               *)
Has(c) == \/ at[c] \in {"held", "relinquish", "leaked"}
          \/ at[c] \in {"waiting", "cancelled", "remove"} /\ ~Queued(c)

Exclusive ==
  /\ \A c, d \in Calls : Has(c) /\ Has(d) => c = d
  /\ \A c \in Calls : Has(c) => holder = Owner[c]
  /\ holder # Nobody => \E c \in Calls : Has(c)

NoDuplicates == \A i, j \in DOMAIN waiters : waiters[i] = waiters[j] => i = j

QueueInv ==
  /\ NoDuplicates
  /\ \A c \in Calls : Queued(c) => at[c] \in {"waiting", "cancelled", "remove"}
  /\ holder = Nobody => waiters = <<>>

(* Who is signalled, or about to be, has left the queue.                      *)
SignalInv ==
  /\ \A c \in signalled : ~Queued(c) /\ at[c] # "new"
  /\ \A c \in Calls : at[c] = "signal" =>
       /\ promoted[c] \in Calls
       /\ ~Queued(promoted[c]) /\ at[promoted[c]] # "new"

LeakInv == \A c \in Calls : at[c] \in {"remove", "leaked"} => c \in Preempted

(* The inductive invariant: at most one call has the lease, the entry names   *)
(* its owner, and an entry without a call that has it can only come from a    *)
(* preempted clean-up (at "leaked").                                          *)
LeaseInv == LeaseTypeOK /\ Exclusive /\ QueueInv /\ SignalInv /\ LeakInv

(* The broker serves in the order of arrival: refinement to FifoQueue, the    *)
(* call that has the lease first and the waiters behind it.                   *)
Front == IF holder = Nobody THEN <<>> ELSE <<CHOOSE c \in Calls : Has(c)>>
Line == INSTANCE FifoQueue WITH line <- Front \o waiters
ImplementsFifoQueue == Line!Spec

(* Every waiter gets the lease or is cancelled, unless a lease has leaked     *)
(* (service.ts:187 "so the lease doesn't leak").                              *)
EveryWaiterIsServed ==
  \A c \in Calls : at[c] = "waiting" ~>
    (at[c] # "waiting" \/ \E d \in Calls : at[d] = "leaked")
=============================================================================
