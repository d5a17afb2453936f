---------------------------- MODULE Roster_proofs ----------------------------
(* RosterInv of Roster is inductive: at most one process supervises a stack,  *)
(* no entry of a live process is evicted, none comes back, and the roster     *)
(* implements SingleSupervisor.                                               *)
EXTENDS Roster, TLAPS

USE RosterAssumption

LEMMA InitEstablishesRosterInv == Init => RosterInv
  BY DEF Init, RosterInv, TypeOK, LockInv, ViewInv, TwinInv, KeptInv, ListedInv,
         UnlistedInv, SoleInv, Holds, Claimed, Supervises, Running

(* Every action keeps the invariant.                                          *)
LEMMA RosterInvStep == RosterInv /\ [Next]_vars => RosterInv'
<1> SUFFICES ASSUME RosterInv, [Next]_vars PROVE RosterInv'
  OBVIOUS
<1> USE DEF RosterInv, TypeOK, LockInv, ViewInv, TwinInv, KeptInv, ListedInv,
        UnlistedInv, SoleInv, Holds, Claimed, Supervises, Running, Dead, Goto, Enter
<1>1. ASSUME NEW p \in Procs, Start(p) PROVE RosterInv'
  BY <1>1 DEF Start
<1>a. Free => \A q \in Procs : pc[q] \notin {"read", "write", "unlock"}
  <2> SUFFICES ASSUME Free, NEW q \in Procs, pc[q] \in {"read", "write", "unlock"} PROVE FALSE
    OBVIOUS
  <2>1. lock = q /\ Running(q) /\ ~Dead(q)
    OBVIOUS
  <2> QED BY <2>1 DEF Free, LooksAlive
<1>2. ASSUME NEW p \in Procs, Lock(p) PROVE RosterInv'
  BY <1>a, <1>2 DEF Lock
<1>3. ASSUME NEW p \in Procs, LockFails(p) PROVE RosterInv'
  BY <1>3 DEF LockFails, Afterwards
<1>4. ASSUME NEW p \in Procs, Read(p) PROVE RosterInv'
  <2>1. Swept \subseteq roster /\ \A q \in roster : Running(q) => q \in Swept
    BY DEF Swept, LooksAlive
  <2>2. PICK V \in SUBSET roster :
          view' = [view EXCEPT ![p] = V] /\ \A q \in roster : Running(q) => q \in V
    BY <1>4, <2>1 DEF Read
  <2>3. ViewInv'
    BY <1>4, <2>2 DEF Read
  <2> QED BY <1>4, <2>2, <2>3 DEF Read
<1>5. ASSUME NEW p \in Procs, WriteClaim(p) PROVE RosterInv'
  <2>1. lock = p /\ \A q \in Procs \ {p} : pc[q] \notin {"read", "write", "unlock"}
    BY <1>5 DEF WriteClaim
  <2>2. roster' \subseteq roster \cup {p} /\ p \in roster'
    BY <1>5 DEF WriteClaim
  <2>3. \A q \in roster \ {p} : Running(q) => q \in roster'
    BY <1>5 DEF WriteClaim
  <2>4. p \in sole' => \A q \in Procs \ {p} : ~Holds(q)
    <3>1. \A q \in Procs : Holds(q) => q \in view[p]
      BY <1>5 DEF WriteClaim
    <3>2. p \in sole' => view[p] = {}
      BY <1>5 DEF WriteClaim
    <3> QED BY <3>1, <3>2
  <2>5. TypeOK' /\ LockInv' /\ ViewInv' /\ TwinInv' /\ KeptInv'
    BY <1>5, <2>1 DEF WriteClaim
  <2>6. ListedInv'
    BY <1>5, <2>1, <2>2, <2>3 DEF WriteClaim
  <2>7. UnlistedInv'
    BY <1>5, <2>1, <2>2 DEF WriteClaim
  <2>8. SoleInv'
    BY <1>5, <2>1, <2>4 DEF WriteClaim
  <2> QED BY <2>5, <2>6, <2>7, <2>8
<1>6. ASSUME NEW p \in Procs, WriteBeat(p) PROVE RosterInv'
  BY <1>6 DEF WriteBeat, OwnEntry
<1>7. ASSUME NEW p \in Procs, WriteRelease(p) PROVE RosterInv'
  BY <1>7 DEF WriteRelease, OwnEntry
<1>8. ASSUME NEW p \in Procs, WriteFails(p) PROVE RosterInv'
  BY <1>8 DEF WriteFails
<1>9. ASSUME NEW p \in Procs, Unlock(p) PROVE RosterInv'
  BY <1>9 DEF Unlock, Afterwards
<1>10. ASSUME NEW p \in Procs, Beat(p) PROVE RosterInv'
  BY <1>10 DEF Beat
<1>11. ASSUME NEW p \in Procs, ShutDown(p) PROVE RosterInv'
  BY <1>11 DEF ShutDown
<1>12. ASSUME NEW p \in Procs, Crash(p) PROVE RosterInv'
  <2>1. LockInv' /\ TypeOK'
    BY <1>a, <1>12 DEF Crash
  <2>2. ViewInv' /\ TwinInv' /\ KeptInv' /\ ListedInv' /\ UnlistedInv' /\ SoleInv'
    BY <1>12 DEF Crash
  <2> QED BY <2>1, <2>2
<1>13. ASSUME NEW p \in Procs, GrowStale(p) PROVE RosterInv'
  BY <1>13 DEF GrowStale
<1>14. CASE UNCHANGED vars
  BY <1>14 DEF vars
<1> QED
  BY <1>1, <1>2, <1>3, <1>4, <1>5, <1>6, <1>7, <1>8, <1>9, <1>10, <1>11, <1>12, <1>13, <1>14
  DEF Next, Step

(* In every behaviour the roster's file, its lock and the processes agree.    *)
THEOREM RosterInvHolds == Spec => []RosterInv
  BY InitEstablishesRosterInv, RosterInvStep, PTL DEF Spec

(* Two processes never supervise the stack at once, however many of them      *)
(* start, crash or reuse a pid.                                               *)
THEOREM OneSupervisor == Spec => []AtMostOneSupervisor
<1>1. RosterInv => AtMostOneSupervisor
  BY DEF RosterInv, SoleInv, Holds, AtMostOneSupervisor
<1> QED BY <1>1, RosterInvHolds, PTL

(* A supervisor is listed and looks alive, however late its heartbeats are.   *)
THEOREM SupervisorListed == Spec => []SupervisorIsListed
<1>1. RosterInv => SupervisorIsListed
  BY DEF RosterInv, ListedInv, SupervisorIsListed, Supervises, LooksAlive, Running
<1> QED BY <1>1, RosterInvHolds, PTL

(* An entry that was removed does not come back with another process's write. *)
THEOREM NoEntryComesBack == Spec => []NoResurrection
<1>1. RosterInv => NoResurrection
  BY DEF RosterInv, UnlistedInv, NoResurrection, Supervises, Claimed, Dead
<1> QED BY <1>1, RosterInvHolds, PTL

(* A sweep removes no entry of a running process.                             *)
THEOREM OnlyTheDeadGo == Spec => OnlyTheDeadAreEvicted
<1>1. RosterInv /\ [Next]_vars =>
        [\A p \in Procs : p \in roster \ roster' =>
            ~Running(p) \/ op[p] \in {"release", "withdraw"}]_vars
  <2> SUFFICES ASSUME RosterInv, Next, NEW p \in Procs, p \in roster \ roster', Running(p)
               PROVE  op[p] \in {"release", "withdraw"}
    OBVIOUS
  <2>1. PICK w \in Procs : WriteClaim(w) \/ WriteBeat(w) \/ WriteRelease(w)
    BY DEF Next, Step, Start, Lock, LockFails, Read, WriteFails, Unlock, Beat,
           ShutDown, Crash, GrowStale
  <2>2. p \in view[w] /\ pc[w] = "write"
    BY <2>1 DEF RosterInv, ViewInv, WriteClaim, WriteBeat, WriteRelease
  <2>3. WriteRelease(w) /\ OwnEntry(w, p)
    BY <2>1, <2>2 DEF WriteClaim, WriteBeat, WriteRelease
  <2>4. p = w
    BY <2>2, <2>3 DEF OwnEntry, RosterInv, TwinInv, Running, Dead
  <2> QED BY <2>3, <2>4 DEF WriteRelease
<1> QED BY <1>1, RosterInvHolds, PTL DEF Spec, OnlyTheDeadAreEvicted

(* The supervisors of a stack follow SingleSupervisor: the steps of the       *)
(* roster's protocol make one the supervisor, end one, or change nothing.     *)
THEOREM RosterImplementsSingleSupervisor == Spec => ImplementsSingleSupervisor
<1> DEFINE S == {p \in Procs : Supervises(p)}
<1>1. Init => Abstract!Init
  BY DEF Init, Abstract!Init, Supervises
<1>2. RosterInv /\ [Next]_vars => [Abstract!Next]_S
  <2> SUFFICES ASSUME RosterInv, [Next]_vars, S' # S PROVE Abstract!Next
    OBVIOUS
  <2> USE DEF RosterInv, TypeOK, Supervises, Goto, Enter
  <2>1. ASSUME NEW p \in Procs, Unlock(p) PROVE Abstract!Next
    BY <2>1 DEF Unlock, Afterwards, SoleInv, Holds, Claimed,
                Abstract!Next, Abstract!Become, Abstract!Cease
  <2>2. ASSUME NEW p \in Procs, LockFails(p) \/ WriteRelease(p) \/ WriteFails(p) \/ Crash(p)
        PROVE  Abstract!Next
    BY <2>2 DEF LockFails, Afterwards, WriteRelease, WriteFails, Crash,
                Abstract!Next, Abstract!Cease
  <2>3. ASSUME NEW p \in Procs, Start(p) \/ Lock(p) \/ Read(p) \/ WriteClaim(p)
                 \/ WriteBeat(p) \/ Beat(p) \/ ShutDown(p) \/ GrowStale(p)
        PROVE  S' = S
    BY <2>3 DEF Start, Lock, Read, WriteClaim, WriteBeat, Beat, ShutDown, GrowStale
  <2>4. CASE UNCHANGED vars
    BY <2>4 DEF vars
  <2> QED BY <2>1, <2>2, <2>3, <2>4 DEF Next, Step
<1> QED
  BY <1>1, <1>2, RosterInvHolds, PTL DEF Spec, ImplementsSingleSupervisor, Abstract!Spec
=============================================================================
