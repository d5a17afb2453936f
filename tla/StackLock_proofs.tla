--------------------------- MODULE StackLock_proofs ---------------------------
(* LockInv of StackLock is inductive, and the lock excludes unless an unlink  *)
(* hit another file than the one it was decided on.                           *)
EXTENDS StackLock, TLAPS

USE ConstantsAssumption

LEMMA InitEstablishesLockInv == Init => LockInv
  BY ZenonT(40) DEF Init, LockInv, TypeOK, CreatorsInv, DeadDecisionInv, StaleDecisionInv,
         OwnersInv, PCs, File, InLock, At

(* Every action keeps the types of the variables.                             *)
LEMMA TypeOKStep == TypeOK /\ [Next]_vars => TypeOK'
<1> SUFFICES ASSUME TypeOK, [Next]_vars PROVE TypeOK'
  OBVIOUS
<1> USE DEF TypeOK, PCs, File, Goto, Forget
<1>1. ASSUME NEW p \in Procs, Start(p) \/ Retry(p) \/ TimeOut(p) \/ Miss(p)
      PROVE  TypeOK'
  BY <1>1 DEF Start, Retry, TimeOut, Miss
<1>2. ASSUME NEW p \in Procs, Create(p) PROVE TypeOK'
  BY <1>2 DEF Create, FreshIds
<1>3. ASSUME NEW p \in Procs, WriteBody(p) \/ WriteFails(p) PROVE TypeOK'
  <2>1. CASE WriteBody(p)
    <3>1. file' \in File \cup {None}
      <4>1. CASE file # None /\ file.id = mine[p]
        <5>1. file' = [file EXCEPT !.parses = TRUE] /\ file \in File
          BY <2>1, <4>1 DEF WriteBody
        <5> QED BY <5>1
      <4>2. CASE ~(file # None /\ file.id = mine[p])
        BY <2>1, <4>2 DEF WriteBody
      <4> QED BY <4>1, <4>2
    <3> QED BY <2>1, <3>1 DEF WriteBody
  <2>2. CASE WriteFails(p)
    BY <2>2 DEF WriteFails
  <2> QED BY <1>3, <2>1, <2>2
<1>4. ASSUME NEW p \in Procs, ReadBody(p) PROVE TypeOK'
  BY <1>4 DEF ReadBody, BodyParses
<1>5. ASSUME NEW p \in Procs, Probe(p) PROVE TypeOK'
  BY <1>5 DEF Probe, HolderIsDead
<1>6. ASSUME NEW p \in Procs, UnlinkDead(p) \/ UnlinkStale(p) PROVE TypeOK'
  BY <1>6 DEF UnlinkDead, UnlinkStale, UnlinkPath
<1>7. ASSUME NEW p \in Procs, Stat(p) PROVE TypeOK'
  BY <1>7, ZenonT(40) DEF Stat, LeaveAlone
<1>8. ASSUME NEW p \in Procs, Parse(p) \/ Restat(p) \/ Reread(p) PROVE TypeOK'
  BY <1>8, ZenonT(40) DEF Parse, Restat, Reread, LeaveAlone, BodyParses
<1>9. ASSUME NEW p \in Procs, Release(p) \/ Crash(p) PROVE TypeOK'
  BY <1>9, ZenonT(40) DEF Release, Crash
<1>10. CASE Age
  <2>1. file' = [file EXCEPT !.old = TRUE] /\ file \in File
    BY <1>10 DEF Age
  <2> QED BY <1>10, <2>1 DEF Age
<1>11. CASE UNCHANGED vars
  BY <1>11 DEF vars
<1> QED
  BY <1>1, <1>2, <1>3, <1>4, <1>5, <1>6, <1>7, <1>8, <1>9, <1>10, <1>11
  DEF Next, Attempt

(* Every action keeps what is known of the files processes created.           *)
LEMMA CreatorsInvStep == LockInv /\ TypeOK' /\ [Next]_vars => CreatorsInv'
<1> SUFFICES ASSUME LockInv, TypeOK', [Next]_vars PROVE CreatorsInv'
  OBVIOUS
<1> USE DEF LockInv, TypeOK, PCs, File, Goto, Forget, CreatorsInv, InLock, At
<1>1. ASSUME NEW p \in Procs, Start(p) \/ Retry(p) \/ TimeOut(p) \/ Miss(p)
      PROVE  CreatorsInv'
  BY <1>1 DEF Start, Retry, TimeOut, Miss
<1>2. ASSUME NEW p \in Procs, Create(p) PROVE CreatorsInv'
  BY <1>2 DEF Create, FreshIds
<1>3. ASSUME NEW p \in Procs, WriteBody(p) PROVE CreatorsInv'
  BY <1>3 DEF WriteBody
<1>4. ASSUME NEW p \in Procs, WriteFails(p) PROVE CreatorsInv'
  BY <1>4 DEF WriteFails
<1>5. ASSUME NEW p \in Procs, ReadBody(p) PROVE CreatorsInv'
  BY <1>5 DEF ReadBody, BodyParses
<1>6. ASSUME NEW p \in Procs, Probe(p) PROVE CreatorsInv'
  BY <1>6 DEF Probe, HolderIsDead
<1>7. ASSUME NEW p \in Procs, UnlinkDead(p) \/ UnlinkStale(p) PROVE CreatorsInv'
  BY <1>7 DEF UnlinkDead, UnlinkStale, UnlinkPath
<1>8. ASSUME NEW p \in Procs, Stat(p) PROVE CreatorsInv'
  BY <1>8 DEF Stat, LeaveAlone
<1>9. ASSUME NEW p \in Procs, Parse(p) \/ Restat(p) \/ Reread(p) PROVE CreatorsInv'
  BY <1>9 DEF Parse, Restat, Reread, LeaveAlone, BodyParses
<1>10. ASSUME NEW p \in Procs, Release(p) \/ Crash(p) PROVE CreatorsInv'
  BY <1>10 DEF Release, Crash
<1>11. CASE Age
  BY <1>11 DEF Age
<1>12. CASE UNCHANGED vars
  BY <1>12 DEF vars
<1> QED
  BY <1>1, <1>2, <1>3, <1>4, <1>5, <1>6, <1>7, <1>8, <1>9, <1>10, <1>11, <1>12
  DEF Next, Attempt

(* A decision to reclaim a dead holder stays about that holder's file.        *)
LEMMA DeadDecisionInvStep == LockInv /\ TypeOK' /\ [Next]_vars => DeadDecisionInv'
<1> SUFFICES ASSUME LockInv, TypeOK', [Next]_vars PROVE DeadDecisionInv'
  OBVIOUS
<1> USE DEF LockInv, TypeOK, PCs, File, Goto, Forget, CreatorsInv, DeadDecisionInv, Crashed, InLock, At
<1>1. ASSUME NEW p \in Procs, Start(p) \/ Retry(p) \/ TimeOut(p) \/ Miss(p)
      PROVE  DeadDecisionInv'
  BY <1>1 DEF Start, Retry, TimeOut, Miss
<1>2. ASSUME NEW p \in Procs, Create(p) PROVE DeadDecisionInv'
  BY <1>2 DEF Create, FreshIds
<1>3. ASSUME NEW p \in Procs, WriteBody(p) PROVE DeadDecisionInv'
  BY <1>3 DEF WriteBody
<1>4. ASSUME NEW p \in Procs, WriteFails(p) PROVE DeadDecisionInv'
  BY <1>4 DEF WriteFails
<1>5. ASSUME NEW p \in Procs, ReadBody(p) PROVE DeadDecisionInv'
  BY <1>5 DEF ReadBody, BodyParses
<1>6. ASSUME NEW p \in Procs, Probe(p) PROVE DeadDecisionInv'
  BY <1>6 DEF Probe, HolderIsDead
<1>7. ASSUME NEW p \in Procs, UnlinkDead(p) \/ UnlinkStale(p) PROVE DeadDecisionInv'
  BY <1>7 DEF UnlinkDead, UnlinkStale, UnlinkPath
<1>8. ASSUME NEW p \in Procs, Stat(p) PROVE DeadDecisionInv'
  BY <1>8 DEF Stat, LeaveAlone
<1>9. ASSUME NEW p \in Procs, Parse(p) \/ Restat(p) \/ Reread(p) PROVE DeadDecisionInv'
  BY <1>9 DEF Parse, Restat, Reread, LeaveAlone, BodyParses
<1>10. ASSUME NEW p \in Procs, Release(p) \/ Crash(p) PROVE DeadDecisionInv'
  BY <1>10 DEF Release, Crash
<1>11. CASE Age
  BY <1>11 DEF Age
<1>12. CASE UNCHANGED vars
  BY <1>12 DEF vars
<1> QED
  BY <1>1, <1>2, <1>3, <1>4, <1>5, <1>6, <1>7, <1>8, <1>9, <1>10, <1>11, <1>12
  DEF Next, Attempt

(* A decision to reclaim an orphan stays about an old, unflushed file.        *)
LEMMA StaleDecisionInvStep == LockInv /\ TypeOK' /\ [Next]_vars => StaleDecisionInv'
<1> SUFFICES ASSUME LockInv, TypeOK', [Next]_vars PROVE StaleDecisionInv'
  OBVIOUS
<1> USE DEF LockInv, TypeOK, PCs, File, Goto, Forget, CreatorsInv, StaleDecisionInv, InLock, At
<1>1. ASSUME NEW p \in Procs, Start(p) \/ Retry(p) \/ TimeOut(p) \/ Miss(p)
      PROVE  StaleDecisionInv'
  BY <1>1 DEF Start, Retry, TimeOut, Miss
<1>2. ASSUME NEW p \in Procs, Create(p) PROVE StaleDecisionInv'
  BY <1>2 DEF Create, FreshIds
<1>3. ASSUME NEW p \in Procs, WriteBody(p) PROVE StaleDecisionInv'
  BY <1>3 DEF WriteBody
<1>4. ASSUME NEW p \in Procs, WriteFails(p) PROVE StaleDecisionInv'
  BY <1>4 DEF WriteFails
<1>5. ASSUME NEW p \in Procs, ReadBody(p) PROVE StaleDecisionInv'
  BY <1>5 DEF ReadBody, BodyParses
<1>6. ASSUME NEW p \in Procs, Probe(p) PROVE StaleDecisionInv'
  BY <1>6 DEF Probe, HolderIsDead
<1>7. ASSUME NEW p \in Procs, UnlinkDead(p) \/ UnlinkStale(p) PROVE StaleDecisionInv'
  BY <1>7 DEF UnlinkDead, UnlinkStale, UnlinkPath
<1>8. ASSUME NEW p \in Procs, Stat(p) PROVE StaleDecisionInv'
  BY <1>8 DEF Stat, LeaveAlone
<1>9. ASSUME NEW p \in Procs, Parse(p) \/ Restat(p) \/ Reread(p) PROVE StaleDecisionInv'
  BY <1>9 DEF Parse, Restat, Reread, LeaveAlone, BodyParses
<1>10. ASSUME NEW p \in Procs, Release(p) \/ Crash(p) PROVE StaleDecisionInv'
  BY <1>10 DEF Release, Crash
<1>11. CASE Age
  BY <1>11 DEF Age
<1>12. CASE UNCHANGED vars
  BY <1>12 DEF vars
<1> QED
  BY <1>1, <1>2, <1>3, <1>4, <1>5, <1>6, <1>7, <1>8, <1>9, <1>10, <1>11, <1>12
  DEF Next, Attempt

(* Only a clobber takes a file from a process that writes or holds.           *)
LEMMA OwnersInvStep == LockInv /\ TypeOK' /\ [Next]_vars => OwnersInv'
<1> SUFFICES ASSUME LockInv, TypeOK', [Next]_vars PROVE OwnersInv'
  OBVIOUS
<1> USE DEF LockInv, TypeOK, PCs, File, Goto, Forget, CreatorsInv, DeadDecisionInv, StaleDecisionInv, OwnersInv, Crashed, InLock, At
<1>1. ASSUME NEW p \in Procs, Start(p) \/ Retry(p) \/ TimeOut(p) \/ Miss(p)
      PROVE  OwnersInv'
  BY <1>1 DEF Start, Retry, TimeOut, Miss
<1>2. ASSUME NEW p \in Procs, Create(p) PROVE OwnersInv'
  <2>1. PICK i \in FreshIds :
          /\ file' = [id |-> i, owner |-> p, parses |-> FALSE, old |-> FALSE]
          /\ mine' = [mine EXCEPT ![p] = i]
    BY <1>2 DEF Create
  <2>2. file' \in File
    BY <2>1 DEF FreshIds
  <2>3. file' # None /\ file'.id = i
    BY <2>1, <2>2
  <2>4. mine'[p] = i
    BY <2>1
  <2>5. \A q \in Procs : pc'[q] \in {"writing", "held"} /\ ~clobbered => q = p
    BY <1>2 DEF Create
  <2> QED BY <2>3, <2>4, <2>5, <1>2 DEF Create
<1>3. ASSUME NEW p \in Procs, WriteBody(p) PROVE OwnersInv'
  <2>1. file' = file \/ (file # None /\ file' = [file EXCEPT !.parses = TRUE])
    BY <1>3 DEF WriteBody
  <2>2. \A i \in Ids : At(i) => At(i)'
    <3>1. CASE file' = file
      BY <3>1
    <3>2. CASE file # None /\ file' = [file EXCEPT !.parses = TRUE]
      <4>1. file \in File
        BY <3>2
      <4>2. file' \in File /\ file'.id = file.id
        BY <3>2, <4>1
      <4> QED BY <4>2
    <3> QED BY <2>1, <3>1, <3>2
  <2>3. \A q \in Procs : InLock(q)' => InLock(q) /\ mine'[q] = mine[q]
    BY <1>3 DEF WriteBody
  <2>4. \A q \in Procs : InLock(q) => mine[q] \in Ids
    OBVIOUS
  <2> HIDE DEF At, InLock
  <2> QED BY <2>2, <2>3, <2>4, <1>3 DEF WriteBody
<1>4. ASSUME NEW p \in Procs, WriteFails(p) PROVE OwnersInv'
  BY <1>4 DEF WriteFails
<1>5. ASSUME NEW p \in Procs, ReadBody(p) PROVE OwnersInv'
  BY <1>5 DEF ReadBody, BodyParses
<1>6. ASSUME NEW p \in Procs, Probe(p) PROVE OwnersInv'
  BY <1>6 DEF Probe, HolderIsDead
<1>7. ASSUME NEW p \in Procs, UnlinkDead(p) \/ UnlinkStale(p) PROVE OwnersInv'
  BY <1>7 DEF UnlinkDead, UnlinkStale, UnlinkPath
<1>8. ASSUME NEW p \in Procs, Stat(p) PROVE OwnersInv'
  BY <1>8 DEF Stat, LeaveAlone
<1>9. ASSUME NEW p \in Procs, Parse(p) \/ Restat(p) \/ Reread(p) PROVE OwnersInv'
  BY <1>9 DEF Parse, Restat, Reread, LeaveAlone, BodyParses
<1>10. ASSUME NEW p \in Procs, Release(p) \/ Crash(p) PROVE OwnersInv'
  BY <1>10 DEF Release, Crash
<1>11. CASE Age
  <2>1. file \in File /\ file' = [file EXCEPT !.old = TRUE]
    BY <1>11 DEF Age
  <2>2. file' \in File /\ file'.id = file.id
    BY <2>1
  <2>3. file' # None
    BY <2>2
  <2> QED BY <2>2, <2>3, <1>11 DEF Age
<1>12. CASE UNCHANGED vars
  BY <1>12 DEF vars
<1> QED
  BY <1>1, <1>2, <1>3, <1>4, <1>5, <1>6, <1>7, <1>8, <1>9, <1>10, <1>11, <1>12
  DEF Next, Attempt

(* The inductive invariant holds of every reachable state.                    *)
THEOREM LockInvHolds == Spec => []LockInv
<1>1. LockInv /\ [Next]_vars => LockInv'
  BY TypeOKStep, CreatorsInvStep, DeadDecisionInvStep, StaleDecisionInvStep,
     OwnersInvStep DEF LockInv
<1> QED BY InitEstablishesLockInv, <1>1, PTL DEF Spec

(* For any number of processes, whatever crashes and failed writes: without a *)
(* clobber no two processes hold the lock.                                    *)
THEOREM ExclusionHolds == Spec => []ExclusionUnlessClobbered
<1>1. LockInv => ExclusionUnlessClobbered
  BY DEF LockInv, CreatorsInv, OwnersInv, ExclusionUnlessClobbered, MutualExclusion,
         InCriticalSection, InLock
<1> QED BY LockInvHolds, <1>1, PTL

(* A step that empties the path is a release, or an unlink that hit the file  *)
(* its decision was about.                                                    *)
LEMMA PathEmptied ==
  ASSUME TypeOK, [Next]_vars, file # None, file' = None, ~clobbered'
  PROVE  \E q \in Procs :
           \/ Release(q)
           \/ (UnlinkDead(q) \/ UnlinkStale(q)) /\ At(ident[q])
<1>1. ASSUME NEW q \in Procs, UnlinkPath(q)
      PROVE  At(ident[q])
  BY <1>1 DEF UnlinkPath, At
<1>2. ASSUME NEW q \in Procs, Create(q)
      PROVE  FALSE
  BY <1>2 DEF Create
<1>3. ASSUME NEW q \in Procs, WriteBody(q)
      PROVE  FALSE
  <2>1. file \in File /\ file' = [file EXCEPT !.parses = TRUE]
    BY <1>3 DEF WriteBody, TypeOK
  <2>2. file' \in File
    BY <2>1 DEF File
  <2> QED
    BY <2>2
<1>4. ASSUME Age
      PROVE  FALSE
  <2>1. file \in File /\ file' = [file EXCEPT !.old = TRUE]
    BY <1>4 DEF Age, TypeOK
  <2>2. file' \in File
    BY <2>1 DEF File
  <2> QED
    BY <2>2
<1>5. ASSUME NEW q \in Procs,
             \/ Start(q) \/ WriteFails(q) \/ Retry(q) \/ TimeOut(q) \/ Crash(q) \/ Miss(q)
             \/ ReadBody(q) \/ Probe(q) \/ Stat(q) \/ Parse(q) \/ Restat(q) \/ Reread(q)
      PROVE  FALSE
  BY <1>5 DEF Start, WriteFails, Retry, TimeOut, Crash, Miss, ReadBody, Probe, Stat, Parse,
     Restat, Reread
<1>6. ASSUME UNCHANGED vars
      PROVE  FALSE
  BY <1>6 DEF vars
<1> QED
  BY <1>1, <1>2, <1>3, <1>4, <1>5, <1>6 DEF Next, Attempt, UnlinkDead, UnlinkStale

(* For any number of processes: short of a clobber, the file of a process     *)
(* that writes or holds leaves the path by that process's own finalizer only. *)
THEOREM OnlyOrphansGo == Spec => OnlyOrphansAreReclaimed
<1>1. ASSUME LockInv, [Next]_vars
      PROVE  [\A p \in Procs :
                (/\ file # None /\ file' = None /\ ~clobbered'
                 /\ file.id = mine[p] /\ pc[p] \in {"writing", "held"})
                => pc'[p] = "idle"]_vars
  <2> SUFFICES ASSUME NEW p \in Procs, file # None, file' = None, ~clobbered',
                      At(mine[p]), InLock(p)
               PROVE  pc'[p] = "idle"
    BY DEF At, InLock
  <2>1. /\ file.owner = p /\ pc[p] # "dead"
        /\ pc[p] = "writing" => ~file.old
        /\ pc[p] = "held" => file.parses
    BY <1>1 DEF LockInv, CreatorsInv, InLock
  <2>2. PICK q \in Procs :
          \/ Release(q)
          \/ (UnlinkDead(q) \/ UnlinkStale(q)) /\ At(ident[q])
    <3>1. TypeOK
      BY <1>1 DEF LockInv
    <3> QED
      BY <1>1, <3>1, PathEmptied
  <2>3. CASE Release(q)
    <3>1. ~clobbered /\ pc[q] = "held" /\ pc' = [pc EXCEPT ![q] = "idle"]
      BY <2>3 DEF Release, Goto
    <3>2. InLock(q) /\ At(mine[q])
      BY <1>1, <3>1 DEF LockInv, OwnersInv, InLock
    <3>3. q = p
      BY <1>1, <2>1, <3>2 DEF LockInv, CreatorsInv
    <3> QED
      BY <1>1, <3>1, <3>3 DEF LockInv, TypeOK
  <2>4. CASE UnlinkDead(q) /\ At(ident[q])
    <3>1. file.owner = holder[q] /\ Crashed(holder[q])
      BY <1>1, <2>4 DEF LockInv, DeadDecisionInv, UnlinkDead
    <3> QED
      BY <2>1, <3>1 DEF Crashed
  <2>5. CASE UnlinkStale(q) /\ At(ident[q])
    <3>1. file.old /\ ~file.parses
      BY <1>1, <2>5 DEF LockInv, StaleDecisionInv, UnlinkStale
    <3> QED
      BY <2>1, <3>1 DEF InLock
  <2> QED
    BY <2>2, <2>3, <2>4, <2>5
<1> QED
  BY <1>1, LockInvHolds, PTL DEF Spec, OnlyOrphansAreReclaimed

(* Without crashes and failed writes, reclaim never reaches an unlink.        *)
LEMMA CrashFreeInvStep ==
  ASSUME CrashFree, LockInv, TypeOK', CrashFreeInv, [Next]_vars
  PROVE  CrashFreeInv'
<1> USE DEF LockInv, TypeOK, PCs, File, Goto, Forget, CreatorsInv, InLock, At,
            CrashFree, CrashFreeInv
<1>1. ASSUME NEW p \in Procs, Start(p) \/ Retry(p) \/ TimeOut(p) \/ Miss(p)
      PROVE  CrashFreeInv'
  BY <1>1 DEF Start, Retry, TimeOut, Miss
<1>2. ASSUME NEW p \in Procs, Create(p) PROVE CrashFreeInv'
  BY <1>2 DEF Create, FreshIds
<1>3. ASSUME NEW p \in Procs, WriteBody(p) PROVE CrashFreeInv'
  BY <1>3 DEF WriteBody
<1>4. ASSUME NEW p \in Procs, WriteFails(p) \/ Crash(p) PROVE CrashFreeInv'
  BY <1>4 DEF WriteFails, Crash
<1>5. ASSUME NEW p \in Procs, ReadBody(p) PROVE CrashFreeInv'
  BY <1>5 DEF ReadBody, BodyParses
<1>6. ASSUME NEW p \in Procs, Probe(p) PROVE CrashFreeInv'
  BY <1>6 DEF Probe, HolderIsDead, Crashed, DeadDecisionInv
<1>7. ASSUME NEW p \in Procs, UnlinkDead(p) \/ UnlinkStale(p) PROVE CrashFreeInv'
  BY <1>7 DEF UnlinkDead, UnlinkStale
<1>8. ASSUME NEW p \in Procs, Stat(p) PROVE CrashFreeInv'
  BY <1>8 DEF Stat, LeaveAlone
<1>9. ASSUME NEW p \in Procs, Parse(p) PROVE CrashFreeInv'
  BY <1>9 DEF Parse, LeaveAlone, BodyParses, StaleDecisionInv
<1>10. ASSUME NEW p \in Procs, Restat(p) \/ Reread(p) PROVE CrashFreeInv'
  BY <1>10 DEF Restat, Reread, LeaveAlone
<1>11. ASSUME NEW p \in Procs, Release(p) PROVE CrashFreeInv'
  BY <1>11 DEF Release
<1>12. CASE Age
  BY <1>12 DEF Age
<1>13. CASE UNCHANGED vars
  BY <1>13 DEF vars
<1> QED
  BY <1>1, <1>2, <1>3, <1>4, <1>5, <1>6, <1>7, <1>8, <1>9, <1>10, <1>11, <1>12, <1>13
  DEF Next, Attempt

(* For any number of processes that neither die nor fail to write, the lock   *)
(* is a mutual exclusion lock.                                                *)
THEOREM CrashFreeExclusion ==
  ASSUME CrashFree PROVE Spec => []MutualExclusion
<1>1. Init => CrashFreeInv
  BY DEF Init, CrashFreeInv, InLock, At
<1>2. LockInv /\ LockInv' /\ CrashFreeInv /\ [Next]_vars => CrashFreeInv'
  BY CrashFreeInvStep, CrashFree DEF LockInv
<1>3. LockInv /\ CrashFreeInv => MutualExclusion
  BY DEF CrashFreeInv, ExclusionUnlessClobbered, LockInv, CreatorsInv, OwnersInv,
         MutualExclusion, InCriticalSection, InLock
<1> QED BY LockInvHolds, <1>1, <1>2, <1>3, PTL DEF Spec

===============================================================================
