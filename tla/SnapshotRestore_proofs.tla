----------------------- MODULE SnapshotRestore_proofs -----------------------
(* Proofs about StageAndSwap, for any suffixes, bodies and bound on faults,   *)
(* and about SnapshotRestore, which implements it.                            *)
EXTENDS SnapshotRestore, TLAPS

(* What a tree is made of, and what it is not.                                *)
LEMMA TreeFacts ==
  /\ \A b \in Bodies, k \in BOOLEAN, w \in BOOLEAN : Tree(b, k, w) \in Trees
  /\ \A t \in Trees : t.body \in Bodies /\ t.kept \in BOOLEAN /\ t.whole \in BOOLEAN
  /\ None \notin Trees /\ Empty \notin Trees /\ Litter \notin Trees
  /\ None # Empty /\ None # Litter /\ Empty # Litter
  /\ None \in Places /\ Empty \in Places /\ Litter \in Places
  /\ \A t \in Trees : t \in Places
BY SwapAssumption DEF Trees, Tree, Places

(* The initial state of StageAndSwap satisfies its inductive invariants.      *)
LEMMA SwapInitInv == SwapInit => SwapInv /\ RollbackInv
<1> SUFFICES ASSUME SwapInit PROVE SwapInv /\ RollbackInv
  OBVIOUS
<1>1. SwapTypeOK
  <2>1. 0 \in 0 .. MaxFaults /\ at \in Points
    BY SwapAssumption DEF SwapInit, Points
  <2>2. [i \in Ids |-> None] \in [Ids -> Places] /\ target \in Places
    BY TreeFacts DEF SwapInit
  <2> QED BY <2>1, <2>2 DEF SwapInit, SwapTypeOK
<1>2. RollbackInv
  BY SwapAssumption DEF SwapInit, RollbackInv, FailureRestores, Gap
<1> QED BY <1>1, <1>2 DEF SwapInit, SwapInv, StakeSurvives, Kept, Gap

(* Every step of StageAndSwap keeps the types.                                *)
LEMMA SwapTypeStep ==
  ASSUME SwapInv, [SwapNext]_swapVars
  PROVE  SwapTypeOK'
<1>1. SwapTypeOK /\ (at \in {"lock", "backup", "preserve", "promote", "copy"}
                      => staging[id] \in Trees)
  BY DEF SwapInv
<1>2. at' \in Points
  BY <1>1 DEF SwapTypeOK, SwapNext, SwapStep, Enter, Prepare, BuildFails, BuildEnds, Leave, Abort,
     CallerFaults, Lock, Backup, Preserve, Promote, Publish, Rollback, Copy, Reap, PutBack,
     Drop, DropEnds, Trespass, Build, Found, Edit, Points, swapVars, Gap
<1>3. faults' \in 0 .. MaxFaults /\ before' \in 0 .. MaxFaults
  <2>1. Ok \/ Fault
    BY DEF SwapTypeOK, SwapNext, SwapStep, Enter, Prepare, BuildFails, BuildEnds,
     Leave, Abort, CallerFaults, Lock, Backup, Preserve, Promote, Publish, Rollback, Copy, Reap,
     PutBack, Drop, DropEnds, Trespass, Build, Found, Edit, swapVars, Ok
  <2>2. before' = before \/ before' = faults
    BY DEF SwapTypeOK, SwapNext, SwapStep, Enter, Prepare, BuildFails, BuildEnds,
     Leave, Abort, CallerFaults, Lock, Backup, Preserve, Promote, Publish, Rollback, Copy, Reap,
     PutBack, Drop, DropEnds, Trespass, Build, Found, Edit, swapVars
  <2> QED BY <1>1, <2>1, <2>2, SwapAssumption DEF SwapTypeOK, Ok, Fault
<1>7. id' \in Ids /\ had' \in BOOLEAN /\ meddled' \in BOOLEAN /\ found' \in Places
  BY <1>1 DEF SwapTypeOK, SwapNext, SwapStep, Enter, Prepare, BuildFails, BuildEnds,
     Leave, Abort, CallerFaults, Lock, Backup, Preserve, Promote, Publish, Rollback, Copy, Reap,
     PutBack, Drop, DropEnds, Trespass, Build, Found, Edit, swapVars
<1>4. target' \in Places /\ stake' \in Trees \cup {None}
  BY <1>1, TreeFacts DEF SwapTypeOK, SwapNext, SwapStep, Enter, Prepare, BuildFails, BuildEnds,
     Leave, Abort, CallerFaults, Lock, Backup, Preserve, Promote, Publish, Rollback, Copy, Reap,
     PutBack, Drop, DropEnds, Trespass, Build, Found, Edit, swapVars
<1>5. staging' \in [Ids -> Places]
  <2>1. CASE UNCHANGED staging
    BY <1>1, <2>1 DEF SwapTypeOK
  <2>2. CASE \E p \in Places : staging' = [staging EXCEPT ![id] = p]
    BY <1>1, <2>2 DEF SwapTypeOK
  <2>3. CASE Preserve
    BY <1>1, <2>1, <2>3, <2>2, TreeFacts DEF Preserve
  <2>4. CASE \E b \in Bodies : Build(b)
    BY <1>1, <2>4, <2>2, TreeFacts DEF Build, Fill
  <2>5. CASE ~Preserve /\ ~\E b \in Bodies : Build(b)
    BY <2>1, <2>2, <2>5, TreeFacts DEF SwapNext, SwapStep, Enter, Prepare, BuildFails, BuildEnds,
       Leave, Abort, CallerFaults, Lock, Backup, Promote, Publish, Rollback, Copy, Reap,
       PutBack, Drop, DropEnds, Trespass, Found, Edit, swapVars
  <2> QED BY <2>3, <2>4, <2>5
<1>6. backup' \in [Ids -> Places]
  <2>1. CASE UNCHANGED backup
    BY <1>1, <2>1 DEF SwapTypeOK
  <2>2. CASE \E p \in Places : backup' = [backup EXCEPT ![id] = p]
    BY <1>1, <2>2 DEF SwapTypeOK
  <2>3. target \in Places
    BY <1>1 DEF SwapTypeOK
  <2> QED
    BY <2>1, <2>2, <2>3, TreeFacts DEF SwapNext, SwapStep, Enter, Prepare, BuildFails, BuildEnds,
       Leave, Abort, CallerFaults, Lock, Backup, Preserve, Promote, Copy, Reap,
       PutBack, Drop, DropEnds, Trespass, Build, Found, Edit, swapVars
<1> QED BY <1>2, <1>3, <1>4, <1>5, <1>6, <1>7 DEF SwapTypeOK

(* Every step of StageAndSwap keeps the invariant: the stake stays where it   *)
(* is, except that Backup and PutBack move it between target and backup.      *)
LEMMA SwapStepInv ==
  ASSUME SwapInv, [SwapNext]_swapVars
  PROVE  SwapInv'
<1>0. SwapTypeOK'
  BY SwapTypeStep
<1> USE TreeFacts DEF SwapInv, StakeSurvives, Kept, Gap, Ok, Fault
<1>1. CASE \E i \in Ids : Enter(i)
  BY <1>0, <1>1 DEF Enter
<1>2. CASE Prepare \/ BuildFails \/ BuildEnds \/ Leave \/ Abort \/ CallerFaults
  BY <1>0, <1>2 DEF Prepare, BuildFails, BuildEnds, Leave, Abort, CallerFaults
<1>3. CASE Lock
  BY <1>0, <1>3 DEF Lock
<1>4. CASE Backup
  <2>1. CASE target # None /\ Vacant(backup[id]) /\ at' = "preserve"
    <3>1. \A i \in Ids : backup[i] = stake /\ stake # None => backup'[i] = stake
      BY <1>4, <2>1 DEF Backup, Vacant, SwapTypeOK
    <3>2. target = stake => backup'[id] = stake
      BY <1>4, <2>1 DEF Backup, Vacant, SwapTypeOK
    <3> QED BY <1>0, <1>4, <2>1, <3>1, <3>2 DEF Backup, Vacant, SwapTypeOK
  <2>2. CASE ~(target # None /\ Vacant(backup[id]) /\ at' = "preserve")
    BY <1>0, <1>4, <2>2 DEF Backup
  <2> QED BY <2>1, <2>2
<1>5. CASE Preserve
  <2>1. Tree(staging[id].body, backup[id] \in Trees /\ backup[id].kept, staging[id].whole)
          \in Trees
    <3>1. (backup[id] \in Trees /\ backup[id].kept) \in BOOLEAN
      OBVIOUS
    <3> QED BY <1>5, <3>1 DEF Preserve
  <2>2. at' = "promote" => staging'[id] \in Trees
    BY <1>5, <2>1 DEF Preserve, SwapTypeOK
  <2> QED BY <1>0, <1>5, <2>2 DEF Preserve
<1>6. CASE Promote
  <2>1. CASE Publish
    BY <1>0, <1>6, <2>1 DEF Promote, Publish
  <2>2. CASE Rollback
    BY <1>0, <1>6, <2>2 DEF Promote, Rollback
  <2>3. CASE at' = "copy" /\ UNCHANGED <<stake, staging>>
    BY <1>0, <1>6, <2>3 DEF Promote
  <2> QED BY <1>6, <2>1, <2>2, <2>3 DEF Promote
<1>7. CASE Copy
  <2>1. CASE Publish
    BY <1>0, <1>7, <2>1 DEF Copy, Publish
  <2>2. CASE Rollback
    BY <1>0, <1>7, <2>2 DEF Copy, Rollback
  <2> QED BY <1>7, <2>1, <2>2 DEF Copy
<1>8. CASE Reap
  BY <1>0, <1>8 DEF Reap
<1>9. CASE PutBack
  <2>1. CASE backup' = [backup EXCEPT ![id] = None] /\ target' = backup[id]
    <3>1. \A i \in Ids : backup[i] = stake => target' = stake \/ backup'[i] = stake
      BY <2>1 DEF SwapTypeOK
    <3> QED BY <1>0, <1>9, <2>1, <3>1 DEF PutBack
  <2>2. CASE UNCHANGED <<target, backup>>
    BY <1>0, <1>9, <2>2 DEF PutBack
  <2> QED BY <1>9, <2>1, <2>2 DEF PutBack
<1>10. CASE Drop \/ DropEnds
  BY <1>0, <1>10 DEF Drop, DropEnds
<1>11. CASE Trespass
  BY <1>0, <1>11 DEF Trespass
<1>12. CASE \E b \in Bodies : Build(b)
  BY <1>0, <1>12 DEF Build
<1>13. CASE \E b \in Bodies : Found(b)
  <2>1. stake # target \/ stake = None
    BY <1>13 DEF Found, SwapTypeOK
  <2> QED BY <1>0, <1>13, <2>1 DEF Found
<1>14. CASE \E b \in Bodies : Edit(b)
  BY <1>0, <1>14 DEF Edit
<1>15. CASE UNCHANGED swapVars
  BY <1>0, <1>15 DEF swapVars
<1> QED
  BY <1>1, <1>2, <1>3, <1>4, <1>5, <1>6, <1>7, <1>8, <1>9, <1>10, <1>11, <1>12, <1>13,
     <1>14, <1>15
     DEF SwapNext, SwapStep

(* Every step keeps what the rollback relies on.                              *)
LEMMA RollbackStep ==
  ASSUME SwapInv, RollbackInv, [SwapNext]_swapVars
  PROVE  RollbackInv'
<1>0. /\ faults \in Nat /\ before \in Nat
      /\ id \in Ids /\ backup \in [Ids -> Places] /\ target \in Places
  BY DEF SwapInv, SwapTypeOK
<1> USE DEF RollbackInv, FailureRestores, Gap, Ok, Fault
<1>1. CASE \E i \in Ids : Enter(i)
  BY <1>0, <1>1 DEF Enter
<1>2. CASE Prepare \/ BuildFails \/ BuildEnds \/ Leave \/ Abort \/ CallerFaults
  BY <1>0, <1>2 DEF Prepare, BuildFails, BuildEnds, Leave, Abort, CallerFaults
<1>3. CASE Lock
  BY <1>0, <1>3 DEF Lock
<1>4. CASE Backup
  BY <1>0, <1>4 DEF Backup
<1>5. CASE Preserve
  BY <1>0, <1>5 DEF Preserve
<1>6. CASE Promote
  <2>1. CASE Publish
    BY <1>0, <1>6, <2>1 DEF Promote, Publish
  <2>0. UNCHANGED <<backup, id, had, found, before, meddled>> /\ (Ok \/ Fault) /\ at = "promote"
    BY <1>6 DEF Promote
  <2>4. before <= faults'
    BY <1>0, <2>0
  <2>2. CASE Rollback
    <3>1. ~meddled => faults' > before
      BY <1>0, <1>6, <2>2 DEF Promote, Rollback, Publish, Vacant
    <3>2. CASE had
      BY <2>0, <2>2, <2>4, <3>1, <3>2 DEF Rollback
    <3>3. CASE ~had
      BY <2>0, <2>2, <2>4, <3>1, <3>3 DEF Rollback
    <3> QED BY <3>2, <3>3
  <2>3. CASE at' = "copy" /\ UNCHANGED <<stake, staging>>
    BY <2>0, <2>3, <2>4
  <2> QED BY <1>6, <2>1, <2>2, <2>3 DEF Promote
<1>7. CASE Copy
  BY <1>0, <1>7 DEF Copy, Publish, Rollback
<1>8. CASE Reap
  BY <1>0, <1>8 DEF Reap
<1>9. CASE PutBack
  BY <1>0, <1>9 DEF PutBack, Vacant
<1>10. CASE Drop \/ DropEnds
  BY <1>0, <1>10 DEF Drop, DropEnds
<1>11. CASE Trespass
  BY <1>0, <1>11 DEF Trespass
<1>12. CASE \E b \in Bodies : Build(b) \/ Found(b) \/ Edit(b)
  <2>1. CASE \E b \in Bodies : Build(b)
    BY <1>0, <2>1 DEF Build
  <2>2. CASE \E b \in Bodies : Found(b)
    BY <1>0, <2>2 DEF Found
  <2>3. CASE \E b \in Bodies : Edit(b)
    BY <1>0, <2>3 DEF Edit
  <2> QED BY <1>12, <2>1, <2>2, <2>3
<1>13. CASE UNCHANGED swapVars
  BY <1>13 DEF swapVars
<1> QED
  BY <1>1, <1>2, <1>3, <1>4, <1>5, <1>6, <1>7, <1>8, <1>9, <1>10, <1>11, <1>12, <1>13
     DEF SwapNext, SwapStep

(* stageAndSwap keeps its inductive invariants, for any number of suffixes    *)
(* and any bound on failing calls.                                            *)
THEOREM SwapInvHolds == SwapSpec => [](SwapInv /\ RollbackInv)
<1>1. SwapInv /\ RollbackInv /\ [SwapNext]_swapVars => (SwapInv /\ RollbackInv)'
  BY SwapStepInv, RollbackStep
<1> QED BY SwapInitInv, <1>1, PTL DEF SwapSpec

-----------------------------------------------------------------------------
(* The bodies a restore writes are bodies.                                    *)
LEMMA BodiesOfRestore ==
  ASSUME SwapTypeOK
  PROVE  /\ \A m \in BOOLEAN : Body(id, 0, m) \in Bodies /\ Body(Fresh, 0, m) \in Bodies
         /\ target \in Trees => /\ target.body \in Bodies
                                /\ Body(target.body.from, target.body.work, FALSE) \in Bodies
                                /\ target.body.work < MaxWork =>
                                     Body(target.body.from, target.body.work + 1, target.body.mark) \in Bodies
<1>1. id \in Ids /\ 0 \in 0 .. MaxWork
  BY RestoreAssumption DEF SwapTypeOK
<1>2. \A m \in BOOLEAN : Body(id, 0, m) \in Bodies /\ Body(Fresh, 0, m) \in Bodies
  BY <1>1, RestoreAssumption DEF Body
<1>3. ASSUME target \in Trees
      PROVE  /\ target.body \in Bodies
             /\ Body(target.body.from, target.body.work, FALSE) \in Bodies
             /\ target.body.work < MaxWork => Body(target.body.from, target.body.work + 1, target.body.mark) \in Bodies
  <2>1. target.body \in Bodies
    BY <1>3 DEF Trees
  <2>2. PICK f \in Ids \cup {Fresh}, w \in 0 .. MaxWork, m \in BOOLEAN :
          target.body = Body(f, w, m)
    BY <2>1, RestoreAssumption
  <2>3. target.body.from = f /\ target.body.work = w /\ target.body.mark = m
    BY <2>2 DEF Body
  <2>4. w < MaxWork => w + 1 \in 0 .. MaxWork
    BY RestoreAssumption
  <2>5. \A x \in 0 .. MaxWork, y \in BOOLEAN : Body(f, x, y) \in Bodies
    BY RestoreAssumption
  <2> QED BY <2>1, <2>3, <2>4, <2>5
<1> QED BY <1>2, <1>3

(* A restore starts in a state of StageAndSwap...                             *)
LEMMA RestoreInit == Init => SwapInit
BY DEF Init, SwapInit

(* ...and each of its steps is one of StageAndSwap, or none.                  *)
LEMMA RestoreStep ==
  ASSUME SwapTypeOK, [Next]_vars
  PROVE  [SwapNext]_swapVars
<1>1. CASE \E i \in Ids : Begin(i)
  BY <1>1 DEF Begin, SwapNext
<1>2. CASE Resume
  BY <1>2, BodiesOfRestore DEF Resume, SwapNext
<1>3. CASE Boot
  BY <1>3, BodiesOfRestore DEF Boot, SwapNext
<1>4. CASE Work
  BY <1>4, BodiesOfRestore DEF Work, SwapNext
<1>5. CASE Untar
  BY <1>5, BodiesOfRestore DEF Untar, SwapNext
<1>6. CASE WriteMark
  BY <1>6, BodiesOfRestore DEF WriteMark, SwapNext
<1>7. CASE Clear \/ ClearAgain
  <2>1. target \in Trees => Body(target.body.from, target.body.work, FALSE) \in Bodies
    BY BodiesOfRestore
  <2> QED BY <1>7, <2>1 DEF Clear, ClearAgain, Unmark, SwapNext, Edit
<1>8. CASE \/ LoadImages \/ \E c \in Containers : PromoteImage(c)
           \/ RemoveContainers \/ Shutdown
  BY <1>8 DEF LoadImages, PromoteImage, RemoveContainers, Shutdown
<1>9. CASE Built \/ Prepares \/ BuildBreaks \/ Swap
  BY <1>9 DEF Built, Prepares, BuildBreaks, Swap, SwapNext
<1>10. CASE HandoffFails \/ Succeed \/ Fail \/ Kill \/ Trespasses
  BY <1>10 DEF HandoffFails, Succeed, Fail, Kill, Trespasses, SwapNext
<1>11. CASE UNCHANGED vars
  BY <1>11 DEF vars
<1> QED
  BY <1>1, <1>2, <1>3, <1>4, <1>5, <1>6, <1>7, <1>8, <1>9, <1>10, <1>11
     DEF Next, Progress

(* Restoring keeps the inductive invariants of its swap.                      *)
THEOREM RestoreKeepsSwapInv == Spec => [](SwapInv /\ RollbackInv)
<1>1. Init => SwapInv /\ RollbackInv
  BY RestoreInit, SwapInitInv
<1>2. SwapInv /\ RollbackInv /\ [Next]_vars => (SwapInv /\ RollbackInv)'
  <2> SUFFICES ASSUME SwapInv, RollbackInv, [Next]_vars
               PROVE  (SwapInv /\ RollbackInv)'
    OBVIOUS
  <2>1. [SwapNext]_swapVars
    BY RestoreStep DEF SwapInv
  <2> QED BY <2>1, SwapStepInv, RollbackStep
<1> QED BY <1>1, <1>2, PTL DEF Spec

(* runRestore drives stageAndSwap as its specification says, whatever fails,  *)
(* is killed or meddles.                                                      *)
THEOREM RestoreImplementsSwap == Spec => ImplementsSwap
<1>1. SwapInv /\ [Next]_vars => [SwapNext]_swapVars
  BY RestoreStep DEF SwapInv
<1> QED BY RestoreInit, RestoreKeepsSwapInv, <1>1, PTL DEF Spec, ImplementsSwap, SwapSpec

(* The last root that was published or worked in is whole at the target or    *)
(* under a backup name: stage-and-swap loses no tree.                         *)
THEOREM StakeIsSafe == Spec => []StakeSurvives
<1>1. SwapInv => StakeSurvives
  BY DEF SwapInv
<1> QED BY RestoreKeepsSwapInv, <1>1, PTL

(* Contract item 5 of stage-and-swap: a failing call leaves the target alone, *)
(* up to a second fault in its rollback.                                      *)
THEOREM FailureRestoresTarget == Spec => []FailureRestores
<1>1. RollbackInv => FailureRestores
  BY DEF RollbackInv, FailureRestores
<1> QED BY RestoreKeepsSwapInv, <1>1, PTL

-----------------------------------------------------------------------------
(* Where runRestore is, and where its swap is meanwhile.                      *)
StepInv ==
  /\ step = "off" <=> at = "idle"
  /\ at = "prepare" => step = "untar"
  /\ at \in Gap \cup {"lock", "backup", "drop", "dropping"} => step = "swap"
  /\ at = "published" => step \in {"swap", "failed", "clear", "done"}
  /\ step \in {"clear", "done"} => at = "published"
  /\ cause = "recovery" /\ step \notin {"off", "done"} => life = "booting"

(* A tree that carries no sentinel has all the images of its snapshot.  The   *)
(* sentinel is staged with the tree and stays in it until the images are      *)
(* promoted; the backup that may come back has its images still.              *)
Whence(t, i) == t \in Trees /\ t.body.from = i
Repaired(t) ==
  t \in Trees /\ t.whole /\ t.body.from # Fresh /\ ~t.body.mark
    => \A c \in Containers : image[c] = t.body.from
Staging == {"build", "lock", "backup", "preserve", "promote", "copy"}
MarkInv ==
  /\ Repaired(target)
  /\ at \in Gap /\ had => Repaired(backup[id])
  /\ step \in {"marked", "swap"} /\ at \in Staging => Whence(staging[id], id) /\ staging[id].body.mark
  /\ step = "swap" /\ at \in {"drop", "dropping", "published"} => Whence(target, id) /\ target.body.mark
  /\ step \in {"mark", "marked", "swap"} => \A c \in Containers \ staged : image[c] = id
  /\ step \in {"clear", "done"} => Whence(target, id) /\ \A c \in Containers : image[c] = id

(* Every step keeps the types.                                                *)
LEMMA RestoreTypeStep ==
  ASSUME TypeOK, SwapTypeOK', [Next]_vars
  PROVE  TypeOK'
<1> USE RestoreAssumption DEF TypeOK
<1>a. id \in Ids /\ id' \in Ids
  BY DEF SwapTypeOK
<1>1. CASE \E i \in Ids : Begin(i)
  BY <1>1 DEF Begin
<1>2. CASE Resume \/ Boot \/ Shutdown
  BY <1>2 DEF Resume, Boot, Shutdown
<1>7. CASE Kill
  <2>1. kills' \in 0 .. MaxKills
    BY <1>7 DEF Kill
  <2> QED BY <1>7, <2>1 DEF Kill
<1>3. CASE Untar \/ LoadImages \/ WriteMark \/ Built
  BY <1>3 DEF Untar, LoadImages, WriteMark, Built
<1>4. CASE \E c \in Containers : PromoteImage(c)
  BY <1>a, <1>4 DEF PromoteImage
<1>5. CASE RemoveContainers \/ HandoffFails \/ Clear \/ ClearAgain \/ Succeed \/ Fail
  BY <1>5 DEF RemoveContainers, HandoffFails, Clear, ClearAgain, Succeed, Fail
<1>6. CASE Prepares \/ BuildBreaks \/ Swap \/ Work \/ Trespasses \/ UNCHANGED vars
  BY <1>6 DEF Prepares, BuildBreaks, Swap, Work, Trespasses, vars, outer
<1> QED BY <1>1, <1>2, <1>3, <1>4, <1>5, <1>6, <1>7 DEF Next, Progress

(* The steps of the restore and of its swap keep pace.                        *)
LEMMA StepInvStep ==
  ASSUME TypeOK, StepInv, [Next]_vars
  PROVE  StepInv'
<1> USE DEF StepInv, Gap
<1>1. CASE \E i \in Ids : Begin(i)
  BY <1>1 DEF Begin, Enter
<1>2. CASE Resume
  BY <1>2 DEF Resume, Enter, CallerFaults, swapVars
<1>3. CASE Boot \/ Shutdown
  BY <1>3 DEF Boot, Shutdown, Found, swapVars
<1>4. CASE Kill
  BY <1>4 DEF Kill, Abort
<1>5. CASE Untar \/ LoadImages \/ WriteMark \/ Built
  BY <1>5 DEF Untar, LoadImages, WriteMark, Built, Build, BuildEnds, CallerFaults, swapVars
<1>6. CASE (\E c \in Containers : PromoteImage(c)) \/ RemoveContainers \/ HandoffFails
  BY <1>6 DEF PromoteImage, RemoveContainers, HandoffFails, CallerFaults, swapVars
<1>7. CASE Clear \/ ClearAgain
  BY <1>7 DEF Clear, ClearAgain, Unmark, Edit, CallerFaults
<1>8. CASE Succeed \/ Fail
  BY <1>8 DEF Succeed, Fail, Leave
<1>9. CASE Prepares \/ BuildBreaks \/ Work \/ Trespasses
  BY <1>9 DEF Prepares, BuildBreaks, Work, Trespasses, Prepare, BuildFails, Edit, Trespass, outer
<1>10. CASE Swap
  <2>1. UNCHANGED outer /\ SwapStep
    BY <1>10 DEF Swap
  <2>2. CASE Lock \/ Backup \/ Preserve \/ Promote \/ Copy
    BY <2>1, <2>2 DEF Lock, Backup, Preserve, Promote, Copy, Publish, Rollback, outer
  <2>3. CASE Reap \/ PutBack \/ Drop \/ DropEnds
    BY <2>1, <2>3 DEF Reap, PutBack, Drop, DropEnds, outer
  <2> QED BY <2>1, <2>2, <2>3 DEF SwapStep
<1>11. CASE UNCHANGED vars
  BY <1>11 DEF vars, swapVars, outer
<1> QED BY <1>1, <1>2, <1>3, <1>4, <1>5, <1>6, <1>7, <1>8, <1>9, <1>10, <1>11 DEF Next, Progress

(* The sentinel stays while it is needed, unless it could not be written.     *)
LEMMA MarkInvStep ==
  ASSUME TypeOK, RollbackInv, StepInv, MarkInv, [Next]_vars, ~unmarked'
  PROVE  MarkInv'
<1>a. /\ id \in Ids /\ target \in Places /\ staging \in [Ids -> Places] /\ backup \in [Ids -> Places]
      /\ image \in [Containers -> Ids \cup {Fresh}] /\ staged \subseteq Containers
  BY DEF TypeOK, SwapTypeOK
<1>b. /\ Body(Fresh, 0, FALSE) \in Bodies /\ Body(id, 0, TRUE) \in Bodies
      /\ target \in Trees => Body(target.body.from, target.body.work, FALSE) \in Bodies
      /\ target \in Trees /\ target.body.work < MaxWork
           => Body(target.body.from, target.body.work + 1, target.body.mark) \in Bodies
  BY BodiesOfRestore DEF TypeOK
<1>c. \A b \in Bodies, k \in BOOLEAN, w \in BOOLEAN : Tree(b, k, w) \in Trees
  BY TreeFacts
<1>e. \A t \in Trees : t.body \in Bodies /\ t.kept \in BOOLEAN /\ t.whole \in BOOLEAN
  BY TreeFacts
<1>f. None \notin Trees /\ Empty \notin Trees /\ Litter \notin Trees
  BY TreeFacts
<1>g. image' = image => \A t : Repaired(t)' <=> Repaired(t)
  BY DEF Repaired
<1> USE DEF MarkInv, StepInv, Gap, Staging
<1>1. CASE \E i \in Ids : Begin(i)
  BY <1>g, <1>1 DEF Begin, Enter, Whence, Repaired
<1>2. CASE Resume
  BY <1>g, <1>2 DEF Resume, Enter, CallerFaults, swapVars, Whence, Repaired
<1>3. CASE Boot
  <2>1. CASE UNCHANGED target
    BY <1>3, <2>1 DEF Boot, Found, swapVars, Repaired, Whence
  <2>2. CASE Found(Body(Fresh, 0, FALSE))
    <3>1. target'.body.from = Fresh
      BY <2>2 DEF Found, Tree, Body
    <3> QED BY <1>3, <2>2, <3>1 DEF Boot, Found, Repaired, Whence
  <2> QED BY <1>3, <2>1, <2>2 DEF Boot, swapVars
<1>4. CASE Untar \/ LoadImages
  BY <1>4 DEF Untar, LoadImages, Build, swapVars, Whence, Repaired
<1>5. CASE WriteMark
  <2>1. Build(Body(id, 0, TRUE))
    BY <1>5 DEF WriteMark
  <2>2. staging'[id] = Tree(Body(id, 0, TRUE), FALSE, staging[id] = Empty \/ (staging[id] \in Trees /\ staging[id].whole))
    BY <1>a, <2>1 DEF Build, Fill
  <2>3. (staging[id] = Empty \/ (staging[id] \in Trees /\ staging[id].whole)) \in BOOLEAN
    BY <1>e
  <2>4. Whence(staging'[id], id) /\ staging'[id].body.mark
    <3>1. staging'[id] \in Trees
      BY <1>b, <1>c, <2>2, <2>3
    <3>2. staging'[id].body.from = id /\ staging'[id].body.mark
      BY <2>2 DEF Tree, Body
    <3> QED BY <3>1, <3>2, <1>5 DEF Whence, WriteMark, Build
  <2> QED BY <1>5, <2>1, <2>4 DEF WriteMark, Build, Whence, Repaired
<1>6. CASE Built \/ Prepares \/ BuildBreaks
  BY <1>6 DEF Built, Prepares, BuildBreaks, BuildEnds, Prepare, BuildFails, outer, Whence, Repaired
<1>7. CASE \E c \in Containers : PromoteImage(c)
  BY <1>a, <1>7 DEF PromoteImage, swapVars, Whence, Repaired
<1>8. CASE RemoveContainers \/ HandoffFails \/ Shutdown
  BY <1>8 DEF RemoveContainers, HandoffFails, Shutdown, CallerFaults, swapVars, Whence, Repaired
<1>9. CASE Clear \/ ClearAgain
  <2>1. step \in {"clear", "done"} /\ at = "published" /\ Whence(target, id) /\ \A c \in Containers : image[c] = id
    BY <1>9 DEF Clear, ClearAgain
  <2>2. UNCHANGED <<image, staged, unmarked>> /\ step' = "done" /\ Unmark
    BY <1>9 DEF Clear, ClearAgain
  <2>3. CASE CallerFaults
    BY <2>1, <2>2, <2>3 DEF CallerFaults, Whence, Repaired
  <2>4. CASE Edit(Body(target.body.from, target.body.work, FALSE))
    <3>1. target' \in Trees
      BY <1>b, <1>c, <1>e, <2>1, <2>4 DEF Edit, Whence
    <3>2. target'.body.from = id /\ id' = id
      BY <2>1, <2>4 DEF Edit, Tree, Body, Whence
    <3>3. Whence(target, id)'
      BY <3>1, <3>2 DEF Whence
    <3> QED BY <2>1, <2>2, <2>4, <3>3 DEF Edit, Whence, Repaired
  <2> QED BY <2>2, <2>3, <2>4 DEF Unmark
<1>10. CASE Succeed \/ Fail \/ Kill
  BY <1>10 DEF Succeed, Fail, Kill, Leave, Abort, Whence, Repaired
<1>11. CASE Work
  <2>1. /\ target \in Trees /\ target'.body.from = target.body.from /\ target'.body.mark = target.body.mark
        /\ target'.whole = target.whole
    BY <1>11 DEF Work, Edit, Tree, Body
  <2> QED BY <1>11, <2>1 DEF Work, Edit, outer, Whence, Repaired
<1>12. CASE Trespasses
  BY <1>f, <1>12 DEF Trespasses, Trespass, outer, Whence, Repaired
<1>13. CASE Swap
  <2>1. UNCHANGED outer /\ SwapStep
    BY <1>13 DEF Swap
  <2>2. CASE Lock \/ Drop \/ DropEnds
    BY <2>1, <2>2 DEF Lock, Drop, DropEnds, outer, Whence, Repaired
  <2>3. CASE Backup
    <3>1. CASE at' = "preserve"
      <4>1. target' = None /\ backup'[id] = target /\ UNCHANGED <<staging, id>> /\ at = "backup"
        BY <1>a, <2>3, <3>1 DEF Backup
      <4> QED BY <1>f, <2>1, <3>1, <4>1 DEF outer, Whence, Repaired
    <3>2. CASE at' = "failed"
      BY <1>f, <2>1, <2>3, <3>2 DEF Backup, outer, Whence, Repaired
    <3>3. CASE at' = "promote"
      <4>1. UNCHANGED <<target, backup, staging, id, had>> /\ ~had
        BY <2>3, <3>3 DEF Backup, RollbackInv
      <4> QED BY <2>1, <2>3, <3>3, <4>1 DEF Backup, outer, Whence, Repaired
    <3> QED BY <2>3, <3>1, <3>2, <3>3 DEF Backup
  <2>4. CASE Preserve
    <3>1. Whence(staging[id], id) /\ staging[id].body.mark /\ step = "swap"
      BY <2>4 DEF Preserve
    <3>2. staging'[id].body = staging[id].body /\ (at' = "promote" => staging'[id] \in Trees)
      <4>1. CASE at' = "promote"
        <5>1. (backup[id] \in Trees /\ backup[id].kept) \in BOOLEAN
          OBVIOUS
        <5>2. Tree(staging[id].body, backup[id] \in Trees /\ backup[id].kept, staging[id].whole) \in Trees
          BY <1>c, <1>e, <3>1, <5>1 DEF Whence
        <5>3. staging'[id] \in Trees
          BY <1>a, <2>4, <4>1, <5>2 DEF Preserve
        <5>4. staging'[id].body = staging[id].body
          BY <1>a, <2>4, <4>1 DEF Preserve, Tree
        <5> QED BY <5>3, <5>4
      <4>2. CASE at' # "promote"
        BY <2>4, <4>2 DEF Preserve
      <4> QED BY <4>1, <4>2
    <3> QED BY <2>1, <2>4, <3>1, <3>2 DEF Preserve, outer, Whence, Repaired
  <2>5. CASE Promote \/ Copy
    <3>1. Whence(staging[id], id) /\ staging[id].body.mark /\ step = "swap"
      BY <2>5 DEF Promote, Copy
    <3>2. CASE Publish
      BY <2>1, <2>5, <3>1, <3>2 DEF Promote, Copy, Publish, outer, Whence, Repaired
    <3>3. CASE Rollback
      BY <2>1, <2>5, <3>1, <3>3 DEF Promote, Copy, Rollback, outer, Whence, Repaired
    <3>4. CASE at' = "copy" /\ target' = Tree(staging[id].body, staging[id].kept, FALSE) /\ UNCHANGED staging
      <4>1. ~target'.whole
        BY <3>4 DEF Tree
      <4>2. UNCHANGED <<id, backup, had>>
        BY <2>5 DEF Promote, Copy
      <4>3. UNCHANGED <<image, staged, step>> /\ step = "swap" /\ at # "published"
        BY <2>1, <2>5, <3>1 DEF outer, Promote, Copy
      <4>4. at \in Gap
        BY <2>5 DEF Promote, Copy
      <4> QED BY <3>1, <3>4, <4>1, <4>2, <4>3, <4>4 DEF Whence, Repaired
    <3> QED BY <2>5, <3>2, <3>3, <3>4 DEF Promote, Copy
  <2>6. CASE Reap
    BY <1>f, <2>1, <2>6 DEF Reap, outer, Whence, Repaired
  <2>7. CASE PutBack
    BY <2>1, <2>7 DEF PutBack, RollbackInv, outer, Whence, Repaired
  <2> QED BY <2>1, <2>2, <2>3, <2>4, <2>5, <2>6, <2>7 DEF SwapStep
<1>14. CASE UNCHANGED vars
  BY <1>14 DEF vars, swapVars, outer, Whence, Repaired
<1> QED
  BY <1>1, <1>2, <1>3, <1>4, <1>5, <1>6, <1>7, <1>8, <1>9, <1>10, <1>11, <1>12, <1>13, <1>14
     DEF Next, Progress

-----------------------------------------------------------------------------
(* While no call fails.  A root that carries the sentinel is one the stack    *)
(* has not worked in since, or one whose restore can never be resumed: the    *)
(* backup name of its snapshot is taken.                                      *)
Stuck == ~Vacant(backup[target.body.from])
WorkInv ==
  /\ target \in Trees \cup {None} /\ at \notin {"reap", "putback"} /\ step # "failed"
  /\ Marked => /\ target.kept
               /\ target.body.work = 0 \/ Stuck
               /\ life = "up" => at \in {"copy", "drop", "dropping", "published"} \/ Stuck
               /\ at = "failed" /\ cause = "recovery" => Stuck
  /\ at \in {"prepare", "build", "lock", "backup"} =>
       /\ target \in Trees /\ target.kept
       /\ cause = "recovery" => target.body.from = id /\ target.body.mark
  /\ at = "preserve" => backup[id] \in Trees /\ backup[id].kept
  /\ at \in {"preserve", "promote"} => target = None
  /\ at \in {"promote", "copy"} => staging[id].kept
  /\ at \in Staging /\ staging[id] \in Trees => staging[id].body.work = 0
  /\ at \in {"copy", "drop", "dropping", "published"} =>
       target \in Trees /\ target.kept /\ target.body.work = 0
  /\ step = "done" => ~Marked

LEMMA WorkInvStep ==
  ASSUME TypeOK, SwapInv, StepInv, WorkInv, [Next]_vars, faults = 0, faults' = 0
  PROVE  WorkInv'
<1>a. /\ id \in Ids /\ target \in Places /\ staging \in [Ids -> Places] /\ backup \in [Ids -> Places]
      /\ at \in {"lock", "backup", "preserve", "promote", "copy"} => staging[id] \in Trees
  BY DEF TypeOK, SwapTypeOK, SwapInv
<1>b. /\ Body(Fresh, 0, FALSE) \in Bodies /\ \A m \in BOOLEAN : Body(id, 0, m) \in Bodies
      /\ target \in Trees => Body(target.body.from, target.body.work, FALSE) \in Bodies
      /\ target \in Trees /\ target.body.work < MaxWork
           => Body(target.body.from, target.body.work + 1, target.body.mark) \in Bodies
  BY BodiesOfRestore DEF TypeOK
<1>c. \A b \in Bodies, k \in BOOLEAN, w \in BOOLEAN : Tree(b, k, w) \in Trees
  BY TreeFacts
<1>e. \A t \in Trees : t.body \in Bodies /\ t.kept \in BOOLEAN /\ t.whole \in BOOLEAN
  BY TreeFacts
<1>f. None \notin Trees /\ Empty \notin Trees /\ Litter \notin Trees /\ None # Empty
  BY TreeFacts
<1>g. ~Fault
  BY DEF Fault
<1> USE DEF WorkInv, StepInv, Gap, Staging, Marked, Stuck, Vacant
<1>1. CASE \E i \in Ids : Begin(i)
  BY <1>1 DEF Begin, Enter, Readable
<1>2. CASE Resume
  <2>1. /\ Readable /\ target.body.from \in Ids /\ Enter(target.body.from)
        /\ life' = "booting" /\ step' = "untar" /\ cause' = "recovery"
    BY <1>g, <1>2 DEF Resume, CallerFaults, Readable
  <2> QED BY <1>2, <2>1 DEF Resume, Enter, Readable
<1>3. CASE Boot
  <2>1. CASE UNCHANGED swapVars
    BY <1>3, <2>1 DEF Boot, swapVars
  <2>2. CASE Found(Body(Fresh, 0, FALSE))
    <3>1. target' \in Trees
      BY <1>b, <1>c, <2>2 DEF Found
    <3>2. ~target'.body.mark
      BY <2>2 DEF Found, Tree, Body
    <3> QED BY <1>3, <2>2, <3>1, <3>2 DEF Boot, Found
  <2> QED BY <1>3, <2>1, <2>2 DEF Boot
<1>4. ASSUME NEW m \in BOOLEAN, Build(Body(id, 0, m)), UNCHANGED <<life, cause>>, step' \in {"load", "marked"}
      PROVE  WorkInv'
  <2>1. staging'[id].body.work = 0
    BY <1>a, <1>4 DEF Build, Fill, Tree, Body
  <2> QED BY <1>4, <2>1 DEF Build
<1>5. CASE Untar \/ WriteMark
  BY <1>4, <1>5, <1>g DEF Untar, WriteMark, CallerFaults
<1>6. CASE LoadImages \/ (\E c \in Containers : PromoteImage(c)) \/ RemoveContainers \/ Shutdown
  BY <1>6 DEF LoadImages, PromoteImage, RemoveContainers, Shutdown, swapVars
<1>7. CASE Built \/ BuildBreaks \/ HandoffFails \/ Trespasses
  BY <1>7, <1>g DEF Built, BuildBreaks, HandoffFails, Trespasses, BuildEnds, BuildFails, CallerFaults,
     Trespass, outer
<1>8. CASE Prepares
  BY <1>a, <1>f, <1>8, <1>g DEF Prepares, Prepare, outer
<1>9. CASE Clear \/ ClearAgain
  <2>1. /\ at = "published" /\ at' = at /\ step' = "done" /\ UNCHANGED <<cause, backup, id, staging>>
        /\ Edit(Body(target.body.from, target.body.work, FALSE))
    BY <1>9, <1>g DEF Clear, ClearAgain, Unmark, CallerFaults, Edit
  <2>2. target' \in Trees
    BY <1>b, <1>c, <1>e, <2>1 DEF Edit
  <2>3. target'.kept = target.kept /\ target'.body.work = target.body.work /\ ~target'.body.mark
    BY <2>1 DEF Edit, Tree, Body
  <2> QED BY <2>1, <2>2, <2>3
<1>10. CASE Succeed \/ Fail
  BY <1>10 DEF Succeed, Fail, Leave
<1>11. CASE Kill
  BY <1>11 DEF Kill, Abort
<1>12. CASE Work
  <2>1. /\ target \in Trees /\ target'.body.from = target.body.from /\ target'.body.mark = target.body.mark
        /\ target'.kept = target.kept
    BY <1>12 DEF Work, Edit, Tree, Body
  <2>2. target' \in Trees
    BY <1>b, <1>c, <1>e, <1>12 DEF Work, Edit
  <2> QED BY <1>12, <2>1, <2>2 DEF Work, Edit, outer
<1>13. CASE Swap
  <2>1. UNCHANGED outer /\ SwapStep
    BY <1>13 DEF Swap
  <2>2. CASE Lock \/ Drop \/ DropEnds
    BY <1>g, <2>1, <2>2 DEF Lock, Drop, DropEnds, outer
  <2>3. CASE Backup
    <3>1. CASE at' = "preserve"
      <4>1. target' = None /\ backup'[id] = target /\ UNCHANGED <<staging, id>> /\ at = "backup"
        BY <1>a, <2>3, <3>1 DEF Backup
      <4> QED BY <1>f, <2>1, <3>1, <4>1 DEF outer
    <3>2. CASE at' # "preserve"
      BY <1>f, <1>g, <2>1, <2>3, <3>2 DEF Backup, outer
    <3> QED BY <3>1, <3>2
  <2>4. CASE Preserve
    <3>1. /\ at' = "promote" /\ UNCHANGED <<target, backup, id>>
          /\ staging'[id].kept /\ staging'[id].body = staging[id].body
      <4>1. at' = "promote" /\ UNCHANGED <<target, backup, id>>
        BY <1>g, <2>4 DEF Preserve
      <4>2. (backup[id] \in Trees /\ backup[id].kept) = TRUE
        BY <1>e, <2>4 DEF Preserve
      <4>3. staging' = [staging EXCEPT ![id] = Tree(@.body, TRUE, @.whole)]
        BY <1>g, <2>4, <4>2 DEF Preserve
      <4>4. staging'[id].kept /\ staging'[id].body = staging[id].body
        BY <1>a, <4>3 DEF Tree
      <4> QED BY <4>1, <4>4
    <3> QED BY <1>a, <2>1, <2>4, <3>1 DEF Preserve, outer
  <2>5. CASE Promote \/ Copy
    <3>1. CASE Publish
      BY <1>a, <2>1, <2>5, <3>1 DEF Promote, Copy, Publish, outer
    <3>2. CASE at' = "copy" /\ target' = Tree(staging[id].body, staging[id].kept, FALSE) /\ UNCHANGED staging
      <4>1. target' \in Trees
        BY <1>a, <1>c, <1>e, <2>5, <3>2 DEF Promote, Copy
      <4>2. target'.kept = staging[id].kept /\ target'.body = staging[id].body
        BY <3>2 DEF Tree
      <4> QED BY <1>a, <2>1, <2>5, <3>2, <4>1, <4>2 DEF Promote, Copy, outer
    <3> QED BY <1>g, <2>5, <3>1, <3>2 DEF Promote, Copy
  <2>6. CASE Reap \/ PutBack
    BY <2>6 DEF Reap, PutBack
  <2> QED BY <2>1, <2>2, <2>3, <2>4, <2>5, <2>6 DEF SwapStep
<1>14. CASE UNCHANGED vars
  BY <1>14 DEF vars, swapVars, outer
<1> QED
  BY <1>1, <1>2, <1>3, <1>5, <1>6, <1>7, <1>8, <1>9, <1>10, <1>11, <1>12, <1>13, <1>14
     DEF Next, Progress

(* Failing calls are counted, and a sentinel that was not written stays so.   *)
LEMMA HistoryStays ==
  ASSUME TypeOK, [Next]_vars
  PROVE  (faults # 0 => faults' # 0) /\ (unmarked => unmarked')
<1>1. faults' = faults \/ faults' = faults + 1
  <2>1. [SwapNext]_swapVars
    BY RestoreStep DEF TypeOK
  <2> QED BY <2>1 DEF SwapNext, SwapStep, Enter, Prepare, BuildFails, BuildEnds, Leave, Abort,
     CallerFaults, Lock, Backup, Preserve, Promote, Copy, Reap, PutBack, Drop, DropEnds, Trespass,
     Build, Found, Edit, swapVars, Ok, Fault
<1>2. unmarked => unmarked'
  BY DEF Next, Progress, Begin, Resume, Boot, Untar, LoadImages, WriteMark, Built, Prepares,
     BuildBreaks, Swap, PromoteImage, RemoveContainers, HandoffFails, Clear, ClearAgain, Succeed,
     Fail, Work, Shutdown, Kill, Trespasses, vars, outer
<1> QED BY <1>1, <1>2 DEF TypeOK, SwapTypeOK

-----------------------------------------------------------------------------
(* What a restore knows of the root: the conjuncts hold for any snapshots,    *)
(* containers and bounds.                                                     *)
RestoreInv ==
  /\ TypeOK /\ SwapInv /\ RollbackInv /\ StepInv
  /\ unmarked \/ MarkInv
  /\ faults = 0 => WorkInv

LEMMA RestoreInvInit == Init => RestoreInv
<1> SUFFICES ASSUME Init PROVE RestoreInv
  OBVIOUS
<1>1. SwapInv /\ RollbackInv
  BY RestoreInit, SwapInitInv
<1>2. TypeOK
  <2>1. 0 \in 0 .. MaxKills /\ 0 \in 0 .. MaxRestores
    BY RestoreAssumption
  <2> QED BY <1>1, <2>1 DEF Init, TypeOK, SwapInv
<1>3. target.body.from = Fresh /\ ~target.body.mark /\ at = "idle" /\ step = "off" /\ target \in Trees
  <2>1. target \in Trees
    BY <1>1, BodiesOfRestore, TreeFacts DEF Init, SwapInv
  <2>2. target.body.from = Fresh /\ ~target.body.mark
    BY DEF Init, Tree, Body
  <2> QED BY <2>1, <2>2 DEF Init, SwapInit
<1>4. StepInv /\ MarkInv /\ WorkInv
  BY <1>3 DEF Init, StepInv, MarkInv, WorkInv, Gap, Staging, Repaired, Marked
<1> QED BY <1>1, <1>2, <1>4 DEF RestoreInv

LEMMA RestoreInvStep == RestoreInv /\ [Next]_vars => RestoreInv'
<1> SUFFICES ASSUME RestoreInv, [Next]_vars PROVE RestoreInv'
  OBVIOUS
<1>1. TypeOK /\ SwapInv /\ RollbackInv /\ StepInv
  BY DEF RestoreInv
<1>2. SwapInv' /\ RollbackInv'
  <2>1. [SwapNext]_swapVars
    BY <1>1, RestoreStep DEF TypeOK
  <2> QED BY <1>1, <2>1, SwapStepInv, RollbackStep
<1>3. TypeOK'
  BY <1>1, <1>2, RestoreTypeStep DEF SwapInv
<1>4. StepInv'
  BY <1>1, StepInvStep
<1>5. (unmarked \/ MarkInv)'
  BY <1>1, HistoryStays, MarkInvStep DEF RestoreInv
<1>6. (faults = 0 => WorkInv)'
  BY <1>1, HistoryStays, WorkInvStep DEF RestoreInv
<1> QED BY <1>2, <1>3, <1>4, <1>5, <1>6 DEF RestoreInv

(* The step of runRestore and that of its swap agree; a root without its      *)
(* sentinel is repaired; and, while no call fails, a root with one is unused  *)
(* or cannot be resumed.                                                      *)
THEOREM RestoreInvariant == Spec => []RestoreInv
BY RestoreInvInit, RestoreInvStep, PTL DEF Spec

(* A half-restored stack carries the breadcrumb its boot resumes from,        *)
(* whatever failed or was killed, unless the sentinel could not be written.   *)
THEOREM TornStackIsMarked == Spec => []TornHasBreadcrumb
<1>1. RestoreInv => TornHasBreadcrumb
  BY DEF RestoreInv, MarkInv, Repaired, TornHasBreadcrumb, Torn
<1> QED BY <1>1, RestoreInvariant, PTL

(* While no call fails, a resumed restore replaces no root in which the stack *)
(* worked after the restore it resumes, whatever was killed when.             *)
THEOREM RecoverySparesWork == Spec => RecoveryDiscardsNoWork
<1>1. ASSUME RestoreInv, [Next]_vars, at = "backup", target # None, target' = None,
             cause = "recovery", faults = 0
      PROVE  target.body.work = 0
  <2>1. /\ target \in Trees /\ target.body.from = id /\ Marked
        /\ target.body.work = 0 \/ ~Vacant(backup[id])
    BY <1>1 DEF RestoreInv, WorkInv, Marked, Stuck
  <2>2. [SwapNext]_swapVars
    BY <1>1, RestoreStep DEF RestoreInv, TypeOK
  <2>3. Backup \/ \E b \in Bodies : Edit(b)
    BY <1>1, <2>2 DEF SwapNext, SwapStep, Enter, Prepare, BuildFails, BuildEnds, Leave, Abort,
       CallerFaults, Lock, Preserve, Promote, Copy, Reap, PutBack, Drop, DropEnds, Trespass,
       Build, Found, swapVars, Gap
  <2>4. ASSUME NEW b \in Bodies, Edit(b) PROVE FALSE
    BY <1>1, <2>4, TreeFacts DEF Edit
  <2> QED BY <1>1, <2>1, <2>3, <2>4 DEF Backup
<1>2. RestoreInv /\ [Next]_vars
        => [at = "backup" /\ target # None /\ target' = None /\ cause = "recovery" /\ faults = 0
              => target.body.work = 0]_vars
  BY <1>1
<1> QED BY <1>2, RestoreInvariant, PTL DEF Spec, RecoveryDiscardsNoWork

=============================================================================
