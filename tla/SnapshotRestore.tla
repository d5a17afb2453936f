--------------------------- MODULE SnapshotRestore ---------------------------
(* Restoring a snapshot over the root of a stack, and resuming a restore that *)
(* a kill interrupted.                                                        *)
(*   orchestrators/snapshot/restore.ts              runRestore                *)
(*   orchestrators/snapshot/interrupted-restore.ts  the sentinel, recovery    *)
(*   orchestrators/snapshot/service.ts              restore                   *)
(*   cli/wirings/up.ts                              beforeInitialAcquire      *)
(* The root is the target of StageAndSwap, its steps are this module's; the   *)
(* snapshots are among the preserved paths (`kept`).  stack.lock makes the    *)
(* restores take turns: one is under way at a time.                           *)
EXTENDS StageAndSwap

CONSTANTS
  Containers,  \* captured containers, each with an image to promote
  Fresh,       \* origin of a root no snapshot made; the image it was built with
  MaxWork, MaxKills, MaxRestores  \* bounds

(* `from`: the snapshot the root was restored from; `work`: what was done in  *)
(* it since; `mark`: the sentinel is in it, and names `from`.                 *)
Body(f, w, m) == [from |-> f, work |-> w, mark |-> m]

ASSUME RestoreAssumption ==
  /\ Fresh \notin Ids
  /\ MaxWork \in Nat /\ MaxKills \in Nat /\ MaxRestores \in Nat
  /\ Bodies = {Body(f, w, m) : f \in Ids \cup {Fresh}, w \in 0 .. MaxWork, m \in BOOLEAN}

VARIABLES
  life,     \* the stack's supervisor
  cause,    \* who restores
  step,     \* where runRestore is; `at` is where its swap is
  staged,   \* containers whose image is under a restore-staging tag
  image,    \* which snapshot's image each target name resolves to
  kills, restores,  \* bounded counters
  unmarked  \* history: a sentinel was not written

outer == <<life, cause, step, staged, image, kills, restores, unmarked>>
vars == <<swapVars, outer>>

TypeOK ==
  /\ SwapTypeOK
  /\ life \in {"down", "booting", "up"}
  /\ cause \in {"operator", "recovery"}
  /\ step \in {"off", "untar", "load", "mark", "marked", "swap", "failed", "clear", "done"}
  /\ staged \subseteq Containers
  /\ image \in [Containers -> Ids \cup {Fresh}]
  /\ kills \in 0 .. MaxKills
  /\ restores \in 0 .. MaxRestores
  /\ unmarked \in BOOLEAN

Init ==
  /\ SwapInit
  /\ target = Tree(Body(Fresh, 0, FALSE), TRUE, TRUE)
  /\ id = CHOOSE i \in Ids : TRUE
  /\ life = "up"
  /\ cause = "operator"
  /\ step = "off"
  /\ staged = {}
  /\ image = [c \in Containers |-> Fresh]
  /\ kills = 0
  /\ restores = 0
  /\ unmarked = FALSE

(* readMeta finds the artifact, which lives under the root.                   *)
Readable == target \in Trees /\ target.kept
Marked == target \in Trees /\ target.body.mark

-----------------------------------------------------------------------------
(* The verb, on a live stack or offline.  A refused check changes nothing.    *)
Begin(i) ==
  /\ life \in {"up", "down"}
  /\ restores < MaxRestores
  /\ Readable
  /\ Enter(i)
  /\ restores' = restores + 1
  /\ step' = "untar"
  /\ cause' = "operator"
  /\ UNCHANGED <<life, staged, image, kills, unmarked>>

(* recoverInterruptedRestore at boot: a sentinel in the root that names a     *)
(* snapshot is resumed; a restore refused by its checks is logged and the     *)
(* boot goes on.                                                              *)
Resume ==
  /\ life = "down"
  /\ Marked
  /\ \/ /\ Readable /\ target.body.from \in Ids
        /\ Enter(target.body.from)
        /\ life' = "booting"
        /\ step' = "untar"
        /\ cause' = "recovery"
     \/ /\ at = "idle"
        /\ CallerFaults \/ (~Readable /\ UNCHANGED swapVars)
        /\ life' = "up"
        /\ UNCHANGED <<step, cause>>
  /\ UNCHANGED <<staged, image, kills, restores, unmarked>>

(* No sentinel: the boot goes on, over a new root if there is none.           *)
Boot ==
  /\ life = "down"
  /\ at = "idle"
  /\ ~Marked
  /\ life' = "up"
  /\ \/ target \in Trees /\ UNCHANGED swapVars
     \/ Found(Body(Fresh, 0, FALSE))
  /\ UNCHANGED <<cause, step, staged, image, kills, restores, unmarked>>

(* restoreHostTree.                                                           *)
Untar ==
  /\ step = "untar"
  /\ Build(Body(id, 0, FALSE))
  /\ step' = "load"
  /\ UNCHANGED <<life, cause, staged, image, kills, restores, unmarked>>

(* loadImageBundle and stageLoadedImage for every captured container.         *)
LoadImages ==
  /\ step = "load"
  /\ step' = "mark"
  /\ staged' = Containers
  /\ UNCHANGED <<swapVars, life, cause, image, kills, restores, unmarked>>

(* Mutant: the sentinel is not part of the staged tree.                       *)
WriteNoMark ==
  /\ step = "mark"
  /\ step' = "marked"
  /\ UNCHANGED <<swapVars, life, cause, staged, image, kills, restores, unmarked>>

(* writeRestoreSentinel: a failing write is logged, the restore goes on.      *)
WriteMark ==
  /\ step = "mark"
  /\ step' = "marked"
  /\ \/ Build(Body(id, 0, TRUE)) /\ UNCHANGED unmarked
     \/ CallerFaults /\ unmarked' = TRUE
  /\ UNCHANGED <<life, cause, staged, image, kills, restores>>

Built ==
  /\ step = "marked"
  /\ step' = "swap"
  /\ BuildEnds
  /\ UNCHANGED <<life, cause, staged, image, kills, restores, unmarked>>

Prepares == Prepare /\ UNCHANGED outer
BuildBreaks == BuildFails /\ UNCHANGED outer
Swap == SwapStep /\ UNCHANGED outer

(* promoteStagedImages takes the images one by one.                           *)
PromoteImage(c) ==
  /\ at = "published" /\ step = "swap"
  /\ c \in staged
  /\ image' = [image EXCEPT ![c] = id]
  /\ staged' = staged \ {c}
  /\ UNCHANGED <<swapVars, life, cause, step, kills, restores, unmarked>>

(* Mutant: the sentinel goes before the images are promoted.                  *)
RemoveEarly ==
  /\ at = "published" /\ step = "swap"
  /\ step' = "clear"
  /\ UNCHANGED <<swapVars, life, cause, staged, image, kills, restores, unmarked>>

RemoveContainers ==
  /\ at = "published" /\ step = "swap"
  /\ staged = {}
  /\ step' = "clear"
  /\ UNCHANGED <<swapVars, life, cause, staged, image, kills, restores, unmarked>>

(* A promote or a removal fails: the restore fails, the root stays swapped.   *)
HandoffFails ==
  /\ at = "published" /\ step = "swap"
  /\ CallerFaults
  /\ step' = "failed"
  /\ UNCHANGED <<life, cause, staged, image, kills, restores, unmarked>>

(* Mutant: the sentinel stays.                                                *)
UnmarkNothing == UNCHANGED swapVars

(* clearRestoreSentinel: best effort.                                         *)
Unmark ==
  \/ Edit(Body(target.body.from, target.body.work, FALSE))
  \/ CallerFaults

Clear ==
  /\ step = "clear"
  /\ step' = "done"
  /\ Unmark
  /\ UNCHANGED <<life, cause, staged, image, kills, restores, unmarked>>

(* recoverInterruptedRestore clears the sentinel once more.                   *)
ClearAgain ==
  /\ step = "done" /\ cause = "recovery" /\ life = "booting"
  /\ Unmark
  /\ life' = "up"
  /\ UNCHANGED <<cause, step, staged, image, kills, restores, unmarked>>

Succeed ==
  /\ step = "done" /\ at = "published"
  /\ cause = "recovery" => life = "up"
  /\ Leave
  /\ step' = "off"
  /\ UNCHANGED <<life, cause, staged, image, kills, restores, unmarked>>

(* Mutant: the finalizer tidies the backup away.                              *)
FailTidily ==
  /\ at = "failed" \/ step = "failed"
  /\ backup' = [backup EXCEPT ![id] = None]
  /\ at' = "idle"
  /\ UNCHANGED <<target, staging, id, had, faults, found, before, meddled, stake>>
  /\ step' = "off"
  /\ staged' = {}
  /\ life' = IF cause = "recovery" THEN "up" ELSE life
  /\ UNCHANGED <<cause, image, kills, restores, unmarked>>

(* The finalizer removes the staged images; a failing recovery is swallowed.  *)
Fail ==
  /\ at = "failed" \/ step = "failed"
  /\ Leave
  /\ step' = "off"
  /\ staged' = {}
  /\ life' = IF cause = "recovery" THEN "up" ELSE life
  /\ UNCHANGED <<cause, image, kills, restores, unmarked>>

-----------------------------------------------------------------------------
(* The stack's plugins and fibers write into the root.  What they still write *)
(* into a root a live restore has just swapped in is not work to keep.        *)
Work ==
  /\ life = "up"
  /\ at \notin {"drop", "dropping", "published"}
  /\ target \in Trees
  /\ target.body.work < MaxWork
  /\ Edit(Body(target.body.from, target.body.work + 1, target.body.mark))
  /\ UNCHANGED outer

Shutdown ==
  /\ life = "up" /\ at = "idle"
  /\ life' = "down"
  /\ UNCHANGED <<swapVars, cause, step, staged, image, kills, restores, unmarked>>

(* SIGKILL or a power failure: no finalizer runs, staging tags are orphaned.  *)
Kill ==
  /\ kills < MaxKills
  /\ life # "down" \/ at # "idle"
  /\ Abort
  /\ kills' = kills + 1
  /\ life' = "down"
  /\ step' = "off"
  /\ staged' = {}
  /\ UNCHANGED <<cause, image, restores, unmarked>>

Trespasses == Trespass /\ UNCHANGED outer

Progress ==
  \/ Untar \/ LoadImages \/ WriteMark \/ Built \/ Prepares \/ BuildBreaks \/ Swap
  \/ \E c \in Containers : PromoteImage(c)
  \/ RemoveContainers \/ HandoffFails \/ Clear \/ ClearAgain \/ Succeed \/ Fail

Next ==
  \/ \E i \in Ids : Begin(i)
  \/ Progress \/ Resume \/ Boot \/ Work \/ Shutdown \/ Kill \/ Trespasses

Spec == Init /\ [][Next]_vars

(* A restore under way goes on; a stack is shut down and booted again and     *)
(* again, which is what its recovery waits for.                               *)
FairSpec ==
  /\ Spec
  /\ WF_vars(Progress) /\ WF_vars(Resume \/ Boot) /\ WF_vars(Shutdown)

-----------------------------------------------------------------------------
(* The root comes from a snapshot whose images are not all promoted.          *)
Torn ==
  /\ target \in Trees /\ target.whole /\ target.body.from # Fresh
  /\ \E c \in Containers : image[c] # target.body.from

(* A half-restored stack carries the breadcrumb that lets a boot resume it,   *)
(* killed, failed or still under way, unless the sentinel could not be written.*)
TornHasBreadcrumb == Torn /\ ~unmarked => target.body.mark

(* Without failing calls, whatever is killed when, a resumed restore replaces *)
(* no root in which the stack worked after the restore it resumes.            *)
RecoveryDiscardsNoWork ==
  [][/\ at = "backup" /\ target # None /\ target' = None
     /\ cause = "recovery" /\ faults = 0
     => target.body.work = 0]_vars

(* What a kill during the removal of a backup, a failing removal or a kill in *)
(* the gap leaves.                                                            *)
LeftoverBackup == \E i \in Ids : at = "idle" /\ ~Vacant(backup[i])

(* A half-restored stack is repaired by a boot, or another restore takes its  *)
(* place; a leftover backup alone may stand in the way.                       *)
TornIsRepaired == Torn /\ Marked ~> ~Torn \/ LeftoverBackup

(* Recovery can be repeated until it succeeds (interrupted-restore.ts:35).    *)
RecoveryIsRepeatable == Torn /\ Marked ~> ~Torn

(* A kill before the swap landed leaves the root untouched                    *)
(* (interrupted-restore.ts:28).                                               *)
KillSparesTheRoot ==
  [][Kill /\ at \in Gap => target' # None]_vars

(* The swap inside a restore is StageAndSwap's.                               *)
ImplementsSwap == SwapSpec
=============================================================================
