---------------------------- MODULE StageAndSwap ----------------------------
(* substrate/runtime/stage-and-swap/index.ts: build a tree in a staging       *)
(* directory, rename the target to a backup, rename the staged tree to the    *)
(* target, drop the backup; on a failure rename the backup back.  One caller  *)
(* at a time (the callers hold a lock), killed at any step; other processes   *)
(* may recreate the target's directory while it is away.                      *)
EXTENDS Naturals

CONSTANTS
  Ids,        \* suffixes of the staging and backup names
  Bodies,     \* what a tree can contain
  MaxFaults,  \* bound on failing calls
  None,       \* nothing at the path
  Empty,      \* an empty directory
  Litter      \* a directory that holds leftovers only

(* `kept`: the preserved paths are in the tree; `whole`: all of it is there.  *)
Trees == [body : Bodies, kept : BOOLEAN, whole : BOOLEAN]
Tree(b, k, w) == [body |-> b, kept |-> k, whole |-> w]
Places == Trees \cup {None, Empty, Litter}

ASSUME SwapAssumption ==
  /\ MaxFaults \in Nat /\ Ids # {}
  /\ None \notin Trees /\ Empty \notin Trees /\ Litter \notin Trees
  /\ None # Empty /\ None # Litter /\ Empty # Litter

VARIABLES
  target,   \* what is at targetPath
  staging,  \* what is at each stagingPath
  backup,   \* what is at each backupPath
  at,       \* where the call is
  id,       \* idSuffix of the call
  had,      \* targetExists
  faults,   \* failing calls so far
  found,    \* history: the target when the call began
  before,   \* history: the faults when the call began
  meddled,  \* history: somebody else changed the target since
  stake     \* history: the last tree published at the target, or edited there

swapVars == <<target, staging, backup, at, id, had, faults, found, before, meddled, stake>>

Gap == {"preserve", "promote", "copy", "reap", "putback"}
Points == Gap \cup {"idle", "prepare", "build", "lock", "backup", "drop", "dropping",
                    "published", "failed"}

SwapTypeOK ==
  /\ target \in Places
  /\ staging \in [Ids -> Places]
  /\ backup \in [Ids -> Places]
  /\ at \in Points
  /\ id \in Ids
  /\ had \in BOOLEAN
  /\ faults \in 0 .. MaxFaults
  /\ found \in Places
  /\ before \in 0 .. MaxFaults
  /\ meddled \in BOOLEAN
  /\ stake \in Trees \cup {None}

SwapInit ==
  /\ target \in Trees \cup {None}
  /\ staging = [i \in Ids |-> None]
  /\ backup = [i \in Ids |-> None]
  /\ at = "idle"
  /\ id \in Ids
  /\ had = FALSE
  /\ faults = 0
  /\ found = target
  /\ before = 0
  /\ meddled = FALSE
  /\ stake = target

(* rename() replaces nothing but an empty directory.                          *)
Vacant(p) == p \in {None, Empty}

Ok == UNCHANGED faults
Fault == faults < MaxFaults /\ faults' = faults + 1

-----------------------------------------------------------------------------
Enter(i) ==
  /\ at = "idle"
  /\ at' = "prepare"
  /\ id' = i
  /\ found' = target
  /\ before' = faults
  /\ meddled' = FALSE
  /\ had' = FALSE
  /\ UNCHANGED <<target, staging, backup, faults, stake>>

(* remove(stagingPath), whose failure is ignored, then makeDirectory.         *)
Prepare ==
  /\ at = "prepare"
  /\ \/ Ok /\ at' = "build" /\ staging' = [staging EXCEPT ![id] = Empty]
     \/ /\ ~Vacant(staging[id])
        /\ Fault /\ at' = "build" /\ staging' = [staging EXCEPT ![id] = Litter]
     \/ Fault /\ at' = "failed" /\ staging' = [staging EXCEPT ![id] = None]
  /\ UNCHANGED <<target, backup, id, had, found, before, meddled, stake>>

(* The build writes b into the staging directory, over what is there.         *)
Fill(b) ==
  staging' = [staging EXCEPT ![id] =
    Tree(b, FALSE, @ = Empty \/ (@ \in Trees /\ @.whole))]

Build(b) ==
  /\ at = "build"
  /\ Fill(b)
  /\ UNCHANGED <<target, backup, at, id, had, faults, found, before, meddled, stake>>

BuildEnds ==
  /\ at = "build"
  /\ staging[id] \in Trees
  /\ at' = "lock"
  /\ UNCHANGED <<target, staging, backup, id, had, faults, found, before, meddled, stake>>

(* onError: the staging directory goes, the build's error passes through.     *)
BuildFails ==
  /\ at = "build"
  /\ Fault
  /\ staging' = [staging EXCEPT ![id] = None]
  /\ at' = "failed"
  /\ UNCHANGED <<target, backup, id, had, found, before, meddled, stake>>

(* acquireStackLock(publishLockPath): from here on a failure leaves staging.  *)
Lock ==
  /\ at = "lock"
  /\ \/ Ok /\ at' = "backup"
     \/ Fault /\ at' = "failed"
  /\ UNCHANGED <<target, staging, backup, id, had, found, before, meddled, stake>>

(* rename(target, backup), if there is a target.                              *)
Backup ==
  /\ at = "backup"
  /\ \/ target = None /\ at' = "promote" /\ Ok /\ UNCHANGED <<target, backup, had>>
     \/ /\ target # None /\ Vacant(backup[id])
        /\ at' = "preserve" /\ Ok /\ had' = TRUE
        /\ target' = None /\ backup' = [backup EXCEPT ![id] = target]
     \/ /\ target # None
        /\ \/ ~Vacant(backup[id]) /\ Ok
           \/ Fault
        /\ at' = "failed"
        /\ UNCHANGED <<target, backup, had>>
  /\ UNCHANGED <<staging, id, found, before, meddled, stake>>

(* preserveTargetPaths copies the selected paths of the backup into staging.  *)
Preserve ==
  /\ at = "preserve"
  /\ \/ /\ Ok /\ at' = "promote"
        /\ staging' = [staging EXCEPT ![id] =
              Tree(@.body, backup[id] \in Trees /\ backup[id].kept, @.whole)]
     \/ Fault /\ at' = "reap" /\ UNCHANGED staging
  /\ UNCHANGED <<target, backup, id, had, found, before, meddled, stake>>

(* The staged tree is the target: whose backup is left to drop?               *)
Publish ==
  /\ target' = staging[id]
  /\ stake' = staging[id]
  /\ staging' = [staging EXCEPT ![id] = None]
  /\ at' = IF had THEN "drop" ELSE "published"

(* Mutant: a failed promote does not roll back.                               *)
NoRollback == at' = "failed" /\ UNCHANGED <<target, stake, staging>>

(* Mutant: a failed promote drops the backup as a successful one does.        *)
RollbackDrops ==
  /\ at' = IF had THEN "drop" ELSE "failed"
  /\ UNCHANGED <<target, stake, staging>>

Rollback ==
  /\ at' = IF had THEN "reap" ELSE "failed"
  /\ UNCHANGED <<target, stake, staging>>

(* rename(staging, target): it may fail for what somebody put there, or with  *)
(* EXDEV, where the tree is copied instead and is at the target in part.      *)
Promote ==
  /\ at = "promote"
  /\ \/ Vacant(target) /\ Ok /\ Publish
     \/ ~Vacant(target) /\ Ok /\ Rollback
     \/ Fault /\ Rollback
     \/ /\ Ok /\ at' = "copy"
        /\ target' = Tree(staging[id].body, staging[id].kept, FALSE)
        /\ UNCHANGED <<stake, staging>>
  /\ UNCHANGED <<backup, id, had, found, before, meddled>>

Copy ==
  /\ at = "copy"
  /\ \/ Ok /\ Publish
     \/ Fault /\ Rollback
  /\ UNCHANGED <<backup, id, had, found, before, meddled>>

(* restoreBackupRename: remove what is at the target, a failure is ignored... *)
Reap ==
  /\ at = "reap"
  /\ at' = "putback"
  /\ \/ Ok /\ target' = None
     \/ Fault /\ UNCHANGED target
  /\ UNCHANGED <<staging, backup, id, had, found, before, meddled, stake>>

(* ...and rename(backup, target), whose failure is logged and swallowed.      *)
PutBack ==
  /\ at = "putback"
  /\ at' = "failed"
  /\ \/ /\ Vacant(target) /\ Ok
        /\ target' = backup[id] /\ backup' = [backup EXCEPT ![id] = None]
     \/ ~Vacant(target) /\ Ok /\ UNCHANGED <<target, backup>>
     \/ Fault /\ UNCHANGED <<target, backup>>
  /\ UNCHANGED <<staging, id, had, found, before, meddled, stake>>

(* remove(backup): file by file, and a failure is ignored.                    *)
Drop ==
  /\ at = "drop"
  /\ at' = "dropping"
  /\ backup' = [backup EXCEPT ![id] = Litter]
  /\ UNCHANGED <<target, staging, id, had, faults, found, before, meddled, stake>>

DropEnds ==
  /\ at = "dropping"
  /\ at' = "published"
  /\ \/ Ok /\ backup' = [backup EXCEPT ![id] = None]
     \/ Fault /\ UNCHANGED backup
  /\ UNCHANGED <<target, staging, id, had, found, before, meddled, stake>>

Leave ==
  /\ at \in {"published", "failed"}
  /\ at' = "idle"
  /\ UNCHANGED <<target, staging, backup, id, had, faults, found, before, meddled, stake>>

(* A call the caller makes for itself fails.                                  *)
CallerFaults ==
  /\ Fault
  /\ UNCHANGED <<target, staging, backup, at, id, had, found, before, meddled, stake>>

-----------------------------------------------------------------------------
(* The process is killed.                                                     *)
Abort ==
  /\ at' = "idle"
  /\ UNCHANGED <<target, staging, backup, id, had, faults, found, before, meddled, stake>>

(* The target's users write into it.  Paths that are away are Litter's case.  *)
Edit(b) ==
  /\ at \notin Gap
  /\ target \in Trees
  /\ target' = Tree(b, target.kept, target.whole)
  /\ stake' = target'
  /\ meddled' = TRUE
  /\ UNCHANGED <<staging, backup, at, id, had, faults, found, before>>

(* A peer's mkdir -p of a path in the target (stack-lock.ts:116), and its     *)
(* file: the bound on faults counts them too.                                 *)
Trespass ==
  /\ at \in Gap
  /\ Fault
  /\ \/ target = None /\ target' \in {Empty, Litter}
     \/ target = Empty /\ target' = Litter
  /\ meddled' = TRUE
  /\ UNCHANGED <<staging, backup, at, id, had, found, before, stake>>

(* A user of the target that finds no tree starts one.                        *)
Found(b) ==
  /\ at = "idle"
  /\ target \notin Trees
  /\ target' = Tree(b, FALSE, TRUE)
  /\ UNCHANGED <<staging, backup, at, id, had, faults, found, before, meddled, stake>>

SwapStep ==
  \/ Lock \/ Backup \/ Preserve \/ Promote \/ Copy \/ Reap \/ PutBack
  \/ Drop \/ DropEnds

SwapNext ==
  \/ \E i \in Ids : Enter(i)
  \/ Prepare \/ BuildFails \/ BuildEnds \/ SwapStep \/ Leave \/ Abort
  \/ Trespass \/ CallerFaults
  \/ \E b \in Bodies : Build(b) \/ Found(b) \/ Edit(b)

SwapSpec == SwapInit /\ [][SwapNext]_swapVars

-----------------------------------------------------------------------------
(* Whatever fails, is killed or meddles, the last tree published or edited is *)
(* whole at the target or under a backup name.                                *)
Kept(t) == target = t \/ \E i \in Ids : backup[i] = t
StakeSurvives == stake # None => Kept(stake)

(* Contract item 5: a call that fails on one fault leaves the target it found *)
(* (two faults are a failing rollback, which the code swallows; a peer's      *)
(* directory may block the rollback too).  It speaks of the target only.      *)
FailureRestores ==
  at = "failed" /\ ~meddled /\ faults <= before + 1 /\ found # None
    => target = found

(* The other half of item 5, "On any failure the staging directory is removed"*)
(* (stage-and-swap/index.ts:19): when one fault made the call fail.  No run   *)
(* checks it: it does not hold, as only a failing build removes it.           *)
FailureRemovesStaging ==
  at = "failed" /\ ~meddled /\ faults = before + 1 => staging[id] = None

(* Why StakeSurvives is inductive: in the gap a backup holds the stake, and   *)
(* the backup that is dropped is not needed.                                  *)
SwapInv ==
  /\ SwapTypeOK
  /\ StakeSurvives
  /\ at \in Gap /\ stake # None => \E i \in Ids : backup[i] = stake
  /\ at \in {"drop", "dropping"} => target = stake
  /\ at \in {"lock", "backup", "preserve", "promote", "copy"} => staging[id] \in Trees

(* Why FailureRestores is: until the swap the target is what the call found,  *)
(* in the gap its backup is, and only a fault leads to the rollback.          *)
RollbackInv ==
  /\ before <= faults
  /\ at \in {"preserve", "reap", "putback"} => had
  /\ at \in {"prepare", "build", "lock", "backup"} => ~had
  /\ ~meddled =>
       /\ at \in {"prepare", "build", "lock", "backup"} => target = found
       /\ at \in {"preserve", "promote"} => target = None
       /\ at \in Gap => IF had THEN backup[id] = found ELSE found = None
       /\ at \in {"reap", "putback"} => faults > before
       /\ at = "putback" /\ faults <= before + 1 => target = None
       /\ FailureRestores
=============================================================================
