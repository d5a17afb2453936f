---------------------------- MODULE MCSupervisor ----------------------------
(* Chain: a <- b <- c, a slice with something above it and something below.   *)
(* Join: b needs a and the keep-alive c.  Pair: a <- b, where room is needed  *)
(* for defects and late failures.                                             *)
EXTENDS Supervisor

CONSTANTS a, b, c

Chain == [k \in {a, b, c} |-> CASE k = a -> {} [] k = b -> {a} [] k = c -> {b}]
ChainLevel == [k \in {a, b, c} |-> CASE k = a -> 0 [] k = b -> 1 [] k = c -> 2]

Cmd(tag, submitted) == [tag |-> tag, key |-> None, submitted |-> submitted]
RestartOf(k) == [tag |-> "selective", key |-> k, submitted |-> FALSE]

Pair == [k \in {a, b} |-> IF k = b THEN {a} ELSE {}]
PairLevel == [k \in {a, b} |-> IF k = b THEN 1 ELSE 0]

Join == [k \in {a, b, c} |-> IF k = b THEN {a, c} ELSE {}]
JoinLevel == [k \in {a, b, c} |-> IF k = b THEN 1 ELSE 0]

RestartCommands == {RestartOf(a), RestartOf(b), Cmd("restart", TRUE), Cmd("shutdown", FALSE)}
SnapshotCommands == {Cmd("capture", TRUE), Cmd("restore", TRUE), Cmd("capture", FALSE),
                     RestartOf(a), Cmd("shutdown", TRUE)}
ChaosCommands == {Cmd("apply", TRUE), RestartOf(b), Cmd("restart", FALSE), Cmd("hardkill", FALSE)}
RestoreCommands == {Cmd("restore", TRUE)}
=============================================================================
