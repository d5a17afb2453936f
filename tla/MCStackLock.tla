---------------------------- MODULE MCStackLock ----------------------------
(* Three process lives contend; which of them may be killed, or fail to write *)
(* their body, is given by the configuration.                                 *)
EXTENDS StackLock, TLC

Symmetry == Permutations(Ids)
============================================================================
