-------------------------- MODULE MCSnapshotRestore --------------------------
(* Two snapshots, two captured containers.                                    *)
EXTENDS SnapshotRestore

AllBodies == {Body(f, w, m) : f \in Ids \cup {Fresh}, w \in 0 .. MaxWork, m \in BOOLEAN}
==============================================================================
