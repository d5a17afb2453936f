-------------------------- MODULE SingleSupervisor --------------------------
(* What the roster of a stack promises to its processes: one of them at a     *)
(* time supervises it, from its claim to its release or its death.            *)
CONSTANT Procs

VARIABLE supervisors

Init == supervisors = {}

Become(p) == supervisors = {} /\ supervisors' = {p}

Cease(p) == p \in supervisors /\ supervisors' = supervisors \ {p}

Next == \E p \in Procs : Become(p) \/ Cease(p)

Spec == Init /\ [][Next]_supervisors
=============================================================================
