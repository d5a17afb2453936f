--------------------------- MODULE MCRosterLeases ---------------------------
(* Three parts that share nothing, each on its own: a behaviour is one of one *)
(* of them.  The roster, with three lives of `up` of which r may reuse the    *)
(* pid of p.  The lease broker.  And the dependency graph of three members    *)
(* over four resource ids: all the acyclic shapes of three nodes, self-       *)
(* dependencies, cycles, an id nobody provides and one provided twice.        *)
EXTENDS Roster, LeaseBroker, DepGraph

CONSTANTS p, q, r, c1, c2, c3, c4, o1, o2, m1, m2, m3, r1, r2, r3, r4

VARIABLE which

OnePidReused == {<<p, r>>}
Owners == [c \in {c1, c2, c3, c4} |-> IF c \in {c1, c2} THEN o1 ELSE o2]

(* One provider for each id but the last, or two for one of them: the names   *)
(* of the members and of the ids make no difference.                          *)
Providers ==
  {[m \in Members |-> IF m = m1 THEN r1 ELSE IF m = m2 THEN r2 ELSE last] : last \in {r2, r3}}

(* While another runs the graph waits in one of its initial states.           *)
GraphWaits == id[m3] = r3 /\ dependsOn = [m \in Members |-> {}]

PartInit ==
  /\ which \in {"roster", "lease", "graph"}
  /\ id \in Providers
  /\ Init /\ LeaseInit /\ GraphInit
  /\ which # "graph" => GraphWaits

PartNext ==
  /\ UNCHANGED which
  /\ \/ which = "roster" /\ Next /\ UNCHANGED <<leaseVars, graphVars>>
     \/ which = "lease" /\ LeaseNext /\ UNCHANGED <<vars, graphVars>>
     \/ which = "graph" /\ GraphNext /\ UNCHANGED <<vars, leaseVars>>

PartSpec ==
  /\ PartInit /\ [][PartNext]_<<vars, leaseVars, graphVars, which>>
  /\ Fairness /\ LeaseFairness
=============================================================================
