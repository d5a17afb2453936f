------------------------------ MODULE DepGraph ------------------------------
(* How the member tuple of a stack becomes the graph the supervisor runs:     *)
(*   lifecycle/dep-graph.ts   resolveGraph (provider index, links, Kahn's     *)
(*                            levels), downstreamClosure, orderByLevel        *)
(* A member is known by its position; `id` is the resource it provides.       *)
EXTENDS Integers, Sequences, FiniteSets

CONSTANTS
  Members,  \* the members of the tuple: each gets its own plugin key
  Ids,      \* resource ids
  NoRoot

ASSUME GraphAssumption == IsFiniteSet(Members) /\ NoRoot \notin Members

VARIABLES
  id,         \* member.id
  dependsOn,  \* the ids of member.dependsOn
  phase,      \* the step of resolveGraph, or how it ended
  up,         \* upstreamKeys
  indegree,
  levels,     \* the peeled layers, in order
  root,       \* the root whose downstream closure is computed
  closure,
  queue       \* the keys whose children the walk has still to visit

graphVars == <<id, dependsOn, phase, up, indegree, levels, root, closure, queue>>

Phases == {"index", "link", "peel", "resolved", "walk", "walked",
           "duplicate", "unresolved", "cycle"}

GraphTypeOK ==
  /\ id \in [Members -> Ids]
  /\ dependsOn \in [Members -> SUBSET Ids]
  /\ phase \in Phases
  /\ up \in [Members -> SUBSET Members]
  /\ indegree \in [Members -> Int]
  /\ levels \in Seq(SUBSET Members)
  /\ root \in Members \cup {NoRoot}
  /\ closure \subseteq Members
  /\ queue \subseteq Members

GraphInit ==
  /\ id \in [Members -> Ids]
  /\ dependsOn \in [Members -> SUBSET Ids]
  /\ phase = "index"
  /\ up = [m \in Members |-> {}]
  /\ indegree = [m \in Members |-> 0]
  /\ levels = <<>>
  /\ root = NoRoot
  /\ closure = {}
  /\ queue = {}

Downstream(m) == {n \in Members : m \in up[n]}

-----------------------------------------------------------------------------
(* The provider index; the second member of an id fails the resolution.       *)
Index ==
  /\ phase = "index"
  /\ phase' = IF \E m, n \in Members : m # n /\ id[m] = id[n]
                THEN "duplicate" ELSE "link"
  /\ UNCHANGED <<id, dependsOn, up, indegree, levels, root, closure, queue>>

(* Mutant: a member that depends on itself gets no edge.                      *)
LinkOthers ==
  /\ phase = "link"
  /\ IF \E m \in Members : \E r \in dependsOn[m] : \A n \in Members : id[n] # r
       THEN /\ phase' = "unresolved"
            /\ UNCHANGED <<up, indegree>>
       ELSE /\ phase' = "peel"
            /\ up' = [m \in Members |-> {n \in Members \ {m} : id[n] \in dependsOn[m]}]
            /\ indegree' = [m \in Members |-> Cardinality(dependsOn[m] \ {id[m]})]
  /\ UNCHANGED <<id, dependsOn, levels, root, closure, queue>>

(* Each unique dependency becomes an edge and one unit of indegree.           *)
Link ==
  /\ phase = "link"
  /\ IF \E m \in Members : \E r \in dependsOn[m] : \A n \in Members : id[n] # r
       THEN /\ phase' = "unresolved"
            /\ UNCHANGED <<up, indegree>>
       ELSE /\ phase' = "peel"
            /\ up' = [m \in Members |-> {n \in Members : id[n] \in dependsOn[m]}]
            /\ indegree' = [m \in Members |-> Cardinality(dependsOn[m])]
  /\ UNCHANGED <<id, dependsOn, levels, root, closure, queue>>

Settled == UNION {levels[i] : i \in DOMAIN levels}

(* Mutant: one dependency may still be missing.                               *)
LooseLayer == {m \in Members \ Settled : indegree[m] <= 1}

(* The nodes all of whose dependencies are settled.                           *)
Layer == {m \in Members \ Settled : indegree[m] = 0}

(* One turn of Kahn's loop.                                                   *)
Peel ==
  /\ phase = "peel"
  /\ Settled # Members
  /\ Layer # {}
  /\ levels' = Append(levels, Layer)
  /\ indegree' = [m \in Members |-> indegree[m] - Cardinality(up[m] \cap Layer)]
  /\ UNCHANGED <<id, dependsOn, phase, up, root, closure, queue>>

(* Nothing to peel: what is left is trapped by a cycle.                       *)
Trap ==
  /\ phase = "peel"
  /\ Settled # Members
  /\ Layer = {}
  /\ phase' = "cycle"
  /\ UNCHANGED <<id, dependsOn, up, indegree, levels, root, closure, queue>>

Resolve ==
  /\ phase = "peel"
  /\ Settled = Members
  /\ phase' = "resolved"
  /\ UNCHANGED <<id, dependsOn, up, indegree, levels, root, closure, queue>>

(* downstreamClosure(graph, r).                                               *)
StartWalk(r) ==
  /\ phase = "resolved"
  /\ phase' = "walk"
  /\ root' = r
  /\ closure' = {r}
  /\ queue' = {r}
  /\ UNCHANGED <<id, dependsOn, up, indegree, levels>>

(* Mutant: the children are taken, not theirs.                                *)
VisitChildrenOnly(m) ==
  /\ phase = "walk"
  /\ m \in queue
  /\ closure' = closure \cup Downstream(m)
  /\ queue' = queue \ {m}
  /\ UNCHANGED <<id, dependsOn, phase, up, indegree, levels, root>>

(* The order of the queue does not matter: any key of it may come next.       *)
Visit(m) ==
  /\ phase = "walk"
  /\ m \in queue
  /\ closure' = closure \cup Downstream(m)
  /\ queue' = (queue \ {m}) \cup (Downstream(m) \ closure)
  /\ UNCHANGED <<id, dependsOn, phase, up, indegree, levels, root>>

EndWalk ==
  /\ phase = "walk"
  /\ queue = {}
  /\ phase' = "walked"
  /\ UNCHANGED <<id, dependsOn, up, indegree, levels, root, closure, queue>>

GraphNext ==
  \/ Index \/ Link \/ Peel \/ Trap \/ Resolve
  \/ \E m \in Members : StartWalk(m) \/ Visit(m)
  \/ EndWalk

GraphSpec == GraphInit /\ [][GraphNext]_graphVars

-----------------------------------------------------------------------------
(* Reference: reachability along the declared dependencies. n comes after m   *)
(* when it is in every set that has what depends on m and, with a member,     *)
(* what depends on that one.                                                  *)
Provides(n, m) == id[n] \in dependsOn[m]

Dependents(m) == {n \in Members : Provides(m, n)}

Before(m, n) ==
  \A s \in SUBSET Members :
    Dependents(m) \subseteq s /\ (\A k \in s : Dependents(k) \subseteq s) => n \in s

LevelOf(m) == CHOOSE i \in DOMAIN levels : m \in levels[i]

(* A resolved graph puts every node in one level, strictly above all it       *)
(* depends on, directly or not, and no higher than it must: the scheduler may *)
(* run a level in parallel and waits for nothing it does not need             *)
(* (ResolvedGraph's comment).                                                 *)
LevelsAreTight ==
  phase \in {"resolved", "walk", "walked"} =>
    /\ Settled = Members
    /\ \A i, j \in DOMAIN levels : i # j => levels[i] \cap levels[j] = {}
    /\ \A m, n \in Members : Before(m, n) => LevelOf(m) < LevelOf(n)
    /\ \A n \in Members : LevelOf(n) > 1 =>
         \E m \in Members : Provides(m, n) /\ LevelOf(m) = LevelOf(n) - 1

(* The cycle error comes exactly for the cyclic tuples, and the keys it names *)
(* include every member of every cycle.                                       *)
CycleIsReported ==
  /\ phase = "cycle" => \E m \in Members \ Settled : Before(m, m)
  /\ phase \in {"peel", "cycle", "resolved"} =>
       \A m \in Members : Before(m, m) => m \notin Settled
  /\ phase = "resolved" => \A m \in Members : ~Before(m, m)

(* The restart slice of a root is the root and all that depends on it,        *)
(* however far (Selective restart cascading, selective-restart.ts).           *)
SliceIsDownstream ==
  phase = "walked" =>
    closure = {root} \cup {m \in Members : Before(root, m)}
=============================================================================
