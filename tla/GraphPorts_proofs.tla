-------------------------- MODULE GraphPorts_proofs --------------------------
(* The proofs of two modules that share nothing. The dependency graph: levels *)
(* are in order and tight, cycles are reported, slices are the downstream     *)
(* closure, for any members and ids. The port broker: a port that was given   *)
(* out stays reserved and nothing is reserved that nobody has, for any        *)
(* allocations, processes and kills.                                          *)
EXTENDS DepGraph, PortBroker, FiniteSetTheorems, WellFoundedInduction, TLAPS

-----------------------------------------------------------------------------
(* DepGraph: the phases after the links, and after the loop ended well.       *)
Resolved == {"resolved", "walk", "walked"}
Linked == {"peel", "cycle"} \cup Resolved

(* The index found no resource id twice; the links follow the ids.            *)
LinkInv ==
  /\ phase \in {"link", "unresolved"} \cup Linked =>
       \A m, n \in Members : m # n => id[m] # id[n]
  /\ phase \in Linked => up = [m \in Members |-> {n \in Members : id[n] \in dependsOn[m]}]
  /\ phase \in {"index", "link"} => levels = <<>>

(* A member's indegree counts the upstreams that are not settled yet.         *)
CountInv ==
  phase \in {"peel", "cycle"} =>
    \A m \in Members : indegree[m] = Cardinality(up[m] \ Settled)

(* The levels share no member; what a member needs is in the levels before    *)
(* its own, and something it needs is in the one right before.                *)
LayerInv ==
  /\ \A i, j \in DOMAIN levels : i # j => levels[i] \cap levels[j] = {}
  /\ \A i \in DOMAIN levels : \A n \in levels[i] :
       /\ \A m \in up[n] : \E j \in 1 .. i - 1 : m \in levels[j]
       /\ i > 1 => \E m \in up[n] : m \in levels[i - 1]

(* Who waits misses an upstream, or has one in the level peeled last.         *)
WaitInv ==
  phase = "peel" /\ levels # <<>> =>
    \A n \in Members \ Settled :
      \E m \in up[n] : m \notin Settled \/ m \in levels[Len(levels)]

(* How the loop ended: everybody settled, or everybody left misses somebody.  *)
EndInv ==
  /\ phase \in Resolved => Settled = Members
  /\ phase = "cycle" =>
       Settled # Members /\ \A n \in Members \ Settled : up[n] \ Settled # {}

Closed(s) == \A k \in s : Downstream(k) \subseteq s

(* The walk has the root, nothing it need not have, and the dependents of     *)
(* what it has visited.                                                       *)
WalkInv ==
  /\ phase \in {"walk", "walked"} =>
       /\ root \in closure /\ queue \subseteq closure
       /\ \A m \in closure \ queue : Downstream(m) \subseteq closure
       /\ \A s \in SUBSET Members : root \in s /\ Closed(s) => closure \subseteq s
  /\ phase = "walked" => queue = {}

GraphInv == GraphTypeOK /\ LinkInv /\ CountInv /\ LayerInv /\ WaitInv /\ EndInv /\ WalkInv

(* Adding a level at the end leaves the others where they are.                *)
LEMMA LevelAdded ==
  ASSUME levels \in Seq(SUBSET Members), NEW new \in SUBSET Members,
         levels' = Append(levels, new)
  PROVE  /\ levels' \in Seq(SUBSET Members) /\ Len(levels) \in Nat
         /\ DOMAIN levels = 1 .. Len(levels) /\ Len(levels') = Len(levels) + 1
         /\ DOMAIN levels' = 1 .. Len(levels) + 1
         /\ \A i \in 1 .. Len(levels) : levels'[i] = levels[i]
         /\ levels'[Len(levels) + 1] = new
         /\ Settled' = Settled \cup new
<1>1. /\ levels' \in Seq(SUBSET Members) /\ Len(levels) \in Nat
      /\ DOMAIN levels = 1 .. Len(levels) /\ Len(levels') = Len(levels) + 1
      /\ DOMAIN levels' = 1 .. Len(levels) + 1
      /\ \A i \in 1 .. Len(levels) : levels'[i] = levels[i]
      /\ levels'[Len(levels) + 1] = new
  OBVIOUS
<1>2. Settled' = Settled \cup new
  <2>1. \A m : m \in Settled' <=> \E i \in 1 .. Len(levels) + 1 : m \in levels'[i]
    BY <1>1 DEF Settled
  <2>2. \A m : m \in Settled <=> \E i \in 1 .. Len(levels) : m \in levels[i]
    BY <1>1 DEF Settled
  <2>3. \A m : m \in Settled' <=> m \in Settled \/ m \in new
    <3>1. ASSUME NEW m, m \in Settled'
          PROVE  m \in Settled \/ m \in new
      <4>1. PICK i \in 1 .. Len(levels) + 1 : m \in levels'[i]
        BY <2>1, <3>1
      <4>2. i \in 1 .. Len(levels) \/ i = Len(levels) + 1
        BY <1>1
      <4> QED
        BY <1>1, <2>2, <4>1, <4>2
    <3>2. ASSUME NEW m, m \in Settled
          PROVE  m \in Settled'
      <4>1. PICK i \in 1 .. Len(levels) : m \in levels[i]
        BY <2>2, <3>2
      <4>2. i \in 1 .. Len(levels) + 1 /\ m \in levels'[i]
        BY <1>1, <4>1
      <4> QED
        BY <2>1, <4>2
    <3>3. \A m : m \in new => m \in Settled'
      <4>1. Len(levels) + 1 \in 1 .. Len(levels) + 1
        BY <1>1
      <4> QED
        BY <1>1, <2>1, <4>1
    <3> QED
      BY <3>1, <3>2, <3>3
  <2> QED
    BY <2>3
<1> QED
  BY <1>1, <1>2

LEMMA InLevel ==
  ASSUME GraphTypeOK
  PROVE  /\ \A m \in Settled : \E i \in DOMAIN levels : m \in levels[i]
         /\ \A i \in DOMAIN levels : levels[i] \subseteq Settled
         /\ Settled \subseteq Members
BY DEF GraphTypeOK, Settled

(* The dependencies of a member are as many as its upstreams: each is found,  *)
(* and by one member only.                                                    *)
LEMMA LinksCount ==
  ASSUME GraphAssumption, NEW m \in Members, NEW s \in SUBSET Members,
         id \in [Members -> Ids],
         \A a, b \in Members : a # b => id[a] # id[b],
         \A r \in dependsOn[m] : \E n \in Members : id[n] = r,
         s = {n \in Members : id[n] \in dependsOn[m]}
  PROVE  IsFiniteSet(s) /\ Cardinality(dependsOn[m]) = Cardinality(s)
<1> DEFINE f == [n \in s |-> id[n]]
<1>1. IsFiniteSet(s)
  BY FS_Subset DEF GraphAssumption
<1>2. f \in Bijection(s, dependsOn[m])
  <2>1. f \in [s -> dependsOn[m]]
    OBVIOUS
  <2>2. \A a, b \in s : f[a] = f[b] => a = b
    OBVIOUS
  <2>3. \A r \in dependsOn[m] : \E n \in s : f[n] = r
    OBVIOUS
  <2> HIDE DEF f
  <2> QED
    BY <2>1, <2>2, <2>3 DEF Bijection, Injection, Surjection, IsInjective
<1>3. ExistsBijection(s, dependsOn[m])
  BY <1>2 DEF ExistsBijection
<1> QED
  BY <1>1, <1>3, FS_Bijection

(* Peeling a layer takes from a member what the layer settles of its needs.   *)
LEMMA PeelCounts ==
  ASSUME GraphAssumption, NEW u \in SUBSET Members,
         NEW old \in SUBSET Members, NEW new \in SUBSET Members, new \cap old = {}
  PROVE  /\ Cardinality(u \ (old \cup new)) = Cardinality(u \ old) - Cardinality(u \cap new)
         /\ Cardinality(u \ old) \in Nat
         /\ Cardinality(u \ old) = 0 <=> u \subseteq old
<1>1. IsFiniteSet(u \ old)
  BY FS_Subset DEF GraphAssumption
<1>2. (u \ old) \ new = u \ (old \cup new) /\ (u \ old) \cap new = u \cap new
  OBVIOUS
<1>3. Cardinality((u \ old) \ new) = Cardinality(u \ old) - Cardinality((u \ old) \cap new)
  BY <1>1, FS_Difference
<1>4. Cardinality(u \ old) \in Nat
  BY <1>1, FS_CardinalityType
<1>5. Cardinality(u \ old) = 0 <=> u \ old = {}
  BY <1>1, FS_EmptySet
<1> QED
  BY <1>2, <1>3, <1>4, <1>5

LEMMA GraphInvInit ==
  ASSUME GraphAssumption, GraphInit
  PROVE  GraphInv
<1>1. levels = <<>> /\ phase = "index" /\ DOMAIN levels = {}
  BY DEF GraphInit
<1>2. GraphTypeOK
  BY <1>1 DEF GraphInit, GraphTypeOK, Phases
<1> QED
  BY <1>1, <1>2 DEF GraphInv, LinkInv, CountInv, LayerInv, WaitInv, EndInv, WalkInv, Linked,
     Resolved

LEMMA LinkKeeps ==
  ASSUME GraphAssumption, GraphInv, Link
  PROVE  GraphInv'
<1>1. GraphTypeOK /\ levels = <<>> /\ Settled = {} /\ DOMAIN levels = {}
  BY DEF GraphInv, LinkInv, Link, Settled
<1>2. \A m, n \in Members : m # n => id[m] # id[n]
  BY DEF GraphInv, LinkInv, Link
<1>3. CASE phase' = "unresolved"
  <2>1. UNCHANGED <<id, dependsOn, up, indegree, levels, root, closure, queue>>
    BY <1>3 DEF Link
  <2>2. GraphTypeOK'
    BY <1>1, <1>3, <2>1 DEF GraphTypeOK, Phases
  <2> QED
    BY <1>1, <1>2, <1>3, <2>1, <2>2 DEF GraphInv, LinkInv, CountInv, LayerInv, WaitInv, EndInv,
       WalkInv, Linked, Resolved
<1>4. CASE phase' # "unresolved"
  <2>1. /\ \A m \in Members : \A r \in dependsOn[m] : \E n \in Members : id[n] = r
        /\ phase' = "peel"
        /\ up' = [m \in Members |-> {n \in Members : id[n] \in dependsOn[m]}]
        /\ indegree' = [m \in Members |-> Cardinality(dependsOn[m])]
        /\ UNCHANGED <<id, dependsOn, levels, root, closure, queue>>
    BY <1>4 DEF Link
  <2>2. ASSUME NEW m \in Members
        PROVE  indegree'[m] = Cardinality(up'[m]) /\ indegree'[m] \in Int
    <3>1. IsFiniteSet(up'[m]) /\ Cardinality(dependsOn[m]) = Cardinality(up'[m])
      BY <1>1, <1>2, <2>1, LinksCount DEF GraphTypeOK
    <3> QED
      BY <2>1, <3>1, FS_CardinalityType
  <2>3. GraphTypeOK'
    <3>1. indegree' \in [Members -> Int]
      BY <2>1, <2>2
    <3> QED
      BY <1>1, <2>1, <3>1 DEF GraphTypeOK, Phases
  <2>4. Settled' = {} /\ DOMAIN levels' = {}
    BY <1>1, <2>1 DEF Settled
  <2>5. CountInv'
    <3>1. \A m \in Members : up'[m] \ Settled' = up'[m]
      BY <2>4
    <3> QED
      BY <2>2, <3>1 DEF CountInv
  <2>6. LinkInv'
    BY <1>2, <2>1 DEF LinkInv
  <2> QED
    BY <1>1, <2>1, <2>3, <2>4, <2>5, <2>6 DEF GraphInv, LayerInv, WaitInv, EndInv, WalkInv,
       Resolved
<1> QED
  BY <1>3, <1>4

LEMMA PeelKeeps ==
  ASSUME GraphAssumption, GraphInv, Peel
  PROVE  GraphInv'
<1> DEFINE N == Len(levels)
<1>1. /\ GraphTypeOK /\ phase = "peel" /\ levels' = Append(levels, Layer)
      /\ indegree' = [m \in Members |-> indegree[m] - Cardinality(up[m] \cap Layer)]
      /\ UNCHANGED <<id, dependsOn, phase, up, root, closure, queue>>
  BY DEF GraphInv, Peel
<1>2. Layer \subseteq Members /\ Layer \cap Settled = {} /\ Layer # {}
  BY DEF Layer, Peel
<1>3. /\ levels' \in Seq(SUBSET Members) /\ N \in Nat
      /\ DOMAIN levels = 1 .. N /\ Len(levels') = N + 1 /\ DOMAIN levels' = 1 .. N + 1
      /\ \A i \in 1 .. N : levels'[i] = levels[i]
      /\ levels'[N + 1] = Layer /\ Settled' = Settled \cup Layer
  BY <1>1, <1>2, LevelAdded DEF GraphTypeOK
<1>4. ASSUME NEW m \in Members
      PROVE  /\ indegree[m] = 0 <=> up[m] \subseteq Settled
             /\ indegree'[m] = Cardinality(up[m] \ Settled') /\ indegree'[m] \in Int
  <2>1. up[m] \in SUBSET Members /\ indegree[m] = Cardinality(up[m] \ Settled)
    BY <1>1 DEF GraphTypeOK, GraphInv, CountInv
  <2>2. /\ Cardinality(up[m] \ (Settled \cup Layer))
             = Cardinality(up[m] \ Settled) - Cardinality(up[m] \cap Layer)
        /\ Cardinality(up[m] \ Settled) = 0 <=> up[m] \subseteq Settled
    <3>1. Layer \cap Settled = {} /\ Layer \in SUBSET Members /\ Settled \in SUBSET Members
      BY <1>1, <1>2, InLevel
    <3> DEFINE u == up[m]
               old == Settled
               new == Layer
    <3>2. u \in SUBSET Members /\ old \in SUBSET Members /\ new \in SUBSET Members
          /\ new \cap old = {}
      BY <2>1, <3>1
    <3> HIDE DEF u, old, new
    <3>3. /\ Cardinality(u \ (old \cup new)) = Cardinality(u \ old) - Cardinality(u \cap new)
          /\ Cardinality(u \ old) = 0 <=> u \subseteq old
      BY <3>2, PeelCounts
    <3> QED
      BY <3>3 DEF u, old, new
  <2>3. Cardinality(up[m] \cap Layer) \in Nat
    <3>1. IsFiniteSet(up[m] \cap Layer)
      BY <2>1, FS_Subset DEF GraphAssumption
    <3> QED
      BY <3>1, FS_CardinalityType
  <2>4. indegree[m] \in Int
    BY <1>1 DEF GraphTypeOK
  <2> QED
    BY <1>1, <1>3, <2>1, <2>2, <2>3, <2>4
<1> HIDE DEF N
<1>5. GraphTypeOK'
  <2>1. indegree' \in [Members -> Int]
    BY <1>1, <1>4
  <2> QED
    BY <1>1, <1>3, <2>1 DEF GraphTypeOK
<1>6. CountInv'
  BY <1>1, <1>4 DEF CountInv
<1>7. \A m \in Members : m \in Layer <=> m \notin Settled /\ up[m] \subseteq Settled
  BY <1>4 DEF Layer
<1>8. LayerInv'
  <2>1. \A i \in 1 .. N : levels[i] \subseteq Settled
    BY <1>1, <1>3, InLevel
  <2>2. \A i, j \in 1 .. N + 1 : i # j => levels'[i] \cap levels'[j] = {}
    <3>1. \A i, j \in 1 .. N : i # j => levels[i] \cap levels[j] = {}
      BY <1>3 DEF GraphInv, LayerInv
    <3>2. \A i \in 1 .. N : levels[i] \cap Layer = {}
      BY <1>2, <2>1
    <3>3. \A i \in 1 .. N + 1 : i \in 1 .. N \/ i = N + 1
      BY <1>3
    <3> QED
      BY <1>3, <3>1, <3>2, <3>3
  <2>3. ASSUME NEW i \in 1 .. N + 1, NEW n \in levels'[i]
        PROVE  /\ \A m \in up'[n] : \E j \in 1 .. i - 1 : m \in levels'[j]
               /\ i > 1 => \E m \in up'[n] : m \in levels'[i - 1]
    <3>1. CASE i \in 1 .. N
      <4>1. i \in DOMAIN levels /\ n \in levels[i]
        BY <1>3, <2>3, <3>1
      <4>2. /\ \A m \in up[n] : \E j \in 1 .. i - 1 : m \in levels[j]
            /\ i > 1 => \E m \in up[n] : m \in levels[i - 1]
        BY <4>1 DEF GraphInv, LayerInv
      <4>3. \A j \in 1 .. i - 1 : levels'[j] = levels[j]
        BY <1>3, <3>1
      <4>4. i > 1 => i - 1 \in 1 .. i - 1
        BY <1>3, <3>1
      <4> QED
        BY <1>1, <4>2, <4>3, <4>4
    <3>2. CASE i = N + 1
      <4>1. n \in Members /\ n \notin Settled /\ up[n] \subseteq Settled
        BY <1>2, <1>3, <1>7, <2>3, <3>2
      <4>2. \A m \in up[n] : \E j \in 1 .. N : m \in levels[j]
        BY <1>1, <1>3, <4>1, InLevel
      <4>3. i > 1 => \E m \in up[n] : m \in levels[N]
        <5>1. SUFFICES ASSUME N > 0 PROVE \E m \in up[n] : m \in levels[N]
          BY <1>3, <3>2
        <5>2. levels # <<>>
          BY <5>1 DEF N
        <5> QED
          BY <1>1, <4>1, <5>2 DEF GraphInv, WaitInv, N
      <4>4. i - 1 = N /\ (N > 0 => N \in 1 .. N)
        BY <1>3, <3>2
      <4> QED
        BY <1>1, <1>3, <3>2, <4>2, <4>3, <4>4
    <3> QED
      BY <1>3, <3>1, <3>2
  <2> QED
    BY <1>3, <2>2, <2>3 DEF LayerInv
<1>9. WaitInv'
  <2> SUFFICES ASSUME NEW n \in Members, n \notin Settled'
               PROVE  \E m \in up[n] : m \notin Settled' \/ m \in levels'[N + 1]
    BY <1>1, <1>3 DEF WaitInv
  <2>1. n \notin Settled /\ n \notin Layer
    BY <1>3
  <2>2. PICK m \in up[n] : m \notin Settled
    BY <1>7, <2>1
  <2> QED
    BY <1>3, <2>2
<1>10. LinkInv' /\ EndInv' /\ WalkInv'
  BY <1>1 DEF GraphInv, LinkInv, EndInv, WalkInv, Linked, Resolved
<1> QED
  BY <1>5, <1>6, <1>8, <1>9, <1>10 DEF GraphInv

(* What is left when nothing can be peeled misses something of what is left.  *)
LEMMA TrapKeeps ==
  ASSUME GraphAssumption, GraphInv, Trap
  PROVE  GraphInv'
<1>1. /\ GraphTypeOK /\ phase = "peel" /\ phase' = "cycle" /\ Layer = {} /\ Settled # Members
      /\ UNCHANGED <<id, dependsOn, up, indegree, levels, root, closure, queue>>
  BY DEF GraphInv, Trap
<1>2. Settled' = Settled
  BY <1>1 DEF Settled
<1>3. ASSUME NEW n \in Members \ Settled
      PROVE  up[n] \ Settled # {}
  <2>1. indegree[n] = Cardinality(up[n] \ Settled) /\ indegree[n] # 0
    BY <1>1, <1>3 DEF GraphInv, CountInv, Layer
  <2> QED
    BY <2>1, FS_EmptySet
<1>4. GraphTypeOK'
  BY <1>1 DEF GraphTypeOK, Phases
<1>5. EndInv'
  BY <1>1, <1>2, <1>3 DEF EndInv, Resolved
<1> QED
  BY <1>1, <1>2, <1>4, <1>5 DEF GraphInv, LinkInv, CountInv, LayerInv, WaitInv, WalkInv,
     Linked, Resolved

LEMMA VisitKeeps ==
  ASSUME GraphInv, NEW m \in Members, Visit(m)
  PROVE  GraphInv'
<1>1. /\ GraphTypeOK /\ phase = "walk" /\ m \in queue
      /\ closure' = closure \cup Downstream(m)
      /\ queue' = (queue \ {m}) \cup (Downstream(m) \ closure)
      /\ UNCHANGED <<id, dependsOn, phase, up, indegree, levels, root>>
  BY DEF GraphInv, Visit
<1>2. /\ root \in closure /\ queue \subseteq closure
      /\ \A k \in closure \ queue : Downstream(k) \subseteq closure
      /\ \A s \in SUBSET Members : root \in s /\ Closed(s) => closure \subseteq s
  BY <1>1 DEF GraphInv, WalkInv
<1>3. \A k : Downstream(k)' = Downstream(k) /\ Downstream(k) \subseteq Members
  BY <1>1 DEF Downstream
<1>4. root' \in closure' /\ queue' \subseteq closure'
  BY <1>1, <1>2
<1>5. \A k \in closure' \ queue' : Downstream(k)' \subseteq closure'
  <2> SUFFICES ASSUME NEW k \in closure', k \notin queue'
               PROVE  Downstream(k) \subseteq closure'
    BY <1>3
  <2>1. k \in closure
    BY <1>1
  <2>2. k = m \/ k \notin queue
    BY <1>1
  <2> QED
    BY <1>1, <1>2, <2>1, <2>2
<1>6. \A s \in SUBSET Members : root' \in s /\ Closed(s)' => closure' \subseteq s
  <2> SUFFICES ASSUME NEW s \in SUBSET Members, root \in s, Closed(s)'
               PROVE  closure' \subseteq s
    BY <1>1
  <2>1. Closed(s)
    BY <1>3 DEF Closed
  <2>2. closure \subseteq s /\ m \in s
    BY <1>1, <1>2, <2>1
  <2>3. Downstream(m) \subseteq s
    BY <2>1, <2>2 DEF Closed
  <2> QED
    BY <1>1, <2>2, <2>3
<1>7. WalkInv'
  BY <1>1, <1>4, <1>5, <1>6 DEF WalkInv
<1>8. GraphTypeOK'
  <2>1. closure' \subseteq Members /\ queue' \subseteq Members
    BY <1>1, <1>3 DEF GraphTypeOK
  <2> QED
    BY <1>1, <2>1 DEF GraphTypeOK
<1>9. LinkInv' /\ CountInv' /\ LayerInv' /\ WaitInv' /\ EndInv'
  BY <1>1 DEF GraphInv, LinkInv, CountInv, LayerInv, WaitInv, EndInv, Settled
<1> QED
  BY <1>7, <1>8, <1>9 DEF GraphInv

LEMMA GraphInvStep ==
  ASSUME GraphAssumption, GraphInv, [GraphNext]_graphVars
  PROVE  GraphInv'
<1>1. CASE Index
  <2>1. /\ GraphTypeOK /\ phase = "index" /\ phase' \in {"duplicate", "link"}
        /\ phase' = "link" => \A m, n \in Members : m # n => id[m] # id[n]
        /\ UNCHANGED <<id, dependsOn, up, indegree, levels, root, closure, queue>>
    BY <1>1 DEF GraphInv, Index
  <2>2. GraphTypeOK'
    BY <2>1 DEF GraphTypeOK, Phases
  <2>3. DOMAIN levels' = {} /\ levels' = <<>>
    BY <2>1 DEF GraphInv, LinkInv
  <2> QED
    BY <2>1, <2>2, <2>3 DEF GraphInv, LinkInv, CountInv, LayerInv, WaitInv, EndInv, WalkInv,
       Linked, Resolved
<1>2. CASE Link
  BY <1>2, LinkKeeps
<1>3. CASE Peel
  BY <1>3, PeelKeeps
<1>4. CASE Trap
  BY <1>4, TrapKeeps
<1>5. CASE Resolve
  <2>1. /\ GraphTypeOK /\ phase = "peel" /\ phase' = "resolved" /\ Settled = Members
        /\ UNCHANGED <<id, dependsOn, up, indegree, levels, root, closure, queue>>
    BY <1>5 DEF GraphInv, Resolve
  <2>2. GraphTypeOK' /\ Settled' = Settled
    BY <2>1 DEF GraphTypeOK, Phases, Settled
  <2> QED
    BY <2>1, <2>2 DEF GraphInv, LinkInv, CountInv, LayerInv, WaitInv, EndInv, WalkInv,
       Linked, Resolved
<1>6. ASSUME NEW r \in Members, StartWalk(r)
      PROVE  GraphInv'
  <2>1. /\ GraphTypeOK /\ phase = "resolved" /\ phase' = "walk"
        /\ root' = r /\ closure' = {r} /\ queue' = {r}
        /\ UNCHANGED <<id, dependsOn, up, indegree, levels>>
    BY <1>6 DEF GraphInv, StartWalk
  <2>2. GraphTypeOK' /\ Settled' = Settled
    BY <2>1 DEF GraphTypeOK, Phases, Settled
  <2>3. WalkInv'
    BY <2>1 DEF WalkInv
  <2> QED
    BY <2>1, <2>2, <2>3 DEF GraphInv, LinkInv, CountInv, LayerInv, WaitInv, EndInv, Linked,
       Resolved
<1>7. ASSUME NEW m \in Members, Visit(m)
      PROVE  GraphInv'
  BY <1>7, VisitKeeps
<1>8. CASE EndWalk
  <2>1. /\ GraphTypeOK /\ phase = "walk" /\ phase' = "walked" /\ queue = {}
        /\ UNCHANGED <<id, dependsOn, up, indegree, levels, root, closure, queue>>
    BY <1>8 DEF GraphInv, EndWalk
  <2>2. GraphTypeOK' /\ Settled' = Settled
    BY <2>1 DEF GraphTypeOK, Phases, Settled
  <2>3. WalkInv'
    BY <2>1 DEF GraphInv, WalkInv, Closed, Downstream
  <2> QED
    BY <2>1, <2>2, <2>3 DEF GraphInv, LinkInv, CountInv, LayerInv, WaitInv, EndInv, Linked,
       Resolved
<1>9. CASE UNCHANGED graphVars
  <2>1. UNCHANGED <<id, dependsOn, phase, up, indegree, levels, root, closure, queue>>
    BY <1>9 DEF graphVars
  <2>2. GraphTypeOK' /\ Settled' = Settled
    BY <2>1 DEF GraphInv, GraphTypeOK, Settled
  <2>3. WalkInv'
    BY <2>1 DEF GraphInv, WalkInv, Closed, Downstream
  <2> QED
    BY <2>1, <2>2, <2>3 DEF GraphInv, LinkInv, CountInv, LayerInv, WaitInv, EndInv
<1> QED
  BY <1>1, <1>2, <1>3, <1>4, <1>5, <1>6, <1>7, <1>8, <1>9 DEF GraphNext

(* While a tuple is resolved, indegrees count what is missing, levels are     *)
(* separate and in order, and a walk has nothing it need not have.            *)
THEOREM GraphInvHolds == GraphSpec => []GraphInv
<1>1. GraphInit => GraphInv
  BY GraphInvInit, GraphAssumption
<1>2. GraphInv /\ [GraphNext]_graphVars => GraphInv'
  BY GraphInvStep, GraphAssumption
<1> QED
  BY <1>1, <1>2, PTL DEF GraphSpec

-----------------------------------------------------------------------------
(* What comes after a member: its dependents, and theirs.                     *)
LEMMA BeforeGrows ==
  ASSUME NEW m \in Members
  PROVE  /\ \A n \in Dependents(m) : Before(m, n)
         /\ \A k, n \in Members : Before(m, k) /\ n \in Dependents(k) => Before(m, n)
<1>1. \A n \in Dependents(m) : Before(m, n)
  BY DEF Before
<1>2. ASSUME NEW k \in Members, NEW n \in Members, Before(m, k), n \in Dependents(k)
      PROVE  Before(m, n)
  BY <1>2 DEF Before
<1> QED
  BY <1>1, <1>2

(* Below a settled member everything is settled, in levels before its own.    *)
LEMMA BeforeIsBelow ==
  ASSUME GraphInv, phase \in Linked, NEW m \in Members, NEW i \in DOMAIN levels,
         NEW n \in levels[i], Before(m, n)
  PROVE  \E j \in 1 .. i - 1 : m \in levels[j]
<1> DEFINE s == {k \in Members :
                   \A h \in DOMAIN levels : k \in levels[h] => \E j \in 1 .. h - 1 : m \in levels[j]}
<1>1. /\ GraphTypeOK /\ DOMAIN levels = 1 .. Len(levels) /\ Len(levels) \in Nat
      /\ \A a, b \in Members : b \in Dependents(a) <=> a \in up[b]
      /\ \A a : Dependents(a) \subseteq Members
  BY DEF GraphInv, GraphTypeOK, LinkInv, Dependents, Provides
<1>2. \A h \in DOMAIN levels : \A k \in levels[h] : \A a \in up[k] : \E j \in 1 .. h - 1 : a \in levels[j]
  BY DEF GraphInv, LayerInv
<1>3. Dependents(m) \subseteq s
  BY <1>1, <1>2
<1>4. ASSUME NEW k \in s
      PROVE  Dependents(k) \subseteq s
  <2> SUFFICES ASSUME NEW l \in Members, k \in up[l], NEW h \in DOMAIN levels, l \in levels[h]
               PROVE  \E j \in 1 .. h - 1 : m \in levels[j]
    BY <1>1
  <2>1. PICK g \in 1 .. h - 1 : k \in levels[g]
    BY <1>2
  <2>2. g \in DOMAIN levels
    BY <1>1
  <2>3. PICK j \in 1 .. g - 1 : m \in levels[j]
    BY <2>1, <2>2
  <2>4. j \in 1 .. h - 1
    BY <1>1, <2>1, <2>3
  <2> QED
    BY <2>3, <2>4
<1>5. n \in s
  <2>1. s \in SUBSET Members
    OBVIOUS
  <2> HIDE DEF s
  <2> QED
    BY <1>3, <1>4, <2>1 DEF Before
<1> QED
  BY <1>5

(* If everybody of a set misses somebody of it, somebody comes before itself: *)
(* take who has the fewest of the set before it.                              *)
LEMMA TrappedInCycle ==
  ASSUME GraphAssumption, NEW t \in SUBSET Members, t # {},
         \A n \in t : \E m \in t : n \in Dependents(m)
  PROVE  \E m \in t : Before(m, m)
<1> SUFFICES ASSUME \A m \in t : ~Before(m, m)
             PROVE  FALSE
  OBVIOUS
<1> DEFINE A(n) == {k \in t : Before(k, n)}
           R == StrictSubsetOrdering(Members)
           T == {A(n) : n \in t}
<1>1. IsWellFoundedOn(R, FiniteSubsetsOf(Members))
  BY FS_StrictSubsetOrderingWellFounded
<1>2. T \subseteq FiniteSubsetsOf(Members) /\ T # {}
  <2>1. T \subseteq SUBSET Members /\ T # {}
    OBVIOUS
  <2>2. FiniteSubsetsOf(Members) = SUBSET Members
    BY FS_FiniteSubsetsOfFinite DEF GraphAssumption
  <2> QED
    BY <2>1, <2>2
<1>3. PICK x \in T : \A y \in T : <<y, x>> \notin R
  <2> HIDE DEF R, T
  <2> QED
    BY <1>1, <1>2, WFMin
<1>4. PICK n \in t : x = A(n)
  OBVIOUS
<1>5. PICK m \in t : n \in Dependents(m)
  OBVIOUS
<1>6. A(m) \subseteq A(n) /\ m \in A(n) /\ m \notin A(m)
  BY <1>5, BeforeGrows
<1>7. A(m) \in T /\ A(m) \in SUBSET Members /\ A(n) \in SUBSET Members
  OBVIOUS
<1>8. <<A(m), A(n)>> \in R
  <2> HIDE DEF A
  <2> QED
    BY <1>6, <1>7 DEF StrictSubsetOrdering
<1> QED
  BY <1>3, <1>4, <1>7, <1>8

(* A resolved graph has every node in one level, strictly above all it        *)
(* depends on and right above something it depends on, for any tuple.         *)
THEOREM LevelsAreSound == GraphSpec => []LevelsAreTight
<1>1. ASSUME GraphInv
      PROVE  LevelsAreTight
  <2> SUFFICES ASSUME phase \in Resolved
               PROVE  /\ Settled = Members
                      /\ \A i, j \in DOMAIN levels : i # j => levels[i] \cap levels[j] = {}
                      /\ \A m, n \in Members : Before(m, n) => LevelOf(m) < LevelOf(n)
                      /\ \A n \in Members : LevelOf(n) > 1 =>
                           \E m \in Members : Provides(m, n) /\ LevelOf(m) = LevelOf(n) - 1
    BY DEF LevelsAreTight, Resolved
  <2>1. /\ Settled = Members
        /\ \A i, j \in DOMAIN levels : i # j => levels[i] \cap levels[j] = {}
        /\ DOMAIN levels = 1 .. Len(levels) /\ Len(levels) \in Nat
        /\ \A n \in Members : up[n] = {m \in Members : id[m] \in dependsOn[n]}
    BY <1>1 DEF GraphInv, EndInv, LayerInv, GraphTypeOK, LinkInv, Linked
  <2>2. \A n \in Members : LevelOf(n) \in DOMAIN levels /\ n \in levels[LevelOf(n)]
    BY <1>1, <2>1, InLevel DEF GraphInv, LevelOf
  <2>3. \A n \in Members, i \in DOMAIN levels : n \in levels[i] => LevelOf(n) = i
    BY <2>1, <2>2
  <2>4. ASSUME NEW m \in Members, NEW n \in Members, Before(m, n)
        PROVE  LevelOf(m) < LevelOf(n)
    <3>1. PICK j \in 1 .. LevelOf(n) - 1 : m \in levels[j]
      BY <1>1, <2>2, <2>4, BeforeIsBelow DEF Linked
    <3>2. j \in DOMAIN levels
      BY <2>1, <2>2
    <3> QED
      BY <2>1, <2>2, <2>3, <3>1, <3>2
  <2>5. ASSUME NEW n \in Members, LevelOf(n) > 1
        PROVE  \E m \in Members : Provides(m, n) /\ LevelOf(m) = LevelOf(n) - 1
    <3>1. PICK m \in up[n] : m \in levels[LevelOf(n) - 1]
      BY <1>1, <2>2, <2>5 DEF GraphInv, LayerInv
    <3>2. m \in Members /\ Provides(m, n)
      BY <2>1 DEF Provides
    <3>3. LevelOf(n) - 1 \in DOMAIN levels
      BY <2>1, <2>2, <2>5
    <3> QED
      BY <2>3, <3>1, <3>2, <3>3
  <2> QED
    BY <2>1, <2>4, <2>5
<1> QED
  BY <1>1, GraphInvHolds, PTL

(* The cycle error comes for the cyclic tuples and no other, and names every  *)
(* member of every cycle, for any tuple.                                      *)
THEOREM CyclesAreReported == GraphSpec => []CycleIsReported
<1>1. ASSUME GraphInv
      PROVE  CycleIsReported
  <2>1. ASSUME phase = "cycle"
        PROVE  \E m \in Members \ Settled : Before(m, m)
    <3> DEFINE t == Members \ Settled
    <3>1. /\ t # {} /\ \A n \in t : up[n] \ Settled # {}
          /\ \A n \in Members : up[n] = {m \in Members : id[m] \in dependsOn[n]}
      BY <1>1, <2>1, InLevel DEF GraphInv, EndInv, LinkInv, Linked
    <3>2. \A n \in t : \E m \in t : n \in Dependents(m)
      BY <3>1 DEF Dependents, Provides
    <3> QED
      BY <3>1, <3>2, TrappedInCycle, GraphAssumption
  <2>2. ASSUME phase \in {"peel", "cycle", "resolved"},
               NEW m \in Members, Before(m, m), m \in Settled
        PROVE  FALSE
    <3>1. PICK i \in DOMAIN levels : m \in levels[i]
      BY <1>1, <2>2, InLevel DEF GraphInv
    <3>2. PICK j \in 1 .. i - 1 : m \in levels[j]
      BY <1>1, <2>2, <3>1, BeforeIsBelow DEF Linked, Resolved
    <3>3. DOMAIN levels = 1 .. Len(levels) /\ Len(levels) \in Nat
      BY <1>1 DEF GraphInv, GraphTypeOK
    <3>4. j \in DOMAIN levels /\ j # i
      BY <3>1, <3>2, <3>3
    <3> QED
      BY <1>1, <3>1, <3>2, <3>4 DEF GraphInv, LayerInv
  <2>3. phase = "resolved" => Settled = Members
    BY <1>1 DEF GraphInv, EndInv, Resolved
  <2> QED
    BY <2>1, <2>2, <2>3 DEF CycleIsReported
<1> QED
  BY <1>1, GraphInvHolds, PTL

(* The slice of a root is the root and all that comes after it, for any       *)
(* graph.                                                                     *)
THEOREM SlicesAreDownstream == GraphSpec => []SliceIsDownstream
<1>1. ASSUME GraphInv, phase = "walked"
      PROVE  closure = {root} \cup {m \in Members : Before(root, m)}
  <2> DEFINE s == {root} \cup {m \in Members : Before(root, m)}
  <2>1. /\ root \in closure /\ closure \subseteq Members
        /\ \A m \in closure : Downstream(m) \subseteq closure
        /\ \A c \in SUBSET Members : root \in c /\ Closed(c) => closure \subseteq c
    BY <1>1 DEF GraphInv, WalkInv, GraphTypeOK
  <2>2. \A m \in Members : Downstream(m) = Dependents(m)
    BY <1>1 DEF GraphInv, LinkInv, Linked, Resolved, Downstream, Dependents, Provides
  <2>3. s \in SUBSET Members /\ root \in s
    BY <2>1
  <2>4. Closed(s)
    <3>1. \A n \in Dependents(root) : n \in Members /\ Before(root, n)
      BY <2>1, BeforeGrows DEF Dependents
    <3>2. \A k \in Members : \A n \in Dependents(k) :
            Before(root, k) => n \in Members /\ Before(root, n)
      BY <2>1, BeforeGrows DEF Dependents
    <3> QED
      BY <2>2, <2>3, <3>1, <3>2 DEF Closed
  <2>5. closure \subseteq s
    <3> HIDE DEF s
    <3> QED
      BY <2>1, <2>3, <2>4
  <2>6. \A m \in Members : Before(root, m) => m \in closure
    BY <2>1, <2>2 DEF Before
  <2> QED
    BY <2>1, <2>5, <2>6
<1>2. GraphInv => SliceIsDownstream
  BY <1>1 DEF SliceIsDownstream
<1> QED
  BY <1>2, GraphInvHolds, PTL

-----------------------------------------------------------------------------
(* PortBroker.                                                                *)
Steps == {"new", "write", "written", "read", "reclaim", "unlink", "probe", "held", "listening",
          "drop", "unreserve", "remove", "released", "over"}
Bodies == Allocs \cup {Nothing, Garbage}

PortTypeOK ==
  /\ reservation \in Bodies
  /\ step \in [Allocs -> Steps]
  /\ seen \in [Allocs -> Bodies]
  /\ alive \subseteq PortProcs

(* A killed process takes no further step.                                    *)
DeadRest == \A a \in Allocs : Proc[a] \notin alive => step[a] = "over"

(* Who is about to unlink a reservation it could read knows its holder dead.  *)
DeadDecision ==
  \A a \in Allocs : step[a] \in {"reclaim", "unlink"} /\ seen[a] \in Allocs
                      => Proc[seen[a]] \notin alive

(* The reservation is there from its link on, unless a stray unlink took it.  *)
Reserved ==
  \A a \in Allocs : step[a] \in {"written", "probe", "held", "listening"} => reservation = a \/ a \in lost

PortInv == PortTypeOK /\ DeadRest /\ DeadDecision /\ Reserved /\ NoLeakedReservation

LEMMA PortInvInit == PortInit => PortInv
<1> SUFFICES ASSUME PortInit PROVE PortInv
  OBVIOUS
<1>1. \A a \in Allocs : step[a] \in {"new", "over"} /\ Proc[a] \in alive
  BY DEF PortInit, PortProcs
<1>2. reservation \notin Allocs
  BY PortAssumption DEF PortInit
<1>3. PortTypeOK
  BY DEF PortInit, PortTypeOK, Steps, Bodies
<1> QED BY <1>1, <1>2, <1>3 DEF PortInv, DeadRest, DeadDecision, Reserved, NoLeakedReservation

-----------------------------------------------------------------------------
(* A step of an allocation that leaves the file, what is lost and who lives   *)
(* alone: it goes where its decision and its reservation allow.               *)
LEMMA MoveKeeps ==
  ASSUME PortInv, NEW a \in Allocs, NEW s \in Steps, To(a, s), Proc[a] \in alive,
         UNCHANGED <<reservation, alive>>, lost \ {a} \subseteq lost',
         seen' \in [Allocs -> Bodies], \A b \in Allocs \ {a} : seen'[b] = seen[b],
         s \in {"reclaim", "unlink"} /\ seen'[a] \in Allocs => Proc[seen'[a]] \notin alive,
         s \in {"written", "probe", "held", "listening"} => reservation = a \/ a \in lost',
         reservation = a /\ a \notin Unnoted => s \in {"probe", "held", "listening", "drop", "unreserve", "remove"}
  PROVE  PortInv'
<1>1. step' \in [Allocs -> Steps] /\ step'[a] = s /\ \A b \in Allocs \ {a} : step'[b] = step[b]
  BY DEF To, PortInv, PortTypeOK
<1>2. PortTypeOK'
  BY <1>1 DEF PortInv, PortTypeOK
<1>3. DeadRest'
  BY <1>1 DEF PortInv, DeadRest
<1>4. DeadDecision'
  <2> SUFFICES ASSUME NEW b \in Allocs, step'[b] \in {"reclaim", "unlink"}, seen'[b] \in Allocs
               PROVE  Proc[seen'[b]] \notin alive'
    BY DEF DeadDecision
  <2>1. CASE b = a
    BY <1>1, <2>1
  <2>2. CASE b # a
    BY <1>1, <2>2 DEF PortInv, DeadDecision
  <2> QED BY <2>1, <2>2
<1>5. Reserved'
  <2> SUFFICES ASSUME NEW b \in Allocs, step'[b] \in {"written", "probe", "held", "listening"}
               PROVE  reservation' = b \/ b \in lost'
    BY DEF Reserved
  <2>1. CASE b = a
    BY <1>1, <2>1
  <2>2. CASE b # a
    BY <1>1, <2>2 DEF PortInv, Reserved
  <2> QED BY <2>1, <2>2
<1>6. NoLeakedReservation'
  <2> SUFFICES ASSUME NEW b \in Allocs, reservation' = b, Proc[b] \in alive', b \notin Unnoted
               PROVE  step'[b] \in {"probe", "held", "listening", "drop", "unreserve", "remove"}
    BY DEF NoLeakedReservation
  <2>1. CASE b = a
    BY <1>1, <2>1
  <2>2. CASE b # a
    BY <1>1, <2>2 DEF PortInv, NoLeakedReservation
  <2> QED BY <2>1, <2>2
<1> QED BY <1>2, <1>3, <1>4, <1>5, <1>6 DEF PortInv

(* The file goes away: a holder that loses it is counted as such.             *)
LEMMA RemovalKeeps ==
  ASSUME PortInv, NEW a \in Allocs, NEW s \in Steps \ {"reclaim", "unlink", "written", "probe", "held", "listening"},
         To(a, s), Proc[a] \in alive, reservation' = Nothing, UNCHANGED <<alive, seen>>, lost \subseteq lost',
         \A b \in Allocs \ {a} : reservation = b /\ Proc[b] \in alive => b \in lost'
  PROVE  PortInv'
<1>1. step' \in [Allocs -> Steps] /\ step'[a] = s /\ \A b \in Allocs \ {a} : step'[b] = step[b]
  BY DEF To, PortInv, PortTypeOK
<1>2. PortTypeOK'
  BY <1>1 DEF PortInv, PortTypeOK, Bodies
<1>3. DeadRest'
  BY <1>1 DEF PortInv, DeadRest
<1>4. DeadDecision'
  BY <1>1 DEF PortInv, DeadDecision
<1>5. Reserved'
  <2> SUFFICES ASSUME NEW b \in Allocs, step'[b] \in {"written", "probe", "held", "listening"}
               PROVE  b \in lost'
    BY DEF Reserved
  <2>1. b # a /\ step[b] = step'[b]
    BY <1>1
  <2>2. reservation = b \/ b \in lost
    BY <2>1 DEF PortInv, Reserved
  <2>3. Proc[b] \in alive
    BY <2>1 DEF PortInv, DeadRest
  <2> QED BY <2>1, <2>2, <2>3
<1>6. NoLeakedReservation'
  BY PortAssumption DEF NoLeakedReservation
<1> QED BY <1>2, <1>3, <1>4, <1>5, <1>6 DEF PortInv

LEMMA PortInvStep == PortInv /\ [PortNext]_portVars => PortInv'
<1> SUFFICES ASSUME PortInv, [PortNext]_portVars PROVE PortInv'
  OBVIOUS
<1> USE DEF Steps
<1>a. /\ reservation \in Bodies /\ seen \in [Allocs -> Bodies] /\ alive \subseteq PortProcs
      /\ step \in [Allocs -> Steps]
  BY DEF PortInv, PortTypeOK
<1>b. \A a \in Allocs : reservation = a /\ a \notin Unnoted /\ Proc[a] \in alive
        => step[a] \in {"probe", "held", "listening", "drop", "unreserve", "remove"}
  BY DEF PortInv, NoLeakedReservation
<1>1. ASSUME NEW a \in Allocs, TryReserve(a) PROVE PortInv'
  BY <1>1, <1>a, <1>b, MoveKeeps DEF TryReserve, PortAt
<1>2. ASSUME NEW a \in Allocs, WriteReservation(a) PROVE PortInv'
  <2>1. CASE reservation = Nothing /\ reservation' = a
    <3> DEFINE s == IF a \in Unnoted THEN "written" ELSE "probe"
    <3>0. To(a, s)
      <4>1. ~(reservation # Nothing /\ UNCHANGED reservation /\ To(a, "read"))
        BY <2>1
      <4> QED BY <1>2, <4>1 DEF WriteReservation
    <3>1. /\ To(a, s) /\ Proc[a] \in alive /\ UNCHANGED <<seen, alive, lost>>
          /\ s = "probe" \/ (s = "written" /\ a \in Unnoted)
      <4>1. s = "probe" \/ (s = "written" /\ a \in Unnoted)
        BY DEF s
      <4>2. Proc[a] \in alive /\ UNCHANGED <<seen, alive, lost>>
        BY <1>2 DEF WriteReservation, PortAt
      <4> QED BY <3>0, <4>1, <4>2
    <3> HIDE DEF s
    <3>2. step' \in [Allocs -> Steps] /\ step'[a] = s /\ \A b \in Allocs \ {a} : step'[b] = step[b]
      BY <1>a, <3>1 DEF To
    <3>3. PortTypeOK'
      BY <1>a, <2>1, <3>1, <3>2 DEF PortTypeOK, Bodies
    <3>4. DeadRest' /\ DeadDecision'
      BY <3>1, <3>2 DEF PortInv, DeadRest, DeadDecision
    <3>5. Reserved' /\ NoLeakedReservation'
      BY <2>1, <3>1, <3>2, PortAssumption DEF PortInv, Reserved, NoLeakedReservation
    <3> QED BY <3>3, <3>4, <3>5 DEF PortInv
  <2>2. CASE reservation # Nothing /\ UNCHANGED reservation /\ To(a, "read")
    BY <1>2, <2>2, <1>a, <1>b, MoveKeeps DEF WriteReservation, PortAt
  <2> QED BY <1>2, <2>1, <2>2 DEF WriteReservation
<1>3. ASSUME NEW a \in Allocs, Note(a) PROVE PortInv'
  <2>1. reservation = a \/ a \in lost
    BY <1>3 DEF Note, PortAt, PortInv, Reserved
  <2> QED BY <1>3, <1>a, <1>b, <2>1, MoveKeeps DEF Note, PortAt
<1>4. ASSUME NEW a \in Allocs, ReadReservation(a) PROVE PortInv'
  <2>1. seen' = [seen EXCEPT ![a] = reservation] /\ PortAt(a, "read") /\ UNCHANGED <<reservation, alive, lost>>
    BY <1>4 DEF ReadReservation
  <2>2. PICK s \in {"write", "drop", "unlink", "reclaim"} :
          To(a, s) /\ (s \in {"reclaim", "unlink"} /\ reservation \in Allocs => Proc[reservation] \notin alive)
    <3>1. CASE reservation = Nothing
      <4>1. To(a, "write")
        BY <1>4, <3>1, PortAssumption DEF ReadReservation, To
      <4> QED BY <4>1
    <3>2. CASE reservation = Garbage
      BY <1>4, <3>2, PortAssumption DEF ReadReservation, To
    <3>3. CASE reservation \notin {Nothing, Garbage}
      BY <1>4, <3>3 DEF ReadReservation, To
    <3> QED BY <3>1, <3>2, <3>3
  <2>3. seen' \in [Allocs -> Bodies] /\ seen'[a] = reservation /\ \A b \in Allocs \ {a} : seen'[b] = seen[b]
    BY <1>a, <2>1
  <2> QED BY <1>b, <2>1, <2>2, <2>3, MoveKeeps DEF PortAt
<1>5. ASSUME NEW a \in Allocs, Reclaim(a) PROVE PortInv'
  <2>1. PICK s \in {"unlink", "drop"} : To(a, s)
    BY <1>5 DEF Reclaim
  <2>2. seen[a] \in Allocs => Proc[seen[a]] \notin alive
    BY <1>5 DEF Reclaim, PortAt, PortInv, DeadDecision
  <2> QED BY <1>5, <1>a, <1>b, <2>1, <2>2, MoveKeeps DEF Reclaim, PortAt
<1>6. ASSUME NEW a \in Allocs, Unlink(a) PROVE PortInv'
  <2>1. CASE reservation = Nothing
    BY <1>6, <2>1, <1>a, <1>b, PortAssumption, MoveKeeps DEF Unlink, PortAt
  <2>2. CASE reservation # Nothing
    <3>1. /\ reservation' = Nothing /\ To(a, "write") /\ PortAt(a, "unlink") /\ UNCHANGED <<seen, alive>>
          /\ lost \subseteq lost' /\ (reservation # seen[a] => reservation \in lost')
      BY <1>6, <2>2 DEF Unlink, Lose
    <3>2. seen[a] \in Allocs => Proc[seen[a]] \notin alive
      BY <3>1 DEF PortAt, PortInv, DeadDecision
    <3>3. \A b \in Allocs : reservation = b /\ Proc[b] \in alive => b \in lost'
      BY <3>1, <3>2
    <3> QED BY <3>1, <3>3, RemovalKeeps DEF PortAt
  <2> QED BY <2>1, <2>2
<1>7. ASSUME NEW a \in Allocs, PortProbe(a) \/ Listen(a) PROVE PortInv'
  <2>1. reservation = a \/ a \in lost
    BY <1>7 DEF PortProbe, Listen, PortAt, PortInv, Reserved
  <2> QED BY <1>7, <1>a, <1>b, <2>1, MoveKeeps DEF PortProbe, Listen, PortAt
<1>8. ASSUME NEW a \in Allocs, PortMiss(a) \/ ReleaseEarly(a) \/ Finalize(a) PROVE PortInv'
  BY <1>8, <1>a, <1>b, MoveKeeps DEF PortMiss, ReleaseEarly, Finalize, PortAt
<1>9. ASSUME NEW a \in Allocs, Drop(a) PROVE PortInv'
  <2>1. seen' \in [Allocs -> Bodies] /\ \A b \in Allocs \ {a} : seen'[b] = seen[b]
    BY <1>9, <1>a DEF Drop, Bodies
  <2> QED BY <1>9, <1>a, <1>b, <2>1, MoveKeeps DEF Drop, PortAt
<1>10. ASSUME NEW a \in Allocs, Unreserve(a) PROVE PortInv'
  <2>1. CASE reservation = a
    BY <1>10, <2>1, <1>a, <1>b, MoveKeeps DEF Unreserve, PortAt
  <2>2. CASE reservation # a
    BY <1>10, <2>2, <1>a, <1>b, MoveKeeps DEF Unreserve, Left, PortAt
  <2> QED BY <2>1, <2>2
<1>11. ASSUME NEW a \in Allocs, RemoveReservation(a) PROVE PortInv'
  <2>1. PICK s \in {"released", "over"} : To(a, s)
    BY <1>11 DEF RemoveReservation, Left
  <2>2. lost \subseteq lost' /\ \A b \in Allocs \ {a} : reservation = b => b \in lost'
    BY <1>11, PortAssumption DEF RemoveReservation
  <2> QED BY <1>11, <2>1, <2>2, RemovalKeeps DEF RemoveReservation, PortAt
<1>12. ASSUME NEW p \in Mortal, KillProcess(p) PROVE PortInv'
  <2>1. /\ alive' = alive \ {p} /\ UNCHANGED <<reservation, seen, lost>>
        /\ step' = [a \in Allocs |-> IF Proc[a] = p THEN "over" ELSE step[a]]
    BY <1>12 DEF KillProcess
  <2>2. PortTypeOK'
    BY <1>a, <2>1 DEF PortTypeOK
  <2>3. DeadRest' /\ DeadDecision' /\ Reserved' /\ NoLeakedReservation'
    BY <2>1 DEF PortInv, DeadRest, DeadDecision, Reserved, NoLeakedReservation
  <2> QED BY <2>2, <2>3 DEF PortInv
<1>13. CASE UNCHANGED portVars
  BY <1>13 DEF portVars, PortInv, PortTypeOK, DeadRest, DeadDecision, Reserved, NoLeakedReservation
<1> QED BY <1>1, <1>2, <1>3, <1>4, <1>5, <1>6, <1>7, <1>8, <1>9, <1>10, <1>11, <1>12, <1>13
        DEF PortNext, PortAttempt

(* From its link to its release an allocation's reservation is in place, or a *)
(* stray unlink took it; decisions are about dead holders only.               *)
THEOREM PortInvHolds == PortSpec => []PortInv
BY PortInvInit, PortInvStep, PTL DEF PortSpec

(* Whoever was given the port has the reservation file, for any processes and *)
(* kills, unless an unlink took a file its decision was not about.            *)
THEOREM GivenPortIsReserved == PortSpec => []HolderIsReserved
<1>1. PortInv => HolderIsReserved
  BY DEF PortInv, Reserved, HolderIsReserved, Holding
<1> QED BY <1>1, PortInvHolds, PTL

(* An attempt that ended leaves no reservation of a live process behind, but  *)
(* for fibers that are preempted before they note it.                         *)
THEOREM NoReservationLeaks == PortSpec => []NoLeakedReservation
<1>1. PortInv => NoLeakedReservation
  BY DEF PortInv
<1> QED BY <1>1, PortInvHolds, PTL
=============================================================================
