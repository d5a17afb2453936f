-------------------------- MODULE Supervisor_proofs --------------------------
(* Proofs about Supervisor, for any graph of plugins, any commands and bounds. *)
EXTENDS Supervisor, FiniteSetTheorems, SequenceTheorems, TLAPS

(* A. The registry entries, for any commands.                                 *)
NodeSound(n) ==
  /\ \A g \in Gens : g > n.gen => n.gate[g] = "open"
  /\ n.status \in {"pending", "acquiring"} => n.gate[n.gen] = "open"
  /\ n.status \in {"ready", "done", "stopping"} => n.value # None /\ n.gate[n.gen] = "ok"

Live(d, k) == fiber[d][k].at \in {"waiting", "starting"}

FiberInv == \A d \in Drivers, k \in Nodes :
  /\ fiber[d][k].at \in {"forked", "waiting", "starting"} => fiber[d][k].gen \in Gens
  /\ fiber[d][k].gen # None => fiber[d][k].gen <= node[k].gen

Busy == {"stop", "reset", "fork", "register", "await", "settle", "hook"}

DriverInv ==
  /\ drv["init"].at \in {"fork", "register", "await", "settle", "hook", "ended", "dead"}
  /\ drv["bg"].at \in {"idle"} \cup Busy
  /\ drv["loop"].at \in Busy \cup {"handler", "ended"} => drv["loop"].cmd \in Commands
  /\ drv["bg"].at \in Busy => drv["bg"].cmd \in Commands /\ drv["bg"].cmd.tag = "restart"
  /\ complete => drv["loop"].at = "ended"
  /\ drv["loop"].at = "ended" => latch
  /\ drv["loop"].at \in Busy \cup {"handler"} /\ drv["loop"].cmd.tag = "shutdown" => latch

Typed ==
  /\ node \in [Nodes -> Node]
  /\ fiber \in [Drivers -> [Nodes -> Fiber]]
  /\ drv \in [Drivers -> Driver]
  /\ queue \in Seq(Commands)
  /\ sent \in Nat /\ asked \in Nat /\ answered \in Nat
  /\ reply \in [cmd : Commands, ok : BOOLEAN] \cup {None}
  /\ latch \in BOOLEAN /\ complete \in BOOLEAN

NodesSound == \A k \in Nodes : NodeSound(node[k])

RegistryInv == Typed /\ NodesSound /\ FiberInv /\ DriverInv

(* B. Teardown, when no restart runs in the background.                       *)
NoBackground == \A c \in Commands : c.tag = "restart" => c.submitted

L == drv["loop"]
Scope(k) == node[k].scope[node[k].gen]
Ran(k) == node[k].ran[node[k].gen]

BgIdle == drv["bg"] = Idle /\ \A k \in Nodes : fiber["bg"][k] = NoFiber

ScopeInv == \A k \in Nodes, g \in Gens :
  /\ g < node[k].gen => node[k].scope[g] = "closed"
  /\ g > node[k].gen => node[k].scope[g] = "open" /\ node[k].ran[g] = None

SliceInv ==
  /\ L.at \in {"stop", "reset", "fork", "register", "await"} =>
       \A k \in Nodes : \A u \in Up[k] : u \in L.slice => k \in L.slice
  /\ L.at \in {"stop", "reset"} => L.todo \subseteq L.slice
  /\ L.at = "stop" /\ L.cmd.tag = "shutdown" => L.slice = Nodes
  /\ L.at = "handler" => L.cmd.tag \in {"capture", "restore"}

(* Where the loop is in the slice tells the state of each current scope.      *)
StopInv == L.at = "stop" => \A k \in Nodes :
  /\ k \in L.todo \/ k \notin L.slice => L.torn[k] = None /\ Scope(k) = "open"
  /\ k \in L.slice \ L.todo => IF L.torn[k] = None THEN Scope(k) = "closed"
                               ELSE L.torn[k] = node[k].gen /\ Scope(k) = "closing"
ResetInv == L.at = "reset" => \A k \in Nodes :
  Scope(k) = IF k \in L.todo THEN "closed" ELSE "open"
RestInv ==
  /\ L.at \notin {"stop", "reset", "ended"} => \A k \in Nodes : Scope(k) = "open"
  /\ L.at = "ended" => \A k \in Nodes :
       Scope(k) = IF L.cmd.tag = "shutdown" THEN "closed" ELSE "open"

DrainInv == BgIdle /\ ScopeInv /\ SliceInv /\ StopInv /\ ResetInv /\ RestInv

(* C. Acquire, when moreover no command is taken before the initial fork.     *)
LateCommands == "fork" \notin EarlyPhases

OrderInv ==
  /\ L.at = "stop" => \A k \in Nodes : \A u \in Up[k] :
       u \in L.slice \ L.todo => k \notin L.todo /\ L.torn[k] = None
  /\ L.at = "reset" => \A k \in Nodes : \A u \in Up[k] : u \in L.todo => k \in L.todo

(* A key whose current entry nobody acquires yet.                             *)
StatusIs(k, s) == Alive => node[k].status = s
Fresh(k) == StatusIs(k, "pending") /\ node[k].fref = None /\ Ran(k) = None

(* An entry has one acquire fiber, the one it refers to.                      *)
Owned(k) == \A d \in Drivers :
  /\ Live(d, k) => node[k].fref = d /\ fiber[d][k].gen = node[k].gen
  /\ fiber[d][k].at = "forked" => node[k].fref # d
  /\ fiber[d][k].at = "forked" /\ fiber[d][k].gen = node[k].gen => Fresh(k)
  /\ fiber[d][k].at = "waiting" => StatusIs(k, "pending") /\ Ran(k) = None
  /\ fiber[d][k].at = "starting" => StatusIs(k, "acquiring") /\ Ran(k) # None
OwnInv == \A k \in Nodes : Owned(k)

(* The initial acquire forks for the first entries, the loop for later ones.  *)
BornInv == \A k \in Nodes :
  /\ fiber["init"][k].gen \in {None, 1}
  /\ fiber["loop"][k].gen # None => fiber["loop"][k].gen > 1
ForkInv == drv["init"].at = "fork" =>
  /\ L.at = "idle"
  /\ \A k \in Nodes : node[k].gen = 1 /\ Fresh(k) /\ fiber["init"][k] = NoFiber
TodoInv == \A d \in {"init", "loop"} :
  drv[d].at = "register" => \A k \in drv[d].todo : fiber[d][k].at = "forked"
LoopInv == \A k \in L.slice :
  L.at = "fork" \/ (L.at = "reset" /\ k \notin L.todo) => node[k].gen > 1 /\ Fresh(k)

(* A start has read what its upstreams are now, until their reset.            *)
Held(u) == Alive => node[u].value = node[u].gen \/ node[u].status = "failed"
Awaits(k) == L.at = "reset" /\ k \in L.todo
ReadRight(k) ==
  /\ node[k].value \in {None, node[k].gen}
  /\ node[k].status \in {"ready", "done"} => Ran(k) # None
  /\ Ran(k) # None /\ ~Awaits(k) => \A u \in Up[k] : Ran(k)[u] = node[u].gen /\ Held(u)
ReadInv == \A k \in Nodes : ReadRight(k)

HookInv == Alive /\ L.at = "hook" => ReadyOrTerminal

FlowInv == OrderInv /\ OwnInv /\ BornInv /\ ForkInv /\ TodoInv /\ LoopInv
           /\ ReadInv /\ HookInv

(* D. What a start reads, when no command is taken before the initial acquire *)
(* has registered its fibers, and no late failure takes a plugin away.        *)
NoEarlyCommands == EarlyPhases = {}
HookSparesPlugins == MayFailLate \subseteq {None}

EarlyInv == drv["init"].at \in {"fork", "register"} => L.at = "idle"
Calm(n) == n.gate[n.gen] = "ok" => n.value # None
GateInv == \A k \in Nodes : Calm(node[k])

(* A fiber that waits, waits for the entries its upstreams have now: whoever  *)
(* replaces an entry has interrupted the dependents before.                   *)
SeenInv == \A d \in Drivers, k \in Nodes : fiber[d][k].at = "waiting" =>
  \A u \in Up[k] : fiber[d][k].seen[u] = node[u].gen
StillInv ==
  /\ L.at = "stop" => \A d \in Drivers : \A k \in L.slice \ L.todo : ~Live(d, k)
  /\ L.at = "reset" => \A d \in Drivers : \A k \in L.slice : ~Live(d, k)
DiedInv == \A d \in Drivers, k \in Nodes : fiber[d][k].at = "died" => k \in MayDie

CalmInv == EarlyInv /\ GateInv /\ SeenInv /\ StillInv /\ DiedInv

-----------------------------------------------------------------------------
(* What the registry's operations do to an entry.                             *)
Sound(n) == n \in Node /\ NodeSound(n)

(* An operation of the status machine keeps the entry's generation, its       *)
(* fiber, its scopes and what was started.                                    *)
SameEntry(m, n) == /\ m.gen = n.gen /\ m.fref = n.fref
                   /\ m.scope = n.scope /\ m.ran = n.ran

LEMMA InTable ==
  ASSUME NEW s \in Statuses, NEW to, to \in Table[s]
  PROVE  /\ to = "acquiring" => s = "pending"
         /\ to = "stopping" => s = "ready"
         /\ to = "stopped" => s = "stopping"
         /\ to = "done" => s = "ready"
         /\ to = "ready" => s = "acquiring"
         /\ to = "pending" => s \in {"failed", "stopped", "done"}
         /\ to = "failed" => s # "stopped" /\ s # "failed"
         /\ to \in Statuses
BY DEF Statuses, Table

LEMMA TransitionSound ==
  ASSUME NEW n \in Node, NodeSound(n), NEW to \in Statuses \ {"ready", "pending"}
  PROVE  Sound(Transition(n, to)) /\ SameEntry(Transition(n, to), n)
<1>1. CASE to \notin Table[n.status]
  BY <1>1 DEF Transition, Sound, SameEntry
<1>2. CASE to \in Table[n.status]
  <2> DEFINE m == [n EXCEPT !.status = to]
  <2>1. Transition(n, to) = m
    BY <1>2 DEF Transition
  <2>2. n.status \in Statuses /\ m \in Node
    BY DEF Node
  <2>3. /\ m.status = to /\ m.gate = n.gate /\ m.value = n.value
        /\ SameEntry(m, n)
    BY DEF Node, SameEntry
  <2>4. NodeSound(m)
    BY <1>2, <2>2, <2>3, InTable DEF NodeSound, SameEntry, Statuses
  <2> QED
    BY <2>1, <2>2, <2>3, <2>4 DEF Sound
<1> QED
  BY <1>1, <1>2

LEMMA MarkReadySound ==
  ASSUME SupervisorAssumption, NEW n \in Node, NodeSound(n), NEW v \in Gens
  PROVE  Sound(MarkReady(n, v)) /\ SameEntry(MarkReady(n, v), n)
<1> DEFINE m == [n EXCEPT !.value = v]
           r == [m EXCEPT !.status = "ready"]
           s == [r EXCEPT !.gate[r.gen] = "ok"]
<1>0. v # None
  BY DEF SupervisorAssumption
<1>1. m \in Node /\ SameEntry(m, n) /\ m.status = n.status /\ m.gate = n.gate /\ m.value = v
  BY DEF Node, SameEntry
<1>2. CASE n.status \notin {"pending", "acquiring", "ready"}
  <2>1. NodeSound(m)
    BY <1>0, <1>1, <1>2 DEF NodeSound, SameEntry
  <2> QED
    BY <1>1, <1>2, <2>1 DEF MarkReady, Sound
<1>3. CASE n.status \in {"pending", "acquiring", "ready"}
  <2>1. /\ r \in Node /\ SameEntry(r, n) /\ r.status = "ready"
        /\ r.gate = n.gate /\ r.value = v
    BY <1>1 DEF Node, Statuses, SameEntry
  <2>2. MarkReady(n, v) = Resolve(r, "ok")
    BY <1>3 DEF MarkReady
  <2>3. CASE r.gate[r.gen] = "open"
    <3>1. /\ s \in Node /\ SameEntry(s, n) /\ s.status = "ready" /\ s.value = v
          /\ s.gate = [n.gate EXCEPT ![n.gen] = "ok"]
      BY <2>1 DEF Node, SameEntry
    <3>2. NodeSound(s)
      BY <1>0, <3>1 DEF NodeSound, SameEntry, Node, Gens
    <3> QED
      BY <2>2, <2>3, <3>1, <3>2 DEF Resolve, Sound
  <2>4. CASE r.gate[r.gen] # "open"
    <3>1. NodeSound(r)
      BY <1>0, <1>3, <2>1, <2>4 DEF NodeSound, SameEntry
    <3> QED
      BY <2>1, <2>2, <2>4, <3>1 DEF Resolve, Sound
  <2> QED
    BY <2>3, <2>4
<1> QED
  BY <1>2, <1>3

LEMMA MarkFailedSound ==
  ASSUME SupervisorAssumption, NEW n \in Node, NodeSound(n)
  PROVE  Sound(MarkFailed(n)) /\ SameEntry(MarkFailed(n), n)
<1> DEFINE m == [n EXCEPT !.value = None]
           r == [m EXCEPT !.status = "failed"]
           s == [r EXCEPT !.gate[r.gen] = "failed"]
<1>0. n.status \in Statuses
  BY DEF Node
<1>1. m \in Node /\ SameEntry(m, n) /\ m.status = n.status /\ m.gate = n.gate
  BY DEF Node, SameEntry
<1>2. CASE "failed" \notin Table[n.status]
  <2>1. n.status \in {"failed", "stopped"}
    BY <1>0, <1>2 DEF Table, Statuses
  <2>2. NodeSound(m)
    BY <1>1, <2>1 DEF NodeSound, SameEntry
  <2> QED
    BY <1>1, <1>2, <2>2 DEF MarkFailed, Sound
<1>3. CASE "failed" \in Table[n.status]
  <2>1. /\ r \in Node /\ SameEntry(r, n) /\ r.status = "failed" /\ r.gate = n.gate
    BY <1>1 DEF Node, Statuses, SameEntry
  <2>2. MarkFailed(n) = Resolve(r, "failed")
    BY <1>3 DEF MarkFailed
  <2>3. CASE r.gate[r.gen] = "open"
    <3>1. /\ s \in Node /\ SameEntry(s, n) /\ s.status = "failed"
          /\ s.gate = [n.gate EXCEPT ![n.gen] = "failed"]
      BY <2>1 DEF Node, SameEntry
    <3>2. NodeSound(s)
      BY <3>1 DEF NodeSound, SameEntry, Node, Gens
    <3> QED
      BY <2>2, <2>3, <3>1, <3>2 DEF Resolve, Sound
  <2>4. CASE r.gate[r.gen] # "open"
    <3>1. NodeSound(r)
      BY <2>1, <2>4 DEF NodeSound, SameEntry
    <3> QED
      BY <2>1, <2>2, <2>4, <3>1 DEF Resolve, Sound
  <2> QED
    BY <2>3, <2>4
<1> QED
  BY <1>2, <1>3

(* To drop the fiber of an entry changes nothing else.                        *)
LEMMA FrefSound ==
  ASSUME NEW n \in Node, NodeSound(n)
  PROVE  LET m == [n EXCEPT !.fref = None] IN
         /\ Sound(m)
         /\ m.status = n.status /\ m.gen = n.gen /\ m.value = n.value /\ m.fref = None
         /\ m.gate = n.gate /\ m.scope = n.scope /\ m.ran = n.ran
<1> DEFINE m == [n EXCEPT !.fref = None]
<1>1. /\ m \in Node
      /\ m.status = n.status /\ m.gen = n.gen /\ m.value = n.value /\ m.fref = None
      /\ m.gate = n.gate /\ m.scope = n.scope /\ m.ran = n.ran
  BY DEF Node
<1>2. NodeSound(m)
  BY <1>1 DEF NodeSound
<1> QED
  BY <1>1, <1>2 DEF Sound

LEMMA ScopeSound ==
  ASSUME NEW n \in Node, NodeSound(n), NEW g \in Gens, NEW how \in {"closing", "closed"}
  PROVE  LET m == [n EXCEPT !.scope[g] = how] IN
         /\ Sound(m)
         /\ m.status = n.status /\ m.gen = n.gen /\ m.value = n.value /\ m.fref = n.fref
         /\ m.gate = n.gate /\ m.ran = n.ran
         /\ \A h \in Gens : m.scope[h] = IF h = g THEN how ELSE n.scope[h]
<1> DEFINE m == [n EXCEPT !.scope[g] = how]
<1>1. /\ m.status = n.status /\ m.gen = n.gen /\ m.value = n.value /\ m.fref = n.fref
      /\ m.gate = n.gate /\ m.ran = n.ran
      /\ \A h \in Gens : m.scope[h] = IF h = g THEN how ELSE n.scope[h]
      /\ m \in Node
  BY DEF Node
<1>2. NodeSound(m)
  BY <1>1 DEF NodeSound
<1> QED
  BY <1>1, <1>2 DEF Sound

LEMMA ClearSound ==
  ASSUME NEW n \in Node, NodeSound(n), NEW d, NEW f
  PROVE  LET m == ClearFiber(n, d, f) IN
         /\ Sound(m)
         /\ m.status = n.status /\ m.gen = n.gen /\ m.value = n.value
         /\ m.gate = n.gate /\ m.scope = n.scope /\ m.ran = n.ran
         /\ m.fref = IF f.gen = n.gen /\ n.fref = d THEN None ELSE n.fref
BY FrefSound DEF ClearFiber, Sound

LEMMA InterruptedSound ==
  ASSUME SupervisorAssumption, NEW n \in Node, NodeSound(n), NEW f
  PROVE  Sound(FailIfInterrupted(n, f)) /\ SameEntry(FailIfInterrupted(n, f), n)
BY MarkFailedSound DEF FailIfInterrupted, Sound, SameEntry

LEMMA InterruptSound ==
  ASSUME SupervisorAssumption, NEW k \in Nodes, node[k] \in Node, NodeSound(node[k])
  PROVE  LET m == InterruptAcquire(k) IN
         /\ Sound(m) /\ m.fref = None
         /\ m.gen = node[k].gen /\ m.scope = node[k].scope /\ m.ran = node[k].ran
<1>1. CASE node[k].fref = None
  BY <1>1 DEF InterruptAcquire, Sound
<1>2. CASE node[k].fref # None
  <2> DEFINE n == [node[k] EXCEPT !.fref = None]
             f == fiber[node[k].fref][k]
  <2>1. /\ n \in Node /\ NodeSound(n) /\ n.fref = None
        /\ n.gen = node[k].gen /\ n.scope = node[k].scope /\ n.ran = node[k].ran
    BY FrefSound DEF Sound
  <2>2. InterruptAcquire(k) = FailIfInterrupted(n, f)
    BY <1>2 DEF InterruptAcquire
  <2> HIDE DEF n, f
  <2> QED
    BY <2>1, <2>2, InterruptedSound DEF SameEntry
<1> QED
  BY <1>1, <1>2

-----------------------------------------------------------------------------
(* What the steps do to the entries, the fibers and the drivers.              *)
LEMMA Distinct ==
  ASSUME SupervisorAssumption
  PROVE  /\ None \notin Gens /\ None \notin Drivers /\ None \notin Commands
         /\ None \notin Nodes /\ None \notin Reads
         /\ 1 \in Gens /\ Gens \subseteq Int
         /\ Up \in [Nodes -> SUBSET Nodes] /\ Level \in [Nodes -> Nat]
         /\ Nothing \in Reads /\ \A k \in Nodes : Nothing[k] = None
BY DEF SupervisorAssumption, Gens, Reads, Nothing

LEMMA Blank ==
  ASSUME SupervisorAssumption
  PROVE  /\ NoFiber \in Fiber /\ NoFiber.at = "none" /\ NoFiber.gen = None
         /\ Idle \in Driver /\ Idle.at = "idle" /\ Idle.cmd = None /\ Idle.slice = {}
         /\ Idle.todo = {} /\ Idle.torn = Nothing /\ Idle.was = {} /\ Idle.ok = TRUE
<1>1. Nothing \in Reads /\ Nothing \in [Nodes -> Gens \cup {None}]
  BY Distinct DEF Reads
<1> QED
  BY <1>1 DEF NoFiber, Fiber, Idle, Driver

LEMMA PutNode ==
  ASSUME node \in [Nodes -> Node], NodesSound, NEW k \in Nodes, NEW m, Sound(m),
         node' = [node EXCEPT ![k] = m]
  PROVE  /\ node' \in [Nodes -> Node] /\ NodesSound'
         /\ node'[k] = m /\ \A j \in Nodes : j # k => node'[j] = node[j]
<1>1. /\ node' \in [Nodes -> Node]
      /\ node'[k] = m /\ \A j \in Nodes : j # k => node'[j] = node[j]
  BY DEF Sound
<1>2. NodeSound(m) /\ \A j \in Nodes : NodeSound(node[j])
  BY DEF Sound, NodesSound
<1>3. ASSUME NEW j \in Nodes
      PROVE  NodeSound(node[j])'
  <2>1. CASE j = k
    BY <1>1, <1>2, <2>1 DEF NodeSound
  <2>2. CASE j # k
    <3>1. node'[j] = node[j] /\ NodeSound(node[j])
      BY <1>1, <1>2, <2>2
    <3> QED
      BY <3>1 DEF NodeSound
  <2> QED
    BY <2>1, <2>2
<1> QED
  BY <1>1, <1>3 DEF NodesSound

LEMMA SameNodes ==
  ASSUME NodesSound, UNCHANGED node
  PROVE  NodesSound'
BY DEF NodesSound, NodeSound

LEMMA PutFiber ==
  ASSUME fiber \in [Drivers -> [Nodes -> Fiber]], NEW d \in Drivers, NEW k \in Nodes,
         NEW f \in Fiber, fiber' = [fiber EXCEPT ![d][k] = f]
  PROVE  /\ fiber' \in [Drivers -> [Nodes -> Fiber]]
         /\ \A e \in Drivers, j \in Nodes :
              fiber'[e][j] = IF e = d /\ j = k THEN f ELSE fiber[e][j]
OBVIOUS

LEMMA WithoutFiber ==
  ASSUME SupervisorAssumption, fiber \in [Drivers -> [Nodes -> Fiber]], NEW k \in Nodes,
         node[k] \in Node, fiber' = FibersWithout(k)
  PROVE  /\ fiber' \in [Drivers -> [Nodes -> Fiber]]
         /\ \A e \in Drivers, j \in Nodes :
              fiber'[e][j] = IF e = node[k].fref /\ j = k THEN NoFiber ELSE fiber[e][j]
<1>1. node[k].fref \in Drivers \cup {None}
  BY DEF Node
<1>2. CASE node[k].fref = None
  <2>1. fiber' = fiber /\ None \notin Drivers
    BY <1>2, Distinct DEF FibersWithout
  <2> QED
    BY <1>2, <2>1
<1>3. CASE node[k].fref # None
  <2>1. /\ fiber' = [fiber EXCEPT ![node[k].fref][k] = NoFiber]
        /\ node[k].fref \in Drivers
    BY <1>1, <1>3 DEF FibersWithout
  <2>2. NoFiber \in Fiber
    BY Blank
  <2> QED
    BY <2>1, <2>2, PutFiber
<1> QED
  BY <1>2, <1>3

LEMMA PutDriver ==
  ASSUME drv \in [Drivers -> Driver], NEW d \in Drivers, NEW r \in Driver,
         drv' = [drv EXCEPT ![d] = r]
  PROVE  /\ drv' \in [Drivers -> Driver] /\ drv'[d] = r
         /\ \A e \in Drivers : e # d => drv'[e] = drv[e]
OBVIOUS

LEMMA DrainOk ==
  ASSUME SupervisorAssumption, NEW d, NEW c \in Commands, NEW s \in SUBSET Nodes
  PROVE  LET r == Drain(d, c, s, TRUE) IN
         /\ r \in Driver
         /\ r.at = "stop" /\ r.cmd = c /\ r.slice = s /\ r.todo = s /\ r.torn = Nothing
         /\ r.was = {} /\ r.ok = TRUE
BY Blank DEF Drain, Driver, Idle

LEMMA IdleAt ==
  ASSUME SupervisorAssumption, NEW at \in {"ended", "dead", "settle", "handler"},
         NEW c \in Commands \cup {None}
  PROVE  /\ [Idle EXCEPT !.at = at, !.cmd = c] \in Driver
         /\ [Idle EXCEPT !.at = at] \in Driver
         /\ [Idle EXCEPT !.at = at].at = at /\ [Idle EXCEPT !.at = at].cmd = None
         /\ [Idle EXCEPT !.at = at, !.cmd = c].at = at
         /\ [Idle EXCEPT !.at = at, !.cmd = c].cmd = c
         /\ [Idle EXCEPT !.at = at, !.cmd = c].slice = {}
         /\ [Idle EXCEPT !.at = at, !.cmd = c].torn = Nothing
         /\ [Idle EXCEPT !.at = at].slice = {}
         /\ [Idle EXCEPT !.at = at].torn = Nothing
BY Blank DEF Driver, Idle

OnlyNode(k) == \A j \in Nodes : j # k => node'[j] = node[j]
OnlyDriver(d) == \A e \in Drivers : e # d => drv'[e] = drv[e]

(* The driver goes on with its command: another key is done, or all are.      *)
Proceeds(d) ==
  /\ OnlyDriver(d)
  /\ drv'[d].cmd = drv[d].cmd /\ drv'[d].slice = drv[d].slice /\ drv'[d].ok = drv[d].ok

Stopped(d, k) ==
  LET n == InterruptAcquire(k)
      m == node'[k]
      mine == node[k].scope[node[k].gen] = "open" IN
  /\ node' \in [Nodes -> Node] /\ NodesSound' /\ OnlyNode(k)
  /\ m.gen = node[k].gen /\ m.ran = node[k].ran /\ m.fref = None
  /\ m.value = n.value /\ m.gate = n.gate
  /\ n.status # "ready" => m.status = n.status
  /\ n.status = "ready" => m.status \in {"stopping", "stopped"}
  /\ m.scope[node[k].gen] = IF mine THEN "closing" ELSE node[k].scope[node[k].gen]
  /\ \A g \in Gens : g # node[k].gen => m.scope[g] = node[k].scope[g]
  /\ drv' \in [Drivers -> Driver] /\ Proceeds(d)
  /\ drv'[d].at = "stop" /\ drv'[d].todo = drv[d].todo \ {k}
  /\ drv'[d].torn = [drv[d].torn EXCEPT ![k] = IF mine THEN node[k].gen ELSE None]
  /\ fiber' \in [Drivers -> [Nodes -> Fiber]]
  /\ \A e \in Drivers, j \in Nodes :
       fiber'[e][j] = IF e = node[k].fref /\ j = k THEN NoFiber ELSE fiber[e][j]

LEMMA StopNodeDoes ==
  ASSUME SupervisorAssumption, Typed, NodesSound,
         NEW d \in Drivers, NEW k \in Nodes, StopNode(d, k)
  PROVE  Stopped(d, k)
<1> DEFINE n == InterruptAcquire(k)
           ready == n.status = "ready"
           m == Transition(n, "stopping")
           mine == n.scope[n.gen] = "open"
           mm == [m EXCEPT !.scope[m.gen] = "closing"]
           nn == [n EXCEPT !.scope[n.gen] = "closing"]
           s == Transition(m, "stopped")
           x == IF ready /\ mine THEN mm ELSE IF ready THEN s ELSE IF mine THEN nn ELSE n
<1>1. node[k] \in Node /\ NodeSound(node[k])
  BY DEF Typed, NodesSound
<1>2. /\ Sound(n) /\ n.fref = None
      /\ n.gen = node[k].gen /\ n.scope = node[k].scope /\ n.ran = node[k].ran
  BY <1>1, InterruptSound
<1>3. node' = [node EXCEPT ![k] = x]
  BY DEF StopNode
<1>4. fiber' = FibersWithout(k)
  BY DEF StopNode
<1>5. drv' = [drv EXCEPT ![d].todo = @ \ {k},
                         ![d].torn[k] = IF mine THEN n.gen ELSE None,
                         ![d].was = IF ready /\ mine THEN @ \cup {k} ELSE @]
  BY DEF StopNode
<1>6. drv[d].at = "stop"
  BY DEF StopNode, At
<1> HIDE DEF n
<1>7. n \in Node /\ NodeSound(n) /\ n.gen \in Gens
  BY <1>2 DEF Sound, Node
<1>8. Sound(m) /\ SameEntry(m, n) /\ m.value = n.value /\ m.gate = n.gate
      /\ (ready => m.status = "stopping") /\ (~ready => m = n)
  <2>1. Sound(m) /\ SameEntry(m, n)
    BY <1>7, TransitionSound DEF Statuses
  <2>2. n.status \in Statuses
    BY <1>7 DEF Node
  <2>3. ("stopping" \in Table[n.status]) <=> ready
    BY <2>2 DEF Table, Statuses
  <2>4. m.value = n.value /\ m.gate = n.gate /\ (ready => m.status = "stopping") /\ (~ready => m = n)
    BY <1>7, <2>3 DEF Transition, Node
  <2> QED
    BY <2>1, <2>4
<1> HIDE DEF m
<1>9. m \in Node /\ NodeSound(m) /\ m.gen = n.gen
  BY <1>8 DEF Sound, SameEntry
<1>10. Sound(x) /\ x.gen = n.gen /\ x.ran = n.ran /\ x.fref = None /\ x.value = n.value
       /\ x.gate = n.gate
       /\ (~ready => x.status = n.status)
       /\ (ready => x.status \in {"stopping", "stopped"})
       /\ \A g \in Gens : x.scope[g] = IF g = n.gen /\ mine THEN "closing" ELSE n.scope[g]
  <2>1. CASE ready /\ mine
    <3>1. x = mm /\ m.gen \in Gens
      BY <1>7, <1>9, <2>1
    <3>2. /\ Sound(mm) /\ mm.status = m.status /\ mm.gen = m.gen /\ mm.value = m.value
          /\ mm.fref = m.fref /\ mm.ran = m.ran /\ mm.gate = m.gate
          /\ \A g \in Gens : mm.scope[g] = IF g = m.gen THEN "closing" ELSE m.scope[g]
      BY <1>9, <3>1, ScopeSound, ZenonT(60)
    <3> HIDE DEF mm
    <3> QED
      BY <1>2, <1>8, <2>1, <3>1, <3>2 DEF SameEntry
  <2>2. CASE ready /\ ~mine
    <3>1. /\ Sound(s) /\ SameEntry(s, m) /\ s.value = m.value /\ s.gate = m.gate
          /\ s.status \in {"stopping", "stopped"}
      <4>1. Sound(s) /\ SameEntry(s, m)
        BY <1>9, TransitionSound DEF Statuses
      <4>2. s.value = m.value /\ s.gate = m.gate /\ s.status \in {"stopping", "stopped"}
        BY <1>8, <1>9, <2>2 DEF Transition, Node
      <4> QED
        BY <4>1, <4>2
    <3> HIDE DEF s
    <3> QED
      BY <1>2, <1>8, <2>2, <3>1 DEF SameEntry
  <2>3. CASE ~ready /\ mine
    <3>1. x = nn
      BY <2>3
    <3>2. /\ Sound(nn) /\ nn.status = n.status /\ nn.gen = n.gen /\ nn.value = n.value
          /\ nn.fref = n.fref /\ nn.ran = n.ran /\ nn.gate = n.gate
          /\ \A g \in Gens : nn.scope[g] = IF g = n.gen THEN "closing" ELSE n.scope[g]
      BY <1>7, ScopeSound, ZenonT(40)
    <3> HIDE DEF nn
    <3> QED
      BY <1>2, <2>3, <3>1, <3>2
  <2>4. CASE ~ready /\ ~mine
    BY <1>2, <1>7, <2>4 DEF Sound
  <2> QED
    BY <2>1, <2>2, <2>3, <2>4
<1> HIDE DEF x
<1>11. /\ node' \in [Nodes -> Node] /\ NodesSound' /\ OnlyNode(k) /\ node'[k] = x
  <2>1. node \in [Nodes -> Node]
    BY DEF Typed
  <2> QED
    BY <1>3, <1>10, <2>1, PutNode, ZenonT(40) DEF OnlyNode
<1>12. /\ drv' \in [Drivers -> Driver] /\ Proceeds(d)
       /\ drv'[d].at = "stop" /\ drv'[d].todo = drv[d].todo \ {k}
       /\ drv'[d].torn = [drv[d].torn EXCEPT ![k] = IF mine THEN n.gen ELSE None]
  <2>1. drv \in [Drivers -> Driver] /\ drv[d] \in Driver
    BY DEF Typed
  <2> DEFINE v == IF mine THEN n.gen ELSE None
             w == IF ready /\ mine THEN drv[d].was \cup {k} ELSE drv[d].was
  <2>2. drv' = [drv EXCEPT ![d].todo = @ \ {k}, ![d].torn[k] = v, ![d].was = w]
    BY <1>5, <2>1
  <2>3. v \in Gens \cup {None} /\ w \in SUBSET Nodes
    BY <1>7, <2>1 DEF Driver
  <2> HIDE DEF v, w
  <2>4. /\ drv'[d].at = drv[d].at /\ drv'[d].cmd = drv[d].cmd /\ drv'[d].slice = drv[d].slice
        /\ drv'[d].todo = drv[d].todo \ {k} /\ drv'[d].ok = drv[d].ok
        /\ drv'[d].torn = [drv[d].torn EXCEPT ![k] = v]
        /\ \A e \in Drivers : e # d => drv'[e] = drv[e]
    BY <2>1, <2>2, <2>3 DEF Driver
  <2>5. drv' \in [Drivers -> Driver]
    BY <2>1, <2>2, <2>3, ZenonT(40) DEF Driver
  <2> QED
    BY <1>6, <2>4, <2>5 DEF Proceeds, OnlyDriver, v
<1>13. /\ fiber' \in [Drivers -> [Nodes -> Fiber]]
       /\ \A e \in Drivers, j \in Nodes :
            fiber'[e][j] = IF e = node[k].fref /\ j = k THEN NoFiber ELSE fiber[e][j]
  <2>1. fiber \in [Drivers -> [Nodes -> Fiber]]
    BY DEF Typed
  <2> QED
    BY <1>1, <1>4, <2>1, WithoutFiber
<1>14. mine <=> node[k].scope[node[k].gen] = "open"
  BY <1>2
<1>15. x.scope[n.gen] = IF mine THEN "closing" ELSE n.scope[n.gen]
  BY <1>7, <1>10
<1>16. \A g \in Gens : g # n.gen => x.scope[g] = n.scope[g]
  BY <1>7, <1>10
<1> QED
  BY <1>2, <1>10, <1>11, <1>12, <1>13, <1>14, <1>15, <1>16 DEF n, Stopped

(* One teardown has closed its scope: the entry of k is settled.               *)
Closes(d, k) ==
  LET m == node'[k] IN
  /\ drv[d].torn[k] \in Gens
  /\ node' \in [Nodes -> Node] /\ NodesSound' /\ OnlyNode(k)
  /\ m.gen = node[k].gen /\ m.ran = node[k].ran /\ m.fref = node[k].fref
  /\ m.value = node[k].value /\ m.gate = node[k].gate
  /\ m.status # node[k].status => node[k].status = "stopping" /\ m.status = "stopped"
  /\ \A g \in Gens : m.scope[g] =
       IF g = drv[d].torn[k] THEN "closed" ELSE node[k].scope[g]
  /\ drv' \in [Drivers -> Driver] /\ Proceeds(d)
  /\ drv[d].at = "stop" /\ drv'[d].at = "stop" /\ drv'[d].todo = drv[d].todo
  /\ drv'[d].torn = [drv[d].torn EXCEPT ![k] = None]
  /\ UNCHANGED fiber

LEMMA ClosedDoes ==
  ASSUME SupervisorAssumption, Typed, NodesSound,
         NEW d \in Drivers, NEW k \in Nodes, Closed(d, k)
  PROVE  Closes(d, k)
<1> DEFINE g0 == drv[d].torn[k]
           n == [node[k] EXCEPT !.scope[g0] = "closed"]
           s == Transition(n, "stopped")
           x == IF k \in drv[d].was THEN s ELSE n
<1>1. node[k] \in Node /\ NodeSound(node[k]) /\ drv[d] \in Driver
  BY DEF Typed, NodesSound
<1>2. g0 \in Gens /\ drv[d].at = "stop"
  BY <1>1 DEF Closed, At, Driver
<1>3. /\ node' = [node EXCEPT ![k] = x]
      /\ drv' = [drv EXCEPT ![d].torn[k] = None]
      /\ UNCHANGED fiber
  BY DEF Closed
<1> DEFINE o == node[k]
<1> HIDE DEF g0
<1>4. o \in Node /\ NodeSound(o) /\ n = [o EXCEPT !.scope[g0] = "closed"] /\ o = node[k]
  BY <1>1
<1> HIDE DEF o, n
<1>5. /\ Sound(n) /\ n.status = node[k].status /\ n.gen = node[k].gen
      /\ n.value = node[k].value /\ n.fref = node[k].fref /\ n.ran = node[k].ran
      /\ n.gate = node[k].gate
      /\ \A h \in Gens : n.scope[h] = IF h = g0 THEN "closed" ELSE node[k].scope[h]
  <2> DEFINE p == [o EXCEPT !.scope[g0] = "closed"]
  <2>1. Sound(p)
    BY <1>2, <1>4, ScopeSound
  <2>2. p.status = o.status /\ p.gen = o.gen /\ p.value = o.value /\ p.fref = o.fref
    BY <1>2, <1>4, ScopeSound
  <2>3. p.ran = o.ran /\ p.gate = o.gate
    BY <1>2, <1>4, ScopeSound
  <2>4. \A h \in Gens : p.scope[h] = IF h = g0 THEN "closed" ELSE o.scope[h]
    BY <1>2, <1>4, ScopeSound
  <2> HIDE DEF p
  <2> QED
    BY <1>4, <2>1, <2>2, <2>3, <2>4 DEF p
<1>6. n \in Node /\ NodeSound(n) /\ n.status \in Statuses
  BY <1>5 DEF Sound, Node
<1>7. Sound(s) /\ SameEntry(s, n)
  BY <1>6, TransitionSound DEF Statuses
<1>8. /\ s.value = n.value /\ s.gate = n.gate
      /\ s.status # n.status => n.status = "stopping" /\ s.status = "stopped"
  BY <1>6, InTable DEF Transition, Node, Statuses
<1> HIDE DEF s
<1>9. /\ Sound(x) /\ x.gen = n.gen /\ x.value = n.value /\ x.fref = n.fref /\ x.ran = n.ran
      /\ x.scope = n.scope /\ x.gate = n.gate
      /\ x.status # n.status => n.status = "stopping" /\ x.status = "stopped"
  BY <1>5, <1>7, <1>8 DEF SameEntry
<1> HIDE DEF x
<1>10. /\ node' \in [Nodes -> Node] /\ NodesSound' /\ OnlyNode(k) /\ node'[k] = x
  <2>1. node \in [Nodes -> Node]
    BY DEF Typed
  <2> QED
    BY <1>3, <1>9, <2>1, PutNode, ZenonT(40) DEF OnlyNode
<1>11. /\ drv'[d].at = drv[d].at /\ drv'[d].cmd = drv[d].cmd /\ drv'[d].slice = drv[d].slice
       /\ drv'[d].todo = drv[d].todo /\ drv'[d].ok = drv[d].ok
       /\ drv'[d].torn = [drv[d].torn EXCEPT ![k] = None]
       /\ OnlyDriver(d) /\ drv' \in [Drivers -> Driver]
  <2>1. drv \in [Drivers -> Driver]
    BY DEF Typed
  <2> QED
    BY <1>1, <1>3, <2>1 DEF Driver, OnlyDriver
<1> QED
  BY <1>2, <1>3, <1>5, <1>9, <1>10, <1>11 DEF Proceeds, Closes, g0

LEMMA ResetDoes ==
  ASSUME SupervisorAssumption, Typed, NodesSound,
         NEW d \in Drivers, NEW k \in Nodes, Reset(d, k)
  PROVE  LET m == node'[k] IN
         /\ node' \in [Nodes -> Node] /\ NodesSound' /\ OnlyNode(k)
         /\ m.gen = node[k].gen + 1 /\ m.gen \in Gens
         /\ m.ran = node[k].ran /\ m.scope = node[k].scope /\ m.fref = None
         /\ m.status = "pending" /\ m.value = None
         /\ drv' \in [Drivers -> Driver] /\ Proceeds(d)
         /\ drv[d].at = "reset" /\ k \in drv[d].todo
         /\ \A j \in drv[d].todo : Level[j] >= Level[k]
         /\ drv'[d].at = IF drv[d].todo = {k} THEN "fork" ELSE "reset"
         /\ drv'[d].todo = drv[d].todo \ {k} /\ drv'[d].torn = drv[d].torn
         /\ fiber' \in [Drivers -> [Nodes -> Fiber]]
         /\ \A e \in Drivers, j \in Nodes :
              fiber'[e][j] = IF e = node[k].fref /\ j = k THEN NoFiber ELSE fiber[e][j]
<1> DEFINE n == InterruptAcquire(k)
           x == [n EXCEPT !.status = "pending", !.value = None, !.gen = @ + 1]
<1>1. node[k] \in Node /\ NodeSound(node[k])
  BY DEF Typed, NodesSound
<1>2. /\ Sound(n) /\ n.fref = None
      /\ n.gen = node[k].gen /\ n.scope = node[k].scope /\ n.ran = node[k].ran
  BY <1>1, InterruptSound
<1>3. /\ node' = [node EXCEPT ![k] = x]
      /\ fiber' = FibersWithout(k)
      /\ drv' = [drv EXCEPT ![d].todo = @ \ {k},
                            ![d].at = IF drv[d].todo = {k} THEN "fork" ELSE @]
      /\ node[k].gen < MaxGen /\ drv[d].at = "reset" /\ k \in drv[d].todo
      /\ \A j \in drv[d].todo : Level[j] >= Level[k]
  BY DEF Reset, At
<1> HIDE DEF n
<1>4. n \in Node /\ NodeSound(n) /\ n.gen \in Gens /\ n.gen + 1 \in Gens
  <2>1. n \in Node /\ NodeSound(n) /\ n.gen \in Gens
    BY <1>2 DEF Sound, Node
  <2>2. MaxGen \in Nat
    BY DEF SupervisorAssumption
  <2> QED
    BY <1>2, <1>3, <2>1, <2>2 DEF Gens
<1>5. /\ x.gen = n.gen + 1 /\ x.fref = n.fref /\ x.scope = n.scope /\ x.ran = n.ran
      /\ x.status = "pending" /\ x.value = None /\ x.gate = n.gate
      /\ x \in Node
  BY <1>4 DEF Node, Statuses
<1>6. NodeSound(x)
  BY <1>4, <1>5 DEF NodeSound, Gens
<1> HIDE DEF x
<1>7. /\ node' \in [Nodes -> Node] /\ NodesSound' /\ OnlyNode(k) /\ node'[k] = x
  <2>1. node \in [Nodes -> Node] /\ Sound(x)
    BY <1>5, <1>6 DEF Typed, Sound
  <2> QED
    BY <1>3, <2>1, PutNode DEF OnlyNode
<1>8. /\ drv'[d].at = IF drv[d].todo = {k} THEN "fork" ELSE "reset"
      /\ drv'[d].cmd = drv[d].cmd /\ drv'[d].slice = drv[d].slice
      /\ drv'[d].todo = drv[d].todo \ {k} /\ drv'[d].ok = drv[d].ok
      /\ drv'[d].torn = drv[d].torn
      /\ OnlyDriver(d) /\ drv' \in [Drivers -> Driver]
  <2>1. drv \in [Drivers -> Driver] /\ drv[d] \in Driver
    BY DEF Typed
  <2> QED
    BY <1>3, <2>1 DEF Driver, OnlyDriver
<1>9. fiber \in [Drivers -> [Nodes -> Fiber]]
  BY DEF Typed
<1> QED
  BY <1>1, <1>2, <1>3, <1>4, <1>5, <1>7, <1>8, <1>9, WithoutFiber DEF Proceeds

LEMMA ForkDoes ==
  ASSUME SupervisorAssumption, Typed, NEW d \in Drivers, Fork(d)
  PROVE  /\ drv[d].at = "fork" /\ UNCHANGED node
         /\ drv' \in [Drivers -> Driver] /\ OnlyDriver(d)
         /\ fiber' \in [Drivers -> [Nodes -> Fiber]]
         /\ \/ /\ d = "init" /\ latch
               /\ drv'[d].at = "ended" /\ UNCHANGED fiber
            \/ /\ ~(d = "init" /\ latch)
               /\ Proceeds(d)
               /\ drv'[d].at = "register" /\ drv'[d].todo = drv[d].slice
               /\ drv'[d].torn = drv[d].torn
               /\ \A e \in Drivers, j \in Nodes :
                    IF e = d /\ j \in drv[d].slice
                      THEN fiber'[e][j].at = "forked" /\ fiber'[e][j].gen = node[j].gen
                      ELSE fiber'[e][j] = fiber[e][j]
<1>1. /\ drv[d].at = "fork" /\ UNCHANGED node
      /\ drv \in [Drivers -> Driver] /\ drv[d] \in Driver
      /\ fiber \in [Drivers -> [Nodes -> Fiber]] /\ node \in [Nodes -> Node]
  BY DEF Fork, At, Typed
<1>2. CASE d = "init" /\ latch
  <2>1. drv' = [drv EXCEPT ![d] = [Idle EXCEPT !.at = "ended"]] /\ UNCHANGED fiber
    BY <1>2 DEF Fork
  <2>2. [Idle EXCEPT !.at = "ended"] \in Driver /\ [Idle EXCEPT !.at = "ended"].at = "ended"
    BY IdleAt
  <2>3. drv' \in [Drivers -> Driver] /\ drv'[d].at = "ended" /\ OnlyDriver(d)
    BY <1>1, <2>1, <2>2, PutDriver DEF OnlyDriver
  <2> QED
    BY <1>1, <1>2, <2>1, <2>3
<1>3. CASE ~(d = "init" /\ latch)
  <2> DEFINE forked(k) == [NoFiber EXCEPT !.at = "forked", !.gen = node[k].gen]
  <2>1. /\ drv' = [drv EXCEPT ![d].at = "register", ![d].todo = drv[d].slice]
        /\ fiber' = [fiber EXCEPT ![d] = [k \in Nodes |->
              IF k \in drv[d].slice THEN forked(k) ELSE @[k]]]
    BY <1>3 DEF Fork
  <2>2. ASSUME NEW k \in Nodes
        PROVE  /\ forked(k) \in Fiber
               /\ forked(k).at = "forked" /\ forked(k).gen = node[k].gen
    <3>1. node[k].gen \in Gens /\ NoFiber \in Fiber
      BY <1>1, Blank DEF Node
    <3> QED
      BY <3>1 DEF Fiber
  <2> HIDE DEF forked
  <2>3. fiber' \in [Drivers -> [Nodes -> Fiber]]
    BY <1>1, <2>1, <2>2
  <2>4. ASSUME NEW e \in Drivers, NEW j \in Nodes
        PROVE  IF e = d /\ j \in drv[d].slice
                 THEN fiber'[e][j].at = "forked" /\ fiber'[e][j].gen = node[j].gen
                 ELSE fiber'[e][j] = fiber[e][j]
    BY <1>1, <2>1, <2>2
  <2>5. /\ drv'[d].at = "register" /\ drv'[d].todo = drv[d].slice
        /\ drv'[d].torn = drv[d].torn /\ Proceeds(d) /\ drv' \in [Drivers -> Driver]
        /\ OnlyDriver(d)
    BY <1>1, <2>1 DEF Driver, Proceeds, OnlyDriver
  <2> QED
    BY <1>1, <1>3, <2>3, <2>4, <2>5
<1> QED
  BY <1>2, <1>3

LEMMA RegisterDoes ==
  ASSUME SupervisorAssumption, Typed, NodesSound,
         NEW d \in Drivers, NEW k \in Nodes, Register(d, k)
  PROVE  LET m == node'[k] IN
         /\ drv[d].at = "register" /\ k \in drv[d].todo
         /\ node' \in [Nodes -> Node] /\ NodesSound' /\ OnlyNode(k)
         /\ m.gen = node[k].gen /\ m.ran = node[k].ran /\ m.scope = node[k].scope
         /\ m.value = node[k].value /\ m.status = node[k].status /\ m.gate = node[k].gate
         /\ m.fref = IF fiber[d][k].gen = node[k].gen THEN d ELSE node[k].fref
         /\ drv' \in [Drivers -> Driver] /\ Proceeds(d)
         /\ drv'[d].at = IF drv[d].todo = {k} THEN "await" ELSE "register"
         /\ drv'[d].todo = drv[d].todo \ {k} /\ drv'[d].torn = drv[d].torn
         /\ fiber' \in [Drivers -> [Nodes -> Fiber]]
         /\ \A e \in Drivers, j \in Nodes : ~(e = d /\ j = k) => fiber'[e][j] = fiber[e][j]
         /\ IF fiber[d][k].gen = node[k].gen
              THEN /\ fiber'[d][k].at = "waiting" /\ fiber'[d][k].gen = node[k].gen
                   /\ \A u \in Up[k] : fiber'[d][k].seen[u] = node[u].gen
              ELSE fiber'[d][k] = NoFiber
<1>1. /\ drv[d].at = "register" /\ k \in drv[d].todo
      /\ drv \in [Drivers -> Driver] /\ drv[d] \in Driver
      /\ fiber \in [Drivers -> [Nodes -> Fiber]] /\ fiber[d][k] \in Fiber
      /\ node \in [Nodes -> Node]
  BY DEF Register, At, Typed
<1>2. node[k] \in Node /\ NodeSound(node[k])
  BY DEF Typed, NodesSound
<1>3. /\ drv'[d].at = IF drv[d].todo = {k} THEN "await" ELSE "register"
      /\ drv'[d].todo = drv[d].todo \ {k} /\ drv'[d].torn = drv[d].torn
      /\ Proceeds(d) /\ drv' \in [Drivers -> Driver]
  <2>1. drv' = [drv EXCEPT ![d].todo = @ \ {k},
                           ![d].at = IF drv[d].todo = {k} THEN "await" ELSE @]
    BY DEF Register
  <2> QED
    BY <1>1, <2>1, ZenonT(40) DEF Driver, Proceeds, OnlyDriver
<1>4. CASE fiber[d][k].gen = node[k].gen
  <2> DEFINE x == [node[k] EXCEPT !.fref = d]
             y == [u \in Nodes |-> IF u \in Up[k] THEN node[u].gen ELSE None]
             f == [fiber[d][k] EXCEPT !.at = "waiting", !.seen = y]
  <2>1. /\ node' = [node EXCEPT ![k].fref = d]
        /\ fiber' = [fiber EXCEPT ![d][k].at = "waiting", ![d][k].seen = y]
    BY <1>4 DEF Register
  <2>2. /\ x.gen = node[k].gen /\ x.ran = node[k].ran /\ x.scope = node[k].scope
        /\ x.value = node[k].value /\ x.status = node[k].status /\ x.gate = node[k].gate
        /\ x.fref = d /\ x \in Node
    BY <1>2 DEF Node
  <2>3. NodeSound(x)
    BY <1>2, <2>2 DEF NodeSound
  <2>4. node' = [node EXCEPT ![k] = x]
    BY <1>1, <2>1
  <2> HIDE DEF x
  <2>5. node' \in [Nodes -> Node] /\ NodesSound' /\ OnlyNode(k) /\ node'[k] = x
    BY <1>1, <2>2, <2>3, <2>4, PutNode, ZenonT(40) DEF OnlyNode, Sound
  <2>6. y \in Reads
    <3>1. \A u \in Nodes : node[u].gen \in Gens
      BY <1>1 DEF Node
    <3> QED
      BY <3>1 DEF Reads
  <2>7. \A u \in Up[k] : y[u] = node[u].gen
    BY Distinct
  <2> HIDE DEF y
  <2>8. fiber' = [fiber EXCEPT ![d][k] = f]
    BY <1>1, <2>1
  <2>9. f \in Fiber /\ f.at = "waiting" /\ f.gen = fiber[d][k].gen /\ f.seen = y
    BY <1>1, <2>6 DEF Fiber
  <2> HIDE DEF f
  <2>10. /\ fiber' \in [Drivers -> [Nodes -> Fiber]] /\ fiber'[d][k] = f
         /\ \A e \in Drivers, j \in Nodes : ~(e = d /\ j = k) => fiber'[e][j] = fiber[e][j]
    BY <1>1, <2>8, <2>9, PutFiber
  <2> QED
    BY <1>1, <1>3, <1>4, <2>2, <2>5, <2>7, <2>9, <2>10
<1>5. CASE fiber[d][k].gen # node[k].gen
  <2>1. fiber' = [fiber EXCEPT ![d][k] = NoFiber] /\ UNCHANGED node
    BY <1>5 DEF Register
  <2>2. NodesSound' /\ NoFiber \in Fiber
    BY <2>1, SameNodes, Blank
  <2>3. /\ fiber' \in [Drivers -> [Nodes -> Fiber]] /\ fiber'[d][k] = NoFiber
        /\ \A e \in Drivers, j \in Nodes : ~(e = d /\ j = k) => fiber'[e][j] = fiber[e][j]
    BY <1>1, <2>1, <2>2, PutFiber
  <2> QED
    BY <1>1, <1>3, <1>5, <2>1, <2>2, <2>3 DEF OnlyNode
<1> QED
  BY <1>4, <1>5

LEMMA EndFiberDoes ==
  ASSUME SupervisorAssumption, Typed, NodesSound, NEW d \in Drivers, NEW k \in Nodes,
         NEW n, Sound(n), NEW at \in {"none", "died"}, EndFiber(d, k, n, at)
  PROVE  LET m == node'[k] IN
         /\ node' \in [Nodes -> Node] /\ NodesSound' /\ OnlyNode(k)
         /\ m.gen = n.gen /\ m.ran = n.ran /\ m.scope = n.scope
         /\ m.value = n.value /\ m.status = n.status /\ m.gate = n.gate
         /\ m.fref = IF fiber[d][k].gen = n.gen /\ n.fref = d THEN None ELSE n.fref
         /\ fiber' \in [Drivers -> [Nodes -> Fiber]]
         /\ \A e \in Drivers, j \in Nodes : ~(e = d /\ j = k) => fiber'[e][j] = fiber[e][j]
         /\ fiber'[d][k].at = at /\ fiber'[d][k].gen = None
<1> DEFINE x == ClearFiber(n, d, fiber[d][k])
           f == [NoFiber EXCEPT !.at = at]
<1>1. /\ node' = [node EXCEPT ![k] = x] /\ fiber' = [fiber EXCEPT ![d][k] = f]
      /\ fiber \in [Drivers -> [Nodes -> Fiber]] /\ node \in [Nodes -> Node]
  BY DEF EndFiber, Typed
<1>2. /\ Sound(x)
      /\ x.gen = n.gen /\ x.ran = n.ran /\ x.scope = n.scope
      /\ x.value = n.value /\ x.status = n.status /\ x.gate = n.gate
      /\ x.fref = IF fiber[d][k].gen = n.gen /\ n.fref = d THEN None ELSE n.fref
  BY ClearSound DEF Sound
<1> HIDE DEF x
<1>3. f \in Fiber /\ f.at = at /\ f.gen = None
  BY Blank DEF Fiber
<1> HIDE DEF f
<1>4. node' \in [Nodes -> Node] /\ NodesSound' /\ OnlyNode(k) /\ node'[k] = x
  BY <1>1, <1>2, PutNode, ZenonT(40) DEF OnlyNode
<1>5. /\ fiber' \in [Drivers -> [Nodes -> Fiber]] /\ fiber'[d][k] = f
      /\ \A e \in Drivers, j \in Nodes : ~(e = d /\ j = k) => fiber'[e][j] = fiber[e][j]
  BY <1>1, <1>3, PutFiber
<1> QED
  BY <1>2, <1>3, <1>4, <1>5

LEMMA BeginDoes ==
  ASSUME SupervisorAssumption, Typed, NodesSound, FiberInv,
         NEW d \in Drivers, NEW k \in Nodes, Begin(d, k)
  PROVE  LET f == fiber[d][k]
             m == node'[k] IN
         /\ f.at = "waiting" /\ f.gen \in Gens
         /\ \A u \in Up[k] : Gate(f, u) = "ok"
         /\ node' \in [Nodes -> Node] /\ NodesSound' /\ OnlyNode(k)
         /\ m.gen = node[k].gen /\ m.scope = node[k].scope
         /\ m.value = node[k].value /\ m.gate = node[k].gate
         /\ m.status = IF node[k].status = "pending" THEN "acquiring" ELSE node[k].status
         /\ UNCHANGED drv
         /\ fiber' \in [Drivers -> [Nodes -> Fiber]]
         /\ \A e \in Drivers, j \in Nodes : ~(e = d /\ j = k) => fiber'[e][j] = fiber[e][j]
         /\ \/ /\ \E u \in Up[k] : node[u].value = None
               /\ m.ran = node[k].ran
               /\ m.fref = IF f.gen = node[k].gen /\ node[k].fref = d
                             THEN None ELSE node[k].fref
               /\ fiber'[d][k].at = "died" /\ fiber'[d][k].gen = None
            \/ /\ \A g \in Gens : g # f.gen => m.ran[g] = node[k].ran[g]
               /\ m.ran[f.gen] # None
               /\ \A u \in Up[k] : m.ran[f.gen][u] = node[u].value /\ node[u].value # None
               /\ m.fref = node[k].fref
               /\ fiber'[d][k].at = "starting" /\ fiber'[d][k].gen = f.gen
<1> DEFINE f == fiber[d][k]
           n == Transition(node[k], "acquiring")
           y == [u \in Nodes |-> IF u \in Up[k] THEN node[u].value ELSE None]
<1>1. /\ f.at = "waiting" /\ \A u \in Up[k] : Gate(f, u) = "ok"
      /\ UNCHANGED drv
  BY DEF Begin, FiberAt
<1>2. f \in Fiber /\ f.gen \in Gens /\ fiber \in [Drivers -> [Nodes -> Fiber]]
  BY <1>1 DEF Typed, FiberInv
<1>3. node[k] \in Node /\ NodeSound(node[k]) /\ node \in [Nodes -> Node]
  BY DEF Typed, NodesSound
<1>4. Sound(n) /\ SameEntry(n, node[k])
  BY <1>3, TransitionSound DEF Statuses
<1>5. /\ n.value = node[k].value /\ n.gate = node[k].gate
      /\ n.status = IF node[k].status = "pending" THEN "acquiring" ELSE node[k].status
  <2>1. node[k].status \in Statuses
    BY <1>3 DEF Node
  <2>2. "acquiring" \in Table[node[k].status] <=> node[k].status = "pending"
    BY <2>1 DEF Table, Statuses
  <2> QED
    BY <1>3, <2>2 DEF Transition, Node
<1> HIDE DEF n
<1>6. CASE \E u \in Up[k] : node[u].value = None
  <2>1. EndFiber(d, k, n, "died")
    BY <1>6 DEF Begin, n
  <2> QED
    BY <1>1, <1>2, <1>4, <1>5, <1>6, <2>1, EndFiberDoes DEF SameEntry
<1>7. CASE ~(\E u \in Up[k] : node[u].value = None)
  <2> DEFINE x == [n EXCEPT !.ran[f.gen] = y]
             fb == [f EXCEPT !.at = "starting"]
  <2>1. /\ node' = [node EXCEPT ![k] = x]
        /\ fiber' = [fiber EXCEPT ![d][k].at = "starting"]
    BY <1>7 DEF Begin, n
  <2>2. y \in Reads /\ y # None /\ \A u \in Up[k] : y[u] = node[u].value
    <3>1. \A u \in Nodes : node[u].value \in Gens \cup {None}
      BY <1>3 DEF Node
    <3>2. y \in Reads
      BY <3>1 DEF Reads
    <3> QED
      BY <3>2, Distinct
  <2> HIDE DEF y
  <2>3. n \in Node /\ NodeSound(n)
    BY <1>4 DEF Sound
  <2>4. /\ x.gen = n.gen /\ x.scope = n.scope /\ x.value = n.value /\ x.status = n.status
        /\ x.fref = n.fref /\ x.gate = n.gate /\ x.ran[f.gen] = y
        /\ \A g \in Gens : g # f.gen => x.ran[g] = n.ran[g]
    BY <1>2, <2>3 DEF Node
  <2>5. x \in Node
    BY <1>2, <2>2, <2>3 DEF Node
  <2>6. NodeSound(x)
    BY <2>3, <2>4 DEF NodeSound
  <2> HIDE DEF x
  <2>7. node' \in [Nodes -> Node] /\ NodesSound' /\ OnlyNode(k) /\ node'[k] = x
    BY <1>3, <2>1, <2>5, <2>6, PutNode DEF OnlyNode, Sound
  <2>8. fiber' = [fiber EXCEPT ![d][k] = fb]
    BY <1>2, <2>1
  <2>9. fb \in Fiber /\ fb.at = "starting" /\ fb.gen = f.gen
    BY <1>2 DEF Fiber
  <2> HIDE DEF fb
  <2>10. /\ fiber' \in [Drivers -> [Nodes -> Fiber]] /\ fiber'[d][k] = fb
         /\ \A e \in Drivers, j \in Nodes : ~(e = d /\ j = k) => fiber'[e][j] = fiber[e][j]
    BY <1>2, <2>8, <2>9, PutFiber
  <2>11. \A u \in Up[k] : node[u].value # None
    BY <1>7
  <2> QED
    BY <1>1, <1>2, <1>4, <1>5, <2>2, <2>4, <2>7, <2>9, <2>10, <2>11 DEF SameEntry
<1> QED
  BY <1>6, <1>7

LEMMA FailedFacts ==
  ASSUME SupervisorAssumption, NEW n \in Node
  PROVE  /\ MarkFailed(n).value = None
         /\ MarkFailed(n).status = IF n.status = "stopped" THEN "stopped" ELSE "failed"
<1>1. n.status \in Statuses
  BY DEF Node
<1>2. "failed" \in Table[n.status] <=> n.status \notin {"failed", "stopped"}
  BY <1>1 DEF Table, Statuses
<1> QED
  BY <1>1, <1>2 DEF MarkFailed, Resolve, Node

LEMMA ReadyFacts ==
  ASSUME SupervisorAssumption, NEW n \in Node, NEW v \in Gens
  PROVE  /\ MarkReady(n, v).value = v
         /\ MarkReady(n, v).status = IF n.status \in {"pending", "acquiring", "ready"}
                                       THEN "ready" ELSE n.status
BY DEF MarkReady, Resolve, Node

(* A step of a fiber that ends it: what becomes of the entry.                 *)
Ends(d, k, value, statuses, at) ==
  LET m == node'[k] IN
  /\ Live(d, k) /\ fiber[d][k].gen \in Gens
  /\ node' \in [Nodes -> Node] /\ NodesSound' /\ OnlyNode(k)
  /\ m.gen = node[k].gen /\ m.scope = node[k].scope /\ m.ran = node[k].ran
  /\ m.value = value /\ m.status \in statuses
  /\ m.fref = IF fiber[d][k].gen = node[k].gen /\ node[k].fref = d
                THEN None ELSE node[k].fref
  /\ UNCHANGED drv
  /\ fiber' \in [Drivers -> [Nodes -> Fiber]]
  /\ \A e \in Drivers, j \in Nodes : ~(e = d /\ j = k) => fiber'[e][j] = fiber[e][j]
  /\ fiber'[d][k].at = at /\ fiber'[d][k].gen = None

Failing(s) == {IF s = "stopped" THEN "stopped" ELSE "failed"}
Readying(s) == IF s \in {"pending", "acquiring", "ready"} THEN {"ready", "done"} ELSE {s}

LEMMA EndsDoes ==
  ASSUME SupervisorAssumption, Typed, NodesSound, FiberInv,
         NEW d \in Drivers, NEW k \in Nodes
  PROVE  /\ UpstreamFailed(d, k) =>
              fiber[d][k].at = "waiting" /\ Ends(d, k, None, Failing(node[k].status), "none")
         /\ StartFailed(d, k) =>
              fiber[d][k].at = "starting" /\ Ends(d, k, None, Failing(node[k].status), "none")
         /\ StartDied(d, k) =>
              /\ k \in MayDie /\ fiber[d][k].at = "starting"
              /\ Ends(d, k, node[k].value, {node[k].status}, "died")
         /\ Started(d, k) =>
              /\ fiber[d][k].at = "starting"
              /\ Ends(d, k, fiber[d][k].gen, Readying(node[k].status), "none")
<1>1. node[k] \in Node /\ NodeSound(node[k]) /\ Sound(node[k])
  BY DEF Typed, NodesSound, Sound
<1>2. fiber[d][k] \in Fiber /\ (Live(d, k) => fiber[d][k].gen \in Gens)
  BY DEF Typed, FiberInv, Live
<1>3. ASSUME UpstreamFailed(d, k) \/ StartFailed(d, k)
      PROVE  Ends(d, k, None, Failing(node[k].status), "none")
  <2> DEFINE n == MarkFailed(node[k])
  <2>1. Live(d, k) /\ UNCHANGED drv /\ EndFiber(d, k, n, "none")
    BY <1>3 DEF UpstreamFailed, StartFailed, FiberAt, Live
  <2>2. Sound(n) /\ SameEntry(n, node[k])
    BY <1>1, MarkFailedSound
  <2>3. n.value = None /\ n.status \in Failing(node[k].status)
    BY <1>1, FailedFacts DEF Failing
  <2> HIDE DEF n
  <2> QED
    BY <1>2, <2>1, <2>2, <2>3, EndFiberDoes DEF Ends, SameEntry
<1>4. ASSUME StartDied(d, k)
      PROVE  Ends(d, k, node[k].value, {node[k].status}, "died")
  <2>1. Live(d, k) /\ UNCHANGED drv /\ EndFiber(d, k, node[k], "died")
    BY <1>4 DEF StartDied, FiberAt, Live
  <2> QED
    BY <1>1, <1>2, <2>1, EndFiberDoes DEF Ends
<1>5. ASSUME Started(d, k)
      PROVE  Ends(d, k, fiber[d][k].gen, Readying(node[k].status), "none")
  <2> DEFINE n == MarkReady(node[k], fiber[d][k].gen)
             s == Transition(n, "done")
             x == IF k \in Tasks THEN s ELSE n
  <2>1. Live(d, k) /\ UNCHANGED drv /\ EndFiber(d, k, x, "none")
    BY <1>5 DEF Started, FiberAt, Live
  <2>2. Sound(n) /\ SameEntry(n, node[k])
    BY <1>1, <1>2, <2>1, MarkReadySound
  <2>3. /\ n.value = fiber[d][k].gen
        /\ n.status = IF node[k].status \in {"pending", "acquiring", "ready"}
                        THEN "ready" ELSE node[k].status
    BY <1>1, <1>2, <2>1, ReadyFacts
  <2> HIDE DEF n
  <2>4. n \in Node /\ NodeSound(n)
    BY <2>2 DEF Sound
  <2>5. Sound(s) /\ SameEntry(s, n)
    BY <2>4, TransitionSound DEF Statuses
  <2>6. s.value = n.value /\ (s.status # n.status => n.status = "ready" /\ s.status = "done")
    <3>1. n.status \in Statuses
      BY <2>4 DEF Node
    <3>2. "done" \in Table[n.status] => n.status = "ready"
      BY <3>1, InTable DEF Statuses
    <3> QED
      BY <2>4, <3>2 DEF Transition, Node
  <2> HIDE DEF s
  <2>7. /\ Sound(x) /\ x.gen = node[k].gen /\ x.scope = node[k].scope /\ x.ran = node[k].ran
        /\ x.fref = node[k].fref /\ x.value = fiber[d][k].gen
        /\ x.status \in Readying(node[k].status)
    BY <2>2, <2>3, <2>5, <2>6 DEF SameEntry, Readying
  <2> HIDE DEF x
  <2> QED
    BY <1>2, <2>1, <2>7, EndFiberDoes DEF Ends
<1> QED
  BY <1>3, <1>4, <1>5 DEF UpstreamFailed, StartFailed, StartDied, Started, FiberAt

Replies == [cmd : Commands, ok : BOOLEAN] \cup {None}

(* A completion answers one submission more.                                  *)
Answers(c, ok) ==
  IF c.submitted THEN answered' = answered + 1 /\ reply' = [cmd |-> c, ok |-> ok]
                 ELSE UNCHANGED <<answered, reply>>

LEMMA AnswersTyped ==
  ASSUME Typed, NEW c \in Commands, NEW ok \in BOOLEAN, Complete(c, ok)
  PROVE  answered' \in Nat /\ reply' \in Replies /\ Answers(c, ok)
<1>1. answered \in Nat /\ reply \in Replies
  BY DEF Typed, Replies
<1>2. CASE c.submitted
  <2>1. answered' = answered + 1 /\ reply' = [cmd |-> c, ok |-> ok]
    BY <1>2 DEF Complete
  <2>2. [cmd |-> c, ok |-> ok] \in Replies
    BY DEF Replies
  <2>3. answered + 1 \in Nat
    BY <1>1
  <2> QED
    BY <1>2, <2>1, <2>2, <2>3 DEF Answers
<1>3. CASE ~c.submitted
  BY <1>1, <1>3 DEF Complete, Answers
<1> QED
  BY <1>2, <1>3

(* A driver is done with its command.                                         *)
Finished(d, ok) ==
  /\ drv' \in [Drivers -> Driver] /\ OnlyDriver(d)
  /\ drv'[d] = IF d = "init" THEN [Idle EXCEPT !.at = "ended"] ELSE Idle
  /\ answered' \in Nat /\ reply' \in Replies
  /\ IF d = "loop" THEN Answers(drv["loop"].cmd, ok) ELSE UNCHANGED <<answered, reply>>

LEMMA FinishDoes ==
  ASSUME SupervisorAssumption, Typed, NEW d \in Drivers, NEW ok \in BOOLEAN, Finish(d, ok),
         d = "loop" => drv["loop"].cmd \in Commands
  PROVE  Finished(d, ok)
<1> DEFINE r == IF d = "init" THEN [Idle EXCEPT !.at = "ended"] ELSE Idle
<1>1. drv' = [drv EXCEPT ![d] = r] /\ drv \in [Drivers -> Driver]
  BY DEF Finish, Typed
<1>2. r \in Driver
  BY IdleAt, Blank
<1> HIDE DEF r
<1>3. drv' \in [Drivers -> Driver] /\ OnlyDriver(d) /\ drv'[d] = r
  BY <1>1, <1>2, PutDriver DEF OnlyDriver
<1>4. CASE d = "loop"
  <2>1. Complete(drv["loop"].cmd, ok)
    BY <1>4 DEF Finish
  <2>2. answered' \in Nat /\ reply' \in Replies /\ Answers(drv["loop"].cmd, ok)
    BY <1>4, <2>1, AnswersTyped
  <2> QED
    BY <1>3, <1>4, <2>2 DEF Finished, r
<1>5. CASE d # "loop"
  <2>1. UNCHANGED <<answered, reply>> /\ answered \in Nat /\ reply \in Replies
    BY <1>5 DEF Finish, Typed, Replies
  <2> QED
    BY <1>3, <1>5, <2>1 DEF Finished, r
<1> QED
  BY <1>4, <1>5

LEMMA InterruptBgDoes ==
  ASSUME SupervisorAssumption, Typed, NodesSound, InterruptBg
  PROVE  /\ node' \in [Nodes -> Node] /\ NodesSound'
         /\ \A k \in Nodes :
              /\ node'[k].gen = node[k].gen /\ node'[k].ran = node[k].ran
              /\ node'[k].fref = node[k].fref /\ node'[k].status = node[k].status
              /\ node'[k].value = node[k].value
              /\ drv["bg"].torn[k] = None => node'[k] = node[k]
<1> DEFINE n(k) == [node[k] EXCEPT !.scope[drv["bg"].torn[k]] = "closed"]
           x(k) == IF drv["bg"].torn[k] = None THEN node[k] ELSE n(k)
<1>1. node' = [k \in Nodes |-> x(k)]
  BY DEF InterruptBg
<1>2. ASSUME NEW k \in Nodes
      PROVE  /\ Sound(x(k)) /\ x(k).gen = node[k].gen /\ x(k).ran = node[k].ran
             /\ x(k).fref = node[k].fref /\ x(k).status = node[k].status
             /\ x(k).value = node[k].value
             /\ drv["bg"].torn[k] = None => x(k) = node[k]
  <2>1. node[k] \in Node /\ NodeSound(node[k])
    BY DEF Typed, NodesSound
  <2>2. CASE drv["bg"].torn[k] = None
    BY <2>1, <2>2 DEF Sound
  <2>3. CASE drv["bg"].torn[k] # None
    <3> DEFINE o == node[k]
               g == drv["bg"].torn[k]
               p == [o EXCEPT !.scope[g] = "closed"]
    <3>1. drv["bg"] \in Driver
      BY DEF Typed, Drivers
    <3>2. g \in Gens
      BY <2>3, <3>1 DEF Driver
    <3>3. o \in Node /\ NodeSound(o) /\ x(k) = p
      BY <2>1, <2>3
    <3> HIDE DEF o, g, x
    <3>4. Sound(p)
      BY <3>2, <3>3, ScopeSound
    <3>5. p.status = o.status /\ p.gen = o.gen /\ p.value = o.value /\ p.fref = o.fref
      BY <3>2, <3>3, ScopeSound
    <3>6. p.ran = o.ran
      BY <3>2, <3>3, ScopeSound
    <3> HIDE DEF p
    <3> QED
      BY <2>3, <3>3, <3>4, <3>5, <3>6 DEF o
  <2> QED
    BY <2>2, <2>3
<1> HIDE DEF x
<1>3. \A k \in Nodes : node'[k] = x(k)
  BY <1>1
<1>4. node' \in [Nodes -> Node]
  BY <1>1, <1>2 DEF Sound
<1>5. ASSUME NEW k \in Nodes
      PROVE  NodeSound(node[k])'
  <2>1. NodeSound(x(k)) /\ node'[k] = x(k)
    BY <1>2, <1>3 DEF Sound
  <2> QED
    BY <2>1 DEF NodeSound
<1>6. NodesSound'
  BY <1>5 DEF NodesSound
<1> QED
  BY <1>2, <1>3, <1>4, <1>6

LEMMA HookFailsDoes ==
  ASSUME SupervisorAssumption, Typed, NodesSound,
         NEW d \in Drivers, NEW k \in Nodes \cup {None}, HookFails(d, k)
  PROVE  /\ node' \in [Nodes -> Node] /\ NodesSound'
         /\ \A j \in Nodes :
              /\ node'[j].gen = node[j].gen /\ node'[j].ran = node[j].ran
              /\ node'[j].fref = node[j].fref /\ node'[j].scope = node[j].scope
              /\ j # k => node'[j] = node[j]
              /\ j = k => node'[j].value = None /\ node'[j].status \in Failing(node[j].status)
<1>1. CASE k = None
  <2>1. UNCHANGED node /\ None \notin Nodes
    BY <1>1, Distinct DEF HookFails
  <2> QED
    BY <1>1, <2>1, SameNodes DEF Typed
<1>2. CASE k # None
  <2> DEFINE n == MarkFailed(node[k])
  <2>1. k \in Nodes /\ node[k] \in Node /\ NodeSound(node[k]) /\ node \in [Nodes -> Node]
    BY <1>2 DEF Typed, NodesSound
  <2>2. Sound(n) /\ SameEntry(n, node[k])
    BY <2>1, MarkFailedSound
  <2>3. n.value = None /\ n.status \in Failing(node[k].status)
    BY <2>1, FailedFacts DEF Failing
  <2>4. node' = [node EXCEPT ![k] = n]
    BY <1>2 DEF HookFails
  <2> HIDE DEF n
  <2>5. /\ node' \in [Nodes -> Node] /\ NodesSound'
        /\ node'[k] = n /\ \A j \in Nodes : j # k => node'[j] = node[j]
    BY <2>1, <2>2, <2>4, PutNode, ZenonT(40)
  <2> QED
    BY <2>1, <2>2, <2>3, <2>5 DEF SameEntry
<1> QED
  BY <1>1, <1>2

-----------------------------------------------------------------------------
(* A. Every step keeps the registry's entries sound.                          *)
LEMMA InitRegistry == SupervisorAssumption /\ Init => RegistryInv
<1> SUFFICES ASSUME SupervisorAssumption, Init
             PROVE  RegistryInv
  OBVIOUS
<1>1. ASSUME NEW k \in Nodes
      PROVE  node[k] \in Node /\ node[k].gen = 1 /\ NodeSound(node[k])
  <2>1. node[k] = [status |-> "pending", gen |-> 1, value |-> None, fref |-> None,
                   gate  |-> [g \in Gens |-> "open"],
                   scope |-> [g \in Gens |-> "open"],
                   ran   |-> [g \in Gens |-> None]]
    BY DEF Init
  <2>2. 1 \in Gens
    BY Distinct
  <2>3. node[k] \in Node
    BY <2>1, <2>2 DEF Node, Statuses
  <2> QED
    BY <2>1, <2>2, <2>3 DEF NodeSound
<1>2. node \in [Nodes -> Node]
  <2>1. node = [k \in Nodes |-> node[k]]
    BY DEF Init
  <2> QED
    BY <1>1, <2>1
<1>3. /\ fiber \in [Drivers -> [Nodes -> Fiber]]
      /\ \A d \in Drivers, k \in Nodes : fiber[d][k] = NoFiber
  BY Blank DEF Init
<1>4. FiberInv
  BY <1>3, Blank DEF FiberInv
<1> DEFINE r == [Idle EXCEPT !.at = "fork", !.slice = Nodes, !.todo = Nodes]
<1>5. r \in Driver /\ r.at = "fork"
  BY Blank DEF Driver
<1>6. drv = [d \in Drivers |-> IF d = "init" THEN r ELSE Idle]
  BY DEF Init
<1> HIDE DEF r
<1>7. /\ drv \in [Drivers -> Driver] /\ drv["init"].at = "fork"
      /\ drv["loop"] = Idle /\ drv["bg"] = Idle
  BY <1>5, <1>6, Blank DEF Drivers
<1>8. DriverInv
  <2>1. drv["loop"].at = "idle" /\ drv["bg"].at = "idle"
    BY <1>7, Blank
  <2>2. ~complete
    BY DEF Init
  <2> QED
    BY <1>7, <2>1, <2>2 DEF DriverInv, Busy
<1>9. /\ queue \in Seq(Commands)
      /\ sent \in Nat /\ asked \in Nat /\ answered \in Nat
      /\ reply \in [cmd : Commands, ok : BOOLEAN] \cup {None}
      /\ latch \in BOOLEAN /\ complete \in BOOLEAN
  <2>1. queue = <<>> /\ sent = 0 /\ asked = 0 /\ answered = 0 /\ reply = None
    BY DEF Init
  <2>2. latch \in BOOLEAN /\ complete \in BOOLEAN
    BY DEF Init
  <2> QED
    BY <2>1, <2>2
<1> QED
  BY <1>1, <1>2, <1>3, <1>4, <1>7, <1>8, <1>9 DEF RegistryInv, Typed, NodesSound

(* Fibers end, entries are replaced.                                          *)
LEMMA FibersFade ==
  ASSUME SupervisorAssumption, Typed, FiberInv, node' \in [Nodes -> Node],
         \A k \in Nodes : node'[k].gen >= node[k].gen,
         \A d \in Drivers, k \in Nodes :
           \/ fiber'[d][k] = fiber[d][k]
           \/ fiber'[d][k].at \in {"none", "died"} /\ fiber'[d][k].gen = None
  PROVE  FiberInv'
<1> SUFFICES ASSUME NEW d \in Drivers, NEW k \in Nodes
             PROVE  /\ fiber'[d][k].at \in {"forked", "waiting", "starting"}
                         => fiber'[d][k].gen \in Gens
                    /\ fiber'[d][k].gen # None => fiber'[d][k].gen <= node'[k].gen
  BY DEF FiberInv
<1>1. CASE fiber'[d][k] = fiber[d][k]
  <2>1. /\ node[k].gen \in Int /\ node'[k].gen \in Int /\ node'[k].gen >= node[k].gen
        /\ fiber[d][k].gen \in Gens \cup {None}
    BY DEF Typed, Node, Fiber, Gens
  <2>2. /\ fiber[d][k].at \in {"forked", "waiting", "starting"} => fiber[d][k].gen \in Gens
        /\ fiber[d][k].gen # None => fiber[d][k].gen <= node[k].gen
    BY DEF FiberInv
  <2>3. fiber[d][k].gen # None => fiber[d][k].gen \in Int
    BY <2>1 DEF Gens
  <2> QED
    BY <1>1, <2>1, <2>2, <2>3
<1>2. CASE fiber'[d][k].at \in {"none", "died"} /\ fiber'[d][k].gen = None
  BY <1>2
<1> QED
  BY <1>1, <1>2

LEMMA SameGens ==
  ASSUME SupervisorAssumption, Typed, node' \in [Nodes -> Node], NEW k \in Nodes,
         OnlyNode(k), node'[k].gen = node[k].gen
  PROVE  \A j \in Nodes : node'[j].gen = node[j].gen /\ node'[j].gen >= node[j].gen
<1> SUFFICES ASSUME NEW j \in Nodes
             PROVE  node'[j].gen = node[j].gen /\ node'[j].gen >= node[j].gen
  OBVIOUS
<1>1. node'[j].gen = node[j].gen
  BY DEF OnlyNode
<1>2. node[j].gen \in Int
  BY DEF Typed, Node, Gens
<1> QED
  BY <1>1, <1>2

(* A driver that goes on with its command stays where the invariant has it.   *)
LEMMA ProceedsKeeps ==
  ASSUME DriverInv, NEW d \in Drivers, drv' \in [Drivers -> Driver], Proceeds(d),
         drv[d].at \in Busy, drv'[d].at \in Busy,
         d = "init" => drv'[d].at \in Busy \ {"stop", "reset"},
         UNCHANGED <<latch, complete>>
  PROVE  DriverInv'
<1>1. CASE d = "init"
  BY <1>1 DEF DriverInv, Proceeds, OnlyDriver, Busy, Drivers
<1>2. CASE d = "loop"
  BY <1>2 DEF DriverInv, Proceeds, OnlyDriver, Busy, Drivers
<1>3. CASE d = "bg"
  BY <1>3 DEF DriverInv, Proceeds, OnlyDriver, Busy, Drivers
<1> QED
  BY <1>1, <1>2, <1>3 DEF Drivers

LEMMA FinishedKeeps ==
  ASSUME SupervisorAssumption, DriverInv, NEW d \in Drivers, NEW ok, Finished(d, ok),
         drv[d].at \in Busy \cup {"handler"}, UNCHANGED <<latch, complete>>
  PROVE  DriverInv'
<1>1. CASE d = "init"
  <2>1. drv'["init"].at = "ended" /\ drv'["loop"] = drv["loop"] /\ drv'["bg"] = drv["bg"]
    <3>1. [Idle EXCEPT !.at = "ended"].at = "ended"
      BY IdleAt
    <3> QED
      BY <1>1, <3>1 DEF Finished, OnlyDriver, Drivers
  <2> QED
    BY <2>1 DEF DriverInv, Busy
<1>2. CASE d = "loop"
  <2>1. drv'["loop"].at = "idle" /\ drv'["init"] = drv["init"] /\ drv'["bg"] = drv["bg"]
    BY <1>2, Blank DEF Finished, OnlyDriver, Drivers
  <2> QED
    BY <1>2, <2>1 DEF DriverInv, Busy
<1>3. CASE d = "bg"
  <2>1. drv'["bg"].at = "idle" /\ drv'["init"] = drv["init"] /\ drv'["loop"] = drv["loop"]
    BY <1>3, Blank DEF Finished, OnlyDriver, Drivers
  <2> QED
    BY <1>3, <2>1 DEF DriverInv, Busy
<1> QED
  BY <1>1, <1>2, <1>3 DEF Drivers

Others == <<queue, sent, asked, answered, reply, latch, complete>>

LEMMA OfferKeeps ==
  ASSUME SupervisorAssumption, RegistryInv, NEW c \in Commands, Offer(c)
  PROVE  RegistryInv'
<1>1. Typed /\ NodesSound /\ FiberInv /\ DriverInv
  BY DEF RegistryInv
<1>2. /\ UNCHANGED <<node, fiber, drv, answered, reply, latch, complete>>
      /\ queue' = Append(queue, c) /\ sent' = sent + 1
      /\ asked' = IF c.submitted THEN asked + 1 ELSE asked
  BY DEF Offer
<1>3. queue' \in Seq(Commands)
  BY <1>1, <1>2 DEF Typed
<1>4. sent' \in Nat /\ asked' \in Nat
  BY <1>1, <1>2 DEF Typed
<1>5. Typed'
  BY <1>1, <1>2, <1>3, <1>4 DEF Typed
<1>6. NodesSound'
  BY <1>1, <1>2, SameNodes
<1>7. FiberInv' /\ DriverInv'
  BY <1>1, <1>2 DEF FiberInv, DriverInv
<1> QED
  BY <1>5, <1>6, <1>7 DEF RegistryInv

LEMMA TakeDoes ==
  ASSUME Typed, NEW c \in Commands, Take(c)
  PROVE  /\ drv["loop"].at = "idle" /\ Alive /\ queue' \in Seq(Commands)
         /\ queue # <<>> /\ c = Head(queue) /\ queue' = Tail(queue)
         /\ UNCHANGED <<fiber, sent, asked>>
BY DEF Typed, Take, At

(* The loop takes a command up.                                               *)
LEMMA TakeRestartDoes ==
  ASSUME SupervisorAssumption, Typed, TakeRestart
  PROVE  \E c \in Commands :
           /\ Take(c) /\ c.tag \in {"selective", "restart"}
           /\ c.tag = "restart" => c.submitted
           /\ UNCHANGED <<node, answered, reply, latch, complete>>
           /\ drv' \in [Drivers -> Driver] /\ OnlyDriver("loop")
           /\ drv'["loop"] =
                Drain("loop", c, IF c.tag = "selective" THEN Slice({c.key}) ELSE Nodes, TRUE)
<1>1. PICK c \in Commands :
        /\ Take(c)
        /\ c.tag = "selective" \/ (c.tag = "restart" /\ c.submitted)
        /\ drv' = [drv EXCEPT !["loop"] =
             Drain("loop", c, IF c.tag = "selective" THEN Slice({c.key}) ELSE Nodes, TRUE)]
        /\ UNCHANGED <<node, answered, reply, latch, complete>>
  BY DEF TakeRestart
<1> DEFINE s == IF c.tag = "selective" THEN Slice({c.key}) ELSE Nodes
           r == Drain("loop", c, s, TRUE)
<1>2. s \in SUBSET Nodes
  BY DEF Slice
<1>3. drv' = [drv EXCEPT !["loop"] = r] /\ drv \in [Drivers -> Driver] /\ "loop" \in Drivers
  BY <1>1 DEF Typed, Drivers
<1> HIDE DEF s
<1>4. r \in Driver
  BY <1>2, DrainOk
<1> HIDE DEF r
<1>5. drv' \in [Drivers -> Driver] /\ OnlyDriver("loop") /\ drv'["loop"] = r
  BY <1>3, <1>4, PutDriver DEF OnlyDriver
<1> QED
  BY <1>1, <1>5 DEF r, s

LEMMA TakeRestartKeeps ==
  ASSUME SupervisorAssumption, RegistryInv, TakeRestart
  PROVE  RegistryInv'
<1>1. Typed /\ NodesSound /\ FiberInv /\ DriverInv
  BY DEF RegistryInv
<1>2. PICK c \in Commands :
        /\ Take(c) /\ c.tag # "shutdown"
        /\ UNCHANGED <<node, answered, reply, latch, complete>>
        /\ drv' \in [Drivers -> Driver] /\ OnlyDriver("loop")
        /\ drv'["loop"] =
             Drain("loop", c, IF c.tag = "selective" THEN Slice({c.key}) ELSE Nodes, TRUE)
  BY <1>1, TakeRestartDoes
<1>3. drv["loop"].at = "idle" /\ queue' \in Seq(Commands) /\ UNCHANGED <<fiber, sent, asked>>
  BY <1>1, <1>2, TakeDoes
<1>4. drv'["loop"].at = "stop" /\ drv'["loop"].cmd = c
  <2> DEFINE s == IF c.tag = "selective" THEN Slice({c.key}) ELSE Nodes
  <2>1. s \in SUBSET Nodes
    BY DEF Slice
  <2>2. drv'["loop"] = Drain("loop", c, s, TRUE)
    BY <1>2
  <2> HIDE DEF s
  <2>3. Drain("loop", c, s, TRUE).at = "stop" /\ Drain("loop", c, s, TRUE).cmd = c
    BY <2>1, Blank DEF Drain, Driver
  <2> QED
    BY <2>2, <2>3
<1>5. drv'["init"] = drv["init"] /\ drv'["bg"] = drv["bg"]
  BY <1>2 DEF OnlyDriver, Drivers
<1>6. DriverInv'
  BY <1>1, <1>2, <1>3, <1>4, <1>5 DEF DriverInv, Busy
<1>7. NodesSound' /\ FiberInv'
  BY <1>1, <1>2, <1>3, SameNodes DEF FiberInv
<1>8. Typed'
  BY <1>1, <1>2, <1>3 DEF Typed
<1> QED
  BY <1>6, <1>7, <1>8 DEF RegistryInv

LEMMA TakeBgRestartKeeps ==
  ASSUME SupervisorAssumption, RegistryInv, TakeBgRestart
  PROVE  RegistryInv'
<1>1. Typed /\ NodesSound /\ FiberInv /\ DriverInv
  BY DEF RegistryInv
<1>2. PICK c \in Commands :
        /\ Take(c) /\ c.tag = "restart"
        /\ drv' = IF drv["bg"].at = "idle"
                    THEN [drv EXCEPT !["bg"] = Drain("bg", c, Nodes, TRUE)] ELSE drv
        /\ UNCHANGED <<node, answered, reply, latch, complete>>
  BY DEF TakeBgRestart
<1>3. drv["loop"].at = "idle" /\ queue' \in Seq(Commands) /\ UNCHANGED <<fiber, sent, asked>>
  BY <1>1, <1>2, TakeDoes
<1>4. drv' \in [Drivers -> Driver] /\ DriverInv'
  <2>1. CASE drv["bg"].at = "idle"
    <3> DEFINE r == Drain("bg", c, Nodes, TRUE)
    <3>1. r \in Driver /\ r.at = "stop" /\ r.cmd = c
      BY Blank DEF Drain, Driver, Idle
    <3>2. drv' = [drv EXCEPT !["bg"] = r] /\ drv \in [Drivers -> Driver] /\ "bg" \in Drivers
      BY <1>1, <1>2, <2>1 DEF Typed, Drivers
    <3> HIDE DEF r
    <3>3. drv' \in [Drivers -> Driver] /\ drv'["bg"] = r /\ OnlyDriver("bg")
      BY <3>1, <3>2, PutDriver DEF OnlyDriver
    <3>4. drv'["init"] = drv["init"] /\ drv'["loop"] = drv["loop"]
      BY <3>3 DEF OnlyDriver, Drivers
    <3>5. drv'["bg"].at = "stop" /\ drv'["bg"].cmd \in Commands /\ drv'["bg"].cmd.tag = "restart"
      BY <1>2, <3>1, <3>3
    <3>6. UNCHANGED <<latch, complete>>
      BY <1>2
    <3> QED
      BY <1>1, <3>3, <3>4, <3>5, <3>6 DEF DriverInv, Busy
  <2>2. CASE drv["bg"].at # "idle"
    BY <1>1, <1>2, <2>2 DEF DriverInv, Typed
  <2> QED
    BY <2>1, <2>2
<1>5. NodesSound' /\ FiberInv'
  <2>1. NodesSound'
    BY <1>1, <1>2, SameNodes
  <2>2. FiberInv'
    BY <1>1, <1>2, <1>3 DEF FiberInv
  <2> QED
    BY <2>1, <2>2
<1>6. Typed'
  BY <1>1, <1>2, <1>3, <1>4 DEF Typed
<1> QED
  BY <1>4, <1>5, <1>6 DEF RegistryInv

(* The loop waits for a handler, or has nothing to stop.                      *)
LEMMA TakeOtherDoes ==
  ASSUME SupervisorAssumption, Typed, TakeSnapshot \/ TakeApply
  PROVE  \E c \in Commands, at \in {"handler", "settle"} :
           /\ Take(c) /\ c.tag # "shutdown"
           /\ at = "settle" <=> c.tag \notin {"capture", "restore"}
           /\ UNCHANGED <<node, answered, reply, latch, complete>>
           /\ drv' \in [Drivers -> Driver] /\ OnlyDriver("loop")
           /\ drv'["loop"] = [Idle EXCEPT !.at = at, !.cmd = c]
<1>1. PICK c \in Commands, at \in {"handler", "settle"} :
        /\ Take(c) /\ c.tag # "shutdown"
        /\ at = "settle" <=> c.tag \notin {"capture", "restore"}
        /\ UNCHANGED <<node, answered, reply, latch, complete>>
        /\ drv' = [drv EXCEPT !["loop"] = [Idle EXCEPT !.at = at, !.cmd = c]]
  BY DEF TakeSnapshot, TakeApply
<1> DEFINE r == [Idle EXCEPT !.at = at, !.cmd = c]
<1>2. r \in Driver
  BY IdleAt
<1>3. drv' = [drv EXCEPT !["loop"] = r] /\ drv \in [Drivers -> Driver] /\ "loop" \in Drivers
  BY <1>1 DEF Typed, Drivers
<1> HIDE DEF r
<1>4. drv' \in [Drivers -> Driver] /\ OnlyDriver("loop") /\ drv'["loop"] = r
  BY <1>2, <1>3, PutDriver DEF OnlyDriver
<1> QED
  BY <1>1, <1>4 DEF r

LEMMA TakeOtherKeeps ==
  ASSUME SupervisorAssumption, RegistryInv, TakeSnapshot \/ TakeApply
  PROVE  RegistryInv'
<1>1. Typed /\ NodesSound /\ FiberInv /\ DriverInv
  BY DEF RegistryInv
<1>2. PICK c \in Commands, at \in {"handler", "settle"} :
        /\ Take(c) /\ c.tag # "shutdown"
        /\ UNCHANGED <<node, answered, reply, latch, complete>>
        /\ drv' \in [Drivers -> Driver] /\ OnlyDriver("loop")
        /\ drv'["loop"] = [Idle EXCEPT !.at = at, !.cmd = c]
  BY <1>1, TakeOtherDoes
<1>3. drv["loop"].at = "idle" /\ queue' \in Seq(Commands) /\ UNCHANGED <<fiber, sent, asked>>
  BY <1>1, <1>2, TakeDoes
<1>4. drv'["loop"].at = at /\ drv'["loop"].cmd = c
  <2> DEFINE r == [Idle EXCEPT !.at = at, !.cmd = c]
  <2>1. r.at = at /\ r.cmd = c
    BY Blank DEF Driver
  <2> HIDE DEF r
  <2> QED
    BY <1>2, <2>1 DEF r
<1>5. drv'["init"] = drv["init"] /\ drv'["bg"] = drv["bg"]
  BY <1>2 DEF OnlyDriver, Drivers
<1>6. DriverInv'
  BY <1>1, <1>2, <1>3, <1>4, <1>5 DEF DriverInv, Busy
<1>7. NodesSound' /\ FiberInv'
  BY <1>1, <1>2, <1>3, SameNodes DEF FiberInv
<1>8. Typed'
  BY <1>1, <1>2, <1>3 DEF Typed
<1> QED
  BY <1>6, <1>7, <1>8 DEF RegistryInv

LEMMA TakeShutdownDoes ==
  ASSUME SupervisorAssumption, Typed, TakeShutdown
  PROVE  \E c \in Commands :
           /\ Take(c) /\ c.tag = "shutdown" /\ latch' = TRUE /\ InterruptBg
           /\ UNCHANGED <<answered, reply, complete>>
           /\ drv' \in [Drivers -> Driver]
           /\ drv'["init"] = drv["init"] /\ drv'["bg"] = Idle
           /\ drv'["loop"] = Drain("loop", c, Nodes, TRUE)
<1>1. PICK c \in Commands :
        /\ Take(c) /\ c.tag = "shutdown" /\ latch' = TRUE /\ InterruptBg
        /\ UNCHANGED <<answered, reply, complete>>
        /\ drv' = [drv EXCEPT !["bg"] = Idle, !["loop"] = Drain("loop", c, Nodes, TRUE)]
  BY DEF TakeShutdown
<1> DEFINE r == Drain("loop", c, Nodes, TRUE)
<1>2. r \in Driver /\ Idle \in Driver
  BY Blank DEF Drain, Driver, Idle
<1>3. drv' = [drv EXCEPT !["bg"] = Idle, !["loop"] = r] /\ drv \in [Drivers -> Driver]
  BY <1>1 DEF Typed
<1> HIDE DEF r
<1>4. drv' \in [Drivers -> Driver]
  BY <1>2, <1>3
<1>5. drv'["init"] = drv["init"] /\ drv'["bg"] = Idle /\ drv'["loop"] = r
  BY <1>3 DEF Drivers
<1> QED
  BY <1>1, <1>4, <1>5 DEF r

LEMMA TakeHardKillDoes ==
  ASSUME SupervisorAssumption, Typed, TakeHardKill
  PROVE  \E c \in Commands :
           /\ Take(c) /\ c.tag = "hardkill" /\ latch' = TRUE /\ complete' = TRUE /\ InterruptBg
           /\ answered' \in Nat /\ reply' \in Replies /\ Answers(c, TRUE)
           /\ drv' \in [Drivers -> Driver]
           /\ drv'["init"] = drv["init"] /\ drv'["bg"] = Idle
           /\ drv'["loop"] = [Idle EXCEPT !.at = "ended", !.cmd = c]
<1>1. PICK c \in Commands :
        /\ Take(c) /\ c.tag = "hardkill" /\ latch' = TRUE /\ complete' = TRUE /\ InterruptBg
        /\ Complete(c, TRUE)
        /\ drv' = [drv EXCEPT !["bg"] = Idle,
                              !["loop"] = [Idle EXCEPT !.at = "ended", !.cmd = c]]
  BY DEF TakeHardKill
<1> DEFINE r == [Idle EXCEPT !.at = "ended", !.cmd = c]
<1>2. r \in Driver /\ Idle \in Driver
  BY Blank DEF Driver
<1>3. drv' = [drv EXCEPT !["bg"] = Idle, !["loop"] = r] /\ drv \in [Drivers -> Driver]
  BY <1>1 DEF Typed
<1> HIDE DEF r
<1>4. drv' \in [Drivers -> Driver]
  BY <1>2, <1>3
<1>5. drv'["init"] = drv["init"] /\ drv'["bg"] = Idle /\ drv'["loop"] = r
  BY <1>3 DEF Drivers
<1>6. answered' \in Nat /\ reply' \in Replies /\ Answers(c, TRUE)
  BY <1>1, AnswersTyped
<1> QED
  BY <1>1, <1>4, <1>5, <1>6 DEF r

LEMMA TakeLastKeeps ==
  ASSUME SupervisorAssumption, RegistryInv, TakeShutdown \/ TakeHardKill
  PROVE  RegistryInv'
<1>1. Typed /\ NodesSound /\ FiberInv /\ DriverInv
  BY DEF RegistryInv
<1>2. PICK c \in Commands, at \in {"stop", "ended"} :
        /\ Take(c) /\ latch' = TRUE /\ InterruptBg
        /\ complete' \in BOOLEAN /\ (complete' => complete \/ at = "ended")
        /\ answered' \in Nat /\ reply' \in Replies
        /\ drv' \in [Drivers -> Driver]
        /\ drv'["init"] = drv["init"] /\ drv'["bg"] = Idle
        /\ drv'["loop"].at = at /\ drv'["loop"].cmd = c
  <2>1. CASE TakeShutdown
    <3>1. PICK c \in Commands :
            /\ Take(c) /\ latch' = TRUE /\ InterruptBg
            /\ UNCHANGED <<answered, reply, complete>>
            /\ drv' \in [Drivers -> Driver]
            /\ drv'["init"] = drv["init"] /\ drv'["bg"] = Idle
            /\ drv'["loop"] = Drain("loop", c, Nodes, TRUE)
      BY <1>1, <2>1, TakeShutdownDoes
    <3>2. drv'["loop"].at = "stop" /\ drv'["loop"].cmd = c
      BY <3>1, Blank DEF Drain, Driver
    <3>3. complete' \in BOOLEAN /\ (complete' => complete)
      BY <1>1, <3>1 DEF Typed
    <3>4. answered' \in Nat /\ reply' \in Replies
      BY <1>1, <3>1 DEF Typed, Replies
    <3> QED
      BY <3>1, <3>2, <3>3, <3>4
  <2>2. CASE TakeHardKill
    <3>1. PICK c \in Commands :
            /\ Take(c) /\ latch' = TRUE /\ complete' = TRUE /\ InterruptBg
            /\ answered' \in Nat /\ reply' \in Replies
            /\ drv' \in [Drivers -> Driver]
            /\ drv'["init"] = drv["init"] /\ drv'["bg"] = Idle
            /\ drv'["loop"] = [Idle EXCEPT !.at = "ended", !.cmd = c]
      BY <1>1, <2>2, TakeHardKillDoes
    <3>2. drv'["loop"].at = "ended" /\ drv'["loop"].cmd = c
      BY <3>1, Blank DEF Driver
    <3>3. complete' \in BOOLEAN
      BY <3>1
    <3> QED
      BY <3>1, <3>2, <3>3
  <2> QED
    BY <2>1, <2>2
<1>3. drv["loop"].at = "idle" /\ queue' \in Seq(Commands) /\ UNCHANGED <<fiber, sent, asked>>
  BY <1>1, <1>2, TakeDoes
<1>4. /\ node' \in [Nodes -> Node] /\ NodesSound'
      /\ \A k \in Nodes : node'[k].gen = node[k].gen
  BY <1>1, <1>2, InterruptBgDoes
<1>5. DriverInv'
  <2>1. ~complete /\ drv'["bg"].at = "idle"
    BY <1>1, <1>2, <1>3, Blank DEF DriverInv
  <2>2. complete' => at = "ended"
    BY <1>2, <2>1
  <2> QED
    BY <1>1, <1>2, <2>1, <2>2 DEF DriverInv, Busy
<1>6. FiberInv'
  BY <1>1, <1>3, <1>4 DEF FiberInv
<1>7. Typed'
  BY <1>1, <1>2, <1>3, <1>4 DEF Typed, Replies
<1> QED
  BY <1>4, <1>5, <1>6, <1>7 DEF RegistryInv

LEMMA HandledDoes ==
  ASSUME SupervisorAssumption, Typed, DriverInv, NEW ok \in BOOLEAN, Handled(ok)
  PROVE  /\ drv["loop"].at = "handler" /\ Alive
         /\ drv' \in [Drivers -> Driver] /\ OnlyDriver("loop")
         /\ answered' \in Nat /\ reply' \in Replies
         /\ UNCHANGED <<node, fiber, queue, sent, asked, latch, complete>>
         /\ LET cmd == drv["loop"].cmd
                slice == Slice(Nodes \ KeepAlive) IN
            \/ /\ slice = {} /\ UNCHANGED <<answered, reply>>
               /\ drv'["loop"] = [drv["loop"] EXCEPT !.at = "settle"]
            \/ /\ slice # {} /\ UNCHANGED <<answered, reply>>
               /\ drv'["loop"] = Drain("loop", cmd, slice, ok)
            \/ drv'["loop"] = Idle /\ Answers(cmd, FALSE)
<1> DEFINE cmd == drv["loop"].cmd
           slice == Slice(Nodes \ KeepAlive)
<1>1. /\ drv["loop"].at = "handler" /\ Alive
      /\ UNCHANGED <<node, fiber, queue, sent, asked, latch, complete>>
  BY DEF Handled, At
<1>2. /\ drv \in [Drivers -> Driver] /\ drv["loop"] \in Driver /\ "loop" \in Drivers
      /\ cmd \in Commands /\ slice \in SUBSET Nodes
      /\ answered \in Nat /\ reply \in Replies
  BY <1>1 DEF Typed, Drivers, DriverInv, Slice, Replies
<1>3. CASE ok \/ (cmd.tag = "capture" /\ slice # {})
  <2>1. /\ drv' = [drv EXCEPT !["loop"] =
             IF slice = {} THEN [@ EXCEPT !.at = "settle"] ELSE Drain("loop", cmd, slice, ok)]
        /\ UNCHANGED <<answered, reply>>
    BY <1>3 DEF Handled
  <2>2. CASE slice = {}
    <3> DEFINE r == [drv["loop"] EXCEPT !.at = "settle"]
    <3>1. r \in Driver /\ drv' = [drv EXCEPT !["loop"] = r]
      BY <1>2, <2>1, <2>2 DEF Driver
    <3> HIDE DEF r
    <3>2. drv' \in [Drivers -> Driver] /\ OnlyDriver("loop") /\ drv'["loop"] = r
      BY <1>2, <3>1, PutDriver DEF OnlyDriver
    <3> QED
      BY <1>1, <1>2, <2>1, <2>2, <3>2 DEF r
  <2>3. CASE slice # {}
    <3> DEFINE r == Drain("loop", cmd, slice, ok)
    <3>1. drv' = [drv EXCEPT !["loop"] = r]
      BY <2>1, <2>3
    <3> HIDE DEF cmd, slice
    <3>2. r \in Driver
      BY <1>2, Blank DEF Drain, Driver, Idle
    <3> HIDE DEF r
    <3>3. drv' \in [Drivers -> Driver] /\ OnlyDriver("loop") /\ drv'["loop"] = r
      BY <1>2, <3>1, <3>2, PutDriver DEF OnlyDriver
    <3> QED
      BY <1>1, <1>2, <2>1, <2>3, <3>3 DEF r, cmd, slice
  <2> QED
    BY <2>2, <2>3
<1>4. CASE ~(ok \/ (cmd.tag = "capture" /\ slice # {}))
  <2>1. Finish("loop", FALSE)
    BY <1>4 DEF Handled
  <2>2. Finished("loop", FALSE)
    BY <1>2, <2>1, FinishDoes
  <2>3. drv'["loop"] = Idle /\ Answers(cmd, FALSE)
    BY <2>2 DEF Finished
  <2> QED
    BY <1>1, <2>2, <2>3 DEF Finished
<1> QED
  BY <1>3, <1>4

LEMMA HandledKeeps ==
  ASSUME SupervisorAssumption, RegistryInv, NEW ok \in BOOLEAN, Handled(ok)
  PROVE  RegistryInv'
<1>1. Typed /\ NodesSound /\ FiberInv /\ DriverInv
  BY DEF RegistryInv
<1>2. /\ drv["loop"].at = "handler"
      /\ drv' \in [Drivers -> Driver] /\ OnlyDriver("loop")
      /\ answered' \in Nat /\ reply' \in Replies
      /\ UNCHANGED <<node, fiber, queue, sent, asked, latch, complete>>
  BY <1>1, HandledDoes
<1>3. /\ drv'["loop"].at \in {"settle", "stop", "idle"}
      /\ drv'["loop"].at # "idle" => drv'["loop"].cmd = drv["loop"].cmd
  <2> DEFINE slice == Slice(Nodes \ KeepAlive)
  <2>1. \/ drv'["loop"] = [drv["loop"] EXCEPT !.at = "settle"]
        \/ drv'["loop"] = Drain("loop", drv["loop"].cmd, slice, ok)
        \/ drv'["loop"] = Idle
    BY <1>1, HandledDoes
  <2>2. drv["loop"] \in Driver
    BY <1>1 DEF Typed, Drivers
  <2> DEFINE r == Drain("loop", drv["loop"].cmd, slice, ok)
             s == [drv["loop"] EXCEPT !.at = "settle"]
  <2>3. r.at = "stop" /\ r.cmd = drv["loop"].cmd
    BY Blank DEF Drain, Driver
  <2>4. s.at = "settle" /\ s.cmd = drv["loop"].cmd
    BY <2>2 DEF Driver
  <2>5. Idle.at = "idle"
    BY Blank
  <2>6. drv'["loop"] = s \/ drv'["loop"] = r \/ drv'["loop"] = Idle
    BY <2>1
  <2> HIDE DEF r, s
  <2> QED
    BY <2>3, <2>4, <2>5, <2>6
<1>4. drv'["init"] = drv["init"] /\ drv'["bg"] = drv["bg"]
  BY <1>2 DEF OnlyDriver, Drivers
<1>5. DriverInv'
  BY <1>1, <1>2, <1>3, <1>4 DEF DriverInv, Busy
<1>6. NodesSound' /\ FiberInv'
  <2>1. NodesSound'
    BY <1>1, <1>2, SameNodes
  <2>2. FiberInv'
    BY <1>1, <1>2 DEF FiberInv
  <2> QED
    BY <2>1, <2>2
<1>7. Typed'
  BY <1>1, <1>2 DEF Typed, Replies
<1> QED
  BY <1>5, <1>6, <1>7 DEF RegistryInv

LEMMA StopNodeKeeps ==
  ASSUME SupervisorAssumption, RegistryInv,
         NEW d \in Drivers, NEW k \in Nodes, StopNode(d, k)
  PROVE  RegistryInv'
<1>1. Typed /\ NodesSound /\ FiberInv /\ DriverInv
  BY DEF RegistryInv
<1>2. /\ node' \in [Nodes -> Node] /\ NodesSound' /\ OnlyNode(k) /\ node'[k].gen = node[k].gen
      /\ drv' \in [Drivers -> Driver] /\ Proceeds(d) /\ drv'[d].at = "stop"
      /\ fiber' \in [Drivers -> [Nodes -> Fiber]]
  BY <1>1, StopNodeDoes DEF Stopped
<1>3. \A e \in Drivers, j \in Nodes :
        fiber'[e][j] = IF e = node[k].fref /\ j = k THEN NoFiber ELSE fiber[e][j]
  <2>1. fiber' = FibersWithout(k)
    BY DEF StopNode
  <2> QED
    BY <1>1, <2>1, WithoutFiber DEF Typed
<1>4. UNCHANGED Others /\ drv[d].at = "stop"
  BY DEF StopNode, At, Others
<1>5. FiberInv'
  <2>1. \A j \in Nodes : node'[j].gen >= node[j].gen
    BY <1>1, <1>2, SameGens
  <2>2. ASSUME NEW e \in Drivers, NEW j \in Nodes
        PROVE  \/ fiber'[e][j] = fiber[e][j]
               \/ fiber'[e][j].at \in {"none", "died"} /\ fiber'[e][j].gen = None
    BY <1>3, Blank, ZenonT(40)
  <2> QED
    BY <1>1, <1>2, <2>1, <2>2, FibersFade
<1>6. DriverInv'
  <2>1. d # "init"
    BY <1>1, <1>2, <1>4 DEF DriverInv
  <2> QED
    BY <1>1, <1>2, <1>4, <2>1, ProceedsKeeps DEF Busy, Others
<1> QED
  BY <1>1, <1>2, <1>4, <1>5, <1>6 DEF RegistryInv, Typed, Others

LEMMA ClosedKeeps ==
  ASSUME SupervisorAssumption, RegistryInv,
         NEW d \in Drivers, NEW k \in Nodes, Closed(d, k)
  PROVE  RegistryInv'
<1>1. Typed /\ NodesSound /\ FiberInv /\ DriverInv
  BY DEF RegistryInv
<1>2. /\ node' \in [Nodes -> Node] /\ NodesSound' /\ OnlyNode(k) /\ node'[k].gen = node[k].gen
      /\ drv' \in [Drivers -> Driver] /\ Proceeds(d)
      /\ drv[d].at = "stop" /\ drv'[d].at = "stop"
      /\ UNCHANGED fiber
  <2>1. Closes(d, k)
    BY <1>1, ClosedDoes
  <2> QED
    BY <2>1 DEF Closes
<1>3. UNCHANGED Others
  BY DEF Closed, Others
<1>4. FiberInv'
  BY <1>1, <1>2, SameGens, FibersFade
<1>5. DriverInv'
  <2>1. d # "init"
    BY <1>1, <1>2, <1>3 DEF DriverInv
  <2> QED
    BY <1>1, <1>2, <1>3, <2>1, ProceedsKeeps DEF Busy, Others
<1> QED
  BY <1>1, <1>2, <1>3, <1>4, <1>5 DEF RegistryInv, Typed, Others

LEMMA ResetKeeps ==
  ASSUME SupervisorAssumption, RegistryInv,
         NEW d \in Drivers, NEW k \in Nodes, Reset(d, k)
  PROVE  RegistryInv'
<1>1. Typed /\ NodesSound /\ FiberInv /\ DriverInv
  BY DEF RegistryInv
<1>2. /\ node' \in [Nodes -> Node] /\ NodesSound' /\ OnlyNode(k)
      /\ node'[k].gen = node[k].gen + 1
      /\ drv' \in [Drivers -> Driver] /\ Proceeds(d)
      /\ drv[d].at = "reset" /\ drv'[d].at = IF drv[d].todo = {k} THEN "fork" ELSE "reset"
      /\ fiber' \in [Drivers -> [Nodes -> Fiber]]
  BY <1>1, ResetDoes
<1>3. \A e \in Drivers, j \in Nodes :
        fiber'[e][j] = IF e = node[k].fref /\ j = k THEN NoFiber ELSE fiber[e][j]
  BY <1>1, ResetDoes
<1>4. UNCHANGED Others
  BY DEF Reset, Others
<1>5. \A j \in Nodes : node'[j].gen >= node[j].gen
  <2>1. \A j \in Nodes : node[j].gen \in Int
    BY <1>1 DEF Typed, Node, Gens
  <2>2. ASSUME NEW j \in Nodes
        PROVE  node'[j].gen = node[j].gen \/ node'[j].gen = node[j].gen + 1
    BY <1>2 DEF OnlyNode
  <2> QED
    BY <2>1, <2>2
<1>6. FiberInv'
  <2>1. \A j \in Nodes : node'[j].gen >= node[j].gen
    BY <1>5
  <2>2. ASSUME NEW e \in Drivers, NEW j \in Nodes
        PROVE  \/ fiber'[e][j] = fiber[e][j]
               \/ fiber'[e][j].at \in {"none", "died"} /\ fiber'[e][j].gen = None
    BY <1>3, Blank
  <2> QED
    BY <1>1, <1>2, <2>1, <2>2, FibersFade
<1>7. DriverInv'
  <2>1. d # "init"
    BY <1>1, <1>2 DEF DriverInv
  <2> QED
    BY <1>1, <1>2, <1>4, <2>1, ProceedsKeeps DEF Busy, Others
<1> QED
  BY <1>1, <1>2, <1>4, <1>6, <1>7 DEF RegistryInv, Typed, Others

LEMMA DrainedDoes ==
  ASSUME SupervisorAssumption, Typed, DriverInv, NEW d \in Drivers, Drained(d)
  PROVE  /\ drv[d].at = "stop" /\ drv[d].todo = {} /\ \A k \in Nodes : drv[d].torn[k] = None
         /\ drv[d].cmd \in Commands
         /\ drv' \in [Drivers -> Driver] /\ OnlyDriver(d)
         /\ answered' \in Nat /\ reply' \in Replies
         /\ UNCHANGED <<node, fiber, queue, sent, asked, latch>>
         /\ \/ /\ drv[d].cmd.tag = "shutdown" /\ complete' = TRUE
               /\ drv'[d].at = "ended" /\ drv'[d].cmd = drv[d].cmd
               /\ Answers(drv[d].cmd, TRUE)
            \/ /\ drv[d].cmd.tag # "shutdown" /\ UNCHANGED <<answered, reply, complete>>
               /\ drv'[d] = [drv[d] EXCEPT !.at = "reset", !.todo = drv[d].slice]
<1>1. /\ drv[d].at = "stop" /\ drv[d].todo = {} /\ \A k \in Nodes : drv[d].torn[k] = None
      /\ UNCHANGED <<node, fiber, queue, sent, asked, latch>>
  BY DEF Drained, TornDown, At
<1>2. /\ drv \in [Drivers -> Driver] /\ drv[d] \in Driver
      /\ answered \in Nat /\ reply \in Replies
  BY DEF Typed, Replies
<1>3. drv[d].cmd \in Commands
  BY <1>1 DEF DriverInv, Busy, Drivers
<1>4. CASE drv[d].cmd.tag = "shutdown"
  <2> DEFINE r == [Idle EXCEPT !.at = "ended", !.cmd = drv[d].cmd]
  <2>1. complete' = TRUE /\ drv' = [drv EXCEPT ![d] = r] /\ Complete(drv[d].cmd, TRUE)
    BY <1>4 DEF Drained
  <2>2. r \in Driver /\ r.at = "ended" /\ r.cmd = drv[d].cmd
    BY <1>3, Blank DEF Driver
  <2> HIDE DEF r
  <2>3. drv' \in [Drivers -> Driver] /\ OnlyDriver(d) /\ drv'[d] = r
    BY <1>2, <2>1, <2>2, PutDriver DEF OnlyDriver
  <2>4. answered' \in Nat /\ reply' \in Replies /\ Answers(drv[d].cmd, TRUE)
    BY <1>3, <2>1, AnswersTyped
  <2> QED
    BY <1>1, <1>3, <1>4, <2>1, <2>2, <2>3, <2>4
<1>5. CASE drv[d].cmd.tag # "shutdown"
  <2> DEFINE r == [drv[d] EXCEPT !.at = "reset", !.todo = drv[d].slice]
  <2>1. drv' = [drv EXCEPT ![d] = r] /\ UNCHANGED <<answered, reply, complete>>
    BY <1>2, <1>5 DEF Drained
  <2>2. r \in Driver
    BY <1>2 DEF Driver
  <2> HIDE DEF r
  <2>3. drv' \in [Drivers -> Driver] /\ OnlyDriver(d) /\ drv'[d] = r
    BY <1>2, <2>1, <2>2, PutDriver DEF OnlyDriver
  <2> QED
    BY <1>1, <1>2, <1>3, <1>5, <2>1, <2>3 DEF r
<1> QED
  BY <1>4, <1>5

LEMMA DrainedKeeps ==
  ASSUME SupervisorAssumption, RegistryInv, NEW d \in Drivers, Drained(d)
  PROVE  RegistryInv'
<1>1. Typed /\ NodesSound /\ FiberInv /\ DriverInv
  BY DEF RegistryInv
<1>2. /\ drv[d].at = "stop" /\ drv[d].cmd \in Commands
      /\ drv' \in [Drivers -> Driver] /\ OnlyDriver(d)
      /\ answered' \in Nat /\ reply' \in Replies
      /\ UNCHANGED <<node, fiber, queue, sent, asked, latch>>
  BY <1>1, DrainedDoes
<1>3. DriverInv' /\ complete' \in BOOLEAN
  <2>1. CASE drv[d].cmd.tag = "shutdown"
    <3>1. complete' = TRUE /\ drv'[d].at = "ended" /\ drv'[d].cmd = drv[d].cmd
      BY <1>1, <2>1, DrainedDoes
    <3>2. d = "loop"
      BY <1>1, <1>2, <2>1 DEF DriverInv, Busy, Drivers
    <3>3. drv'["init"] = drv["init"] /\ drv'["bg"] = drv["bg"]
      BY <1>2, <3>2 DEF OnlyDriver, Drivers
    <3>4. latch
      BY <1>1, <1>2, <2>1, <3>2 DEF DriverInv, Busy
    <3>5. DriverInv'
      BY <1>1, <1>2, <3>1, <3>2, <3>3, <3>4 DEF DriverInv, Busy
    <3> QED
      BY <3>1, <3>5
  <2>2. CASE drv[d].cmd.tag # "shutdown"
    <3>1. /\ UNCHANGED <<answered, reply, complete>>
          /\ drv'[d] = [drv[d] EXCEPT !.at = "reset", !.todo = drv[d].slice]
      BY <1>1, <2>2, DrainedDoes
    <3>2. drv[d] \in Driver
      BY <1>1 DEF Typed
    <3>3. /\ drv'[d].at = "reset" /\ drv'[d].cmd = drv[d].cmd
          /\ drv'[d].slice = drv[d].slice /\ drv'[d].ok = drv[d].ok
      BY <3>1, <3>2 DEF Driver
    <3>4. DriverInv'
      BY <1>1, <1>2, <3>1, <3>3, ProceedsKeeps DEF Proceeds, Busy, DriverInv
    <3> QED
      BY <1>1, <3>1, <3>4 DEF Typed
  <2> QED
    BY <2>1, <2>2
<1> QED
  BY <1>1, <1>2, <1>3, SameNodes DEF RegistryInv, Typed, Replies, FiberInv

LEMMA ForkKeeps ==
  ASSUME SupervisorAssumption, RegistryInv, NEW d \in Drivers, Fork(d)
  PROVE  RegistryInv'
<1>1. Typed /\ NodesSound /\ FiberInv /\ DriverInv
  BY DEF RegistryInv
<1>2. /\ drv[d].at = "fork" /\ UNCHANGED node
      /\ drv' \in [Drivers -> Driver] /\ OnlyDriver(d)
      /\ fiber' \in [Drivers -> [Nodes -> Fiber]]
  BY <1>1, ForkDoes
<1>3. UNCHANGED Others
  BY DEF Fork, Others
<1>4. FiberInv' /\ DriverInv'
  <2>1. CASE d = "init" /\ latch
    <3>1. drv'[d].at = "ended" /\ UNCHANGED fiber
      BY <1>1, <2>1, ForkDoes
    <3>2. drv'["loop"] = drv["loop"] /\ drv'["bg"] = drv["bg"]
      BY <1>2, <2>1 DEF OnlyDriver, Drivers
    <3>3. FiberInv'
      BY <1>1, <1>2, <3>1 DEF FiberInv
    <3>4. UNCHANGED <<latch, complete>>
      BY <1>3 DEF Others
    <3> QED
      BY <1>1, <2>1, <3>1, <3>2, <3>3, <3>4 DEF DriverInv
  <2>2. CASE ~(d = "init" /\ latch)
    <3>1. /\ Proceeds(d) /\ drv'[d].at = "register"
          /\ \A e \in Drivers, j \in Nodes :
               IF e = d /\ j \in drv[d].slice
                 THEN fiber'[e][j].at = "forked" /\ fiber'[e][j].gen = node[j].gen
                 ELSE fiber'[e][j] = fiber[e][j]
      BY <1>1, <2>2, ForkDoes
    <3>2. ASSUME NEW e \in Drivers, NEW j \in Nodes
          PROVE  /\ fiber'[e][j].at \in {"forked", "waiting", "starting"}
                      => fiber'[e][j].gen \in Gens
                 /\ fiber'[e][j].gen # None => fiber'[e][j].gen <= node'[j].gen
      <4>1. node[j].gen \in Gens /\ node[j].gen \in Int /\ node'[j] = node[j]
        BY <1>1, <1>2 DEF Typed, Node, Gens
      <4>2. CASE e = d /\ j \in drv[d].slice
        BY <3>1, <4>1, <4>2
      <4>3. CASE ~(e = d /\ j \in drv[d].slice)
        <5>1. fiber'[e][j] = fiber[e][j]
          BY <3>1, <4>3
        <5> QED
          BY <1>1, <4>1, <5>1 DEF FiberInv
      <4> QED
        BY <4>2, <4>3
    <3>3. FiberInv'
      BY <3>2 DEF FiberInv
    <3>4. DriverInv'
      BY <1>1, <1>2, <1>3, <3>1, ProceedsKeeps DEF Busy, Others
    <3> QED
      BY <3>3, <3>4
  <2> QED
    BY <2>1, <2>2
<1> QED
  BY <1>1, <1>2, <1>3, <1>4, SameNodes DEF RegistryInv, Typed, Others

(* One fiber moves, and nothing else but its entry.                           *)
LEMMA OneFiber ==
  ASSUME SupervisorAssumption, Typed, FiberInv, node' \in [Nodes -> Node],
         NEW d \in Drivers, NEW k \in Nodes, OnlyNode(k), node'[k].gen = node[k].gen,
         \A e \in Drivers, j \in Nodes : ~(e = d /\ j = k) => fiber'[e][j] = fiber[e][j],
         \/ fiber'[d][k].gen = None /\ fiber'[d][k].at \in {"none", "died"}
         \/ fiber'[d][k].gen = fiber[d][k].gen /\ fiber[d][k].gen \in Gens
  PROVE  FiberInv'
<1> SUFFICES ASSUME NEW e \in Drivers, NEW j \in Nodes
             PROVE  /\ fiber'[e][j].at \in {"forked", "waiting", "starting"}
                         => fiber'[e][j].gen \in Gens
                    /\ fiber'[e][j].gen # None => fiber'[e][j].gen <= node'[j].gen
  BY DEF FiberInv
<1>1. node'[j].gen = node[j].gen
  BY SameGens
<1>2. /\ fiber[e][j].at \in {"forked", "waiting", "starting"} => fiber[e][j].gen \in Gens
      /\ fiber[e][j].gen # None => fiber[e][j].gen <= node[j].gen
  BY DEF FiberInv
<1>3. CASE e = d /\ j = k
  BY <1>1, <1>2, <1>3
<1>4. CASE ~(e = d /\ j = k)
  BY <1>1, <1>2, <1>4
<1> QED
  BY <1>3, <1>4

LEMMA RegisterKeeps ==
  ASSUME SupervisorAssumption, RegistryInv,
         NEW d \in Drivers, NEW k \in Nodes, Register(d, k)
  PROVE  RegistryInv'
<1>1. Typed /\ NodesSound /\ FiberInv /\ DriverInv
  BY DEF RegistryInv
<1>2. /\ drv[d].at = "register"
      /\ node' \in [Nodes -> Node] /\ NodesSound' /\ OnlyNode(k) /\ node'[k].gen = node[k].gen
      /\ drv' \in [Drivers -> Driver] /\ Proceeds(d)
      /\ drv'[d].at = IF drv[d].todo = {k} THEN "await" ELSE "register"
      /\ fiber' \in [Drivers -> [Nodes -> Fiber]]
  BY <1>1, RegisterDoes
<1>3. /\ \A e \in Drivers, j \in Nodes : ~(e = d /\ j = k) => fiber'[e][j] = fiber[e][j]
      /\ IF fiber[d][k].gen = node[k].gen THEN fiber'[d][k].gen = node[k].gen
                                          ELSE fiber'[d][k] = NoFiber
  BY <1>1, RegisterDoes
<1>4. UNCHANGED Others
  BY DEF Register, Others
<1>5. FiberInv'
  <2>1. node[k].gen \in Gens
    BY <1>1 DEF Typed, Node
  <2>2. \/ fiber'[d][k].gen = None /\ fiber'[d][k].at \in {"none", "died"}
        \/ fiber'[d][k].gen = fiber[d][k].gen /\ fiber[d][k].gen \in Gens
    BY <1>3, <2>1, Blank
  <2> QED
    BY <1>1, <1>2, <1>3, <2>2, OneFiber
<1>6. DriverInv'
  BY <1>1, <1>2, <1>4, ProceedsKeeps DEF Busy, Others
<1> QED
  BY <1>1, <1>2, <1>4, <1>5, <1>6 DEF RegistryInv, Typed, Others

LEMMA FiberStepKeeps ==
  ASSUME SupervisorAssumption, RegistryInv,
         NEW d \in Drivers, NEW k \in Nodes, FiberStep(d, k)
  PROVE  RegistryInv'
<1>1. Typed /\ NodesSound /\ FiberInv /\ DriverInv
  BY DEF RegistryInv
<1>2. /\ node' \in [Nodes -> Node] /\ NodesSound' /\ OnlyNode(k) /\ node'[k].gen = node[k].gen
      /\ UNCHANGED drv
      /\ fiber' \in [Drivers -> [Nodes -> Fiber]]
      /\ \A e \in Drivers, j \in Nodes : ~(e = d /\ j = k) => fiber'[e][j] = fiber[e][j]
      /\ \/ fiber'[d][k].gen = None /\ fiber'[d][k].at \in {"none", "died"}
         \/ fiber'[d][k].gen = fiber[d][k].gen /\ fiber[d][k].gen \in Gens
  <2>1. CASE Begin(d, k)
    BY <1>1, <2>1, BeginDoes
  <2>2. CASE UpstreamFailed(d, k)
    BY <1>1, <2>2, EndsDoes DEF Ends
  <2>3. CASE Started(d, k)
    BY <1>1, <2>3, EndsDoes DEF Ends
  <2>4. CASE StartFailed(d, k)
    BY <1>1, <2>4, EndsDoes DEF Ends
  <2>5. CASE StartDied(d, k)
    BY <1>1, <2>5, EndsDoes DEF Ends
  <2> QED
    BY <2>1, <2>2, <2>3, <2>4, <2>5 DEF FiberStep
<1>3. UNCHANGED Others
  BY DEF FiberStep, Begin, UpstreamFailed, Started, StartFailed, StartDied, Others
<1>4. FiberInv'
  BY <1>1, <1>2, OneFiber
<1>5. DriverInv'
  BY <1>1, <1>2, <1>3 DEF DriverInv, Others
<1> QED
  BY <1>1, <1>2, <1>3, <1>4, <1>5 DEF RegistryInv, Typed, Others

(* The driver's phase changes, or it dies.                                    *)
Turns(d, at) == /\ drv' \in [Drivers -> Driver] /\ OnlyDriver(d)
                /\ drv'[d] = [drv[d] EXCEPT !.at = at] /\ UNCHANGED <<answered, reply>>
Dies(d) == /\ drv' \in [Drivers -> Driver] /\ OnlyDriver(d)
           /\ drv'[d] = [Idle EXCEPT !.at = "dead"] /\ UNCHANGED <<answered, reply>>

LEMMA FinishedEnds ==
  ASSUME SupervisorAssumption, NEW d \in Drivers, NEW ok, Finished(d, ok)
  PROVE  OnlyDriver(d) /\ drv'[d].at \in {"idle", "ended"}
<1>1. CASE d = "init"
  BY <1>1, IdleAt, ZenonT(40) DEF Finished
<1>2. CASE d # "init"
  BY <1>2, Blank DEF Finished
<1> QED
  BY <1>1, <1>2

LEMMA DiesEnds ==
  ASSUME SupervisorAssumption, NEW d \in Drivers, Dies(d)
  PROVE  OnlyDriver(d) /\ drv'[d].at = "dead"
BY IdleAt DEF Dies

LEMMA TurnsDoes ==
  ASSUME SupervisorAssumption, Typed, NEW d \in Drivers, NEW at \in {"settle", "hook"},
         drv' = [drv EXCEPT ![d].at = at], UNCHANGED <<answered, reply>>
  PROVE  Turns(d, at)
<1>1. drv \in [Drivers -> Driver] /\ drv[d] \in Driver
  BY DEF Typed
<1> DEFINE r == [drv[d] EXCEPT !.at = at]
<1>2. r \in Driver /\ drv' = [drv EXCEPT ![d] = r]
  BY <1>1 DEF Driver
<1> HIDE DEF r
<1>3. drv' \in [Drivers -> Driver] /\ OnlyDriver(d) /\ drv'[d] = r
  BY <1>1, <1>2, PutDriver DEF OnlyDriver
<1> QED
  BY <1>3 DEF r, Turns

LEMMA DiesDoes ==
  ASSUME SupervisorAssumption, Typed, NEW d \in Drivers,
         drv' = [drv EXCEPT ![d] = [Idle EXCEPT !.at = "dead"]], UNCHANGED <<answered, reply>>
  PROVE  Dies(d)
<1>1. drv \in [Drivers -> Driver]
  BY DEF Typed
<1> DEFINE r == [Idle EXCEPT !.at = "dead"]
<1>2. r \in Driver /\ drv' = [drv EXCEPT ![d] = r]
  BY Blank DEF Driver
<1> HIDE DEF r
<1>3. drv' \in [Drivers -> Driver] /\ OnlyDriver(d) /\ drv'[d] = r
  BY <1>1, <1>2, PutDriver DEF OnlyDriver
<1> QED
  BY <1>3 DEF r, Dies

LEMMA ConvergedDoes ==
  ASSUME SupervisorAssumption, Typed, DriverInv, NEW d \in Drivers, Converged(d)
  PROVE  /\ drv[d].at = "await" /\ (Turns(d, "settle") \/ Finished(d, FALSE))
         /\ UNCHANGED <<node, fiber, queue, sent, asked, latch, complete>>
<1>1. /\ drv[d].at = "await"
      /\ UNCHANGED <<node, fiber, queue, sent, asked, latch, complete>>
  BY DEF Converged, Acquired, At
<1>2. d = "loop" => drv["loop"].cmd \in Commands
  BY <1>1 DEF DriverInv, Busy
<1>3. CASE drv[d].ok
  <2>1. Turns(d, "settle")
    BY <1>3, TurnsDoes DEF Converged
  <2> QED
    BY <1>1, <2>1
<1>4. CASE ~drv[d].ok
  <2>1. Finish(d, FALSE)
    BY <1>4 DEF Converged
  <2>2. Finished(d, FALSE)
    BY <1>2, <2>1, FinishDoes
  <2> QED
    BY <1>1, <2>2
<1> QED
  BY <1>3, <1>4

LEMMA DefectDoes ==
  ASSUME SupervisorAssumption, Typed, DriverInv, NEW d \in Drivers, Defect(d)
  PROVE  /\ drv[d].at = "await" /\ (Finished(d, FALSE) \/ (d # "bg" /\ Dies(d)))
         /\ UNCHANGED <<node, queue, sent, asked, latch, complete>>
         /\ fiber' \in [Drivers -> [Nodes -> Fiber]]
         /\ \A e \in Drivers, j \in Nodes :
              fiber'[e][j] = IF e = d /\ fiber[e][j].at = "died" THEN NoFiber ELSE fiber[e][j]
<1>1. /\ drv[d].at = "await"
      /\ UNCHANGED <<node, queue, sent, asked, latch, complete>>
      /\ fiber' = [fiber EXCEPT ![d] = [k \in Nodes |->
            IF @[k].at = "died" THEN NoFiber ELSE @[k]]]
  BY DEF Defect, At
<1>2. d = "loop" => drv["loop"].cmd \in Commands
  BY <1>1 DEF DriverInv, Busy
<1>3. fiber \in [Drivers -> [Nodes -> Fiber]] /\ NoFiber \in Fiber
  BY Blank DEF Typed
<1>4. fiber' \in [Drivers -> [Nodes -> Fiber]]
  BY <1>1, <1>3
<1>5. ASSUME NEW e \in Drivers, NEW j \in Nodes
      PROVE  fiber'[e][j] = IF e = d /\ fiber[e][j].at = "died" THEN NoFiber ELSE fiber[e][j]
  BY <1>1, <1>3
<1>6. CASE d = "bg" \/ (d = "loop" /\ drv[d].cmd.submitted)
  <2>1. Finish(d, FALSE)
    BY <1>6 DEF Defect
  <2>2. Finished(d, FALSE)
    BY <1>2, <2>1, FinishDoes
  <2> QED
    BY <1>1, <1>4, <1>5, <2>2
<1>7. CASE ~(d = "bg" \/ (d = "loop" /\ drv[d].cmd.submitted))
  <2>1. Dies(d)
    BY <1>7, DiesDoes DEF Defect
  <2> QED
    BY <1>1, <1>4, <1>5, <1>7, <2>1
<1> QED
  BY <1>6, <1>7

LEMMA SettleDoes ==
  ASSUME SupervisorAssumption, Typed, DriverInv, NEW d \in Drivers, Settle(d)
  PROVE  /\ drv[d].at = "settle"
         /\ UNCHANGED <<node, fiber, queue, sent, asked, latch, complete>>
         /\ \/ ReadyOrTerminal /\ Turns(d, "hook")
            \/ \E ok \in BOOLEAN :
                 /\ Finished(d, ok)
                 /\ ok => d = "loop" /\ (drv[d].slice = {}
                                         \/ drv[d].cmd.tag \notin {"capture", "restore"})
<1>1. /\ drv[d].at = "settle"
      /\ UNCHANGED <<node, fiber, queue, sent, asked, latch, complete>>
  BY DEF Settle, At
<1>2. d = "loop" => drv["loop"].cmd \in Commands
  BY <1>1 DEF DriverInv, Busy
<1>3. CASE ReadyOrTerminal /\ ~(d = "init" /\ latch)
  <2>1. Turns(d, "hook")
    BY <1>3, TurnsDoes DEF Settle
  <2> QED
    BY <1>1, <1>3, <2>1
<1>4. CASE ~(ReadyOrTerminal /\ ~(d = "init" /\ latch))
  <2> DEFINE ok == d = "loop" /\ (drv[d].slice = {}
                                  \/ drv[d].cmd.tag \notin {"capture", "restore"})
  <2>1. Finish(d, ok) /\ ok \in BOOLEAN
    BY <1>4 DEF Settle
  <2>2. ok => d = "loop" /\ (drv[d].slice = {}
                             \/ drv[d].cmd.tag \notin {"capture", "restore"})
    OBVIOUS
  <2> HIDE DEF ok
  <2>3. Finished(d, ok)
    BY <1>2, <2>1, FinishDoes
  <2> QED
    BY <1>1, <2>1, <2>2, <2>3
<1> QED
  BY <1>3, <1>4

LEMMA HooksDoes ==
  ASSUME SupervisorAssumption, Typed, DriverInv, NEW d \in Drivers,
         NEW k \in Nodes \cup {None}
  PROVE  /\ HookSucceeds(d) =>
              /\ drv[d].at = "hook" /\ Finished(d, TRUE)
              /\ UNCHANGED <<node, fiber, queue, sent, asked, latch, complete>>
         /\ HookFails(d, k) =>
              /\ drv[d].at = "hook"
              /\ IF d = "init" THEN Dies(d) ELSE Finished(d, FALSE)
              /\ UNCHANGED <<fiber, queue, sent, asked, latch, complete>>
<1>1. ASSUME HookSucceeds(d)
      PROVE  /\ drv[d].at = "hook" /\ Finished(d, TRUE)
             /\ UNCHANGED <<node, fiber, queue, sent, asked, latch, complete>>
  <2>1. /\ drv[d].at = "hook" /\ Finish(d, TRUE)
        /\ UNCHANGED <<node, fiber, queue, sent, asked, latch, complete>>
    BY <1>1 DEF HookSucceeds, At
  <2>2. d = "loop" => drv["loop"].cmd \in Commands
    BY <2>1 DEF DriverInv, Busy
  <2>3. Finished(d, TRUE)
    BY <2>1, <2>2, FinishDoes
  <2> QED
    BY <2>1, <2>3
<1>2. ASSUME HookFails(d, k)
      PROVE  /\ drv[d].at = "hook"
             /\ IF d = "init" THEN Dies(d) ELSE Finished(d, FALSE)
             /\ UNCHANGED <<fiber, queue, sent, asked, latch, complete>>
  <2>1. /\ drv[d].at = "hook"
        /\ UNCHANGED <<fiber, queue, sent, asked, latch, complete>>
    BY <1>2 DEF HookFails, At
  <2>2. CASE d = "init"
    <3>1. /\ drv' = [drv EXCEPT ![d] = [Idle EXCEPT !.at = "dead"]]
          /\ UNCHANGED <<answered, reply>>
      BY <1>2, <2>2 DEF HookFails
    <3>2. Dies(d)
      BY <3>1, DiesDoes
    <3> QED
      BY <2>1, <2>2, <3>2
  <2>3. CASE d # "init"
    <3>1. Finish(d, FALSE) /\ (d = "loop" => drv["loop"].cmd \in Commands)
      BY <1>2, <2>1, <2>3 DEF HookFails, DriverInv, Busy
    <3>2. Finished(d, FALSE)
      BY <3>1, FinishDoes
    <3> QED
      BY <2>1, <2>3, <3>2
  <2> QED
    BY <2>2, <2>3
<1> QED
  BY <1>1, <1>2

LEMMA TurnsKeeps ==
  ASSUME SupervisorAssumption, Typed, DriverInv, NEW d \in Drivers,
         NEW at \in {"settle", "hook"}, Turns(d, at), drv[d].at \in {"await", "settle"},
         UNCHANGED <<latch, complete>>
  PROVE  DriverInv'
<1>1. drv[d] \in Driver
  BY DEF Typed
<1>2. drv'[d].at = at /\ Proceeds(d)
  BY <1>1 DEF Turns, Proceeds, Driver
<1> QED
  BY <1>2, ProceedsKeeps DEF Turns, Busy

LEMMA DiesKeeps ==
  ASSUME SupervisorAssumption, DriverInv, NEW d \in {"init", "loop"}, Dies(d),
         drv[d].at \in Busy, UNCHANGED <<latch, complete>>
  PROVE  DriverInv'
<1>1. drv'[d].at = "dead"
  BY Blank DEF Dies, Driver
<1>2. \A e \in Drivers : e # d => drv'[e] = drv[e]
  BY DEF Dies, OnlyDriver
<1>3. CASE d = "init"
  BY <1>1, <1>2, <1>3 DEF DriverInv, Busy, Drivers
<1>4. CASE d = "loop"
  BY <1>1, <1>2, <1>4 DEF DriverInv, Busy, Drivers
<1> QED
  BY <1>3, <1>4

LEMMA EndOfCommandKeeps ==
  ASSUME SupervisorAssumption, RegistryInv, NEW d \in Drivers,
         Converged(d) \/ Settle(d) \/ HookSucceeds(d) \/ Defect(d)
  PROVE  RegistryInv'
<1>1. Typed /\ NodesSound /\ FiberInv /\ DriverInv
  BY DEF RegistryInv
<1>2. /\ UNCHANGED <<node, queue, sent, asked, latch, complete>>
      /\ drv' \in [Drivers -> Driver] /\ answered' \in Nat /\ reply' \in Replies
      /\ fiber' \in [Drivers -> [Nodes -> Fiber]]
      /\ \A e \in Drivers, j \in Nodes : fiber'[e][j] = fiber[e][j] \/ fiber'[e][j] = NoFiber
      /\ DriverInv'
  <2>0. answered \in Nat /\ reply \in Replies /\ fiber \in [Drivers -> [Nodes -> Fiber]]
    BY <1>1 DEF Typed, Replies
  <2>1. CASE Converged(d)
    <3>1. /\ drv[d].at = "await" /\ (Turns(d, "settle") \/ Finished(d, FALSE))
          /\ UNCHANGED <<node, fiber, queue, sent, asked, latch, complete>>
      BY <1>1, <2>1, ConvergedDoes
    <3>2. DriverInv'
      <4>1. CASE Turns(d, "settle")
        BY <1>1, <3>1, <4>1, TurnsKeeps
      <4>2. CASE Finished(d, FALSE)
        BY <1>1, <3>1, <4>2, FinishedKeeps DEF Busy
      <4> QED
        BY <3>1, <4>1, <4>2
    <3> QED
      BY <2>0, <3>1, <3>2 DEF Turns, Finished
  <2>2. CASE Settle(d)
    <3>1. /\ drv[d].at = "settle"
          /\ UNCHANGED <<node, fiber, queue, sent, asked, latch, complete>>
          /\ (Turns(d, "hook") \/ \E ok \in BOOLEAN : Finished(d, ok))
      BY <1>1, <2>2, SettleDoes
    <3>2. DriverInv'
      BY <1>1, <3>1, TurnsKeeps, FinishedKeeps DEF Busy
    <3> QED
      BY <2>0, <3>1, <3>2 DEF Turns, Finished
  <2>3. CASE HookSucceeds(d)
    <3>1. /\ drv[d].at = "hook" /\ Finished(d, TRUE)
          /\ UNCHANGED <<node, fiber, queue, sent, asked, latch, complete>>
      BY <1>1, <2>3, HooksDoes
    <3>2. DriverInv'
      BY <1>1, <3>1, FinishedKeeps DEF Busy
    <3> QED
      BY <2>0, <3>1, <3>2 DEF Finished
  <2>4. CASE Defect(d)
    <3>1. /\ drv[d].at = "await" /\ (Finished(d, FALSE) \/ (d # "bg" /\ Dies(d)))
          /\ UNCHANGED <<node, queue, sent, asked, latch, complete>>
          /\ fiber' \in [Drivers -> [Nodes -> Fiber]]
          /\ \A e \in Drivers, j \in Nodes : fiber'[e][j] =
               IF e = d /\ fiber[e][j].at = "died" THEN NoFiber ELSE fiber[e][j]
      BY <1>1, <2>4, DefectDoes
    <3>2. DriverInv'
      <4>1. CASE d # "bg" /\ Dies(d)
        BY <1>1, <3>1, <4>1, DiesKeeps DEF Busy, Drivers
      <4>2. CASE Finished(d, FALSE)
        BY <1>1, <3>1, <4>2, FinishedKeeps DEF Busy
      <4> QED
        BY <3>1, <4>1, <4>2
    <3> QED
      BY <2>0, <3>1, <3>2 DEF Dies, Finished
  <2> QED
    BY <2>1, <2>2, <2>3, <2>4
<1>3. FiberInv'
  <2>1. /\ node' \in [Nodes -> Node]
        /\ \A j \in Nodes : node[j].gen \in Int /\ node'[j].gen = node[j].gen
    BY <1>1, <1>2 DEF Typed, Node, Gens
  <2>2. \A j \in Nodes : node'[j].gen >= node[j].gen
    BY <2>1
  <2>3. \A e \in Drivers, j \in Nodes :
           \/ fiber'[e][j] = fiber[e][j]
           \/ fiber'[e][j].at \in {"none", "died"} /\ fiber'[e][j].gen = None
    BY <1>2, Blank
  <2> QED
    BY <1>1, <2>1, <2>2, <2>3, FibersFade
<1> QED
  BY <1>1, <1>2, <1>3, SameNodes DEF RegistryInv, Typed, Replies

LEMMA HookFailsKeeps ==
  ASSUME SupervisorAssumption, RegistryInv, NEW d \in Drivers, NEW k \in MayFailLate,
         HookFails(d, k)
  PROVE  RegistryInv'
<1>1. Typed /\ NodesSound /\ FiberInv /\ DriverInv
  BY DEF RegistryInv
<1>2. k \in Nodes \cup {None}
  BY DEF SupervisorAssumption
<1>3. /\ drv[d].at = "hook"
      /\ IF d = "init" THEN Dies(d) ELSE Finished(d, FALSE)
      /\ UNCHANGED <<fiber, queue, sent, asked, latch, complete>>
  BY <1>1, <1>2, HooksDoes
<1>4. node' \in [Nodes -> Node] /\ NodesSound' /\ \A j \in Nodes : node'[j].gen = node[j].gen
  BY <1>1, <1>2, HookFailsDoes
<1>5. DriverInv'
  BY <1>1, <1>3, DiesKeeps, FinishedKeeps DEF Busy
<1>6. FiberInv'
  BY <1>1, <1>3, <1>4 DEF FiberInv
<1>7. answered' \in Nat /\ reply' \in Replies /\ drv' \in [Drivers -> Driver]
  <2>1. answered \in Nat /\ reply \in Replies
    BY <1>1 DEF Typed, Replies
  <2> QED
    BY <1>3, <2>1 DEF Dies, Finished
<1> QED
  BY <1>1, <1>3, <1>4, <1>5, <1>6, <1>7 DEF RegistryInv, Typed, Replies

LEMMA LoseRaceDoes ==
  ASSUME SupervisorAssumption, Typed, DriverInv, LoseRace
  PROVE  /\ drv' \in [Drivers -> Driver] /\ OnlyDriver("init") /\ drv'["init"].at = "ended"
         /\ complete /\ drv["init"].at \notin {"ended", "dead"}
         /\ UNCHANGED <<node, fiber, queue, sent, asked, answered, reply, latch, complete>>
<1>1. /\ drv' = [drv EXCEPT !["init"] = [Idle EXCEPT !.at = "ended"]]
      /\ complete /\ drv["init"].at \notin {"ended", "dead"}
      /\ UNCHANGED <<node, fiber, queue, sent, asked, answered, reply, latch, complete>>
  BY DEF LoseRace
<1>2. drv \in [Drivers -> Driver] /\ "init" \in Drivers
  BY DEF Typed, Drivers
<1> DEFINE r == [Idle EXCEPT !.at = "ended"]
<1>3. r \in Driver /\ r.at = "ended" /\ drv' = [drv EXCEPT !["init"] = r]
  BY <1>1, Blank DEF Driver
<1> HIDE DEF r
<1>4. drv' \in [Drivers -> Driver] /\ OnlyDriver("init") /\ drv'["init"] = r
  BY <1>2, <1>3, PutDriver DEF OnlyDriver
<1> QED
  BY <1>1, <1>3, <1>4

LEMMA LoseRaceKeeps ==
  ASSUME SupervisorAssumption, RegistryInv, LoseRace
  PROVE  RegistryInv'
<1>1. Typed /\ NodesSound /\ FiberInv /\ DriverInv
  BY DEF RegistryInv
<1>2. /\ drv' \in [Drivers -> Driver] /\ OnlyDriver("init") /\ drv'["init"].at = "ended"
      /\ UNCHANGED <<node, fiber, queue, sent, asked, answered, reply, latch, complete>>
  BY <1>1, LoseRaceDoes
<1>3. drv'["loop"] = drv["loop"] /\ drv'["bg"] = drv["bg"]
  BY <1>2 DEF OnlyDriver, Drivers
<1>4. DriverInv' /\ FiberInv'
  BY <1>1, <1>2, <1>3 DEF DriverInv, FiberInv
<1> QED
  BY <1>1, <1>2, <1>4, SameNodes DEF RegistryInv, Typed

LEMMA StutterRegistry ==
  ASSUME SupervisorAssumption, RegistryInv, UNCHANGED vars
  PROVE  RegistryInv'
<1>1. UNCHANGED <<node, fiber, drv, queue, sent, asked, answered, reply, latch, complete>>
  BY DEF vars
<1>2. NodesSound'
  BY <1>1, SameNodes DEF RegistryInv
<1>3. Typed'
  BY <1>1 DEF RegistryInv, Typed
<1> QED
  BY <1>1, <1>2, <1>3 DEF RegistryInv, FiberInv, DriverInv

LEMMA RegistryStep == SupervisorAssumption /\ RegistryInv /\ [Next]_vars => RegistryInv'
<1> SUFFICES ASSUME SupervisorAssumption, RegistryInv, [Next]_vars
             PROVE  RegistryInv'
  OBVIOUS
<1>1. ASSUME NEW c \in Commands, Offer(c)
      PROVE  RegistryInv'
  BY <1>1, OfferKeeps
<1>2. CASE TakeCommand
  BY <1>2, TakeRestartKeeps, TakeBgRestartKeeps, TakeOtherKeeps, TakeLastKeeps DEF TakeCommand
<1>3. CASE HandlerStep
  BY <1>3, HandledKeeps DEF HandlerStep
<1>4. CASE LoseRace
  BY <1>4, LoseRaceKeeps
<1>5. ASSUME NEW d \in Drivers, DriverStep(d)
      PROVE  RegistryInv'
  <2>1. CASE \E k \in Nodes : StopNode(d, k) \/ Closed(d, k)
    BY <2>1, StopNodeKeeps, ClosedKeeps
  <2>2. CASE \E k \in Nodes : Reset(d, k) \/ Register(d, k)
    BY <2>2, ResetKeeps, RegisterKeeps
  <2>3. CASE \E k \in MayFailLate : HookFails(d, k)
    BY <2>3, HookFailsKeeps
  <2>4. CASE Drained(d) \/ Fork(d)
    BY <2>4, DrainedKeeps, ForkKeeps
  <2>5. CASE Converged(d) \/ Settle(d) \/ HookSucceeds(d) \/ Defect(d)
    BY <2>5, EndOfCommandKeeps
  <2> QED
    BY <1>5, <2>1, <2>2, <2>3, <2>4, <2>5 DEF DriverStep
<1>6. ASSUME NEW d \in Drivers, NEW k \in Nodes, FiberStep(d, k)
      PROVE  RegistryInv'
  BY <1>6, FiberStepKeeps
<1>7. CASE UNCHANGED vars
  BY <1>7, StutterRegistry
<1> QED
  BY <1>1, <1>2, <1>3, <1>4, <1>5, <1>6, <1>7 DEF Next

LEMMA RegistryHolds == Spec => []RegistryInv
<1>1. Init => RegistryInv
  BY InitRegistry, SupervisorAssumption
<1>2. RegistryInv /\ [Next]_vars => RegistryInv'
  BY RegistryStep, SupervisorAssumption
<1> QED
  BY <1>1, <1>2, PTL DEF Spec

(* Whatever commands come, in whatever phase of the initial acquire, a plugin *)
(* shown ready can be read and depended on: a row never turns ready by        *)
(* itself, but with its value and its gate, and what takes the value away     *)
(* takes the status with it (plugin-registry.ts, acquire-node.ts).            *)
THEOREM ShownReadyIsReadable == Spec => []ReadyIsReadable
<1>1. RegistryInv => ReadyIsReadable
  BY DEF RegistryInv, NodesSound, NodeSound, ReadyIsReadable
<1> QED
  BY <1>1, RegistryHolds, PTL

-----------------------------------------------------------------------------
(* B. Teardown.  A slice holds whatever depends on a member of it.            *)
LEMMA SliceClosed ==
  ASSUME SupervisorAssumption, NEW roots, NEW k \in Nodes, NEW u \in Up[k], u \in Slice(roots)
  PROVE  k \in Slice(roots)
<1>1. u \in Nodes
  BY Distinct
<1>2. ASSUME NEW S \in SUBSET Nodes,
             roots \subseteq S, \A n \in Nodes : Up[n] \cap S # {} => n \in S
      PROVE  k \in S
  <2>1. u \in S
    BY <1>2 DEF Slice
  <2> QED
    BY <1>2, <2>1
<1> QED
  BY <1>2 DEF Slice

LEMMA SliceHoldsRoots ==
  ASSUME NEW roots, NEW k \in Nodes, k \in roots
  PROVE  k \in Slice(roots)
BY DEF Slice

LEMMA InitDrain == SupervisorAssumption /\ Init => DrainInv
<1> SUFFICES ASSUME SupervisorAssumption, Init
             PROVE  DrainInv
  OBVIOUS
<1>1. drv["bg"] = Idle /\ L = Idle
  BY DEF Init, Drivers, L
<1>2. \A k \in Nodes : fiber["bg"][k] = NoFiber
  BY DEF Init, Drivers
<1>3. \A k \in Nodes : /\ node[k].gen = 1
                       /\ \A g \in Gens : node[k].scope[g] = "open" /\ node[k].ran[g] = None
  BY DEF Init
<1>4. 1 \in Gens /\ \A g \in Gens : ~(g < 1)
  BY Distinct DEF Gens
<1>5. ScopeInv
  BY <1>3, <1>4 DEF ScopeInv
<1>6. SliceInv /\ StopInv /\ ResetInv
  BY <1>1, Blank DEF SliceInv, StopInv, ResetInv
<1>7. RestInv
  BY <1>1, <1>3, <1>4, Blank DEF RestInv, Scope
<1> QED
  BY <1>1, <1>2, <1>5, <1>6, <1>7 DEF DrainInv, BgIdle

(* No scope is touched, and no entry that is yet to come.                     *)
SameScopes == \A k \in Nodes :
  /\ node'[k].gen = node[k].gen /\ node'[k].scope = node[k].scope
  /\ \A g \in Gens : g > node[k].gen => node'[k].ran[g] = node[k].ran[g]

BgSame ==
  /\ drv'["bg"] = drv["bg"] \/ drv'["bg"] = Idle
  /\ \A k \in Nodes : fiber'["bg"][k] = fiber["bg"][k] \/ fiber'["bg"][k] = NoFiber

LEMMA SameScopesKeep ==
  ASSUME DrainInv, SameScopes, BgSame
  PROVE  BgIdle' /\ ScopeInv'
<1>1. BgIdle'
  BY DEF BgSame, DrainInv, BgIdle
<1>2. ASSUME NEW k \in Nodes, NEW g \in Gens
      PROVE  /\ g < node'[k].gen => node'[k].scope[g] = "closed"
             /\ g > node'[k].gen => node'[k].scope[g] = "open" /\ node'[k].ran[g] = None
  BY DEF DrainInv, ScopeInv, SameScopes
<1>3. ScopeInv'
  BY <1>2 DEF ScopeInv
<1> QED
  BY <1>1, <1>3

(* The loop stays where it is.                                                *)
LEMMA LoopSame ==
  ASSUME DrainInv, SameScopes, BgSame, drv'["loop"] = drv["loop"]
  PROVE  DrainInv'
<1>1. BgIdle' /\ ScopeInv'
  BY SameScopesKeep
<1>2. L' = L /\ \A k \in Nodes : node'[k].gen = node[k].gen /\ Scope(k)' = Scope(k)
  BY DEF L, SameScopes, Scope
<1>3. SliceInv /\ StopInv /\ ResetInv /\ RestInv
  BY DEF DrainInv
<1>4. SliceInv'
  BY <1>2, <1>3 DEF SliceInv
<1>5. StopInv'
  BY <1>2, <1>3 DEF StopInv
<1>6. ResetInv' /\ RestInv'
  BY <1>2, <1>3 DEF ResetInv, RestInv
<1> QED
  BY <1>1, <1>4, <1>5, <1>6 DEF DrainInv

(* The loop goes from one phase to another, none of them a teardown.          *)
LEMMA LoopCalm ==
  ASSUME DrainInv, SameScopes, BgSame,
         L.at \notin {"stop", "reset", "ended"}, L'.at \notin {"stop", "reset"},
         L'.at = "ended" => L'.cmd.tag # "shutdown",
         L'.at = "handler" => L'.cmd.tag \in {"capture", "restore"},
         L'.at \in {"fork", "register", "await"} =>
           L.at \in {"fork", "register"} /\ L'.slice = L.slice
  PROVE  DrainInv'
<1>1. BgIdle' /\ ScopeInv'
  BY SameScopesKeep
<1>2. \A k \in Nodes : node'[k].gen = node[k].gen /\ Scope(k)' = Scope(k)
  BY DEF SameScopes, Scope
<1>3. SliceInv /\ RestInv
  BY DEF DrainInv
<1>4. SliceInv'
  BY <1>3 DEF SliceInv
<1>5. StopInv' /\ ResetInv'
  BY DEF StopInv, ResetInv
<1>6. RestInv'
  BY <1>2, <1>3 DEF RestInv
<1> QED
  BY <1>1, <1>4, <1>5, <1>6 DEF DrainInv

(* A drain begins.                                                            *)
LEMMA DrainBegins ==
  ASSUME SupervisorAssumption, DrainInv, SameScopes, BgSame, L.at \in {"idle", "handler"},
         L'.at = "stop", L'.todo = L'.slice, L'.torn = Nothing,
         \A k \in Nodes : \A u \in Up[k] : u \in L'.slice => k \in L'.slice,
         L'.cmd.tag = "shutdown" => L'.slice = Nodes
  PROVE  DrainInv'
<1>1. BgIdle' /\ ScopeInv'
  BY SameScopesKeep
<1>2. \A k \in Nodes : Scope(k)' = "open"
  BY DEF SameScopes, Scope, DrainInv, RestInv
<1>3. SliceInv'
  BY DEF SliceInv
<1>4. StopInv'
  BY <1>2, Distinct DEF StopInv
<1>5. ResetInv' /\ RestInv'
  BY DEF ResetInv, RestInv
<1> QED
  BY <1>1, <1>3, <1>4, <1>5 DEF DrainInv

LEMMA LoopOnly ==
  ASSUME RegistryInv, DrainInv, NEW d \in Drivers, drv[d].at \in Busy
  PROVE  d \in {"init", "loop"} /\ (drv[d].at \in {"stop", "reset"} => d = "loop")
<1>1. drv["bg"].at = "idle"
  BY DEF DrainInv, BgIdle, Idle
<1>2. drv["init"].at \notin {"stop", "reset"}
  BY DEF RegistryInv, DriverInv
<1> QED
  BY <1>1, <1>2 DEF Busy, Drivers

LEMMA Untouched ==
  ASSUME UNCHANGED node
  PROVE  SameScopes
BY DEF SameScopes

LEMMA NoInterrupt ==
  ASSUME SupervisorAssumption, DrainInv, InterruptBg
  PROVE  \A k \in Nodes : node'[k] = node[k]
<1>1. \A k \in Nodes : drv["bg"].torn[k] = None
  <2>1. drv["bg"].torn = Nothing
    BY Blank DEF DrainInv, BgIdle
  <2> QED
    BY <2>1, Distinct
<1> QED
  BY <1>1 DEF InterruptBg

LEMMA TakesKeepDrain ==
  ASSUME SupervisorAssumption, NoBackground, RegistryInv, DrainInv, TakeCommand
  PROVE  DrainInv'
<1>1. Typed /\ NodesSound
  BY DEF RegistryInv
<1>2. CASE TakeRestart
  <2>1. PICK c \in Commands :
          /\ Take(c) /\ c.tag \in {"selective", "restart"}
          /\ UNCHANGED <<node, answered, reply, latch, complete>>
          /\ OnlyDriver("loop")
          /\ drv'["loop"] =
               Drain("loop", c, IF c.tag = "selective" THEN Slice({c.key}) ELSE Nodes, TRUE)
    BY <1>1, <1>2, TakeRestartDoes
  <2> DEFINE s == IF c.tag = "selective" THEN Slice({c.key}) ELSE Nodes
  <2>2. s \in SUBSET Nodes /\ \A k \in Nodes : \A u \in Up[k] : u \in s => k \in s
    BY SliceClosed DEF Slice
  <2>3. L' = Drain("loop", c, s, TRUE)
    BY <2>1 DEF L
  <2> HIDE DEF s
  <2>4. L'.at = "stop" /\ L'.cmd = c /\ L'.slice = s /\ L'.todo = s /\ L'.torn = Nothing
    BY <2>3, Blank DEF Drain, Driver
  <2>5. L.at = "idle" /\ UNCHANGED fiber
    BY <1>1, <2>1, TakeDoes DEF L
  <2>6. SameScopes /\ BgSame
    BY <2>1, <2>5, Untouched DEF BgSame, OnlyDriver, Drivers
  <2> QED
    BY <2>1, <2>2, <2>4, <2>5, <2>6, DrainBegins
<1>3. CASE TakeBgRestart
  BY <1>3 DEF TakeBgRestart, NoBackground
<1>4. CASE TakeSnapshot \/ TakeApply
  <2>1. PICK c \in Commands, at \in {"handler", "settle"} :
          /\ Take(c) /\ c.tag # "shutdown"
          /\ at = "settle" <=> c.tag \notin {"capture", "restore"}
          /\ UNCHANGED <<node, answered, reply, latch, complete>>
          /\ OnlyDriver("loop")
          /\ drv'["loop"] = [Idle EXCEPT !.at = at, !.cmd = c]
    BY <1>1, <1>4, TakeOtherDoes
  <2>2. L'.at = at /\ L'.cmd = c
    BY <2>1, Blank DEF L, Driver
  <2>3. L.at = "idle" /\ UNCHANGED fiber
    BY <1>1, <2>1, TakeDoes DEF L
  <2>4. SameScopes /\ BgSame
    BY <2>1, <2>3, Untouched DEF BgSame, OnlyDriver, Drivers
  <2> QED
    BY <2>1, <2>2, <2>3, <2>4, LoopCalm
<1>5. CASE TakeShutdown
  <2>1. PICK c \in Commands :
          /\ Take(c) /\ InterruptBg
          /\ drv'["init"] = drv["init"] /\ drv'["bg"] = Idle
          /\ drv'["loop"] = Drain("loop", c, Nodes, TRUE)
    BY <1>1, <1>5, TakeShutdownDoes
  <2>2. L'.at = "stop" /\ L'.slice = Nodes /\ L'.todo = Nodes /\ L'.torn = Nothing
    BY <2>1, Blank DEF Drain, Driver, L
  <2>3. L.at = "idle" /\ UNCHANGED fiber
    BY <1>1, <2>1, TakeDoes DEF L
  <2>4. \A k \in Nodes : node'[k] = node[k]
    BY <2>1, NoInterrupt
  <2>5. SameScopes /\ BgSame
    BY <2>1, <2>3, <2>4 DEF SameScopes, BgSame
  <2> QED
    BY <2>1, <2>2, <2>3, <2>5, DrainBegins
<1>6. CASE TakeHardKill
  <2>1. PICK c \in Commands :
          /\ Take(c) /\ c.tag = "hardkill" /\ InterruptBg
          /\ drv'["bg"] = Idle
          /\ drv'["loop"] = [Idle EXCEPT !.at = "ended", !.cmd = c]
    BY <1>1, <1>6, TakeHardKillDoes
  <2>2. L'.at = "ended" /\ L'.cmd = c
    BY <2>1, Blank DEF L, Driver
  <2>3. L.at = "idle" /\ UNCHANGED fiber
    BY <1>1, <2>1, TakeDoes DEF L
  <2>4. \A k \in Nodes : node'[k] = node[k]
    BY <2>1, NoInterrupt
  <2>5. SameScopes /\ BgSame
    BY <2>1, <2>3, <2>4 DEF SameScopes, BgSame
  <2> QED
    BY <2>1, <2>2, <2>3, <2>5, LoopCalm
<1> QED
  BY <1>2, <1>3, <1>4, <1>5, <1>6 DEF TakeCommand

LEMMA HandledKeepsDrain ==
  ASSUME SupervisorAssumption, RegistryInv, DrainInv, NEW ok \in BOOLEAN, Handled(ok)
  PROVE  DrainInv'
<1> DEFINE slice == Slice(Nodes \ KeepAlive)
           s == [drv["loop"] EXCEPT !.at = "settle"]
           r == Drain("loop", drv["loop"].cmd, slice, ok)
<1>1. Typed /\ DriverInv
  BY DEF RegistryInv
<1>2. /\ L.at = "handler" /\ OnlyDriver("loop") /\ UNCHANGED <<node, fiber>>
      /\ L' = s \/ L' = r \/ L' = Idle
  BY <1>1, HandledDoes DEF L
<1>3. SameScopes /\ BgSame
  BY <1>2, Untouched DEF BgSame, OnlyDriver, Drivers
<1>4. slice \in SUBSET Nodes /\ \A k \in Nodes : \A u \in Up[k] : u \in slice => k \in slice
  BY SliceClosed DEF Slice
<1>5. L.cmd.tag \in {"capture", "restore"} /\ L \in Driver
  BY <1>1, <1>2 DEF DrainInv, SliceInv, Typed, L, Drivers
<1>6. CASE L' = s
  <2>1. L'.at = "settle"
    BY <1>5, <1>6 DEF Driver, L
  <2> QED
    BY <1>2, <1>3, <2>1, LoopCalm
<1>7. CASE L' = r
  <2> HIDE DEF slice
  <2>1. r.at = "stop" /\ r.cmd = L.cmd /\ r.slice = slice /\ r.todo = slice /\ r.torn = Nothing
    BY Blank DEF Drain, Driver, L
  <2> HIDE DEF r
  <2> QED
    BY <1>2, <1>3, <1>4, <1>5, <1>7, <2>1, DrainBegins
<1>8. CASE L' = Idle
  BY <1>2, <1>3, <1>8, Blank, LoopCalm
<1> QED
  BY <1>2, <1>6, <1>7, <1>8

LEMMA StopNodeKeepsDrain ==
  ASSUME SupervisorAssumption, RegistryInv, DrainInv,
         NEW d \in Drivers, NEW k \in Nodes, StopNode(d, k)
  PROVE  DrainInv'
<1>1. Typed /\ NodesSound
  BY DEF RegistryInv
<1>2. drv[d].at = "stop" /\ k \in drv[d].todo
  BY DEF StopNode, At
<1>3. d = "loop"
  BY <1>2, LoopOnly DEF Busy
<1>4. L.at = "stop" /\ k \in L.todo
  BY <1>2, <1>3 DEF L
<1>5. /\ L.todo \subseteq L.slice /\ L.torn[k] = None
      /\ node[k].scope[node[k].gen] = "open"
  BY <1>4 DEF DrainInv, SliceInv, StopInv, Scope
<1>6. Stopped(d, k)
  BY <1>1, StopNodeDoes
<1>7. OnlyNode(k) /\ node'[k].gen = node[k].gen /\ node'[k].ran = node[k].ran
  BY <1>6 DEF Stopped
<1>8. /\ node'[k].scope[node[k].gen] =
           IF node[k].scope[node[k].gen] = "open" THEN "closing" ELSE node[k].scope[node[k].gen]
      /\ \A g \in Gens : g # node[k].gen => node'[k].scope[g] = node[k].scope[g]
  BY <1>6 DEF Stopped
<1>9. /\ drv' \in [Drivers -> Driver] /\ Proceeds(d)
      /\ drv'[d].at = "stop" /\ drv'[d].todo = drv[d].todo \ {k}
      /\ drv'[d].torn = [drv[d].torn EXCEPT ![k] =
           IF node[k].scope[node[k].gen] = "open" THEN node[k].gen ELSE None]
  BY <1>6 DEF Stopped
<1>10. /\ OnlyNode(k) /\ node'[k].gen = node[k].gen /\ node'[k].ran = node[k].ran
       /\ \A g \in Gens :
            node'[k].scope[g] = IF g = node[k].gen THEN "closing" ELSE node[k].scope[g]
  BY <1>5, <1>7, <1>8
<1>11. /\ drv' \in [Drivers -> Driver] /\ Proceeds(d)
       /\ drv'[d].at = "stop" /\ drv'[d].todo = drv[d].todo \ {k}
       /\ drv'[d].torn = [drv[d].torn EXCEPT ![k] = node[k].gen]
  BY <1>5, <1>9
<1>12. /\ L'.at = "stop" /\ L'.todo = L.todo \ {k} /\ L'.slice = L.slice /\ L'.cmd = L.cmd
       /\ L'.torn = [L.torn EXCEPT ![k] = node[k].gen]
       /\ L.torn \in [Nodes -> Gens \cup {None}]
  <2>1. drv["loop"] \in Driver
    BY <1>1 DEF Typed, Drivers
  <2> QED
    BY <1>3, <1>11, <2>1 DEF L, Proceeds, Driver
<1>13. fiber' = FibersWithout(k)
  BY DEF StopNode
<1>14. BgIdle'
  <2>1. \A j \in Nodes : fiber'["bg"][j] = fiber["bg"][j] \/ fiber'["bg"][j] = NoFiber
    BY <1>1, <1>13, WithoutFiber DEF Typed, Drivers
  <2>2. drv'["bg"] = drv["bg"]
    BY <1>3, <1>11 DEF Proceeds, OnlyDriver, Drivers
  <2> QED
    BY <2>1, <2>2 DEF DrainInv, BgIdle
<1>15. \A j \in Nodes : node[j].gen \in Gens /\ node[j].gen \in Int
  BY <1>1 DEF Typed, Node, Gens
<1>16. ASSUME NEW j \in Nodes, NEW g \in Gens
       PROVE  /\ g < node'[j].gen => node'[j].scope[g] = "closed"
              /\ g > node'[j].gen => node'[j].scope[g] = "open" /\ node'[j].ran[g] = None
  <2>1. /\ g < node[j].gen => node[j].scope[g] = "closed"
        /\ g > node[j].gen => node[j].scope[g] = "open" /\ node[j].ran[g] = None
    BY DEF DrainInv, ScopeInv
  <2>2. g \in Int
    BY DEF Gens
  <2>3. CASE j = k
    BY <1>10, <1>15, <2>1, <2>2, <2>3
  <2>4. CASE j # k
    BY <1>10, <2>1, <2>4 DEF OnlyNode
  <2> QED
    BY <2>3, <2>4
<1>17. ScopeInv'
  BY <1>16 DEF ScopeInv
<1>18. SliceInv'
  BY <1>4, <1>12 DEF DrainInv, SliceInv
<1>19. ASSUME NEW j \in Nodes
       PROVE  /\ j \in L'.todo \/ j \notin L'.slice => L'.torn[j] = None /\ Scope(j)' = "open"
              /\ j \in L'.slice \ L'.todo =>
                   IF L'.torn[j] = None THEN Scope(j)' = "closed"
                   ELSE L'.torn[j] = node'[j].gen /\ Scope(j)' = "closing"
  <2>1. CASE j = k
    <3>1. L'.torn[j] = node[j].gen /\ Scope(j)' = "closing" /\ node[j].gen # None
      BY <1>10, <1>12, <1>15, <2>1, Distinct DEF Scope
    <3> QED
      BY <1>4, <1>5, <1>10, <1>12, <2>1, <3>1
  <2>2. CASE j # k
    <3>1. L'.torn[j] = L.torn[j] /\ Scope(j)' = Scope(j) /\ node'[j].gen = node[j].gen
      BY <1>10, <1>12, <2>2 DEF Scope, OnlyNode
    <3> QED
      BY <1>4, <1>12, <2>2, <3>1 DEF DrainInv, StopInv
  <2> QED
    BY <2>1, <2>2
<1>20. StopInv'
  BY <1>19 DEF StopInv
<1>21. ResetInv' /\ RestInv'
  BY <1>12 DEF ResetInv, RestInv
<1> QED
  BY <1>14, <1>17, <1>18, <1>20, <1>21 DEF DrainInv

LEMMA ClosedKeepsDrain ==
  ASSUME SupervisorAssumption, RegistryInv, DrainInv,
         NEW d \in Drivers, NEW k \in Nodes, Closed(d, k)
  PROVE  DrainInv'
<1>1. Typed /\ NodesSound
  BY DEF RegistryInv
<1>2. /\ drv[d].at = "stop" /\ drv[d].torn[k] \in Gens
      /\ OnlyNode(k) /\ node'[k].gen = node[k].gen /\ node'[k].ran = node[k].ran
      /\ \A g \in Gens :
           node'[k].scope[g] = IF g = drv[d].torn[k] THEN "closed" ELSE node[k].scope[g]
      /\ Proceeds(d) /\ drv'[d].at = "stop" /\ drv'[d].todo = drv[d].todo
      /\ drv'[d].torn = [drv[d].torn EXCEPT ![k] = None]
      /\ UNCHANGED fiber
  <2>1. Closes(d, k)
    BY <1>1, ClosedDoes
  <2> QED
    BY <2>1 DEF Closes
<1>3. d = "loop"
  BY <1>2, LoopOnly DEF Busy
<1>4. /\ L'.at = "stop" /\ L'.todo = L.todo /\ L'.slice = L.slice /\ L'.cmd = L.cmd
      /\ L'.torn = [L.torn EXCEPT ![k] = None]
      /\ L.torn \in [Nodes -> Gens \cup {None}] /\ L.at = "stop"
  <2>1. drv["loop"] \in Driver
    BY <1>1 DEF Typed, Drivers
  <2> QED
    BY <1>2, <1>3, <2>1 DEF L, Proceeds, Driver
<1>5. /\ L.torn[k] = node[k].gen /\ k \in L.slice \ L.todo
      /\ \A g \in Gens :
           node'[k].scope[g] = IF g = node[k].gen THEN "closed" ELSE node[k].scope[g]
  <2>1. L.torn[k] \in Gens /\ L.torn[k] # None
    BY <1>2, <1>3, Distinct DEF L
  <2>2. k \in L.slice \ L.todo /\ L.torn[k] = node[k].gen
    BY <1>4, <2>1 DEF DrainInv, StopInv
  <2> QED
    BY <1>2, <1>3, <2>2 DEF L
<1>6. BgIdle'
  BY <1>2, <1>3 DEF DrainInv, BgIdle, Proceeds, OnlyDriver, Drivers
<1>7. \A j \in Nodes : node[j].gen \in Gens /\ node[j].gen \in Int
  BY <1>1 DEF Typed, Node, Gens
<1>8. ASSUME NEW j \in Nodes, NEW g \in Gens
      PROVE  /\ g < node'[j].gen => node'[j].scope[g] = "closed"
             /\ g > node'[j].gen => node'[j].scope[g] = "open" /\ node'[j].ran[g] = None
  <2>1. /\ g < node[j].gen => node[j].scope[g] = "closed"
        /\ g > node[j].gen => node[j].scope[g] = "open" /\ node[j].ran[g] = None
    BY DEF DrainInv, ScopeInv
  <2>2. g \in Int
    BY DEF Gens
  <2>3. CASE j = k
    BY <1>2, <1>5, <1>7, <2>1, <2>2, <2>3
  <2>4. CASE j # k
    BY <1>2, <2>1, <2>4 DEF OnlyNode
  <2> QED
    BY <2>3, <2>4
<1>9. ScopeInv'
  BY <1>8 DEF ScopeInv
<1>10. SliceInv'
  BY <1>4 DEF DrainInv, SliceInv
<1>11. ASSUME NEW j \in Nodes
       PROVE  /\ j \in L'.todo \/ j \notin L'.slice => L'.torn[j] = None /\ Scope(j)' = "open"
              /\ j \in L'.slice \ L'.todo =>
                   IF L'.torn[j] = None THEN Scope(j)' = "closed"
                   ELSE L'.torn[j] = node'[j].gen /\ Scope(j)' = "closing"
  <2>1. CASE j = k
    <3>1. L'.torn[j] = None /\ Scope(j)' = "closed"
      BY <1>2, <1>4, <1>5, <1>7, <2>1 DEF Scope
    <3> QED
      BY <1>4, <1>5, <2>1, <3>1
  <2>2. CASE j # k
    <3>1. L'.torn[j] = L.torn[j] /\ Scope(j)' = Scope(j) /\ node'[j].gen = node[j].gen
      BY <1>2, <1>4, <2>2 DEF Scope, OnlyNode
    <3> QED
      BY <1>4, <2>2, <3>1 DEF DrainInv, StopInv
  <2> QED
    BY <2>1, <2>2
<1>12. StopInv'
  BY <1>11 DEF StopInv
<1>13. ResetInv' /\ RestInv'
  BY <1>4 DEF ResetInv, RestInv
<1> QED
  BY <1>6, <1>9, <1>10, <1>12, <1>13 DEF DrainInv

LEMMA DrainedKeepsDrain ==
  ASSUME SupervisorAssumption, RegistryInv, DrainInv, NEW d \in Drivers, Drained(d)
  PROVE  DrainInv'
<1>1. Typed /\ DriverInv
  BY DEF RegistryInv
<1>2. /\ drv[d].at = "stop" /\ drv[d].todo = {} /\ \A k \in Nodes : drv[d].torn[k] = None
      /\ OnlyDriver(d) /\ UNCHANGED <<node, fiber>>
      /\ \/ /\ drv[d].cmd.tag = "shutdown"
            /\ drv'[d].at = "ended" /\ drv'[d].cmd = drv[d].cmd
         \/ /\ drv[d].cmd.tag # "shutdown"
            /\ drv'[d] = [drv[d] EXCEPT !.at = "reset", !.todo = drv[d].slice]
  BY <1>1, DrainedDoes
<1>3. d = "loop"
  BY <1>2, LoopOnly DEF Busy
<1>4. L.at = "stop" /\ L.todo = {} /\ \A k \in Nodes : L.torn[k] = None
  BY <1>2, <1>3 DEF L
<1>5. SameScopes /\ BgSame
  BY <1>2, <1>3, Untouched DEF BgSame, OnlyDriver, Drivers
<1>6. BgIdle' /\ ScopeInv'
  BY <1>5, SameScopesKeep
<1>7. \A k \in Nodes : Scope(k)' = IF k \in L.slice THEN "closed" ELSE "open"
  <2>1. \A k \in Nodes : Scope(k) = IF k \in L.slice THEN "closed" ELSE "open"
    BY <1>4 DEF DrainInv, StopInv
  <2> QED
    BY <1>2, <2>1 DEF Scope
<1>8. CASE L.cmd.tag = "shutdown"
  <2>1. L'.at = "ended" /\ L'.cmd = L.cmd /\ L.slice = Nodes
    BY <1>2, <1>3, <1>4, <1>8 DEF L, DrainInv, SliceInv
  <2>2. SliceInv' /\ StopInv' /\ ResetInv'
    BY <2>1 DEF SliceInv, StopInv, ResetInv
  <2>3. RestInv'
    BY <1>7, <1>8, <2>1 DEF RestInv
  <2> QED
    BY <1>6, <2>2, <2>3 DEF DrainInv
<1>9. CASE L.cmd.tag # "shutdown"
  <2>1. L' = [L EXCEPT !.at = "reset", !.todo = L.slice] /\ L \in Driver
    BY <1>1, <1>2, <1>3, <1>9 DEF L, Typed, Drivers
  <2>2. L'.at = "reset" /\ L'.todo = L.slice /\ L'.slice = L.slice
    BY <2>1 DEF Driver
  <2>3. SliceInv'
    BY <1>4, <2>2 DEF DrainInv, SliceInv
  <2>4. StopInv' /\ ResetInv' /\ RestInv'
    BY <1>7, <2>2 DEF StopInv, ResetInv, RestInv
  <2> QED
    BY <1>6, <2>3, <2>4 DEF DrainInv
<1> QED
  BY <1>8, <1>9

LEMMA ResetKeepsDrain ==
  ASSUME SupervisorAssumption, RegistryInv, DrainInv,
         NEW d \in Drivers, NEW k \in Nodes, Reset(d, k)
  PROVE  DrainInv'
<1>1. Typed /\ NodesSound
  BY DEF RegistryInv
<1>2. /\ OnlyNode(k) /\ node'[k].gen = node[k].gen + 1 /\ node'[k].gen \in Gens
      /\ node'[k].ran = node[k].ran /\ node'[k].scope = node[k].scope
      /\ Proceeds(d) /\ drv[d].at = "reset" /\ k \in drv[d].todo
      /\ drv'[d].at = IF drv[d].todo = {k} THEN "fork" ELSE "reset"
      /\ drv'[d].todo = drv[d].todo \ {k} /\ drv'[d].torn = drv[d].torn
  BY <1>1, ResetDoes
<1>3. d = "loop"
  BY <1>2, LoopOnly DEF Busy
<1>4. /\ L.at = "reset" /\ k \in L.todo
      /\ L'.at = IF L.todo = {k} THEN "fork" ELSE "reset"
      /\ L'.todo = L.todo \ {k} /\ L'.slice = L.slice /\ L'.cmd = L.cmd
  BY <1>2, <1>3 DEF L, Proceeds
<1>5. fiber' = FibersWithout(k)
  BY DEF Reset
<1>6. BgIdle'
  <2>1. \A j \in Nodes : fiber'["bg"][j] = fiber["bg"][j] \/ fiber'["bg"][j] = NoFiber
    BY <1>1, <1>5, WithoutFiber DEF Typed, Drivers
  <2>2. drv'["bg"] = drv["bg"]
    BY <1>2, <1>3 DEF Proceeds, OnlyDriver, Drivers
  <2> QED
    BY <2>1, <2>2 DEF DrainInv, BgIdle
<1>7. \A j \in Nodes : node[j].gen \in Gens /\ node[j].gen \in Int
  BY <1>1 DEF Typed, Node, Gens
<1>8. Scope(k) = "closed"
  BY <1>4 DEF DrainInv, ResetInv
<1>9. ASSUME NEW j \in Nodes, NEW g \in Gens
      PROVE  /\ g < node'[j].gen => node'[j].scope[g] = "closed"
             /\ g > node'[j].gen => node'[j].scope[g] = "open" /\ node'[j].ran[g] = None
  <2>1. /\ g < node[j].gen => node[j].scope[g] = "closed"
        /\ g > node[j].gen => node[j].scope[g] = "open" /\ node[j].ran[g] = None
    BY DEF DrainInv, ScopeInv
  <2>2. g \in Int
    BY DEF Gens
  <2>3. CASE j = k
    <3>1. g < node[k].gen + 1 => g < node[k].gen \/ g = node[k].gen
      BY <1>7, <2>2
    <3>2. g > node[k].gen + 1 => g > node[k].gen
      BY <1>7, <2>2
    <3>3. node[k].scope[node[k].gen] = "closed"
      BY <1>8 DEF Scope
    <3> QED
      BY <1>2, <2>1, <2>3, <3>1, <3>2, <3>3
  <2>4. CASE j # k
    BY <1>2, <2>1, <2>4 DEF OnlyNode
  <2> QED
    BY <2>3, <2>4
<1>10. ScopeInv'
  BY <1>9 DEF ScopeInv
<1>11. SliceInv'
  BY <1>4 DEF DrainInv, SliceInv
<1>12. ASSUME NEW j \in Nodes
       PROVE  Scope(j)' = IF j \in L'.todo THEN "closed" ELSE "open"
  <2>1. CASE j = k
    <3>1. node[k].scope[node[k].gen + 1] = "open"
      <4>1. node[k].gen + 1 > node[k].gen /\ node[k].gen + 1 \in Gens
        BY <1>2, <1>7
      <4> QED
        BY <4>1 DEF DrainInv, ScopeInv
    <3> QED
      BY <1>2, <1>4, <2>1, <3>1 DEF Scope
  <2>2. CASE j # k
    <3>1. Scope(j)' = Scope(j)
      BY <1>2, <2>2 DEF Scope, OnlyNode
    <3> QED
      BY <1>4, <2>2, <3>1 DEF DrainInv, ResetInv
  <2> QED
    BY <2>1, <2>2
<1>13. StopInv' /\ ResetInv'
  BY <1>4, <1>12 DEF StopInv, ResetInv
<1>14. RestInv'
  <2>1. CASE L.todo = {k}
    BY <1>4, <1>12, <2>1 DEF RestInv
  <2>2. CASE L.todo # {k}
    BY <1>4, <2>2 DEF RestInv
  <2> QED
    BY <2>1, <2>2
<1> QED
  BY <1>6, <1>10, <1>11, <1>13, <1>14 DEF DrainInv

(* A driver goes on, and tears nothing down.                                  *)
LEMMA DriverMoves ==
  ASSUME RegistryInv, DrainInv, SameScopes, NEW d \in Drivers,
         drv[d].at \in Busy \ {"stop", "reset"}, OnlyDriver(d),
         \A k \in Nodes : fiber'["bg"][k] = fiber["bg"][k] \/ fiber'["bg"][k] = NoFiber,
         d = "loop" =>
           \/ L'.at \in {"idle", "dead", "settle", "hook"}
           \/ /\ L'.at \in {"register", "await"} /\ L.at \in {"fork", "register"}
              /\ L'.slice = L.slice
  PROVE  DrainInv'
<1>1. d \in {"init", "loop"}
  BY LoopOnly
<1>2. BgSame
  BY <1>1 DEF BgSame, OnlyDriver, Drivers
<1>3. CASE d = "init"
  <2>1. drv'["loop"] = drv["loop"]
    BY <1>3 DEF OnlyDriver, Drivers
  <2> QED
    BY <1>2, <2>1, LoopSame
<1>4. CASE d = "loop"
  <2>1. L.at \in Busy \ {"stop", "reset"}
    BY <1>4 DEF L
  <2> QED
    BY <1>2, <1>4, <2>1, LoopCalm DEF Busy
<1> QED
  BY <1>1, <1>3, <1>4

LEMMA ForkKeepsDrain ==
  ASSUME SupervisorAssumption, RegistryInv, DrainInv, NEW d \in Drivers, Fork(d)
  PROVE  DrainInv'
<1>1. Typed
  BY DEF RegistryInv
<1>2. drv[d].at = "fork" /\ UNCHANGED node /\ OnlyDriver(d)
  BY <1>1, ForkDoes
<1>3. \/ d = "init" /\ UNCHANGED fiber
      \/ /\ drv'[d].at = "register" /\ drv'[d].slice = drv[d].slice
         /\ \A e \in Drivers, j \in Nodes : e # d => fiber'[e][j] = fiber[e][j]
  BY <1>1, ForkDoes DEF Proceeds
<1>4. d \in {"init", "loop"}
  BY <1>2, LoopOnly DEF Busy
<1>5. \A k \in Nodes : fiber'["bg"][k] = fiber["bg"][k]
  BY <1>3, <1>4 DEF Drivers
<1> QED
  BY <1>2, <1>3, <1>5, Untouched, DriverMoves DEF Busy, L

LEMMA RegisterKeepsDrain ==
  ASSUME SupervisorAssumption, RegistryInv, DrainInv,
         NEW d \in Drivers, NEW k \in Nodes, Register(d, k)
  PROVE  DrainInv'
<1>1. Typed /\ NodesSound
  BY DEF RegistryInv
<1>2. /\ drv[d].at = "register" /\ OnlyNode(k) /\ Proceeds(d)
      /\ node'[k].gen = node[k].gen /\ node'[k].scope = node[k].scope
      /\ node'[k].ran = node[k].ran
      /\ drv'[d].at \in {"await", "register"}
      /\ \A e \in Drivers, j \in Nodes : ~(e = d /\ j = k) => fiber'[e][j] = fiber[e][j]
  BY <1>1, RegisterDoes
<1>3. SameScopes
  BY <1>2 DEF SameScopes, OnlyNode
<1>4. d \in {"init", "loop"}
  BY <1>2, LoopOnly DEF Busy
<1>5. \A j \in Nodes : fiber'["bg"][j] = fiber["bg"][j]
  BY <1>2, <1>4 DEF Drivers
<1> QED
  BY <1>2, <1>3, <1>5, DriverMoves DEF Busy, L, Proceeds

(* How a driver leaves the wait, the settling and the hook.                   *)
CommandEnds(d) ==
  \/ Turns(d, "settle") \/ Turns(d, "hook")
  \/ Finished(d, TRUE) \/ Finished(d, FALSE) \/ Dies(d)

LEMMA CommandEndsSo ==
  ASSUME SupervisorAssumption, Typed, DriverInv, NEW d \in Drivers,
         Converged(d) \/ Defect(d) \/ Settle(d) \/ HookSucceeds(d)
  PROVE  CommandEnds(d)
<1>1. CASE Converged(d)
  BY <1>1, ConvergedDoes DEF CommandEnds
<1>2. CASE Defect(d)
  BY <1>2, DefectDoes DEF CommandEnds
<1>3. CASE Settle(d)
  <2>1. Turns(d, "hook") \/ \E ok \in BOOLEAN : Finished(d, ok)
    BY <1>3, SettleDoes
  <2>2. ASSUME NEW ok \in BOOLEAN, Finished(d, ok)
        PROVE  Finished(d, TRUE) \/ Finished(d, FALSE)
    <3>1. CASE ok = TRUE
      BY <2>2, <3>1
    <3>2. CASE ok = FALSE
      BY <2>2, <3>2
    <3> QED
      BY <3>1, <3>2
  <2> QED
    BY <2>1, <2>2 DEF CommandEnds
<1>4. CASE HookSucceeds(d)
  BY <1>4, HooksDoes DEF CommandEnds
<1> QED
  BY <1>1, <1>2, <1>3, <1>4

LEMMA EndOfCommandKeepsDrain ==
  ASSUME SupervisorAssumption, RegistryInv, DrainInv, NEW d \in Drivers,
         Converged(d) \/ Defect(d) \/ Settle(d) \/ HookSucceeds(d)
  PROVE  DrainInv'
<1>1. Typed /\ DriverInv
  BY DEF RegistryInv
<1>2. drv[d].at \in {"await", "settle", "hook"} /\ UNCHANGED node
  BY <1>1, ConvergedDoes, DefectDoes, SettleDoes, HooksDoes
<1>3. CommandEnds(d)
  BY <1>1, CommandEndsSo
<1>4. \A e \in Drivers, j \in Nodes : fiber'[e][j] = fiber[e][j] \/ fiber'[e][j] = NoFiber
  <2>1. UNCHANGED fiber \/ Defect(d)
    BY <1>1, ConvergedDoes, SettleDoes, HooksDoes
  <2> QED
    BY <1>1, <2>1, DefectDoes
<1>5. drv[d] \in Driver
  BY <1>1 DEF Typed
<1>6. OnlyDriver(d) /\ (d = "loop" => drv'[d].at \in {"idle", "dead", "settle", "hook"})
  <2>1. CASE Turns(d, "settle") \/ Turns(d, "hook")
    BY <1>5, <2>1 DEF Turns, Driver
  <2>2. CASE Finished(d, TRUE) \/ Finished(d, FALSE)
    BY <2>2, Blank DEF Finished
  <2>3. CASE Dies(d)
    BY <2>3, IdleAt DEF Dies
  <2> QED
    BY <1>3, <2>1, <2>2, <2>3 DEF CommandEnds
<1> QED
  BY <1>2, <1>4, <1>6, Untouched, DriverMoves DEF Busy, L, Drivers

LEMMA HookFailsKeepsDrain ==
  ASSUME SupervisorAssumption, RegistryInv, DrainInv,
         NEW d \in Drivers, NEW k \in Nodes \cup {None}, HookFails(d, k)
  PROVE  DrainInv'
<1>1. Typed /\ NodesSound /\ DriverInv
  BY DEF RegistryInv
<1>2. \A j \in Nodes : /\ node'[j].gen = node[j].gen /\ node'[j].ran = node[j].ran
                       /\ node'[j].scope = node[j].scope
  BY <1>1, HookFailsDoes
<1>3. SameScopes
  BY <1>2 DEF SameScopes
<1>4. /\ drv[d].at = "hook" /\ UNCHANGED fiber
      /\ IF d = "init" THEN Dies(d) ELSE Finished(d, FALSE)
  BY <1>1, HooksDoes
<1>5. OnlyDriver(d) /\ (d = "loop" => drv'[d].at = "idle")
  BY <1>4, Blank DEF Dies, Finished
<1> QED
  BY <1>3, <1>4, <1>5, DriverMoves DEF Busy, L

LEMMA FiberStepKeepsDrain ==
  ASSUME SupervisorAssumption, RegistryInv, DrainInv,
         NEW d \in Drivers, NEW k \in Nodes, FiberStep(d, k)
  PROVE  DrainInv'
<1>1. Typed /\ NodesSound /\ FiberInv
  BY DEF RegistryInv
<1>2. /\ Live(d, k) /\ UNCHANGED drv /\ OnlyNode(k)
      /\ node'[k].gen = node[k].gen /\ node'[k].scope = node[k].scope
      /\ \A e \in Drivers, j \in Nodes : ~(e = d /\ j = k) => fiber'[e][j] = fiber[e][j]
      /\ \A g \in Gens : g # fiber[d][k].gen => node'[k].ran[g] = node[k].ran[g]
  <2>1. CASE Begin(d, k)
    BY <1>1, <2>1, BeginDoes DEF Live
  <2>2. CASE UpstreamFailed(d, k)
    BY <1>1, <2>2, EndsDoes DEF Ends
  <2>3. CASE Started(d, k)
    BY <1>1, <2>3, EndsDoes DEF Ends
  <2>4. CASE StartFailed(d, k)
    BY <1>1, <2>4, EndsDoes DEF Ends
  <2>5. CASE StartDied(d, k)
    BY <1>1, <2>5, EndsDoes DEF Ends
  <2> QED
    BY <2>1, <2>2, <2>3, <2>4, <2>5 DEF FiberStep
<1>3. \A g \in Gens : g > node[k].gen => g # fiber[d][k].gen
  <2>1. fiber[d][k].gen \in Gens /\ fiber[d][k].gen # None
    BY <1>1, <1>2, Distinct DEF FiberInv, Live
  <2>2. fiber[d][k].gen <= node[k].gen /\ node[k].gen \in Int /\ fiber[d][k].gen \in Int
    BY <1>1, <2>1 DEF FiberInv, Typed, Node, Gens
  <2> QED
    BY <2>2
<1>4. SameScopes
  BY <1>2, <1>3 DEF SameScopes, OnlyNode
<1>5. d # "bg"
  BY <1>2, Blank, ZenonT(40) DEF DrainInv, BgIdle, Live
<1>6. BgSame
  BY <1>2, <1>5 DEF BgSame, Drivers
<1> QED
  BY <1>2, <1>4, <1>6, LoopSame

LEMMA DrainStep ==
  NoBackground /\ SupervisorAssumption /\ RegistryInv /\ DrainInv /\ [Next]_vars => DrainInv'
<1> SUFFICES ASSUME NoBackground, SupervisorAssumption, RegistryInv, DrainInv, [Next]_vars
             PROVE  DrainInv'
  OBVIOUS
<1>1. CASE (\E c \in Commands : Offer(c)) \/ UNCHANGED vars
  <2>1. UNCHANGED <<node, fiber, drv>>
    BY <1>1 DEF Offer, vars
  <2> QED
    BY <2>1, Untouched, LoopSame DEF BgSame
<1>2. CASE TakeCommand
  BY <1>2, TakesKeepDrain
<1>3. CASE HandlerStep
  BY <1>3, HandledKeepsDrain DEF HandlerStep
<1>4. CASE LoseRace
  <2>1. UNCHANGED <<node, fiber>> /\ drv' = [drv EXCEPT !["init"] = [Idle EXCEPT !.at = "ended"]]
    BY <1>4 DEF LoseRace
  <2>2. drv'["loop"] = drv["loop"] /\ drv'["bg"] = drv["bg"]
    BY <2>1 DEF RegistryInv, Typed, Drivers
  <2> QED
    BY <2>1, <2>2, Untouched, LoopSame DEF BgSame
<1>5. ASSUME NEW d \in Drivers, DriverStep(d)
      PROVE  DrainInv'
  <2>1. CASE \E k \in Nodes : StopNode(d, k) \/ Closed(d, k)
    BY <2>1, StopNodeKeepsDrain, ClosedKeepsDrain
  <2>2. CASE \E k \in Nodes : Reset(d, k) \/ Register(d, k)
    BY <2>2, ResetKeepsDrain, RegisterKeepsDrain
  <2>3. CASE \E k \in MayFailLate : HookFails(d, k)
    <3>1. PICK k \in Nodes \cup {None} : HookFails(d, k)
      BY <2>3 DEF SupervisorAssumption
    <3> QED
      BY <3>1, HookFailsKeepsDrain
  <2>4. CASE Drained(d) \/ Fork(d)
    BY <2>4, DrainedKeepsDrain, ForkKeepsDrain
  <2>5. CASE Converged(d) \/ Settle(d) \/ HookSucceeds(d) \/ Defect(d)
    BY <2>5, EndOfCommandKeepsDrain
  <2> QED
    BY <1>5, <2>1, <2>2, <2>3, <2>4, <2>5 DEF DriverStep
<1>6. ASSUME NEW d \in Drivers, NEW k \in Nodes, FiberStep(d, k)
      PROVE  DrainInv'
  BY <1>6, FiberStepKeepsDrain
<1> QED
  BY <1>1, <1>2, <1>3, <1>4, <1>5, <1>6 DEF Next

LEMMA DrainHolds ==
  ASSUME NoBackground
  PROVE  Spec => [](RegistryInv /\ DrainInv)
<1>1. Init => RegistryInv /\ DrainInv
  BY InitRegistry, InitDrain, SupervisorAssumption
<1>2. RegistryInv /\ DrainInv /\ [Next]_vars => (RegistryInv /\ DrainInv)'
  BY RegistryStep, DrainStep, SupervisorAssumption
<1> QED
  BY <1>1, <1>2, PTL DEF Spec

(* When no restart is sent without being awaited, a restarted plugin never    *)
(* finds what its predecessor acquired: an entry is replaced only after its   *)
(* scope was closed, whatever commands overlap the initial acquire.           *)
THEOREM ReplacedAfterClose ==
  ASSUME NoBackground
  PROVE  Spec => []ClosedBeforeReset
<1>1. RegistryInv /\ DrainInv => ClosedBeforeReset
  BY DEF DrainInv, ScopeInv, ClosedBeforeReset, InUse
<1> QED
  BY <1>1, DrainHolds, PTL

(* And who awaits the shutdown is released only when no plugin holds what its *)
(* start acquired: the entries that came before were closed before they were  *)
(* replaced, the current ones by the drain of the whole graph, and the ones   *)
(* to come have not been started (shutdown.ts, Bug #13).                      *)
THEOREM ShutdownLeavesNothing ==
  ASSUME NoBackground
  PROVE  Spec => []ShutdownDrains
<1>1. RegistryInv /\ DrainInv => ShutdownDrains
  <2> SUFFICES ASSUME RegistryInv, DrainInv, complete, L.cmd.tag = "shutdown",
                      NEW k \in Nodes, NEW g \in Gens
               PROVE  ~InUse(k, g)
    BY DEF ShutdownDrains, L
  <2>1. L.at = "ended"
    BY DEF RegistryInv, DriverInv, L
  <2>2. Scope(k) = "closed"
    BY <2>1 DEF DrainInv, RestInv
  <2>3. node[k].gen \in Int /\ g \in Int
    BY DEF RegistryInv, Typed, Node, Gens
  <2>4. CASE g < node[k].gen
    BY <2>4 DEF DrainInv, ScopeInv, InUse
  <2>5. CASE g > node[k].gen
    BY <2>5 DEF DrainInv, ScopeInv, InUse
  <2>6. CASE g = node[k].gen
    BY <2>2, <2>6 DEF InUse, Scope
  <2> QED
    BY <2>3, <2>4, <2>5, <2>6
<1> QED
  BY <1>1, DrainHolds, PTL

(* No plugin that a live restore leaves running depends on one that it stops. *)
KeepAliveIsClosed == \A k \in KeepAlive : Up[k] \subseteq KeepAlive

(* A snapshot command restarts what is not kept alive, and its dependents.    *)
KeptInv ==
  /\ L.at = "handler" => L.slice = {}
  /\ L.at \in Busy /\ L.cmd.tag \in {"capture", "restore"} =>
       L.slice = Slice(Nodes \ KeepAlive)

LEMMA KeptOutOfSlice ==
  ASSUME SupervisorAssumption, KeepAliveIsClosed
  PROVE  Slice(Nodes \ KeepAlive) \cap KeepAlive = {}
<1> SUFFICES ASSUME NEW k \in KeepAlive, k \in Slice(Nodes \ KeepAlive)
             PROVE  FALSE
  OBVIOUS
<1> DEFINE S == Nodes \ KeepAlive
<1>1. \A n \in Nodes : Up[n] \cap S # {} => n \in S
  BY DEF KeepAliveIsClosed
<1>2. S \in SUBSET Nodes /\ Nodes \ KeepAlive \subseteq S
  OBVIOUS
<1>3. k \in S
  BY <1>1, <1>2 DEF Slice
<1> QED
  BY <1>3

LEMMA KeptStays ==
  ASSUME KeptInv,
         \/ L' = L
         \/ L'.at \notin Busy \cup {"handler"}
         \/ L.at \in Busy /\ L'.at \in Busy /\ L'.cmd = L.cmd /\ L'.slice = L.slice
  PROVE  KeptInv'
<1>1. "handler" \notin Busy
  BY DEF Busy
<1> QED
  BY <1>1 DEF KeptInv

(* A driver goes on with its command, or leaves it.                           *)
Moves(d) ==
  /\ OnlyDriver(d)
  /\ \/ drv'[d].at \in {"idle", "ended", "dead"}
     \/ /\ drv[d].at \in Busy /\ drv'[d].at \in Busy
        /\ drv'[d].cmd = drv[d].cmd /\ drv'[d].slice = drv[d].slice

(* What a driver does with its command leaves the loop's slice alone.         *)
LEMMA DriverKeepsKept ==
  ASSUME SupervisorAssumption, RegistryInv, KeptInv, NEW d \in Drivers, DriverStep(d)
  PROVE  KeptInv'
<1>1. Typed /\ NodesSound /\ DriverInv
  BY DEF RegistryInv
<1>2. drv[d] \in Driver /\ "loop" \in Drivers
  BY <1>1 DEF Typed, Drivers
<1>3. Moves(d)
  <2>1. ASSUME NEW k \in Nodes, StopNode(d, k)
        PROVE  Moves(d)
    <3>1. Stopped(d, k) /\ drv[d].at = "stop"
      BY <1>1, <2>1, StopNodeDoes DEF StopNode, At
    <3> QED
      BY <3>1 DEF Stopped, Busy, Moves, Proceeds
  <2>2. ASSUME NEW k \in Nodes, Closed(d, k)
        PROVE  Moves(d)
    BY <1>1, <2>2, ClosedDoes DEF Closes, Busy, Moves, Proceeds
  <2>3. ASSUME NEW k \in Nodes, Reset(d, k)
        PROVE  Moves(d)
    BY <1>1, <2>3, ResetDoes DEF Busy, Moves, Proceeds
  <2>4. ASSUME NEW k \in Nodes, Register(d, k)
        PROVE  Moves(d)
    BY <1>1, <2>4, RegisterDoes DEF Busy, Moves, Proceeds
  <2>5. ASSUME Drained(d)
        PROVE  Moves(d)
    <3>1. /\ drv[d].at = "stop" /\ OnlyDriver(d)
          /\ \/ drv'[d].at = "ended"
             \/ drv'[d] = [drv[d] EXCEPT !.at = "reset", !.todo = drv[d].slice]
      BY <1>1, <2>5, DrainedDoes
    <3> QED
      BY <1>2, <3>1 DEF Driver, Busy, Moves
  <2>6. ASSUME Fork(d)
        PROVE  Moves(d)
    BY <1>1, <2>6, ForkDoes DEF Proceeds, Busy, Moves
  <2>7. ASSUME CommandEnds(d), drv[d].at \in Busy
        PROVE  Moves(d)
    <3>1. CASE Turns(d, "settle") \/ Turns(d, "hook")
      BY <1>2, <2>7, <3>1 DEF Turns, Driver, Busy, Moves
    <3>2. CASE Finished(d, TRUE) \/ Finished(d, FALSE)
      BY <1>1, <3>2, FinishedEnds DEF Moves
    <3>3. CASE Dies(d)
      BY <1>1, <3>3, DiesEnds DEF Moves
    <3> QED
      BY <2>7, <3>1, <3>2, <3>3 DEF CommandEnds
  <2>8. ASSUME NEW k \in Nodes \cup {None}, HookFails(d, k)
        PROVE  Moves(d)
    BY <1>1, <2>7, <2>8, HooksDoes DEF Busy, CommandEnds
  <2>9. ASSUME Converged(d) \/ Defect(d) \/ Settle(d) \/ HookSucceeds(d)
        PROVE  Moves(d)
    <3>1. drv[d].at \in {"await", "settle", "hook"}
      BY <1>1, <2>9, ConvergedDoes, DefectDoes, SettleDoes, HooksDoes
    <3> QED
      BY <1>1, <2>7, <2>9, <3>1, CommandEndsSo DEF Busy
  <2> QED
    BY <2>1, <2>2, <2>3, <2>4, <2>5, <2>6, <2>8, <2>9 DEF DriverStep, SupervisorAssumption
<1>4. CASE d = "loop"
  BY <1>3, <1>4, KeptStays DEF L, Busy, Moves
<1>5. CASE d # "loop"
  BY <1>2, <1>3, <1>5, KeptStays DEF L, OnlyDriver, Moves
<1> QED
  BY <1>4, <1>5

LEMMA OthersKeepKept ==
  ASSUME SupervisorAssumption, RegistryInv, KeptInv,
         \/ TakeCommand \/ HandlerStep \/ LoseRace
         \/ (\E c \in Commands : Offer(c)) \/ UNCHANGED vars
         \/ \E d \in Drivers : \E k \in Nodes : FiberStep(d, k)
  PROVE  KeptInv'
<1>1. Typed /\ DriverInv /\ drv \in [Drivers -> Driver]
  BY DEF RegistryInv, Typed
<1>2. CASE L' = L
  BY <1>2, KeptStays
<1>3. ASSUME (\E c \in Commands : Offer(c)) \/ UNCHANGED vars
      PROVE  L' = L
  BY <1>3 DEF Offer, vars, L
<1>4. ASSUME NEW d \in Drivers, NEW k \in Nodes, FiberStep(d, k)
      PROVE  L' = L
  BY <1>4 DEF FiberStep, Begin, UpstreamFailed, Started, StartFailed, StartDied, L
<1>5. ASSUME LoseRace
      PROVE  L' = L
  BY <1>1, <1>5 DEF LoseRace, L, Drivers
<1>6. CASE TakeRestart
  <2>1. PICK c \in Commands :
          /\ c.tag \in {"selective", "restart"}
          /\ drv'["loop"] =
               Drain("loop", c, IF c.tag = "selective" THEN Slice({c.key}) ELSE Nodes, TRUE)
    BY <1>1, <1>6, TakeRestartDoes
  <2>2. L'.at = "stop" /\ L'.cmd = c
    BY <2>1, Blank DEF L, Drain, Driver
  <2> QED
    BY <2>1, <2>2 DEF KeptInv
<1>7. CASE TakeBgRestart
  <2>1. L' = L
    BY <1>1, <1>7 DEF TakeBgRestart, L, Drivers
  <2> QED
    BY <2>1, <1>2
<1>8. CASE TakeSnapshot \/ TakeApply
  <2>1. PICK c \in Commands, at \in {"handler", "settle"} :
          /\ at = "settle" <=> c.tag \notin {"capture", "restore"}
          /\ drv'["loop"] = [Idle EXCEPT !.at = at, !.cmd = c]
    BY <1>1, <1>8, TakeOtherDoes
  <2>2. L'.at = at /\ L'.cmd = c /\ L'.slice = {}
    BY <2>1, Blank DEF L, Driver
  <2>3. L'.at \in Busy => L'.cmd.tag \notin {"capture", "restore"}
    BY <2>1, <2>2 DEF Busy
  <2> QED
    BY <2>2, <2>3 DEF KeptInv
<1>9. CASE TakeShutdown
  <2>1. PICK c \in Commands :
          c.tag = "shutdown" /\ drv'["loop"] = Drain("loop", c, Nodes, TRUE)
    BY <1>1, <1>9, TakeShutdownDoes
  <2>2. L'.at = "stop" /\ L'.cmd = c
    BY <2>1, Blank DEF L, Drain, Driver
  <2> QED
    BY <2>1, <2>2 DEF KeptInv
<1>10. CASE TakeHardKill
  <2>1. PICK c \in Commands : drv'["loop"] = [Idle EXCEPT !.at = "ended", !.cmd = c]
    BY <1>1, <1>10, TakeHardKillDoes
  <2>2. L'.at = "ended"
    BY <2>1, Blank DEF L, Driver
  <2> QED
    BY <2>2, KeptStays DEF Busy
<1>11. ASSUME NEW ok \in BOOLEAN, Handled(ok)
       PROVE  KeptInv'
  <2> DEFINE slice == Slice(Nodes \ KeepAlive)
             s == [L EXCEPT !.at = "settle"]
             r == Drain("loop", L.cmd, slice, ok)
  <2>1. L.at = "handler" /\ ((L' = s /\ slice = {}) \/ L' = r \/ L' = Idle)
    BY <1>1, <1>11, HandledDoes DEF L
  <2>2. L \in Driver /\ L.slice = {}
    BY <1>1, <2>1 DEF L, KeptInv, Drivers
  <2>3. s.at = "settle" /\ s.slice = {}
    BY <2>2 DEF Driver
  <2> HIDE DEF slice
  <2>4. r.at = "stop" /\ r.slice = slice
    BY Blank DEF Drain, Driver
  <2> HIDE DEF s, r
  <2>5. \/ L'.at \in {"settle", "stop"} /\ L'.slice = slice
        \/ L'.at = "idle"
    BY <2>1, <2>3, <2>4, Blank
  <2> QED
    BY <2>5 DEF KeptInv, Busy, slice
<1> QED
  BY <1>2, <1>3, <1>4, <1>5, <1>6, <1>7, <1>8, <1>9, <1>10, <1>11 DEF TakeCommand, HandlerStep

LEMMA KeptHolds == Spec => []KeptInv
<1>1. Init => KeptInv
  <2>1. Init => L = Idle
    BY DEF Init, L, Drivers
  <2> QED
    BY <2>1, Blank, SupervisorAssumption DEF KeptInv, Busy
<1>2. RegistryInv /\ KeptInv /\ [Next]_vars => KeptInv'
  BY OthersKeepKept, DriverKeepsKept, SupervisorAssumption DEF Next
<1> QED
  BY <1>1, <1>2, RegistryHolds, PTL DEF Spec

(* The steps that close a scope are those of a drain.                         *)
LEMMA ScopesStay ==
  ASSUME SupervisorAssumption, RegistryInv, DrainInv, [Next]_vars,
         \A d \in Drivers : \A k \in Nodes : ~StopNode(d, k) /\ ~Closed(d, k)
  PROVE  \A k \in Nodes : node'[k].scope = node[k].scope
<1>1. Typed /\ NodesSound /\ FiberInv /\ DriverInv
  BY DEF RegistryInv
<1>2. CASE UNCHANGED node
  BY <1>2
<1>3. ASSUME UNCHANGED vars \/ (\E c \in Commands : Offer(c)) \/ LoseRace \/ HandlerStep
      PROVE  UNCHANGED node
  BY <1>3 DEF vars, Offer, LoseRace, HandlerStep, Handled
<1>4. CASE TakeCommand
  <2>1. CASE InterruptBg
    BY <2>1, NoInterrupt
  <2>2. CASE ~InterruptBg
    <3>1. UNCHANGED node
      BY <1>4, <2>2 DEF TakeCommand, TakeRestart, TakeBgRestart, TakeSnapshot, TakeApply,
                        TakeShutdown, TakeHardKill
    <3> QED
      BY <1>2, <3>1
  <2> QED
    BY <2>1, <2>2
<1>5. ASSUME NEW d \in Drivers, DriverStep(d)
      PROVE  \A k \in Nodes : node'[k].scope = node[k].scope
  <2>1. ASSUME NEW k \in Nodes, Reset(d, k)
        PROVE  \A j \in Nodes : node'[j].scope = node[j].scope
    <3>1. OnlyNode(k) /\ node'[k].scope = node[k].scope
      BY <1>1, <2>1, ResetDoes
    <3> QED
      BY <3>1 DEF OnlyNode
  <2>2. ASSUME NEW k \in Nodes, Register(d, k)
        PROVE  \A j \in Nodes : node'[j].scope = node[j].scope
    <3>1. OnlyNode(k) /\ node'[k].scope = node[k].scope
      BY <1>1, <2>2, RegisterDoes
    <3> QED
      BY <3>1 DEF OnlyNode
  <2>3. ASSUME NEW k \in Nodes \cup {None}, HookFails(d, k)
        PROVE  \A j \in Nodes : node'[j].scope = node[j].scope
    BY <1>1, <2>3, HookFailsDoes
  <2>4. ASSUME \/ Drained(d) \/ Fork(d) \/ Converged(d) \/ Defect(d)
               \/ Settle(d) \/ HookSucceeds(d)
        PROVE  UNCHANGED node
    BY <2>4 DEF Drained, Fork, Converged, Defect, Settle, HookSucceeds
  <2> QED
    BY <1>2, <1>5, <2>1, <2>2, <2>3, <2>4 DEF DriverStep, SupervisorAssumption
<1>6. ASSUME NEW d \in Drivers, NEW k \in Nodes, FiberStep(d, k)
      PROVE  \A j \in Nodes : node'[j].scope = node[j].scope
  <2>1. OnlyNode(k) /\ node'[k].scope = node[k].scope
    <3>1. CASE Begin(d, k)
      BY <1>1, <3>1, BeginDoes
    <3>2. CASE UpstreamFailed(d, k) \/ Started(d, k) \/ StartFailed(d, k) \/ StartDied(d, k)
      BY <1>1, <3>2, EndsDoes DEF Ends
    <3> QED
      BY <1>6, <3>1, <3>2 DEF FiberStep
  <2> QED
    BY <2>1 DEF OnlyNode
<1> QED
  BY <1>2, <1>3, <1>4, <1>5, <1>6 DEF Next

(* A live restore leaves running what its plugin declared keepAliveOnRestore, *)
(* when such a plugin depends on such plugins only: its scope is never closed *)
(* on behalf of a capture or a restore (plugin.ts:166).                       *)
THEOREM KeepAliveIsKept ==
  ASSUME NoBackground, KeepAliveIsClosed
  PROVE  Spec => KeepAliveStays
<1>1. RegistryInv /\ DrainInv /\ KeptInv /\ [Next]_vars =>
        [Restores => \A k \in KeepAlive : \A g \in Gens :
           node[k].scope[g] = "open" => node'[k].scope[g] = "open"]_vars
  <2> SUFFICES ASSUME RegistryInv, DrainInv, KeptInv, [Next]_vars, Restores,
                      NEW k \in KeepAlive, NEW g \in Gens, node[k].scope[g] = "open"
               PROVE  node'[k].scope[g] = "open"
    OBVIOUS
  <2>1. k \in Nodes /\ SupervisorAssumption
    BY SupervisorAssumption DEF SupervisorAssumption
  <2>2. Typed /\ NodesSound
    BY DEF RegistryInv
  <2>3. ASSUME NEW d \in Drivers, drv[d].at = "stop"
        PROVE  d = "loop" /\ L.at = "stop" /\ L.slice \cap KeepAlive = {}
    <3>1. d = "loop" /\ L.at = "stop"
      BY <2>3, LoopOnly DEF Busy, L
    <3>2. L.slice = Slice(Nodes \ KeepAlive)
      BY <3>1 DEF KeptInv, Restores, L, Busy
    <3> QED
      BY <2>1, <3>1, <3>2, KeptOutOfSlice
  <2>4. ASSUME NEW d \in Drivers, NEW j \in Nodes, StopNode(d, j)
        PROVE  node'[k].scope[g] = "open"
    <3>1. drv[d].at = "stop" /\ j \in drv[d].todo
      BY <2>4 DEF StopNode, At
    <3>2. j # k
      BY <2>3, <3>1 DEF DrainInv, SliceInv, L
    <3>3. OnlyNode(j)
      BY <2>1, <2>2, <2>4, StopNodeDoes DEF Stopped
    <3> QED
      BY <2>1, <3>2, <3>3 DEF OnlyNode
  <2>5. ASSUME NEW d \in Drivers, NEW j \in Nodes, Closed(d, j)
        PROVE  node'[k].scope[g] = "open"
    <3>1. drv[d].at = "stop" /\ drv[d].torn[j] # None
      BY <2>5 DEF Closed, At
    <3>2. j \in L.slice /\ L.slice \cap KeepAlive = {}
      BY <2>3, <3>1 DEF DrainInv, StopInv, L
    <3>3. OnlyNode(j)
      BY <2>1, <2>2, <2>5, ClosedDoes DEF Closes
    <3> QED
      BY <2>1, <3>2, <3>3 DEF OnlyNode
  <2> QED
    BY <2>1, <2>4, <2>5, ScopesStay
<1> QED
  BY <1>1, DrainHolds, KeptHolds, PTL DEF KeepAliveStays, Spec

-----------------------------------------------------------------------------
(* C. Acquire.  What a step that leaves a key alone leaves true of it.        *)
LEMMA OwnKept ==
  ASSUME OwnInv, Alive, NEW k \in Nodes, OnlyNode(k), Owned(k)',
         \A d \in Drivers, j \in Nodes : j # k =>
           fiber'[d][j] = fiber[d][j] \/ fiber'[d][j].at \in {"none", "died"}
  PROVE  OwnInv'
<1> SUFFICES ASSUME NEW j \in Nodes, j # k
             PROVE  Owned(j)'
  BY DEF OwnInv
<1>1. Owned(j) /\ node'[j] = node[j]
  BY DEF OwnInv, OnlyNode
<1>2. ASSUME NEW d \in Drivers, fiber'[d][j] = fiber[d][j]
      PROVE  /\ Live(d, j)' => node'[j].fref = d /\ fiber'[d][j].gen = node'[j].gen
             /\ fiber'[d][j].at = "forked" => node'[j].fref # d
             /\ fiber'[d][j].at = "forked" /\ fiber'[d][j].gen = node'[j].gen => Fresh(j)'
             /\ fiber'[d][j].at = "waiting" => StatusIs(j, "pending")' /\ Ran(j)' = None
             /\ fiber'[d][j].at = "starting" => StatusIs(j, "acquiring")' /\ Ran(j)' # None
  BY <1>1, <1>2 DEF Owned, Fresh, Ran, StatusIs, Live
<1>3. ASSUME NEW d \in Drivers, fiber'[d][j].at \in {"none", "died"}
      PROVE  ~Live(d, j)' /\ fiber'[d][j].at \notin {"forked", "waiting", "starting"}
  BY <1>3 DEF Live
<1> QED
  BY <1>2, <1>3 DEF Owned

LEMMA OwnSame ==
  ASSUME OwnInv, Alive, UNCHANGED node,
         \A d \in Drivers, j \in Nodes :
           fiber'[d][j] = fiber[d][j] \/ fiber'[d][j].at \in {"none", "died"}
  PROVE  OwnInv'
<1> SUFFICES ASSUME NEW k \in Nodes
             PROVE  Owned(k)'
  BY DEF OwnInv
<1>1. Owned(k)
  BY DEF OwnInv
<1>2. ASSUME NEW d \in Drivers
      PROVE  /\ Live(d, k)' => node'[k].fref = d /\ fiber'[d][k].gen = node'[k].gen
             /\ fiber'[d][k].at = "forked" => node'[k].fref # d
             /\ fiber'[d][k].at = "forked" /\ fiber'[d][k].gen = node'[k].gen => Fresh(k)'
             /\ fiber'[d][k].at = "waiting" => StatusIs(k, "pending")' /\ Ran(k)' = None
             /\ fiber'[d][k].at = "starting" => StatusIs(k, "acquiring")' /\ Ran(k)' # None
  <2>1. CASE fiber'[d][k] = fiber[d][k]
    BY <1>1, <2>1 DEF Owned, Fresh, Ran, StatusIs, Live
  <2>2. CASE fiber'[d][k].at \in {"none", "died"}
    BY <2>2 DEF Live
  <2> QED
    BY <2>1, <2>2
<1> QED
  BY <1>2 DEF Owned

LEMMA ReadKept ==
  ASSUME SupervisorAssumption, ReadInv, Alive, NEW k \in Nodes, OnlyNode(k), ReadRight(k)',
         node'[k].gen = node[k].gen, Held(k) => Held(k)',
         \A j \in Nodes : Awaits(j) => Awaits(j)'
  PROVE  ReadInv'
<1> SUFFICES ASSUME NEW j \in Nodes, j # k
             PROVE  ReadRight(j)'
  BY DEF ReadInv
<1>1. ReadRight(j) /\ node'[j] = node[j] /\ Ran(j)' = Ran(j)
  BY DEF ReadInv, OnlyNode, Ran
<1>2. ASSUME NEW u \in Up[j]
      PROVE  node'[u].gen = node[u].gen /\ (Held(u) => Held(u)')
  <2>1. u \in Nodes
    BY Distinct
  <2>2. CASE u = k
    BY <2>2
  <2>3. CASE u # k
    BY <2>1, <2>3 DEF OnlyNode, Held
  <2> QED
    BY <2>2, <2>3
<1> QED
  BY <1>1, <1>2 DEF ReadRight

LEMMA ReadSame ==
  ASSUME SupervisorAssumption, ReadInv, Alive,
         \A k \in Nodes : /\ node'[k].gen = node[k].gen /\ node'[k].ran = node[k].ran
                          /\ node'[k].status = node[k].status /\ node'[k].value = node[k].value
                          /\ Awaits(k) => Awaits(k)'
  PROVE  ReadInv'
<1> SUFFICES ASSUME NEW k \in Nodes
             PROVE  ReadRight(k)'
  BY DEF ReadInv
<1>1. ReadRight(k) /\ Ran(k)' = Ran(k)
  BY DEF ReadInv, Ran
<1>2. ASSUME NEW u \in Up[k]
      PROVE  node'[u].gen = node[u].gen /\ (Held(u) => Held(u)')
  <2>1. u \in Nodes
    BY Distinct
  <2> QED
    BY <2>1 DEF Held
<1> QED
  BY <1>1, <1>2 DEF ReadRight

LEMMA BornFades ==
  ASSUME BornInv,
         \A d \in Drivers, k \in Nodes : fiber'[d][k].gen \in {None, fiber[d][k].gen}
  PROVE  BornInv'
<1> SUFFICES ASSUME NEW k \in Nodes
             PROVE  /\ fiber'["init"][k].gen \in {None, 1}
                    /\ fiber'["loop"][k].gen # None => fiber'["loop"][k].gen > 1
  BY DEF BornInv
<1>1. /\ fiber'["init"][k].gen \in {None, fiber["init"][k].gen}
      /\ fiber'["loop"][k].gen \in {None, fiber["loop"][k].gen}
  BY DEF Drivers
<1>2. /\ fiber["init"][k].gen \in {None, 1}
      /\ fiber["loop"][k].gen # None => fiber["loop"][k].gen > 1
  BY DEF BornInv
<1>3. CASE fiber'["loop"][k].gen = None
  BY <1>1, <1>2, <1>3
<1>4. CASE fiber'["loop"][k].gen = fiber["loop"][k].gen
  BY <1>1, <1>2, <1>4
<1> QED
  BY <1>1, <1>3, <1>4

(* The registration of one driver goes on.                                    *)
LEMMA TodoKept ==
  ASSUME TodoInv,
         \A d \in {"init", "loop"} : drv'[d].at = "register" =>
           /\ drv[d].at = "register"
           /\ \A k \in drv'[d].todo :
                k \in drv[d].todo /\ (fiber[d][k].at = "forked" => fiber'[d][k].at = "forked")
  PROVE  TodoInv'
BY DEF TodoInv

LEMMA NotForking ==
  ASSUME SupervisorAssumption, RegistryInv, DrainInv, FlowInv,
         L.at # "idle" \/ \E d \in Drivers, k \in Nodes : Live(d, k)
  PROVE  drv["init"].at # "fork"
<1> SUFFICES ASSUME drv["init"].at = "fork"
             PROVE  FALSE
  OBVIOUS
<1>1. L.at = "idle" /\ \A k \in Nodes : node[k].gen = 1 /\ fiber["init"][k] = NoFiber
  BY DEF FlowInv, ForkInv
<1>2. PICK d \in Drivers, k \in Nodes : Live(d, k)
  BY <1>1
<1>3. d = "loop"
  BY <1>1, <1>2, Blank, ZenonT(40) DEF DrainInv, BgIdle, Live, Drivers
<1>4. fiber["loop"][k].gen \in Gens /\ fiber["loop"][k].gen <= 1
  <2>1. fiber["loop"][k].gen \in Gens /\ fiber["loop"][k].gen # None
    BY <1>2, <1>3, Distinct DEF RegistryInv, FiberInv, Live
  <2> QED
    BY <1>1, <1>3, <2>1 DEF RegistryInv, FiberInv
<1>5. fiber["loop"][k].gen > 1
  BY <1>4, Distinct DEF FlowInv, BornInv
<1> QED
  BY <1>4, <1>5 DEF Gens

(* A step that changes no entry, ends no acquire, and takes a driver from one *)
(* phase to another.                                                          *)
LEMMA QuietKeepsFlow ==
  ASSUME SupervisorAssumption, RegistryInv, DrainInv, FlowInv, Alive, UNCHANGED node,
         \A d \in Drivers, k \in Nodes :
           \/ fiber'[d][k] = fiber[d][k]
           \/ fiber[d][k].at = "died" /\ fiber'[d][k] = NoFiber,
         drv'["init"] = drv["init"] \/ drv'["init"].at \notin {"fork", "register"},
         L' = L \/ drv'["init"].at # "fork",
         \/ L' = L
         \/ /\ L.at # "reset" /\ L'.at \in {"stop", "reset"} /\ L'.todo = L'.slice
            /\ \A k \in Nodes : \A u \in Up[k] : u \in L'.slice => k \in L'.slice
         \/ L.at # "reset" /\ L'.at \notin {"stop", "reset", "fork", "register", "hook"}
         \/ L.at # "reset" /\ L'.at = "hook" /\ ReadyOrTerminal
  PROVE  FlowInv'
<1>1. OrderInv /\ OwnInv /\ BornInv /\ ForkInv /\ TodoInv /\ LoopInv /\ ReadInv /\ HookInv
  BY DEF FlowInv
<1>2. OrderInv'
  BY <1>1 DEF OrderInv
<1>3. OwnInv'
  BY <1>1, Blank, OwnSame
<1>4. BornInv'
  <2>1. \A d \in Drivers, k \in Nodes : fiber'[d][k].gen \in {None, fiber[d][k].gen}
    BY Blank
  <2> QED
    BY <1>1, <2>1, BornFades
<1>5. ForkInv'
  <2> SUFFICES ASSUME drv'["init"].at = "fork"
               PROVE  /\ L'.at = "idle"
                      /\ \A k \in Nodes : /\ node'[k].gen = 1 /\ Fresh(k)'
                                          /\ fiber'["init"][k] = NoFiber
    BY DEF ForkInv
  <2>1. drv["init"].at = "fork" /\ L' = L
    OBVIOUS
  <2>2. L.at = "idle" /\ \A k \in Nodes : /\ node[k].gen = 1 /\ Fresh(k)
                                          /\ fiber["init"][k] = NoFiber
    BY <1>1, <2>1 DEF ForkInv
  <2>3. \A k \in Nodes : Fresh(k)' /\ fiber'["init"][k] = NoFiber
    BY <2>2, Blank DEF Fresh, StatusIs, Ran, Drivers
  <2> QED
    BY <2>1, <2>2, <2>3
<1>6. TodoInv'
  <2>1. ASSUME NEW d \in {"init", "loop"}, drv'[d].at = "register"
        PROVE  /\ drv[d].at = "register"
               /\ \A k \in drv'[d].todo : k \in drv[d].todo
               /\ \A k \in drv'[d].todo : fiber[d][k].at = "forked" => fiber'[d][k].at = "forked"
    <3>1. drv'[d] = drv[d]
      BY <2>1 DEF L
    <3>2. d \in Drivers /\ drv[d].todo \subseteq Nodes
      BY DEF RegistryInv, Typed, Driver, Drivers
    <3> QED
      BY <2>1, <3>1, <3>2
  <2> QED
    BY <1>1, <2>1, TodoKept
<1>7. LoopInv'
  <2>1. CASE L' = L
    <3>1. L.slice \subseteq Nodes
      BY DEF L, RegistryInv, Typed, Driver, Drivers
    <3>2. \A k \in Nodes : Fresh(k) => Fresh(k)'
      BY DEF Fresh, StatusIs, Ran
    <3> QED
      BY <1>1, <2>1, <3>1, <3>2 DEF LoopInv
  <2>2. CASE L' # L
    BY <2>2 DEF LoopInv
  <2> QED
    BY <2>1, <2>2
<1>8. ReadInv'
  <2>1. \A k \in Nodes : Awaits(k) => Awaits(k)'
    BY DEF Awaits
  <2> QED
    BY <1>1, <2>1, ReadSame
<1>9. HookInv'
  <2>1. ReadyOrTerminal => ReadyOrTerminal'
    BY DEF ReadyOrTerminal
  <2> QED
    BY <1>1, <2>1 DEF HookInv
<1> QED
  BY <1>2, <1>3, <1>4, <1>5, <1>6, <1>7, <1>8, <1>9 DEF FlowInv

LEMMA LoseRaceKeepsFlow ==
  ASSUME SupervisorAssumption, RegistryInv, DrainInv, FlowInv, LoseRace
  PROVE  FlowInv'
<1>1. drv \in [Drivers -> Driver] /\ UNCHANGED <<node, fiber>>
  BY DEF LoseRace, RegistryInv, Typed
<1>2. Alive /\ drv'["init"] = [Idle EXCEPT !.at = "ended"] /\ L' = L
  BY <1>1 DEF LoseRace, L, Drivers, Alive
<1>3. drv'["init"].at = "ended"
  BY <1>2 DEF Idle
<1> QED
  BY <1>1, <1>2, <1>3, QuietKeepsFlow

(* A command that is taken makes the idle loop drain a slice, run a handler or *)
(* go to the end.                                                             *)
LEMMA TakesDo ==
  ASSUME SupervisorAssumption, NoBackground, RegistryInv, DrainInv, TakeCommand
  PROVE  /\ Alive /\ L.at = "idle" /\ UNCHANGED <<node, fiber>>
         /\ drv["init"].at \in {"fork", "register"} => drv["init"].at \in EarlyPhases
         /\ drv'["init"] = drv["init"]
         /\ \/ /\ L'.at = "stop" /\ L'.todo = L'.slice
               /\ \A k \in Nodes : \A u \in Up[k] : u \in L'.slice => k \in L'.slice
            \/ L'.at \in {"handler", "settle", "ended"}
<1>1. Typed /\ NodesSound
  BY DEF RegistryInv
<1>2. PICK c \in Commands : Take(c)
  BY DEF TakeCommand, TakeRestart, TakeBgRestart, TakeSnapshot, TakeApply, TakeShutdown,
         TakeHardKill
<1>3. Alive /\ L.at = "idle" /\ UNCHANGED fiber
  BY <1>2 DEF Take, At, L
<1>4. drv["init"].at \in {"fork", "register"} => drv["init"].at \in EarlyPhases
  BY <1>2 DEF Take
<1>5. UNCHANGED node
  <2>1. CASE InterruptBg
    <3>1. \A k \in Nodes : node'[k] = node[k]
      BY <2>1, NoInterrupt
    <3>2. node' = [k \in Nodes |-> node'[k]] /\ node = [k \in Nodes |-> node[k]]
      BY <1>1, <2>1 DEF InterruptBg, Typed
    <3> QED
      BY <3>1, <3>2
  <2>2. CASE ~InterruptBg
    BY <2>2 DEF TakeCommand, TakeRestart, TakeBgRestart, TakeSnapshot, TakeApply,
                TakeShutdown, TakeHardKill
  <2> QED
    BY <2>1, <2>2
<1>6. drv'["init"] = drv["init"]
  BY <1>1 DEF TakeCommand, TakeRestart, TakeBgRestart, TakeSnapshot, TakeApply,
              TakeShutdown, TakeHardKill, Typed, Drivers
<1>7. \/ /\ L'.at = "stop" /\ L'.todo = L'.slice
         /\ \A k \in Nodes : \A u \in Up[k] : u \in L'.slice => k \in L'.slice
      \/ L'.at \in {"handler", "settle", "ended"}
  <2>1. CASE TakeRestart
    <3>1. PICK x \in Commands :
            drv'["loop"] =
              Drain("loop", x, IF x.tag = "selective" THEN Slice({x.key}) ELSE Nodes, TRUE)
      BY <1>1, <2>1, TakeRestartDoes
    <3> DEFINE s == IF x.tag = "selective" THEN Slice({x.key}) ELSE Nodes
    <3>2. \A k \in Nodes : \A u \in Up[k] : u \in s => k \in s
      BY SliceClosed
    <3>3. L' = Drain("loop", x, s, TRUE)
      BY <3>1 DEF L
    <3> HIDE DEF s
    <3>4. L'.at = "stop" /\ L'.slice = s /\ L'.todo = s
      BY <3>3, Blank DEF Drain, Driver
    <3> QED
      BY <3>2, <3>4
  <2>2. CASE TakeBgRestart
    BY <2>2 DEF TakeBgRestart, NoBackground
  <2>3. CASE TakeSnapshot \/ TakeApply
    <3>1. PICK x \in Commands, at \in {"handler", "settle"} :
            drv'["loop"] = [Idle EXCEPT !.at = at, !.cmd = x]
      BY <1>1, <2>3, TakeOtherDoes
    <3> QED
      BY <3>1, Blank DEF L, Driver
  <2>4. CASE TakeShutdown
    <3>1. PICK x \in Commands : drv'["loop"] = Drain("loop", x, Nodes, TRUE)
      BY <1>1, <2>4, TakeShutdownDoes
    <3>2. L'.at = "stop" /\ L'.slice = Nodes /\ L'.todo = Nodes
      BY <3>1, Blank DEF L, Drain, Driver
    <3> QED
      BY <3>2
  <2>5. CASE TakeHardKill
    <3>1. PICK x \in Commands : drv'["loop"] = [Idle EXCEPT !.at = "ended", !.cmd = x]
      BY <1>1, <2>5, TakeHardKillDoes
    <3> QED
      BY <3>1, Blank DEF L, Driver
  <2> QED
    BY <2>1, <2>2, <2>3, <2>4, <2>5 DEF TakeCommand
<1> QED
  BY <1>3, <1>4, <1>5, <1>6, <1>7

LEMMA TakesKeepFlow ==
  ASSUME SupervisorAssumption, NoBackground, LateCommands,
         RegistryInv, DrainInv, FlowInv, TakeCommand
  PROVE  FlowInv'
BY TakesDo, QuietKeepsFlow DEF LateCommands

LEMMA HandledKeepsFlow ==
  ASSUME SupervisorAssumption, RegistryInv, DrainInv, FlowInv, NEW ok \in BOOLEAN, Handled(ok)
  PROVE  FlowInv'
<1> DEFINE slice == Slice(Nodes \ KeepAlive)
           s == [L EXCEPT !.at = "settle"]
           r == Drain("loop", L.cmd, slice, ok)
<1>1. Typed /\ DriverInv
  BY DEF RegistryInv
<1>2. /\ L.at = "handler" /\ Alive /\ OnlyDriver("loop") /\ UNCHANGED <<node, fiber>>
      /\ L' = s \/ L' = r \/ L' = Idle
  BY <1>1, HandledDoes DEF L
<1>3. s.at = "settle"
  BY <1>1 DEF L, Typed, Driver, Drivers
<1>4. \A k \in Nodes : \A u \in Up[k] : u \in slice => k \in slice
  BY SliceClosed
<1> HIDE DEF slice
<1>5. r.at = "stop" /\ r.slice = slice /\ r.todo = slice
  BY Blank DEF Drain, Driver
<1> HIDE DEF s, r
<1>6. drv["init"].at # "fork" /\ drv'["init"] = drv["init"]
  BY <1>2, NotForking DEF OnlyDriver, Drivers
<1>7. CASE L' = s
  BY <1>2, <1>3, <1>6, <1>7, QuietKeepsFlow
<1>8. CASE L' = r
  BY <1>2, <1>4, <1>5, <1>6, <1>8, QuietKeepsFlow
<1>9. CASE L' = Idle
  BY <1>2, <1>6, <1>9, Blank, QuietKeepsFlow
<1> QED
  BY <1>2, <1>7, <1>8, <1>9

LEMMA DrainedKeepsFlow ==
  ASSUME SupervisorAssumption, RegistryInv, DrainInv, FlowInv, NEW d \in Drivers, Drained(d)
  PROVE  FlowInv'
<1>1. Typed /\ DriverInv
  BY DEF RegistryInv
<1>2. /\ drv[d].at = "stop" /\ OnlyDriver(d) /\ UNCHANGED <<node, fiber>>
      /\ drv'[d].at = "ended" \/ drv'[d] = [drv[d] EXCEPT !.at = "reset", !.todo = drv[d].slice]
  BY <1>1, DrainedDoes
<1>3. d = "loop" /\ Alive
  BY <1>2, LoopOnly DEF Busy, Drained, TornDown, At
<1>4. drv["init"].at # "fork" /\ drv'["init"] = drv["init"]
  BY <1>2, <1>3, NotForking DEF OnlyDriver, Drivers, L
<1>5. CASE L'.at = "ended"
  BY <1>2, <1>3, <1>4, <1>5, QuietKeepsFlow DEF L
<1>6. CASE L' = [L EXCEPT !.at = "reset", !.todo = L.slice]
  <2>1. L'.at = "reset" /\ L'.todo = L.slice /\ L'.slice = L.slice
    BY <1>1, <1>6 DEF L, Typed, Driver, Drivers
  <2>2. \A k \in Nodes : \A u \in Up[k] : u \in L.slice => k \in L.slice
    BY <1>2, <1>3 DEF DrainInv, SliceInv, L
  <2> QED
    BY <1>2, <1>3, <1>4, <2>1, <2>2, QuietKeepsFlow DEF L
<1> QED
  BY <1>2, <1>3, <1>5, <1>6 DEF L

LEMMA EndOfCommandDoes ==
  ASSUME SupervisorAssumption, RegistryInv, DrainInv, NEW d \in Drivers,
         Converged(d) \/ Defect(d) \/ Settle(d) \/ HookSucceeds(d)
  PROVE  /\ Alive /\ d \in {"init", "loop"} /\ UNCHANGED node
         /\ drv[d].at \in {"await", "settle", "hook"} /\ OnlyDriver(d)
         /\ drv'[d].at \in {"idle", "ended", "dead", "settle", "hook"}
         /\ drv'[d].at = "hook" => ReadyOrTerminal
         /\ \A e \in Drivers, k \in Nodes :
              \/ fiber'[e][k] = fiber[e][k]
              \/ fiber[e][k].at = "died" /\ fiber'[e][k] = NoFiber
<1>1. Typed /\ DriverInv
  BY DEF RegistryInv
<1>2. drv[d].at \in {"await", "settle", "hook"} /\ UNCHANGED node
  BY <1>1, ConvergedDoes, DefectDoes, SettleDoes, HooksDoes
<1>3. Alive
  BY DEF Converged, Acquired, Defect, Settle, HookSucceeds, At
<1>4. d \in {"init", "loop"}
  BY <1>2, LoopOnly DEF Busy
<1>5. \A e \in Drivers, k \in Nodes :
        \/ fiber'[e][k] = fiber[e][k]
        \/ fiber[e][k].at = "died" /\ fiber'[e][k] = NoFiber
  <2>1. CASE Defect(d)
    BY <1>1, <2>1, DefectDoes
  <2>2. CASE ~Defect(d)
    BY <1>1, <2>2, ConvergedDoes, SettleDoes, HooksDoes
  <2> QED
    BY <2>1, <2>2
<1>6. drv[d] \in Driver
  BY <1>1 DEF Typed
<1>7. /\ OnlyDriver(d) /\ drv'[d].at \in {"idle", "ended", "dead", "settle", "hook"}
      /\ drv'[d].at = "hook" => ReadyOrTerminal
  <2>1. CASE Settle(d)
    <3>1. CASE ReadyOrTerminal /\ Turns(d, "hook")
      BY <1>6, <3>1 DEF Turns, Driver
    <3>2. ASSUME NEW ok, Finished(d, ok)
          PROVE  OnlyDriver(d) /\ drv'[d].at \in {"idle", "ended"}
      BY <1>1, <3>2, FinishedEnds
    <3> QED
      BY <1>1, <2>1, <3>1, <3>2, SettleDoes
  <2>2. CASE Finished(d, TRUE) \/ Finished(d, FALSE)
    BY <1>1, <2>2, FinishedEnds
  <2>3. CASE Turns(d, "settle")
    BY <1>6, <2>3 DEF Turns, Driver
  <2>4. CASE Dies(d)
    BY <1>1, <2>4, DiesEnds
  <2>5. Settle(d) \/ Finished(d, TRUE) \/ Finished(d, FALSE) \/ Turns(d, "settle") \/ Dies(d)
    BY <1>1, ConvergedDoes, DefectDoes, HooksDoes
  <2> QED
    BY <2>1, <2>2, <2>3, <2>4, <2>5
<1> QED
  BY <1>2, <1>3, <1>4, <1>5, <1>7

LEMMA EndOfCommandKeepsFlow ==
  ASSUME SupervisorAssumption, RegistryInv, DrainInv, FlowInv, NEW d \in Drivers,
         Converged(d) \/ Defect(d) \/ Settle(d) \/ HookSucceeds(d)
  PROVE  FlowInv'
<1>1. /\ Alive /\ d \in {"init", "loop"} /\ UNCHANGED node
      /\ drv[d].at \in {"await", "settle", "hook"} /\ OnlyDriver(d)
      /\ drv'[d].at \in {"idle", "ended", "dead", "settle", "hook"}
      /\ drv'[d].at = "hook" => ReadyOrTerminal
      /\ \A e \in Drivers, k \in Nodes :
           \/ fiber'[e][k] = fiber[e][k]
           \/ fiber[e][k].at = "died" /\ fiber'[e][k] = NoFiber
  BY EndOfCommandDoes
<1>2. CASE d = "init"
  <2>1. L' = L /\ drv'["init"].at \notin {"fork", "register"}
    BY <1>1, <1>2 DEF L, OnlyDriver, Drivers
  <2> QED
    BY <1>1, <2>1, QuietKeepsFlow
<1>3. CASE d = "loop"
  <2>1. L.at \in {"await", "settle", "hook"} /\ drv'["init"] = drv["init"]
    BY <1>1, <1>3 DEF L, OnlyDriver, Drivers
  <2>2. drv["init"].at # "fork"
    BY <2>1, NotForking
  <2>3. L'.at \in {"idle", "ended", "dead", "settle", "hook"} /\ (L'.at = "hook" => ReadyOrTerminal)
    BY <1>1, <1>3 DEF L
  <2> QED
    BY <1>1, <2>1, <2>2, <2>3, QuietKeepsFlow
<1> QED
  BY <1>1, <1>2, <1>3

(* While the loop runs the hook nothing is acquired.                          *)
LEMMA HookAlone ==
  ASSUME SupervisorAssumption, FlowInv, Alive, L.at = "hook", NEW k \in Nodes, NEW d \in Drivers
  PROVE  /\ node[k].status \in {"ready", "done"} /\ ~Live(d, k)
         /\ ~(fiber[d][k].at = "forked" /\ fiber[d][k].gen = node[k].gen)
<1>1. node[k].status \in {"ready", "done"} /\ Owned(k)
  BY DEF FlowInv, HookInv, ReadyOrTerminal, OwnInv
<1> QED
  BY <1>1 DEF Owned, Live, Fresh, StatusIs

LEMMA HookFailsKeepsFlow ==
  ASSUME SupervisorAssumption, RegistryInv, DrainInv, FlowInv,
         NEW d \in Drivers, NEW k \in Nodes \cup {None}, HookFails(d, k)
  PROVE  FlowInv'
<1>1. Typed /\ NodesSound /\ DriverInv
  BY DEF RegistryInv
<1>2. \A j \in Nodes :
        /\ node'[j].gen = node[j].gen /\ node'[j].ran = node[j].ran
        /\ node'[j].fref = node[j].fref /\ node'[j].scope = node[j].scope
        /\ j # k => node'[j] = node[j]
        /\ j = k => node'[j].value = None /\ node'[j].status \in Failing(node[j].status)
  BY <1>1, HookFailsDoes
<1>3. /\ drv[d].at = "hook" /\ UNCHANGED fiber /\ Alive
      /\ IF d = "init" THEN Dies(d) ELSE Finished(d, FALSE)
  BY <1>1, HooksDoes DEF HookFails, At
<1>4. d \in {"init", "loop"}
  BY <1>3, LoopOnly DEF Busy
<1>5. OrderInv /\ OwnInv /\ BornInv /\ ForkInv /\ TodoInv /\ LoopInv /\ ReadInv /\ HookInv
  BY DEF FlowInv
<1>6. \/ d = "init" /\ ~Alive' /\ L' = L
      \/ d = "loop" /\ L.at = "hook" /\ L' = Idle /\ drv'["init"] = drv["init"]
  <2>1. CASE d = "init"
    <3>1. drv'["init"] = [Idle EXCEPT !.at = "dead"] /\ L' = L
      BY <1>3, <2>1 DEF Dies, OnlyDriver, L, Drivers
    <3>2. drv'["init"].at = "dead"
      BY <3>1, IdleAt
    <3> QED
      BY <2>1, <3>1, <3>2 DEF Alive
  <2>2. CASE d = "loop"
    BY <1>3, <2>2 DEF Finished, OnlyDriver, L, Drivers
  <2> QED
    BY <1>4, <2>1, <2>2
<1>7. \A j \in Nodes : node'[j].value \in {None, node[j].value}
                       /\ (node'[j].status \in {"ready", "done"} => node'[j] = node[j])
  BY <1>2 DEF Failing
<1>8. drv'["init"].at # "fork"
  <2>1. CASE d = "init"
    BY <1>6, <2>1 DEF Alive
  <2>2. CASE d = "loop"
    BY <1>6, <2>2, NotForking
  <2> QED
    BY <1>4, <2>1, <2>2
<1>9. ForkInv'
  BY <1>8 DEF ForkInv
<1>10. BornInv'
  BY <1>3, <1>5, BornFades
<1>11. TodoInv'
  <2>1. CASE d = "init"
    <3>1. drv'["init"].at = "dead" /\ drv'["loop"] = drv["loop"]
      BY <1>6, <2>1 DEF Alive, L
    <3> QED
      BY <1>3, <1>5, <3>1 DEF TodoInv
  <2>2. CASE d = "loop"
    <3>1. drv'["loop"].at = "idle" /\ drv'["init"] = drv["init"]
      BY <1>6, <2>2, Blank DEF L
    <3> QED
      BY <1>3, <1>5, <3>1 DEF TodoInv
  <2> QED
    BY <1>4, <2>1, <2>2
<1>12. \A j \in Nodes : Ran(j)' = Ran(j)
  BY <1>2 DEF Ran
<1>13. CASE d = "init"
  <2>1. OrderInv' /\ HookInv'
    BY <1>5, <1>6, <1>13 DEF OrderInv, HookInv
  <2>2. \A j \in Nodes, s \in Statuses : StatusIs(j, s)'
    BY <1>6, <1>13 DEF StatusIs
  <2>3. \A j \in Nodes : Fresh(j) => Fresh(j)'
    BY <1>2, <1>12, <2>2 DEF Fresh, Statuses
  <2>4. OwnInv'
    <3> SUFFICES ASSUME NEW j \in Nodes
                 PROVE  Owned(j)'
      BY DEF OwnInv
    <3>1. Owned(j) /\ StatusIs(j, "pending")' /\ StatusIs(j, "acquiring")'
      BY <1>5, <2>2 DEF OwnInv, Statuses
    <3> QED
      BY <1>2, <1>3, <1>12, <2>3, <3>1 DEF Owned, Live
  <2>5. LoopInv'
    <3>1. L.slice \subseteq Nodes
      BY <1>1 DEF Typed, Driver, Drivers, L
    <3> QED
      BY <1>2, <1>5, <1>6, <1>13, <2>3, <3>1 DEF LoopInv
  <2>6. ReadInv'
    <3> SUFFICES ASSUME NEW j \in Nodes
                 PROVE  ReadRight(j)'
      BY DEF ReadInv
    <3>1. ReadRight(j) /\ (Awaits(j) <=> Awaits(j)')
      BY <1>5, <1>6, <1>13 DEF ReadInv, Awaits
    <3>2. \A u \in Up[j] : node'[u].gen = node[u].gen /\ Held(u)'
      BY <1>2, <1>6, <1>13, Distinct DEF Held
    <3> QED
      BY <1>2, <1>7, <1>12, <3>1, <3>2 DEF ReadRight
  <2> QED
    BY <1>9, <1>10, <1>11, <2>1, <2>4, <2>5, <2>6 DEF FlowInv
<1>14. CASE d = "loop"
  <2>1. L.at = "hook" /\ L' = Idle
    BY <1>6, <1>14
  <2>2. OrderInv' /\ HookInv' /\ LoopInv'
    BY <2>1, Blank DEF OrderInv, HookInv, LoopInv
  <2>3. OwnInv'
    <3> SUFFICES ASSUME NEW j \in Nodes
                 PROVE  Owned(j)'
      BY DEF OwnInv
    <3>1. ASSUME NEW e \in Drivers
          PROVE  /\ ~Live(e, j) /\ ~(fiber[e][j].at = "forked" /\ fiber[e][j].gen = node[j].gen)
                 /\ fiber[e][j].at = "forked" => node[j].fref # e
      BY <1>3, <1>5, <2>1, HookAlone DEF OwnInv, Owned
    <3> QED
      BY <1>2, <1>3, <3>1 DEF Owned, Live
  <2>4. ReadInv'
    <3> SUFFICES ASSUME NEW j \in Nodes
                 PROVE  ReadRight(j)'
      BY DEF ReadInv
    <3>1. ReadRight(j) /\ ~Awaits(j)
      BY <1>5, <2>1 DEF ReadInv, Awaits
    <3>2. ASSUME NEW u \in Up[j]
          PROVE  node'[u].gen = node[u].gen /\ (Held(u) => Held(u)')
      <4>1. u \in Nodes
        BY Distinct
      <4>2. node[u].status \in {"ready", "done"}
        BY <1>3, <2>1, <4>1, HookAlone DEF Drivers
      <4>3. node'[u] = node[u] \/ node'[u].status = "failed"
        BY <1>2, <4>1, <4>2 DEF Failing
      <4> QED
        BY <1>2, <1>3, <4>1, <4>3 DEF Held
    <3> QED
      BY <1>2, <1>7, <1>12, <3>1, <3>2 DEF ReadRight
  <2> QED
    BY <1>9, <1>10, <1>11, <2>2, <2>3, <2>4 DEF FlowInv
<1> QED
  BY <1>4, <1>13, <1>14

LEMMA InterruptFacts ==
  ASSUME SupervisorAssumption, NEW k \in Nodes, node[k] \in Node
  PROVE  /\ \/ /\ InterruptAcquire(k).status = node[k].status
               /\ InterruptAcquire(k).value = node[k].value
            \/ /\ InterruptAcquire(k).status = "failed" /\ InterruptAcquire(k).value = None
               /\ node[k].status \in {"pending", "acquiring"}
         /\ node[k].fref = None => InterruptAcquire(k) = node[k]
<1> DEFINE m == [node[k] EXCEPT !.fref = None]
           f == fiber[node[k].fref][k]
<1>1. m \in Node /\ m.status = node[k].status /\ m.value = node[k].value
  BY DEF Node
<1>2. CASE node[k].fref = None
  BY <1>2 DEF InterruptAcquire
<1>3. CASE node[k].fref # None
  <2>1. InterruptAcquire(k) = FailIfInterrupted(m, f)
    BY <1>3 DEF InterruptAcquire
  <2> HIDE DEF m, f
  <2>2. CASE f.gen = m.gen /\ m.status \in {"pending", "acquiring"}
    <3>1. InterruptAcquire(k) = MarkFailed(m)
      BY <2>1, <2>2 DEF FailIfInterrupted
    <3> QED
      BY <1>1, <1>3, <2>2, <3>1, FailedFacts
  <2>3. CASE ~(f.gen = m.gen /\ m.status \in {"pending", "acquiring"})
    BY <1>1, <1>3, <2>1, <2>3 DEF FailIfInterrupted
  <2> QED
    BY <2>2, <2>3
<1> QED
  BY <1>2, <1>3

(* After the interrupt of the acquire of k nobody acquires its entry.         *)
LEMMA Interrupted ==
  ASSUME SupervisorAssumption, OwnInv, NEW k \in Nodes,
         \A d \in Drivers :
           fiber'[d][k] = IF d = node[k].fref THEN NoFiber ELSE fiber[d][k]
  PROVE  \A d \in Drivers : /\ ~Live(d, k)'
                            /\ fiber'[d][k].at = "forked" =>
                                 fiber'[d][k] = fiber[d][k] /\ fiber[d][k].at = "forked"
<1> SUFFICES ASSUME NEW d \in Drivers
             PROVE  /\ ~Live(d, k)'
                    /\ fiber'[d][k].at = "forked" =>
                         fiber'[d][k] = fiber[d][k] /\ fiber[d][k].at = "forked"
  OBVIOUS
<1>1. CASE d = node[k].fref
  BY <1>1, Blank DEF Live
<1>2. CASE d # node[k].fref
  BY <1>2 DEF OwnInv, Owned, Live
<1> QED
  BY <1>1, <1>2

(* The registration of another driver does not mind the interrupt of k.       *)
LEMMA InterruptKeepsTodo ==
  ASSUME SupervisorAssumption, OwnInv, TodoInv, NEW k \in Nodes, Typed,
         \A d \in Drivers, j \in Nodes :
           fiber'[d][j] = IF d = node[k].fref /\ j = k THEN NoFiber ELSE fiber[d][j],
         drv'["init"] = drv["init"], L'.at # "register"
  PROVE  TodoInv'
<1>1. ASSUME NEW d \in {"init", "loop"}, drv'[d].at = "register"
      PROVE  /\ drv[d].at = "register"
             /\ \A j \in drv'[d].todo :
                  j \in drv[d].todo /\ (fiber[d][j].at = "forked" => fiber'[d][j].at = "forked")
  <2>1. d = "init" /\ drv'[d] = drv[d]
    BY <1>1 DEF L
  <2>2. d \in Drivers /\ drv[d].todo \subseteq Nodes
    BY <2>1 DEF Drivers, Typed, Driver
  <2>3. \A j \in Nodes : fiber[d][j].at = "forked" => fiber'[d][j].at = "forked"
    BY <2>2 DEF OwnInv, Owned
  <2> QED
    BY <1>1, <2>1, <2>2, <2>3
<1> QED
  BY <1>1, TodoKept

LEMMA StopNodeKeepsFlow ==
  ASSUME SupervisorAssumption, RegistryInv, DrainInv, FlowInv,
         NEW d \in Drivers, NEW k \in Nodes, StopNode(d, k)
  PROVE  FlowInv'
<1>1. Typed /\ NodesSound
  BY DEF RegistryInv
<1>2. /\ drv[d].at = "stop" /\ k \in drv[d].todo /\ Alive
      /\ \A j \in drv[d].slice : Level[j] > Level[k] =>
           j \notin drv[d].todo /\ drv[d].torn[j] = None
  BY DEF StopNode, At
<1>3. d = "loop"
  BY <1>2, LoopOnly DEF Busy
<1>4. Stopped(d, k)
  BY <1>1, StopNodeDoes
<1>5. /\ L.at = "stop" /\ k \in L.todo /\ L.todo \subseteq L.slice /\ k \in L.slice
      /\ L'.at = "stop" /\ L'.todo = L.todo \ {k} /\ L'.slice = L.slice
      /\ \A j \in Nodes : j # k => L'.torn[j] = L.torn[j]
      /\ drv'["init"] = drv["init"]
  <2>1. L.at = "stop" /\ k \in L.todo /\ L.todo \subseteq L.slice /\ L.torn \in [Nodes -> Gens \cup {None}]
    BY <1>1, <1>2, <1>3 DEF DrainInv, SliceInv, L, Typed, Driver, Drivers
  <2>2. /\ OnlyDriver(d) /\ L'.slice = L.slice /\ L'.at = "stop" /\ L'.todo = L.todo \ {k}
        /\ L'.torn = [L.torn EXCEPT ![k] =
                        IF node[k].scope[node[k].gen] = "open" THEN node[k].gen ELSE None]
    BY <1>3, <1>4 DEF Stopped, Proceeds, L
  <2> QED
    BY <1>3, <2>1, <2>2 DEF OnlyDriver, Drivers
<1>6. OrderInv /\ OwnInv /\ BornInv /\ TodoInv /\ ReadInv
  BY DEF FlowInv
<1>7. \A j \in Nodes : \A u \in Up[j] : u \in Nodes /\ Level[u] < Level[j] /\ u # j
  <2>1. \A j \in Nodes : \A u \in Up[j] : u \in Nodes /\ Level[u] < Level[j]
    BY DEF SupervisorAssumption
  <2>2. \A j \in Nodes : Level[j] \in Nat
    BY DEF SupervisorAssumption
  <2> QED
    BY <2>1, <2>2
<1>8. OrderInv'
  <2>1. ASSUME NEW j \in Nodes, NEW u \in Up[j], u \in L'.slice \ L'.todo
        PROVE  j \notin L'.todo /\ L'.torn[j] = None
    <3>1. CASE u = k
      <4>1. j \in L.slice /\ Level[j] > Level[k] /\ j # k
        BY <1>5, <1>7, <2>1, <3>1 DEF DrainInv, SliceInv
      <4> QED
        BY <1>2, <1>3, <1>5, <4>1 DEF L
    <3>2. CASE u # k
      <4>1. j \notin L.todo /\ L.torn[j] = None
        BY <1>5, <1>6, <2>1, <3>2 DEF OrderInv
      <4> QED
        BY <1>5, <4>1
    <3> QED
      BY <3>1, <3>2
  <2> QED
    BY <1>5, <2>1 DEF OrderInv
<1>9. /\ OnlyNode(k) /\ node'[k].gen = node[k].gen /\ node'[k].ran = node[k].ran
      /\ node'[k].fref = None /\ Ran(k)' = Ran(k)
  BY <1>4 DEF Stopped, Ran
<1>10. /\ node'[k].value = node[k].value \/ (node'[k].value = None /\ node'[k].status = "failed")
       /\ node[k].status = "failed" => node'[k].status = "failed"
       /\ node'[k].status \in {"ready", "done"} => node'[k].status = node[k].status
       /\ node[k].fref = None /\ node[k].status = "pending" => node'[k].status = "pending"
  <2> DEFINE n == InterruptAcquire(k)
  <2>1. /\ \/ n.status = node[k].status /\ n.value = node[k].value
           \/ /\ n.status = "failed" /\ n.value = None
              /\ node[k].status \in {"pending", "acquiring"}
        /\ node[k].fref = None => n = node[k]
    BY <1>1, InterruptFacts DEF Typed
  <2>2. /\ node'[k].value = n.value
        /\ n.status # "ready" => node'[k].status = n.status
        /\ n.status = "ready" => node'[k].status \in {"stopping", "stopped"}
    BY <1>4 DEF Stopped
  <2> HIDE DEF n
  <2> QED
    BY <2>1, <2>2
<1>11. \A e \in Drivers, j \in Nodes :
         fiber'[e][j] = IF e = node[k].fref /\ j = k THEN NoFiber ELSE fiber[e][j]
  BY <1>4 DEF Stopped
<1>12. Owned(k)'
  <2> SUFFICES ASSUME NEW e \in Drivers
               PROVE  /\ Live(e, k)' => node'[k].fref = e /\ fiber'[e][k].gen = node'[k].gen
                      /\ fiber'[e][k].at = "forked" => node'[k].fref # e
                      /\ fiber'[e][k].at = "forked" /\ fiber'[e][k].gen = node'[k].gen => Fresh(k)'
                      /\ fiber'[e][k].at = "waiting" => StatusIs(k, "pending")' /\ Ran(k)' = None
                      /\ fiber'[e][k].at = "starting" => StatusIs(k, "acquiring")' /\ Ran(k)' # None
    BY DEF Owned
  <2>1. /\ ~Live(e, k)'
        /\ fiber'[e][k].at = "forked" => fiber'[e][k] = fiber[e][k] /\ fiber[e][k].at = "forked"
    BY <1>6, <1>11, Interrupted
  <2>2. fiber[e][k].at = "forked" /\ fiber[e][k].gen = node[k].gen => Fresh(k)
    BY <1>6 DEF OwnInv, Owned
  <2>3. Fresh(k) => Fresh(k)'
    BY <1>2, <1>9, <1>10 DEF Fresh, StatusIs
  <2>4. e # None
    BY Distinct
  <2> QED
    BY <1>9, <2>1, <2>2, <2>3, <2>4 DEF Live
<1>13. OwnInv'
  BY <1>2, <1>6, <1>9, <1>11, <1>12, OwnKept
<1>14. ReadRight(k)'
  <2>1. ReadRight(k) /\ ~Awaits(k)
    BY <1>5, <1>6 DEF ReadInv, Awaits
  <2>2. \A u \in Up[k] : node'[u].gen = node[u].gen /\ (Held(u) => Held(u)')
    BY <1>2, <1>7, <1>9 DEF Held, OnlyNode
  <2> QED
    BY <1>9, <1>10, <2>1, <2>2 DEF ReadRight
<1>15. ReadInv'
  <2>1. Held(k) => Held(k)'
    BY <1>2, <1>9, <1>10 DEF Held
  <2>2. \A j \in Nodes : ~Awaits(j)
    BY <1>5 DEF Awaits
  <2> QED
    BY <1>2, <1>6, <1>9, <1>14, <2>1, <2>2, ReadKept
<1>16. BornInv'
  <2>1. \A e \in Drivers, j \in Nodes : fiber'[e][j] \in {NoFiber, fiber[e][j]}
    BY <1>11
  <2> QED
    BY <1>6, <2>1, Blank, BornFades, ZenonT(40)
<1>17. ForkInv'
  BY <1>5, NotForking DEF ForkInv
<1>18. TodoInv'
  BY <1>1, <1>5, <1>6, <1>11, InterruptKeepsTodo
<1>19. LoopInv' /\ HookInv'
  BY <1>5 DEF LoopInv, HookInv
<1> QED
  BY <1>8, <1>13, <1>15, <1>16, <1>17, <1>18, <1>19 DEF FlowInv

LEMMA ClosedKeepsFlow ==
  ASSUME SupervisorAssumption, RegistryInv, DrainInv, FlowInv,
         NEW d \in Drivers, NEW k \in Nodes, Closed(d, k)
  PROVE  FlowInv'
<1>1. Typed /\ NodesSound
  BY DEF RegistryInv
<1>2. /\ OnlyNode(k) /\ node'[k].gen = node[k].gen /\ node'[k].ran = node[k].ran
      /\ node'[k].fref = node[k].fref /\ node'[k].value = node[k].value
      /\ node'[k].status # node[k].status =>
           node[k].status = "stopping" /\ node'[k].status = "stopped"
      /\ Proceeds(d) /\ drv[d].at = "stop" /\ drv'[d].at = "stop" /\ drv'[d].todo = drv[d].todo
      /\ drv'[d].torn = [drv[d].torn EXCEPT ![k] = None]
      /\ UNCHANGED fiber
  <2>1. Closes(d, k)
    BY <1>1, ClosedDoes
  <2> QED
    BY <2>1 DEF Closes
<1>3. d = "loop" /\ Alive
  BY <1>2, LoopOnly DEF Busy, Closed, At
<1>4. /\ L.at = "stop" /\ L'.at = "stop" /\ L'.todo = L.todo /\ L'.slice = L.slice
      /\ L'.torn = [L.torn EXCEPT ![k] = None] /\ L.torn \in [Nodes -> Gens \cup {None}]
      /\ drv'["init"] = drv["init"]
  <2>1. L \in Driver
    BY <1>1 DEF L, Typed, Drivers
  <2> QED
    BY <1>2, <1>3, <2>1 DEF L, Proceeds, OnlyDriver, Drivers, Driver
<1>5. OrderInv /\ OwnInv /\ BornInv /\ TodoInv /\ ReadInv
  BY DEF FlowInv
<1>6. OrderInv'
  BY <1>4, <1>5 DEF OrderInv
<1>7. Ran(k)' = Ran(k)
  BY <1>2 DEF Ran
<1>8. Owned(k)'
  <2>1. Owned(k)
    BY <1>5 DEF OwnInv
  <2>2. /\ Fresh(k) => Fresh(k)'
        /\ StatusIs(k, "pending") => StatusIs(k, "pending")'
        /\ StatusIs(k, "acquiring") => StatusIs(k, "acquiring")'
    BY <1>2, <1>3, <1>7 DEF Fresh, StatusIs
  <2> QED
    BY <1>2, <1>7, <2>1, <2>2 DEF Owned, Live
<1>9. OwnInv'
  BY <1>2, <1>3, <1>5, <1>8, OwnKept
<1>10. ReadInv'
  <2>1. Held(k) => Held(k)'
    BY <1>2, <1>3 DEF Held
  <2>2. \A j \in Nodes : ~Awaits(j)
    BY <1>4 DEF Awaits
  <2>3. \A u \in Up[k] : node'[u].gen = node[u].gen /\ (Held(u) => Held(u)')
    <3> SUFFICES ASSUME NEW u \in Up[k]
                 PROVE  node'[u].gen = node[u].gen /\ (Held(u) => Held(u)')
      OBVIOUS
    <3>1. u \in Nodes
      BY Distinct
    <3>2. CASE u = k
      BY <1>2, <2>1, <3>2
    <3>3. CASE u # k
      BY <1>2, <1>3, <3>1, <3>3 DEF Held, OnlyNode
    <3> QED
      BY <3>2, <3>3
  <2>4. ReadRight(k)'
    BY <1>2, <1>5, <1>7, <2>2, <2>3 DEF ReadInv, ReadRight
  <2> QED
    BY <1>2, <1>3, <1>5, <2>1, <2>2, <2>4, ReadKept
<1>11. BornInv'
  BY <1>2, <1>5, BornFades
<1>12. ForkInv'
  BY <1>4, NotForking DEF ForkInv
<1>13. TodoInv'
  BY <1>2, <1>4, <1>5 DEF TodoInv, L
<1>14. LoopInv' /\ HookInv'
  BY <1>4 DEF LoopInv, HookInv
<1> QED
  BY <1>6, <1>9, <1>10, <1>11, <1>12, <1>13, <1>14 DEF FlowInv

LEMMA ResetKeepsFlow ==
  ASSUME SupervisorAssumption, RegistryInv, DrainInv, FlowInv,
         NEW d \in Drivers, NEW k \in Nodes, Reset(d, k)
  PROVE  FlowInv'
<1>1. Typed /\ NodesSound
  BY DEF RegistryInv
<1>2. /\ OnlyNode(k) /\ node'[k].gen = node[k].gen + 1 /\ node'[k].gen \in Gens
      /\ node'[k].ran = node[k].ran /\ node'[k].fref = None
      /\ node'[k].status = "pending" /\ node'[k].value = None
      /\ Proceeds(d) /\ drv[d].at = "reset" /\ k \in drv[d].todo
      /\ \A j \in drv[d].todo : Level[j] >= Level[k]
      /\ drv'[d].at = IF drv[d].todo = {k} THEN "fork" ELSE "reset"
      /\ drv'[d].todo = drv[d].todo \ {k}
  BY <1>1, ResetDoes
<1>3. \A e \in Drivers, j \in Nodes :
        fiber'[e][j] = IF e = node[k].fref /\ j = k THEN NoFiber ELSE fiber[e][j]
  BY <1>1, ResetDoes
<1>4. d = "loop" /\ Alive
  BY <1>2, LoopOnly DEF Busy, Reset, At
<1>5. /\ L.at = "reset" /\ k \in L.todo /\ L.todo \subseteq L.slice /\ L.slice \subseteq Nodes
      /\ \A j \in L.todo : Level[j] >= Level[k]
      /\ L'.at = IF L.todo = {k} THEN "fork" ELSE "reset"
      /\ L'.todo = L.todo \ {k} /\ L'.slice = L.slice /\ drv'["init"] = drv["init"]
  <2>1. L \in Driver
    BY <1>1 DEF L, Typed, Drivers
  <2> QED
    BY <1>2, <1>4, <2>1 DEF L, Proceeds, OnlyDriver, Drivers, Driver, DrainInv, SliceInv
<1>6. OrderInv /\ OwnInv /\ BornInv /\ TodoInv /\ LoopInv /\ ReadInv
  BY DEF FlowInv
<1>7. ASSUME NEW j \in Nodes, NEW u \in Up[j], u \in L.todo
      PROVE  j \in L.todo /\ j # k
  <2>1. j \in L.todo
    BY <1>5, <1>6, <1>7 DEF OrderInv
  <2>2. u \in Nodes /\ Level[u] < Level[j] /\ Level[u] \in Nat /\ Level[j] \in Nat
        /\ Level[k] \in Nat /\ Level[u] >= Level[k]
    BY <1>5, <1>7 DEF SupervisorAssumption
  <2> QED
    BY <2>1, <2>2
<1>8. OrderInv'
  BY <1>5, <1>7 DEF OrderInv
<1>9. node[k].gen \in Int /\ node[k].gen >= 1 /\ Ran(k)' = None /\ node'[k].gen > node[k].gen
  <2>1. node[k].gen \in Int /\ node[k].gen >= 1 /\ node'[k].gen > node[k].gen
    BY <1>1, <1>2 DEF Typed, Node, Gens
  <2> QED
    BY <1>2, <2>1 DEF DrainInv, ScopeInv, Ran
<1>10. \A e \in Drivers :
         /\ ~Live(e, k)'
         /\ fiber'[e][k].at = "forked" => fiber'[e][k] = fiber[e][k] /\ fiber[e][k].at = "forked"
  BY <1>3, <1>6, Interrupted
<1>11. ASSUME NEW e \in Drivers, fiber[e][k].at = "forked"
       PROVE  fiber[e][k].gen # node'[k].gen
  <2>1. fiber[e][k].gen \in Gens /\ fiber[e][k].gen # None
    BY <1>11, Distinct DEF RegistryInv, FiberInv
  <2>2. fiber[e][k].gen <= node[k].gen /\ fiber[e][k].gen \in Int
    BY <2>1 DEF RegistryInv, FiberInv, Gens
  <2> QED
    BY <1>9, <2>2
<1>12. Owned(k)'
  <2>1. \A e \in Drivers : e # None
    BY Distinct
  <2> QED
    BY <1>2, <1>10, <1>11, <2>1 DEF Owned, Live
<1>13. OwnInv'
  BY <1>2, <1>3, <1>4, <1>6, <1>12, OwnKept
<1>14. ReadInv'
  <2> SUFFICES ASSUME NEW j \in Nodes
               PROVE  ReadRight(j)'
    BY DEF ReadInv
  <2>1. CASE j = k
    BY <1>2, <1>9, <2>1 DEF ReadRight
  <2>2. CASE j # k /\ j \in L.todo
    <3>1. Awaits(j)'
      BY <1>5, <2>2 DEF Awaits
    <3> QED
      BY <1>2, <1>6, <2>2, <3>1 DEF ReadInv, ReadRight, OnlyNode, Ran
  <2>3. CASE j # k /\ j \notin L.todo
    <3>1. ReadRight(j) /\ ~Awaits(j) /\ node'[j] = node[j] /\ Ran(j)' = Ran(j)
      BY <1>2, <1>6, <2>3 DEF ReadInv, Awaits, OnlyNode, Ran
    <3>2. \A u \in Up[j] : node'[u] = node[u]
      <4>1. \A u \in Up[j] : u \in Nodes /\ u # k
        BY <1>5, <1>7, <2>3, Distinct
      <4> QED
        BY <1>2, <4>1 DEF OnlyNode
    <3> QED
      BY <1>4, <3>1, <3>2 DEF ReadRight, Held
  <2> QED
    BY <2>1, <2>2, <2>3
<1>15. BornInv'
  <2>1. \A e \in Drivers, j \in Nodes : fiber'[e][j] \in {NoFiber, fiber[e][j]}
    BY <1>3
  <2> QED
    BY <1>6, <2>1, Blank, BornFades, ZenonT(40)
<1>16. ForkInv'
  BY <1>5, NotForking DEF ForkInv
<1>17. TodoInv'
  BY <1>1, <1>3, <1>5, <1>6, InterruptKeepsTodo
<1>18. ASSUME NEW j \in L'.slice, L'.at = "fork" \/ (L'.at = "reset" /\ j \notin L'.todo)
       PROVE  node'[j].gen > 1 /\ Fresh(j)'
  <2>1. CASE j = k
    BY <1>2, <1>9, <2>1 DEF Fresh, StatusIs
  <2>2. CASE j # k
    <3>1. j \in L.slice /\ j \in Nodes /\ j \notin L.todo
      BY <1>5, <1>18, <2>2
    <3>2. node[j].gen > 1 /\ Fresh(j) /\ node'[j] = node[j]
      BY <1>2, <1>5, <1>6, <2>2, <3>1 DEF LoopInv, OnlyNode
    <3> QED
      BY <1>4, <3>2 DEF Fresh, StatusIs, Ran
  <2> QED
    BY <2>1, <2>2
<1>19. LoopInv' /\ HookInv'
  BY <1>5, <1>18 DEF LoopInv, HookInv
<1> QED
  BY <1>8, <1>13, <1>14, <1>15, <1>16, <1>17, <1>19 DEF FlowInv

LEMMA ForkKeepsFlow ==
  ASSUME SupervisorAssumption, RegistryInv, DrainInv, FlowInv, NEW d \in Drivers, Fork(d)
  PROVE  FlowInv'
<1>1. Typed
  BY DEF RegistryInv
<1>2. drv[d].at = "fork" /\ UNCHANGED node /\ OnlyDriver(d) /\ Alive
  BY <1>1, ForkDoes DEF Fork, At
<1>3. d \in {"init", "loop"} /\ drv[d].slice \subseteq Nodes
  BY <1>1, <1>2, LoopOnly DEF Busy, Typed, Driver
<1>4. OrderInv /\ OwnInv /\ BornInv /\ ForkInv /\ TodoInv /\ LoopInv /\ ReadInv /\ HookInv
  BY DEF FlowInv
<1>5. CASE drv'[d].at = "ended" /\ d = "init" /\ UNCHANGED fiber
  <2>1. L' = L
    BY <1>2, <1>5 DEF OnlyDriver, L, Drivers
  <2> QED
    BY <1>2, <1>5, <2>1, QuietKeepsFlow
<1>6. CASE /\ Proceeds(d)
           /\ drv'[d].at = "register" /\ drv'[d].todo = drv[d].slice
           /\ \A e \in Drivers, j \in Nodes :
                IF e = d /\ j \in drv[d].slice
                  THEN fiber'[e][j].at = "forked" /\ fiber'[e][j].gen = node[j].gen
                  ELSE fiber'[e][j] = fiber[e][j]
  <2>1. \A k \in drv[d].slice :
          /\ Fresh(k) /\ node[k].gen # None
          /\ d = "init" => node[k].gen = 1
          /\ d = "loop" => node[k].gen > 1
    <3>1. \A k \in Nodes : node[k].gen # None
      BY <1>1, Distinct DEF Typed, Node
    <3>2. CASE d = "init"
      BY <1>2, <1>3, <1>4, <3>1, <3>2 DEF ForkInv
    <3>3. CASE d = "loop"
      BY <1>2, <1>3, <1>4, <3>1, <3>3 DEF LoopInv, L
    <3> QED
      BY <1>3, <3>2, <3>3
  <2>2. OwnInv'
    <3> SUFFICES ASSUME NEW k \in Nodes, NEW e \in Drivers
                 PROVE  /\ Live(e, k)' => node'[k].fref = e /\ fiber'[e][k].gen = node'[k].gen
                        /\ fiber'[e][k].at = "forked" => node'[k].fref # e
                        /\ fiber'[e][k].at = "forked" /\ fiber'[e][k].gen = node'[k].gen =>
                             Fresh(k)'
                        /\ fiber'[e][k].at = "waiting" => StatusIs(k, "pending")' /\ Ran(k)' = None
                        /\ fiber'[e][k].at = "starting" =>
                             StatusIs(k, "acquiring")' /\ Ran(k)' # None
      BY DEF OwnInv, Owned
    <3>1. Owned(k) /\ Ran(k)' = Ran(k) /\ (Fresh(k) => Fresh(k)')
      BY <1>2, <1>4 DEF OwnInv, Ran, Fresh, StatusIs
    <3>2. CASE e = d /\ k \in drv[d].slice
      BY <1>2, <1>6, <2>1, <3>1, <3>2, Distinct DEF Fresh, Live
    <3>3. CASE ~(e = d /\ k \in drv[d].slice)
      <4>1. fiber'[e][k] = fiber[e][k]
        BY <1>6, <3>3
      <4> QED
        BY <1>2, <3>1, <4>1 DEF Owned, Live, StatusIs
    <3> QED
      BY <3>2, <3>3
  <2>3. BornInv'
    <3> SUFFICES ASSUME NEW k \in Nodes
                 PROVE  /\ fiber'["init"][k].gen \in {None, 1}
                        /\ fiber'["loop"][k].gen # None => fiber'["loop"][k].gen > 1
      BY DEF BornInv
    <3>1. /\ fiber["init"][k].gen \in {None, 1}
          /\ fiber["loop"][k].gen # None => fiber["loop"][k].gen > 1
      BY <1>4 DEF BornInv
    <3>2. CASE d = "init"
      BY <1>6, <2>1, <3>1, <3>2 DEF Drivers
    <3>3. CASE d = "loop"
      BY <1>6, <2>1, <3>1, <3>3 DEF Drivers
    <3> QED
      BY <1>3, <3>2, <3>3
  <2>4. TodoInv'
    <3> SUFFICES ASSUME NEW e \in {"init", "loop"}, drv'[e].at = "register",
                        NEW k \in drv'[e].todo
                 PROVE  fiber'[e][k].at = "forked"
      BY DEF TodoInv
    <3>1. CASE e = d
      BY <1>3, <1>6, <3>1
    <3>2. CASE e # d
      <4>1. drv'[e] = drv[e] /\ e \in Drivers /\ drv[e].todo \subseteq Nodes
        BY <1>1, <1>2, <3>2 DEF OnlyDriver, Drivers, Typed, Driver
      <4> QED
        BY <1>4, <1>6, <3>2, <4>1 DEF TodoInv
    <3> QED
      BY <3>1, <3>2
  <2>5. drv'["init"].at # "fork"
    <3>1. CASE d = "init"
      BY <1>6, <3>1
    <3>2. CASE d = "loop"
      BY <1>2, <3>2, NotForking DEF OnlyDriver, Drivers, L
    <3> QED
      BY <1>3, <3>1, <3>2
  <2>6. \/ d = "init" /\ L' = L
        \/ d = "loop" /\ L'.at = "register" /\ L.at = "fork"
    BY <1>2, <1>3, <1>6 DEF L, OnlyDriver, Drivers
  <2>7. OrderInv'
    BY <1>4, <2>6 DEF OrderInv
  <2>8. LoopInv'
    <3>1. L.slice \subseteq Nodes
      BY <1>1 DEF L, Typed, Driver, Drivers
    <3>2. \A k \in Nodes : Fresh(k) => Fresh(k)'
      BY <1>2 DEF Fresh, StatusIs, Ran
    <3> QED
      BY <1>2, <1>4, <2>6, <3>1, <3>2 DEF LoopInv
  <2>9. ReadInv'
    <3>1. \A k \in Nodes : Awaits(k) => Awaits(k)'
      BY <2>6 DEF Awaits
    <3> QED
      BY <1>2, <1>4, <3>1, ReadSame
  <2>10. HookInv'
    <3>1. ReadyOrTerminal => ReadyOrTerminal'
      BY <1>2 DEF ReadyOrTerminal
    <3> QED
      BY <1>2, <1>4, <2>6, <3>1 DEF HookInv
  <2> QED
    BY <2>2, <2>3, <2>4, <2>5, <2>7, <2>8, <2>9, <2>10 DEF FlowInv, ForkInv
<1> QED
  BY <1>1, <1>5, <1>6, ForkDoes

LEMMA RegisterKeepsFlow ==
  ASSUME SupervisorAssumption, RegistryInv, DrainInv, FlowInv,
         NEW d \in Drivers, NEW k \in Nodes, Register(d, k)
  PROVE  FlowInv'
<1>1. Typed /\ NodesSound
  BY DEF RegistryInv
<1>2. /\ drv[d].at = "register" /\ k \in drv[d].todo /\ OnlyNode(k) /\ Proceeds(d)
      /\ node'[k].gen = node[k].gen /\ node'[k].ran = node[k].ran
      /\ node'[k].value = node[k].value /\ node'[k].status = node[k].status
      /\ node'[k].fref = IF fiber[d][k].gen = node[k].gen THEN d ELSE node[k].fref
      /\ drv'[d].at = IF drv[d].todo = {k} THEN "await" ELSE "register"
      /\ drv'[d].todo = drv[d].todo \ {k}
      /\ \A e \in Drivers, j \in Nodes : ~(e = d /\ j = k) => fiber'[e][j] = fiber[e][j]
      /\ IF fiber[d][k].gen = node[k].gen
           THEN fiber'[d][k].at = "waiting" /\ fiber'[d][k].gen = node[k].gen
           ELSE fiber'[d][k] = NoFiber
  BY <1>1, RegisterDoes
<1>3. d \in {"init", "loop"} /\ Alive
  BY <1>2, LoopOnly DEF Busy, Register, At
<1>4. OrderInv /\ OwnInv /\ BornInv /\ ForkInv /\ TodoInv /\ LoopInv /\ ReadInv /\ HookInv
  BY DEF FlowInv
<1>5. Owned(k) /\ fiber[d][k].at = "forked" /\ node[k].gen \in Gens /\ node[k].gen # None
  BY <1>1, <1>2, <1>3, <1>4, Distinct DEF OwnInv, TodoInv, Typed, Node
<1>6. \/ d = "init" /\ L' = L
      \/ d = "loop" /\ L.at = "register" /\ L'.at \in {"register", "await"}
           /\ drv'["init"] = drv["init"]
  BY <1>2, <1>3 DEF Proceeds, OnlyDriver, L, Drivers
<1>7. Ran(k)' = Ran(k)
  BY <1>2 DEF Ran
<1>8. Owned(k)'
  <2> SUFFICES ASSUME NEW e \in Drivers
               PROVE  /\ Live(e, k)' => node'[k].fref = e /\ fiber'[e][k].gen = node'[k].gen
                      /\ fiber'[e][k].at = "forked" => node'[k].fref # e
                      /\ fiber'[e][k].at = "forked" /\ fiber'[e][k].gen = node'[k].gen => Fresh(k)'
                      /\ fiber'[e][k].at = "waiting" => StatusIs(k, "pending")' /\ Ran(k)' = None
                      /\ fiber'[e][k].at = "starting" => StatusIs(k, "acquiring")' /\ Ran(k)' # None
    BY DEF Owned
  <2>1. CASE fiber[d][k].gen = node[k].gen
    <3>1. Fresh(k) /\ node'[k].fref = d
      BY <1>2, <1>5, <2>1 DEF Owned
    <3>2. CASE e = d
      BY <1>2, <1>3, <1>7, <2>1, <3>1, <3>2 DEF Fresh, StatusIs, Live
    <3>3. CASE e # d
      <4>1. fiber'[e][k] = fiber[e][k]
        BY <1>2, <3>3
      <4>2. ~Live(e, k)
        BY <1>5, <3>1, Distinct DEF Owned, Fresh
      <4>3. ~(fiber[e][k].at = "forked" /\ fiber[e][k].gen = node[k].gen)
        <5>1. CASE e = "bg"
          BY <5>1, Blank DEF DrainInv, BgIdle
        <5>2. CASE e # "bg"
          <6>1. /\ fiber["init"][k].gen \in {None, 1}
                /\ fiber["loop"][k].gen # None => fiber["loop"][k].gen > 1
            BY <1>4 DEF BornInv
          <6>2. fiber["init"][k].gen = node[k].gen /\ fiber["loop"][k].gen = node[k].gen => FALSE
            BY <1>5, <6>1 DEF Gens
          <6> QED
            BY <1>3, <2>1, <3>3, <5>2, <6>2 DEF Drivers
        <5> QED
          BY <5>1, <5>2
      <4> QED
        BY <1>2, <3>1, <3>3, <4>1, <4>2, <4>3 DEF Live
    <3> QED
      BY <3>2, <3>3
  <2>2. CASE fiber[d][k].gen # node[k].gen
    <3>1. CASE e = d
      BY <1>2, <2>2, <3>1, Blank DEF Live
    <3>2. CASE e # d
      <4>1. fiber'[e][k] = fiber[e][k] /\ node'[k].fref = node[k].fref
        BY <1>2, <2>2, <3>2
      <4> QED
        BY <1>2, <1>3, <1>5, <1>7, <4>1 DEF Owned, Fresh, StatusIs, Live
    <3> QED
      BY <3>1, <3>2
  <2> QED
    BY <2>1, <2>2
<1>9. OwnInv'
  BY <1>2, <1>3, <1>4, <1>8, OwnKept
<1>10. BornInv'
  <2>1. \A e \in Drivers, j \in Nodes : fiber'[e][j].gen \in {None, fiber[e][j].gen}
    <3> SUFFICES ASSUME NEW e \in Drivers, NEW j \in Nodes
                 PROVE  fiber'[e][j].gen \in {None, fiber[e][j].gen}
      OBVIOUS
    <3>1. CASE ~(e = d /\ j = k)
      <4>1. fiber'[e][j] = fiber[e][j]
        BY <1>2, <3>1
      <4> QED
        BY <4>1
    <3>2. CASE e = d /\ j = k /\ fiber[d][k].gen = node[k].gen
      BY <1>2, <3>2
    <3>3. CASE e = d /\ j = k /\ fiber[d][k].gen # node[k].gen
      <4>1. fiber'[d][k] = NoFiber
        BY <1>2, <3>3
      <4> QED
        BY <3>3, <4>1, Blank
    <3> QED
      BY <3>1, <3>2, <3>3
  <2> QED
    BY <1>4, <2>1, BornFades
<1>11. drv'["init"].at # "fork"
  <2>1. CASE d = "init"
    BY <1>2, <2>1
  <2>2. CASE d = "loop"
    BY <1>6, <2>2, NotForking
  <2> QED
    BY <1>3, <2>1, <2>2
<1>12. TodoInv'
  <2> SUFFICES ASSUME NEW e \in {"init", "loop"}, drv'[e].at = "register", NEW j \in drv'[e].todo
               PROVE  fiber'[e][j].at = "forked"
    BY DEF TodoInv
  <2>1. e \in Drivers /\ drv[e].todo \subseteq Nodes
    BY <1>1 DEF Drivers, Typed, Driver
  <2>2. CASE e = d
    BY <1>2, <1>4, <2>1, <2>2 DEF TodoInv
  <2>3. CASE e # d
    <3>1. drv'[e] = drv[e]
      BY <1>2, <2>1, <2>3 DEF Proceeds, OnlyDriver
    <3> QED
      BY <1>2, <1>4, <2>1, <2>3, <3>1 DEF TodoInv
  <2> QED
    BY <2>2, <2>3
<1>13. OrderInv'
  BY <1>4, <1>6 DEF OrderInv
<1>14. LoopInv'
  <2>1. CASE d = "loop"
    BY <1>6, <2>1 DEF LoopInv
  <2>2. CASE d = "init"
    <3> SUFFICES ASSUME NEW j \in L.slice, node[j].gen > 1, Fresh(j)
                 PROVE  node'[j].gen > 1 /\ Fresh(j)'
      BY <1>4, <1>6, <2>2 DEF LoopInv
    <3>1. j \in Nodes
      BY <1>1 DEF L, Typed, Driver, Drivers
    <3>2. CASE j # k
      BY <1>2, <1>3, <3>1, <3>2 DEF OnlyNode, Fresh, StatusIs, Ran
    <3>3. CASE j = k
      <4>1. fiber["init"][k].gen # node[k].gen
        BY <1>4, <1>5, <3>3 DEF BornInv, Gens
      <4> QED
        BY <1>2, <1>3, <1>7, <2>2, <3>3, <4>1 DEF Fresh, StatusIs
    <3> QED
      BY <3>2, <3>3
  <2> QED
    BY <1>3, <2>1, <2>2
<1>15. \A j \in Nodes : /\ node'[j].gen = node[j].gen /\ node'[j].ran = node[j].ran
                        /\ node'[j].status = node[j].status /\ node'[j].value = node[j].value
  BY <1>2 DEF OnlyNode
<1>16. ReadInv'
  <2>1. \A j \in Nodes : Awaits(j) => Awaits(j)'
    BY <1>6 DEF Awaits
  <2> QED
    BY <1>3, <1>4, <1>15, <2>1, ReadSame
<1>17. HookInv'
  <2>1. ReadyOrTerminal => ReadyOrTerminal'
    BY <1>15 DEF ReadyOrTerminal
  <2> QED
    BY <1>3, <1>4, <1>6, <2>1 DEF HookInv
<1> QED
  BY <1>9, <1>10, <1>11, <1>12, <1>13, <1>14, <1>16, <1>17 DEF FlowInv, ForkInv

(* A step of the fiber that acquires k.                                       *)
LEMMA FiberMoves ==
  ASSUME SupervisorAssumption, RegistryInv, DrainInv, FlowInv, Alive,
         NEW d \in Drivers, NEW k \in Nodes, Live(d, k), UNCHANGED drv, OnlyNode(k),
         node'[k].gen = node[k].gen, Owned(k)', ReadRight(k)', Held(k) => Held(k)',
         \A e \in Drivers, j \in Nodes : ~(e = d /\ j = k) => fiber'[e][j] = fiber[e][j],
         fiber'[d][k].gen \in {None, fiber[d][k].gen}
  PROVE  FlowInv'
<1>1. Typed
  BY DEF RegistryInv
<1>2. OrderInv /\ OwnInv /\ BornInv /\ ForkInv /\ TodoInv /\ LoopInv /\ ReadInv /\ HookInv
  BY DEF FlowInv
<1>3. L' = L /\ drv' = drv
  BY DEF L
<1>4. OwnInv'
  BY <1>2, OwnKept
<1>5. ReadInv'
  <2>1. \A j \in Nodes : Awaits(j) => Awaits(j)'
    BY <1>3 DEF Awaits
  <2> QED
    BY <1>2, <2>1, ReadKept
<1>6. BornInv'
  <2>1. \A e \in Drivers, j \in Nodes : fiber'[e][j].gen \in {None, fiber[e][j].gen}
    OBVIOUS
  <2> QED
    BY <1>2, <2>1, BornFades
<1>7. ForkInv'
  BY <1>3, NotForking DEF ForkInv
<1>8. TodoInv'
  <2> SUFFICES ASSUME NEW e \in {"init", "loop"}, drv[e].at = "register", NEW j \in drv[e].todo
               PROVE  fiber'[e][j].at = "forked"
    BY <1>3 DEF TodoInv
  <2>1. e \in Drivers /\ j \in Nodes /\ fiber[e][j].at = "forked"
    BY <1>1, <1>2 DEF Drivers, Typed, Driver, TodoInv
  <2>2. ~(e = d /\ j = k)
    BY <2>1 DEF Live
  <2> QED
    BY <2>1, <2>2
<1>9. node[k].fref = d /\ d # None /\ node[k].status \notin {"ready", "done"}
  BY <1>2, Distinct DEF OwnInv, Owned, Live, StatusIs
<1>10. LoopInv'
  <2> SUFFICES ASSUME NEW j \in L.slice, node[j].gen > 1, Fresh(j)
               PROVE  node'[j].gen > 1 /\ Fresh(j)'
    BY <1>2, <1>3 DEF LoopInv
  <2>1. j \in Nodes /\ j # k
    BY <1>1, <1>9 DEF L, Typed, Driver, Drivers, Fresh
  <2> QED
    BY <2>1 DEF OnlyNode, Fresh, StatusIs, Ran
<1>11. HookInv'
  <2>1. L.at # "hook"
    BY <1>2, <1>9 DEF HookInv, ReadyOrTerminal
  <2> QED
    BY <1>3, <2>1 DEF HookInv
<1>12. OrderInv'
  BY <1>2, <1>3 DEF OrderInv
<1> QED
  BY <1>4, <1>5, <1>6, <1>7, <1>8, <1>10, <1>11, <1>12 DEF FlowInv

(* No other fiber acquires k, or is about to.                                 *)
LEMMA FiberAlone ==
  ASSUME SupervisorAssumption, OwnInv, NEW d \in Drivers, NEW k \in Nodes, Live(d, k),
         NEW e \in Drivers, e # d
  PROVE  /\ ~Live(e, k) /\ fiber[e][k].at \notin {"waiting", "starting"}
         /\ ~(fiber[e][k].at = "forked" /\ fiber[e][k].gen = node[k].gen)
BY Distinct DEF OwnInv, Owned, Live, Fresh

(* The fiber ends.                                                            *)
LEMMA FiberEnds ==
  ASSUME SupervisorAssumption, RegistryInv, DrainInv, FlowInv, Alive,
         NEW d \in Drivers, NEW k \in Nodes, Live(d, k), UNCHANGED drv, OnlyNode(k),
         node'[k].gen = node[k].gen, node'[k].ran = node[k].ran,
         node'[k].fref \in {None, node[k].fref},
         node'[k].value \in {None, node[k].gen},
         node'[k].status \in {"ready", "done"} => Ran(k) # None,
         Held(k) => node'[k].value = node[k].gen \/ node'[k].status = "failed",
         \A e \in Drivers, j \in Nodes : ~(e = d /\ j = k) => fiber'[e][j] = fiber[e][j],
         fiber'[d][k].at \in {"none", "died"}, fiber'[d][k].gen = None,
         fiber[d][k].gen = node[k].gen /\ node[k].fref = d => node'[k].fref = None
  PROVE  FlowInv'
<1>1. OwnInv /\ ReadInv
  BY DEF FlowInv
<1>2. Owned(k) /\ node[k].fref = d /\ fiber[d][k].gen = node[k].gen /\ node'[k].fref = None
  BY <1>1 DEF OwnInv, Owned
<1>3. Ran(k)' = Ran(k)
  BY DEF Ran
<1>4. Owned(k)'
  <2> SUFFICES ASSUME NEW e \in Drivers
               PROVE  /\ ~Live(e, k)' /\ fiber'[e][k].at \notin {"waiting", "starting"}
                      /\ fiber'[e][k].at = "forked" =>
                           fiber'[e][k].gen # node'[k].gen /\ node'[k].fref # e
    BY DEF Owned
  <2>1. CASE e = d
    BY <2>1 DEF Live
  <2>2. CASE e # d
    <3>1. fiber'[e][k] = fiber[e][k] /\ e # None
      BY <2>2, Distinct
    <3>2. /\ fiber[e][k].at \notin {"waiting", "starting"}
          /\ ~(fiber[e][k].at = "forked" /\ fiber[e][k].gen = node[k].gen)
      BY <1>1, <2>2, FiberAlone
    <3> QED
      BY <1>2, <3>1, <3>2 DEF Live
  <2> QED
    BY <2>1, <2>2
<1>5. Held(k) => Held(k)'
  BY DEF Held
<1>6. ReadRight(k)'
  <2>1. ReadRight(k) /\ (Awaits(k) <=> Awaits(k)')
    BY <1>1 DEF ReadInv, Awaits, L
  <2>2. \A u \in Up[k] : node'[u].gen = node[u].gen /\ (Held(u) => Held(u)')
    <3> SUFFICES ASSUME NEW u \in Up[k]
                 PROVE  node'[u].gen = node[u].gen /\ (Held(u) => Held(u)')
      OBVIOUS
    <3>1. u \in Nodes
      BY Distinct
    <3>2. CASE u = k
      BY <1>5, <3>2
    <3>3. CASE u # k
      BY <3>1, <3>3 DEF Held, OnlyNode
    <3> QED
      BY <3>2, <3>3
  <2> QED
    BY <1>3, <2>1, <2>2 DEF ReadRight
<1> QED
  BY <1>4, <1>5, <1>6, FiberMoves

LEMMA FiberStepKeepsFlow ==
  ASSUME SupervisorAssumption, RegistryInv, DrainInv, FlowInv,
         NEW d \in Drivers, NEW k \in Nodes, FiberStep(d, k)
  PROVE  FlowInv'
<1>1. Typed /\ NodesSound /\ FiberInv
  BY DEF RegistryInv
<1>2. OwnInv /\ ReadInv /\ ReadRight(k) /\ Owned(k)
  BY DEF FlowInv, OwnInv, ReadInv
<1>3. Alive
  BY DEF FiberStep, Begin, UpstreamFailed, Started, StartFailed, StartDied, FiberAt
<1>4. ASSUME NEW value, NEW statuses, NEW at \in {"none", "died"},
             Ends(d, k, value, statuses, at), value \in {None, node[k].gen},
             \A s \in statuses : /\ s \in {"ready", "done"} => Ran(k) # None
                                 /\ Held(k) => value = node[k].gen \/ s = "failed"
      PROVE  FlowInv'
  BY <1>3, <1>4, FiberEnds DEF Ends
<1>5. CASE UpstreamFailed(d, k)
  <2>1. fiber[d][k].at = "waiting" /\ Ends(d, k, None, Failing(node[k].status), "none")
    BY <1>1, <1>5, EndsDoes
  <2>2. node[k].status = "pending"
    BY <1>2, <1>3, <2>1 DEF Owned, StatusIs
  <2> QED
    BY <1>4, <2>1, <2>2 DEF Failing
<1>6. CASE StartFailed(d, k)
  <2>1. fiber[d][k].at = "starting" /\ Ends(d, k, None, Failing(node[k].status), "none")
    BY <1>1, <1>6, EndsDoes
  <2>2. node[k].status = "acquiring"
    BY <1>2, <1>3, <2>1 DEF Owned, StatusIs
  <2> QED
    BY <1>4, <2>1, <2>2 DEF Failing
<1>7. CASE StartDied(d, k)
  <2>1. fiber[d][k].at = "starting" /\ Ends(d, k, node[k].value, {node[k].status}, "died")
    BY <1>1, <1>7, EndsDoes
  <2>2. node[k].status = "acquiring" /\ node[k].value \in {None, node[k].gen}
    BY <1>2, <1>3, <2>1 DEF Owned, StatusIs, ReadRight
  <2>3. Held(k) => node[k].value = node[k].gen \/ node[k].status = "failed"
    BY <1>3 DEF Held
  <2> QED
    BY <1>4, <2>1, <2>2, <2>3
<1>8. CASE Started(d, k)
  <2>1. /\ fiber[d][k].at = "starting"
        /\ Ends(d, k, fiber[d][k].gen, Readying(node[k].status), "none")
    BY <1>1, <1>8, EndsDoes
  <2>2. fiber[d][k].gen = node[k].gen /\ Ran(k) # None
    BY <1>2, <2>1 DEF Owned, Live
  <2> QED
    BY <1>4, <2>1, <2>2
<1>9. CASE Begin(d, k)
  <2>1. /\ fiber[d][k].at = "waiting" /\ UNCHANGED drv /\ OnlyNode(k)
        /\ node'[k].gen = node[k].gen /\ node'[k].value = node[k].value
        /\ node'[k].status = IF node[k].status = "pending" THEN "acquiring" ELSE node[k].status
        /\ \A e \in Drivers, j \in Nodes : ~(e = d /\ j = k) => fiber'[e][j] = fiber[e][j]
    BY <1>1, <1>9, BeginDoes
  <2>2. /\ Live(d, k) /\ node[k].status = "pending" /\ Ran(k) = None
        /\ node[k].fref = d /\ fiber[d][k].gen = node[k].gen /\ node[k].gen # None
    BY <1>1, <1>2, <1>3, <2>1, Distinct DEF Owned, StatusIs, Live, Typed, Node
  <2>3. node'[k].status = "acquiring" /\ node[k].value \in {None, node[k].gen}
        /\ (Held(k) => node[k].value = node[k].gen)
    BY <1>2, <1>3, <2>1, <2>2 DEF ReadRight, Held
  <2>4. CASE /\ node'[k].ran = node[k].ran
             /\ node'[k].fref = IF fiber[d][k].gen = node[k].gen /\ node[k].fref = d
                                  THEN None ELSE node[k].fref
             /\ fiber'[d][k].at = "died" /\ fiber'[d][k].gen = None
    BY <1>3, <2>1, <2>2, <2>3, <2>4, FiberEnds
  <2>5. CASE /\ node'[k].ran[fiber[d][k].gen] # None
             /\ \A u \in Up[k] : /\ node'[k].ran[fiber[d][k].gen][u] = node[u].value
                                 /\ node[u].value # None
             /\ node'[k].fref = node[k].fref
             /\ fiber'[d][k].at = "starting" /\ fiber'[d][k].gen = fiber[d][k].gen
    <3>1. Ran(k)' # None /\ \A u \in Up[k] : Ran(k)'[u] = node[u].value /\ node[u].value # None
      BY <2>1, <2>2, <2>5 DEF Ran
    <3>2. Owned(k)'
      <4> SUFFICES ASSUME NEW e \in Drivers
                   PROVE  /\ Live(e, k)' => node'[k].fref = e /\ fiber'[e][k].gen = node'[k].gen
                          /\ fiber'[e][k].at = "forked" => node'[k].fref # e
                          /\ ~(fiber'[e][k].at = "forked" /\ fiber'[e][k].gen = node'[k].gen)
                          /\ fiber'[e][k].at # "waiting"
                          /\ fiber'[e][k].at = "starting" =>
                               StatusIs(k, "acquiring")' /\ Ran(k)' # None
        BY DEF Owned
      <4>1. CASE e = d
        BY <2>1, <2>2, <2>3, <2>5, <3>1, <4>1 DEF Live, StatusIs
      <4>2. CASE e # d
        <5>1. fiber'[e][k] = fiber[e][k]
          BY <2>1, <4>2
        <5>2. /\ ~Live(e, k) /\ fiber[e][k].at \notin {"waiting", "starting"}
              /\ ~(fiber[e][k].at = "forked" /\ fiber[e][k].gen = node[k].gen)
          BY <1>2, <2>2, <4>2, FiberAlone
        <5> QED
          BY <2>1, <2>2, <2>5, <4>2, <5>1, <5>2 DEF Live
      <4> QED
        BY <4>1, <4>2
    <3>3. Held(k) => Held(k)'
      BY <2>1, <2>3 DEF Held
    <3>4. ReadRight(k)'
      <4>1. ASSUME NEW u \in Up[k]
            PROVE  Ran(k)'[u] = node'[u].gen /\ Held(u)'
        <5>1. u \in Nodes /\ u # k
          <6>1. u \in Nodes /\ Level[u] < Level[k] /\ Level[u] \in Nat
            BY DEF SupervisorAssumption
          <6> QED
            BY <6>1
        <5>2. node'[u] = node[u]
          BY <2>1, <5>1 DEF OnlyNode
        <5>3. node[u].value = node[u].gen
          BY <1>2, <3>1, <5>1 DEF ReadInv, ReadRight
        <5> QED
          BY <3>1, <5>2, <5>3 DEF Held
      <4> QED
        BY <2>1, <2>3, <4>1 DEF ReadRight
    <3> QED
      BY <1>3, <2>1, <2>2, <2>5, <3>2, <3>3, <3>4, FiberMoves
  <2> QED
    BY <1>1, <1>9, <2>4, <2>5, BeginDoes
<1> QED
  BY <1>5, <1>6, <1>7, <1>8, <1>9 DEF FiberStep

LEMMA InitFlow == SupervisorAssumption /\ Init => FlowInv
<1> SUFFICES ASSUME SupervisorAssumption, Init
             PROVE  FlowInv
  OBVIOUS
<1>1. L = Idle /\ drv["bg"] = Idle
  BY DEF Init, Drivers, L
<1>2. drv["init"].at = "fork" /\ L.at = "idle" /\ L.slice = {}
  BY <1>1, Blank DEF Init, Drivers, Idle
<1>3. \A d \in Drivers, k \in Nodes : fiber[d][k] = NoFiber
  BY DEF Init
<1>4. \A k \in Nodes : /\ node[k].status = "pending" /\ node[k].gen = 1
                       /\ node[k].value = None /\ node[k].fref = None
                       /\ \A g \in Gens : node[k].ran[g] = None
  BY DEF Init
<1>5. \A k \in Nodes : Ran(k) = None /\ Fresh(k)
  BY <1>4, Distinct DEF Ran, Fresh, StatusIs
<1>6. \A d \in Drivers, k \in Nodes : fiber[d][k].at = "none" /\ fiber[d][k].gen = None
  BY <1>3, Blank
<1>7. OwnInv
  BY <1>6 DEF OwnInv, Owned, Live
<1>8. BornInv
  BY <1>6 DEF BornInv, Drivers
<1>9. ForkInv
  BY <1>2, <1>3, <1>4, <1>5 DEF ForkInv, Drivers
<1>10. ReadInv
  BY <1>4, <1>5 DEF ReadInv, ReadRight
<1> QED
  BY <1>1, <1>2, <1>7, <1>8, <1>9, <1>10
  DEF FlowInv, OrderInv, TodoInv, LoopInv, HookInv, L

LEMMA FlowSame ==
  ASSUME FlowInv, UNCHANGED <<node, fiber, drv>>
  PROVE  FlowInv'
<1>1. OrderInv /\ OwnInv /\ BornInv /\ ForkInv /\ TodoInv /\ LoopInv /\ ReadInv /\ HookInv
  BY DEF FlowInv
<1>2. OrderInv' /\ BornInv' /\ TodoInv'
  BY <1>1 DEF OrderInv, BornInv, TodoInv, L
<1>3. \A k \in Nodes : Fresh(k) => Fresh(k)'
  BY DEF Fresh, StatusIs, Ran, Alive
<1>4. ForkInv' /\ LoopInv'
  <2>1. L' = L
    BY DEF L
  <2>2. ForkInv'
    <3>1. drv["init"].at = "fork" =>
            /\ L.at = "idle"
            /\ \A k \in Nodes : node[k].gen = 1 /\ Fresh(k) /\ fiber["init"][k] = NoFiber
      BY <1>1 DEF ForkInv
    <3>2. drv'["init"].at = "fork" =>
            /\ L'.at = "idle"
            /\ \A k \in Nodes : node'[k].gen = 1 /\ Fresh(k)' /\ fiber'["init"][k] = NoFiber
      BY <1>3, <2>1, <3>1
    <3> QED
      BY <3>2, Blank DEF ForkInv
  <2>3. LoopInv'
    <3> SUFFICES ASSUME NEW k \in L.slice, L.at = "fork" \/ (L.at = "reset" /\ k \notin L.todo)
                 PROVE  node'[k].gen > 1 /\ Fresh(k)'
      BY <2>1 DEF LoopInv
    <3>1. node[k].gen > 1 /\ Fresh(k)
      BY <1>1 DEF LoopInv
    <3> QED
      BY <3>1 DEF Fresh, StatusIs, Ran, Alive
  <2> QED
    BY <2>2, <2>3
<1>5. OwnInv'
  <2> SUFFICES ASSUME NEW k \in Nodes
               PROVE  Owned(k)'
    BY DEF OwnInv
  <2>1. Owned(k)
    BY <1>1 DEF OwnInv
  <2> QED
    BY <2>1 DEF Owned, Live, Fresh, StatusIs, Ran, Alive
<1>6. ReadInv'
  <2> SUFFICES ASSUME NEW k \in Nodes
               PROVE  ReadRight(k)'
    BY DEF ReadInv
  <2>1. ReadRight(k)
    BY <1>1 DEF ReadInv
  <2> QED
    BY <2>1 DEF ReadRight, Awaits, Held, Ran, L, Alive
<1>7. HookInv'
  BY <1>1 DEF HookInv, Alive, L, ReadyOrTerminal
<1> QED
  BY <1>2, <1>4, <1>5, <1>6, <1>7 DEF FlowInv

LEMMA FlowStep ==
  NoBackground /\ LateCommands /\ SupervisorAssumption
    /\ RegistryInv /\ DrainInv /\ FlowInv /\ [Next]_vars => FlowInv'
<1> SUFFICES ASSUME NoBackground, LateCommands, SupervisorAssumption,
                    RegistryInv, DrainInv, FlowInv, [Next]_vars
             PROVE  FlowInv'
  OBVIOUS
<1>1. CASE (\E c \in Commands : Offer(c)) \/ UNCHANGED vars
  <2>1. UNCHANGED <<node, fiber, drv>>
    BY <1>1 DEF Offer, vars
  <2> QED
    BY <2>1, FlowSame
<1>2. CASE TakeCommand
  BY <1>2, TakesKeepFlow
<1>3. CASE HandlerStep
  BY <1>3, HandledKeepsFlow DEF HandlerStep
<1>4. CASE LoseRace
  BY <1>4, LoseRaceKeepsFlow
<1>5. ASSUME NEW d \in Drivers, DriverStep(d)
      PROVE  FlowInv'
  <2>1. CASE \E k \in Nodes : StopNode(d, k) \/ Closed(d, k)
    BY <2>1, StopNodeKeepsFlow, ClosedKeepsFlow
  <2>2. CASE \E k \in Nodes : Reset(d, k) \/ Register(d, k)
    BY <2>2, ResetKeepsFlow, RegisterKeepsFlow
  <2>3. CASE \E k \in MayFailLate : HookFails(d, k)
    <3>1. PICK k \in Nodes \cup {None} : HookFails(d, k)
      BY <2>3 DEF SupervisorAssumption
    <3> QED
      BY <3>1, HookFailsKeepsFlow
  <2>4. CASE Drained(d) \/ Fork(d)
    BY <2>4, DrainedKeepsFlow, ForkKeepsFlow
  <2>5. CASE Converged(d) \/ Settle(d) \/ HookSucceeds(d) \/ Defect(d)
    BY <2>5, EndOfCommandKeepsFlow
  <2> QED
    BY <1>5, <2>1, <2>2, <2>3, <2>4, <2>5 DEF DriverStep
<1>6. ASSUME NEW d \in Drivers, NEW k \in Nodes, FiberStep(d, k)
      PROVE  FlowInv'
  BY <1>6, FiberStepKeepsFlow
<1> QED
  BY <1>1, <1>2, <1>3, <1>4, <1>5, <1>6 DEF Next

LEMMA FlowHolds ==
  ASSUME NoBackground, LateCommands
  PROVE  Spec => [](RegistryInv /\ DrainInv /\ FlowInv)
<1>1. Init => RegistryInv /\ DrainInv /\ FlowInv
  BY InitRegistry, InitDrain, InitFlow, SupervisorAssumption
<1>2. RegistryInv /\ DrainInv /\ FlowInv /\ [Next]_vars => (RegistryInv /\ DrainInv /\ FlowInv)'
  BY RegistryStep, DrainStep, FlowStep, SupervisorAssumption
<1> QED
  BY <1>1, <1>2, PTL DEF Spec

-----------------------------------------------------------------------------
(* What acquire promises.                                                     *)
LEMMA StartsStay ==
  ASSUME SupervisorAssumption, RegistryInv, DrainInv, [Next]_vars, NEW k \in Nodes,
         \A d \in Drivers : ~Begin(d, k)
  PROVE  node'[k].ran = node[k].ran
<1>1. Typed /\ NodesSound /\ FiberInv /\ DriverInv
  BY DEF RegistryInv
<1>2. CASE UNCHANGED node
  BY <1>2
<1>3. ASSUME UNCHANGED vars \/ (\E c \in Commands : Offer(c)) \/ LoseRace \/ HandlerStep
      PROVE  UNCHANGED node
  BY <1>3 DEF vars, Offer, LoseRace, HandlerStep, Handled
<1>4. CASE TakeCommand
  <2>1. CASE InterruptBg
    BY <2>1, NoInterrupt
  <2>2. CASE ~InterruptBg
    <3>1. UNCHANGED node
      BY <1>4, <2>2 DEF TakeCommand, TakeRestart, TakeBgRestart, TakeSnapshot, TakeApply,
                        TakeShutdown, TakeHardKill
    <3> QED
      BY <1>2, <3>1
  <2> QED
    BY <2>1, <2>2
<1>5. ASSUME NEW d \in Drivers, DriverStep(d)
      PROVE  node'[k].ran = node[k].ran
  <2>1. ASSUME NEW j \in Nodes, OnlyNode(j), node'[j].ran = node[j].ran
        PROVE  node'[k].ran = node[k].ran
    BY <2>1 DEF OnlyNode
  <2>2. ASSUME NEW j \in Nodes, StopNode(d, j)
        PROVE  node'[k].ran = node[k].ran
    BY <1>1, <2>1, <2>2, StopNodeDoes, ZenonT(40) DEF Stopped
  <2>3. ASSUME NEW j \in Nodes, Closed(d, j)
        PROVE  node'[k].ran = node[k].ran
    BY <1>1, <2>1, <2>3, ClosedDoes DEF Closes
  <2>4. ASSUME NEW j \in Nodes, Reset(d, j)
        PROVE  node'[k].ran = node[k].ran
    BY <1>1, <2>1, <2>4, ResetDoes
  <2>5. ASSUME NEW j \in Nodes, Register(d, j)
        PROVE  node'[k].ran = node[k].ran
    BY <1>1, <2>1, <2>5, RegisterDoes
  <2>6. ASSUME NEW j \in Nodes \cup {None}, HookFails(d, j)
        PROVE  node'[k].ran = node[k].ran
    BY <1>1, <2>6, HookFailsDoes
  <2>7. ASSUME \/ Drained(d) \/ Fork(d) \/ Converged(d) \/ Defect(d)
               \/ Settle(d) \/ HookSucceeds(d)
        PROVE  UNCHANGED node
    BY <2>7 DEF Drained, Fork, Converged, Defect, Settle, HookSucceeds
  <2> QED
    BY <1>2, <1>5, <2>2, <2>3, <2>4, <2>5, <2>6, <2>7 DEF DriverStep, SupervisorAssumption
<1>6. ASSUME NEW d \in Drivers, NEW j \in Nodes, FiberStep(d, j)
      PROVE  node'[k].ran = node[k].ran
  <2>1. CASE Begin(d, j)
    <3>1. j # k /\ OnlyNode(j)
      BY <1>1, <2>1, BeginDoes
    <3> QED
      BY <3>1 DEF OnlyNode
  <2>2. CASE UpstreamFailed(d, j) \/ Started(d, j) \/ StartFailed(d, j) \/ StartDied(d, j)
    <3>1. OnlyNode(j) /\ node'[j].ran = node[j].ran
      BY <1>1, <2>2, EndsDoes DEF Ends
    <3> QED
      BY <3>1 DEF OnlyNode
  <2> QED
    BY <1>6, <2>1, <2>2 DEF FiberStep
<1> QED
  BY <1>2, <1>3, <1>4, <1>5, <1>6 DEF Next

(* No entry is started twice: a restart that overlaps the acquire interrupts  *)
(* it first, and a fiber whose entry was replaced meanwhile does not go on    *)
(* (the double acquire of acquire-node.ts:347).                               *)
THEOREM EachEntryStartsOnce ==
  ASSUME NoBackground, LateCommands
  PROVE  Spec => OneStartPerEntry
<1>1. RegistryInv /\ DrainInv /\ FlowInv /\ [Next]_vars =>
        [\A k \in Nodes : \A g \in Gens :
           node[k].ran[g] # None => node'[k].ran[g] = node[k].ran[g]
                                 /\ \A d \in Drivers : fiber[d][k].at = "waiting"
                                      /\ fiber[d][k].gen = g => fiber'[d][k].at # "starting"]_vars
  <2> SUFFICES ASSUME RegistryInv, DrainInv, FlowInv, [Next]_vars,
                      NEW k \in Nodes, NEW g \in Gens, node[k].ran[g] # None
               PROVE  /\ node'[k].ran[g] = node[k].ran[g]
                      /\ \A d \in Drivers : ~(fiber[d][k].at = "waiting" /\ fiber[d][k].gen = g)
    OBVIOUS
  <2>1. ASSUME NEW d \in Drivers, fiber[d][k].at = "waiting"
        PROVE  fiber[d][k].gen # g
    <3>1. fiber[d][k].gen = node[k].gen /\ Ran(k) = None
      BY <2>1 DEF FlowInv, OwnInv, Owned, Live
    <3> QED
      BY <3>1 DEF Ran
  <2>2. ASSUME NEW d \in Drivers, Begin(d, k)
        PROVE  node'[k].ran[g] = node[k].ran[g]
    <3>1. Typed /\ NodesSound /\ FiberInv
      BY DEF RegistryInv
    <3>2. fiber[d][k].at = "waiting"
      BY <2>2 DEF Begin, FiberAt
    <3>3. fiber[d][k].gen # g
      BY <2>1, <3>2
    <3> QED
      BY <2>2, <3>1, <3>3, BeginDoes, SupervisorAssumption
  <2>3. ASSUME \A d \in Drivers : ~Begin(d, k)
        PROVE  node'[k].ran[g] = node[k].ran[g]
    BY <2>3, StartsStay, SupervisorAssumption
  <2> QED
    BY <2>1, <2>2, <2>3
<1> QED
  BY <1>1, FlowHolds, PTL DEF OneStartPerEntry, Spec

(* What a plugin was started with stays acquired as long as the plugin does.  *)
(* The start of an entry has read the entries its upstreams have now, and a   *)
(* drain closes, as a reset replaces, no upstream of a plugin whose turn has  *)
(* not come.                                                                  *)
THEOREM TeardownSparesUpstreams ==
  ASSUME NoBackground, LateCommands
  PROVE  Spec => []UpstreamsOutlive
<1>1. RegistryInv /\ DrainInv /\ FlowInv => UpstreamsOutlive
  <2> SUFFICES ASSUME RegistryInv, DrainInv, FlowInv,
                      NEW k \in Nodes, NEW g \in Gens, InUse(k, g), NEW u \in Up[k]
               PROVE  node[u].scope[node[k].ran[g][u]] = "open"
    BY DEF UpstreamsOutlive
  <2>1. u \in Nodes
    BY SupervisorAssumption DEF SupervisorAssumption
  <2>2. node[k].gen \in Int /\ g \in Int
    BY DEF RegistryInv, Typed, Node, Gens
  <2>3. g = node[k].gen
    BY <2>2 DEF DrainInv, ScopeInv, InUse
  <2>4. Scope(k) # "closed" /\ Ran(k) # None
    BY <2>3 DEF InUse, Scope, Ran
  <2>5. Ran(k)[u] = node[u].gen
    <3>1. ~Awaits(k)
      BY <2>4 DEF DrainInv, ResetInv, Awaits
    <3> QED
      BY <2>4, <3>1 DEF FlowInv, ReadInv, ReadRight
  <2>6. Scope(u) = "open"
    <3>1. CASE L.at = "stop"
      <4>1. k \in L.todo \/ k \notin L.slice \/ L.torn[k] # None
        BY <2>4, <3>1 DEF DrainInv, StopInv
      <4>2. u \notin L.slice \ L.todo
        BY <2>1, <3>1, <4>1 DEF FlowInv, OrderInv, DrainInv, SliceInv
      <4> QED
        BY <2>1, <3>1, <4>2 DEF DrainInv, StopInv
    <3>2. CASE L.at = "reset"
      <4>1. k \notin L.todo
        BY <2>4, <3>2 DEF DrainInv, ResetInv
      <4>2. u \notin L.todo
        BY <3>2, <4>1 DEF FlowInv, OrderInv
      <4> QED
        BY <2>1, <3>2, <4>2 DEF DrainInv, ResetInv
    <3>3. CASE L.at = "ended"
      BY <2>1, <2>4, <3>3 DEF DrainInv, RestInv
    <3>4. CASE L.at \notin {"stop", "reset", "ended"}
      BY <2>1, <3>4 DEF DrainInv, RestInv
    <3> QED
      BY <3>1, <3>2, <3>3, <3>4
  <2> QED
    BY <2>3, <2>5, <2>6 DEF Scope, Ran
<1> QED
  BY <1>1, FlowHolds, PTL

(* When nothing moves, a ready plugin was started by its current entry, with  *)
(* the values its dependencies have now, unless they failed since: no command *)
(* that overlapped another left it on values that are gone.                   *)
THEOREM RestIsFresh ==
  ASSUME NoBackground, LateCommands
  PROVE  Spec => []FreshAtRest
<1>1. RegistryInv /\ DrainInv /\ FlowInv => FreshAtRest
  <2> SUFFICES ASSUME RegistryInv, DrainInv, FlowInv, AtRest,
                      NEW k \in Nodes, node[k].status \in {"ready", "done"}
               PROVE  /\ node[k].value = node[k].gen
                      /\ \A u \in Up[k] : node[u].value = node[k].ran[node[k].gen][u]
                                          \/ node[u].status = "failed"
    BY DEF FreshAtRest
  <2>1. Alive /\ L.at # "reset"
    BY DEF AtRest, Alive, L, Drivers
  <2>2. ReadRight(k) /\ ~Awaits(k)
    BY <2>1 DEF FlowInv, ReadInv, Awaits
  <2>3. node[k].value = node[k].gen
    <3>1. node[k].value # None
      BY DEF RegistryInv, NodesSound, NodeSound
    <3> QED
      BY <2>2, <3>1 DEF ReadRight
  <2>4. ASSUME NEW u \in Up[k]
        PROVE  node[u].value = Ran(k)[u] \/ node[u].status = "failed"
    BY <2>1, <2>2 DEF ReadRight, Held
  <2> QED
    BY <2>3, <2>4 DEF Ran
<1> QED
  BY <1>1, FlowHolds, PTL

(* Some plugin is stopped and started again by a snapshot command.            *)
SomeRestarts == KeepAlive # Nodes

(* An ok answer to a capture or a restore is one of the post-acquire hook.    *)
LEMMA AnswersAreHonest ==
  ASSUME SupervisorAssumption, SomeRestarts, RegistryInv, DrainInv, FlowInv, KeptInv, [Next]_vars,
         answered' # answered, reply'.ok, reply'.cmd.tag \in {"capture", "restore"}
  PROVE  ReadyOrTerminal
<1>1. Typed /\ DriverInv
  BY DEF RegistryInv
<1>2. ASSUME NEW c, NEW ok, Answers(c, ok)
      PROVE  ok /\ c.tag \in {"capture", "restore"}
  BY <1>2 DEF Answers
<1>3. ASSUME NEW d \in Drivers, NEW ok, Finished(d, ok)
      PROVE  d = "loop" /\ ok /\ L.cmd.tag \in {"capture", "restore"}
  <2>1. d = "loop" /\ Answers(L.cmd, ok)
    BY <1>3 DEF Finished, L
  <2> QED
    BY <1>2, <2>1
<1>4. CASE UNCHANGED <<answered, reply>>
  BY <1>4
<1>5. CASE TakeCommand
  <2>1. TakeHardKill
    BY <1>4, <1>5 DEF TakeCommand, TakeRestart, TakeBgRestart, TakeSnapshot, TakeApply, TakeShutdown
  <2>2. PICK c \in Commands : c.tag = "hardkill" /\ Complete(c, TRUE)
    BY <2>1 DEF TakeHardKill
  <2>3. Answers(c, TRUE)
    BY <1>1, <2>2, AnswersTyped
  <2> QED
    BY <1>2, <2>2, <2>3
<1>6. ASSUME NEW ok \in BOOLEAN, Handled(ok)
      PROVE  FALSE
  <2>1. Answers(L.cmd, FALSE)
    BY <1>1, <1>4, <1>6, HandledDoes DEF L
  <2> QED
    BY <1>2, <2>1
<1>7. ASSUME NEW d \in Drivers, NEW k \in Nodes, FiberStep(d, k)
      PROVE  UNCHANGED <<answered, reply>>
  BY <1>7 DEF FiberStep, Begin, UpstreamFailed, Started, StartFailed, StartDied
<1>8. ASSUME NEW d \in Drivers, DriverStep(d)
      PROVE  ReadyOrTerminal
  <2>1. CASE Drained(d)
    <3>1. drv[d].cmd.tag = "shutdown" /\ Answers(drv[d].cmd, TRUE)
      BY <1>1, <2>1, DrainedDoes
    <3> QED
      BY <1>2, <3>1
  <2>2. CASE Settle(d)
    <3>1. PICK ok \in BOOLEAN :
            /\ Finished(d, ok)
            /\ ok => d = "loop" /\ (drv[d].slice = {}
                                    \/ drv[d].cmd.tag \notin {"capture", "restore"})
      BY <1>1, <2>2, SettleDoes DEF Turns
    <3>2. L.at = "settle" /\ L.slice = {} /\ L.cmd.tag \in {"capture", "restore"}
      BY <1>1, <1>3, <2>2, <3>1, SettleDoes DEF L
    <3>3. Slice(Nodes \ KeepAlive) = {}
      BY <3>2 DEF KeptInv, Busy
    <3>4. Nodes \ KeepAlive = {}
      BY <3>3, SliceHoldsRoots
    <3> QED
      BY <3>4 DEF SomeRestarts, SupervisorAssumption
  <2>3. CASE HookSucceeds(d)
    <3>1. drv[d].at = "hook" /\ Finished(d, TRUE) /\ Alive
      BY <1>1, <2>3, HooksDoes DEF HookSucceeds, At
    <3>2. L.at = "hook"
      BY <1>3, <3>1 DEF L
    <3> QED
      BY <3>1, <3>2 DEF FlowInv, HookInv
  <2>4. CASE Finished(d, FALSE) \/ Dies(d) \/ Turns(d, "settle")
    <3>1. ~Finished(d, FALSE)
      BY <1>3
    <3> QED
      BY <2>4, <3>1 DEF Dies, Turns
  <2>5. CASE Converged(d) \/ Defect(d)
    BY <1>1, <2>4, <2>5, ConvergedDoes, DefectDoes
  <2>6. ASSUME NEW k \in Nodes \cup {None}, HookFails(d, k)
        PROVE  ReadyOrTerminal
    BY <1>1, <2>4, <2>6, HooksDoes
  <2>7. CASE Fork(d) \/ \E k \in Nodes : StopNode(d, k) \/ Closed(d, k)
                                          \/ Reset(d, k) \/ Register(d, k)
    BY <2>7 DEF Fork, StopNode, Closed, Reset, Register
  <2> QED
    BY <1>8, <2>1, <2>2, <2>3, <2>5, <2>6, <2>7 DEF DriverStep, SupervisorAssumption
<1>9. CASE LoseRace \/ (\E c \in Commands : Offer(c)) \/ UNCHANGED vars
  BY <1>9 DEF LoseRace, Offer, vars
<1> QED
  BY <1>4, <1>5, <1>6, <1>7, <1>8, <1>9 DEF Next, HandlerStep

(* A completion that reports success for a capture or a restore means that    *)
(* every row was ready: the hook runs when all are, and no acquire is under   *)
(* way while it runs (command-loop.ts:285).                                   *)
THEOREM SuccessMeansReady ==
  ASSUME NoBackground, LateCommands, SomeRestarts
  PROVE  Spec => HonestReply
<1>1. RegistryInv /\ DrainInv /\ FlowInv /\ KeptInv /\ [Next]_vars =>
        [answered' # answered /\ reply'.ok /\ reply'.cmd.tag \in {"capture", "restore"}
           => ReadyOrTerminal]_vars
  BY AnswersAreHonest, SupervisorAssumption
<1> QED
  BY <1>1, FlowHolds, KeptHolds, PTL DEF HonestReply, Spec

-----------------------------------------------------------------------------
(* D. What a start reads.                                                     *)
(* No acquire is added, and those under way have seen what they had.          *)
Fades == \A d \in Drivers, k \in Nodes :
  /\ Live(d, k)' => Live(d, k)
  /\ fiber'[d][k].at = "waiting" =>
       fiber[d][k].at = "waiting" /\ fiber'[d][k].seen = fiber[d][k].seen
  /\ fiber'[d][k].at = "died" => fiber[d][k].at = "died" \/ k \in MayDie

LEMMA CalmKept ==
  ASSUME SupervisorAssumption, CalmInv, Fades, EarlyInv', StillInv',
         \A k \in Nodes : node'[k].gen = node[k].gen /\ Calm(node'[k])
  PROVE  CalmInv'
<1>1. SeenInv'
  <2> SUFFICES ASSUME NEW d \in Drivers, NEW k \in Nodes, fiber'[d][k].at = "waiting",
                      NEW u \in Up[k]
               PROVE  fiber'[d][k].seen[u] = node'[u].gen
    BY DEF SeenInv
  <2>1. u \in Nodes
    BY Distinct
  <2>2. fiber[d][k].at = "waiting" /\ fiber'[d][k].seen = fiber[d][k].seen
    BY DEF Fades
  <2> QED
    BY <2>1, <2>2 DEF CalmInv, SeenInv
<1>2. DiedInv'
  BY DEF Fades, CalmInv, DiedInv
<1>3. GateInv'
  BY DEF GateInv, Calm
<1> QED
  BY <1>1, <1>2, <1>3 DEF CalmInv

LEMMA StillSame ==
  ASSUME Typed, CalmInv, Fades, L' = L
  PROVE  StillInv'
<1>1. L.slice \subseteq Nodes
  BY DEF L, Typed, Driver, Drivers
<1> QED
  BY <1>1 DEF CalmInv, StillInv, Fades

LEMMA FadesAway ==
  ASSUME SupervisorAssumption,
         \A d \in Drivers, k \in Nodes : fiber'[d][k] = fiber[d][k] \/ fiber'[d][k] = NoFiber
  PROVE  Fades
<1> SUFFICES ASSUME NEW d \in Drivers, NEW k \in Nodes
             PROVE  /\ Live(d, k)' => Live(d, k)
                    /\ fiber'[d][k].at = "waiting" =>
                         fiber[d][k].at = "waiting" /\ fiber'[d][k].seen = fiber[d][k].seen
                    /\ fiber'[d][k].at = "died" => fiber[d][k].at = "died" \/ k \in MayDie
  BY DEF Fades
<1>1. CASE fiber'[d][k] = fiber[d][k]
  BY <1>1 DEF Live
<1>2. CASE fiber'[d][k] = NoFiber
  BY <1>2, Blank DEF Live
<1> QED
  BY <1>1, <1>2

(* A step that changes no entry and ends no acquire.                          *)
LEMMA QuietKeepsCalm ==
  ASSUME SupervisorAssumption, Typed, CalmInv, UNCHANGED node, EarlyInv',
         \A d \in Drivers, k \in Nodes : fiber'[d][k] = fiber[d][k] \/ fiber'[d][k] = NoFiber,
         \/ L' = L
         \/ L'.at = "stop" /\ L'.todo = L'.slice
         \/ L'.at \notin {"stop", "reset"}
  PROVE  CalmInv'
<1>1. Fades
  BY FadesAway
<1>2. StillInv'
  <2>1. CASE L' = L
    BY <1>1, <2>1, StillSame
  <2>2. CASE L' # L
    BY <2>2 DEF StillInv
  <2> QED
    BY <2>1, <2>2
<1>3. \A k \in Nodes : node'[k].gen = node[k].gen /\ Calm(node'[k])
  BY DEF CalmInv, GateInv, Calm
<1> QED
  BY <1>1, <1>2, <1>3, CalmKept

(* While the loop works the initial acquire has registered its fibers.        *)
LEMMA EarlyKept ==
  ASSUME CalmInv, L.at # "idle", drv'["init"] = drv["init"]
  PROVE  EarlyInv'
BY DEF CalmInv, EarlyInv

LEMMA TakesKeepCalm ==
  ASSUME SupervisorAssumption, NoBackground, NoEarlyCommands,
         RegistryInv, DrainInv, CalmInv, TakeCommand
  PROVE  CalmInv'
<1>1. /\ UNCHANGED <<node, fiber>> /\ drv'["init"] = drv["init"]
      /\ drv["init"].at \notin {"fork", "register"}
      /\ (L'.at = "stop" /\ L'.todo = L'.slice) \/ L'.at \in {"handler", "settle", "ended"}
  BY TakesDo DEF NoEarlyCommands
<1>2. EarlyInv'
  BY <1>1 DEF EarlyInv
<1> QED
  BY <1>1, <1>2, QuietKeepsCalm DEF RegistryInv

LEMMA HandledKeepsCalm ==
  ASSUME SupervisorAssumption, RegistryInv, CalmInv, NEW ok \in BOOLEAN, Handled(ok)
  PROVE  CalmInv'
<1> DEFINE slice == Slice(Nodes \ KeepAlive)
           s == [L EXCEPT !.at = "settle"]
           r == Drain("loop", L.cmd, slice, ok)
<1>1. Typed /\ DriverInv
  BY DEF RegistryInv
<1>2. /\ L.at = "handler" /\ OnlyDriver("loop") /\ UNCHANGED <<node, fiber>>
      /\ L' = s \/ L' = r \/ L' = Idle
  BY <1>1, HandledDoes DEF L
<1>3. s.at = "settle"
  BY <1>1 DEF L, Typed, Driver, Drivers
<1> HIDE DEF slice
<1>4. r.at = "stop" /\ r.slice = slice /\ r.todo = slice
  BY Blank DEF Drain, Driver
<1> HIDE DEF s, r
<1>5. (L'.at = "stop" /\ L'.todo = L'.slice) \/ L'.at \in {"settle", "idle"}
  BY <1>2, <1>3, <1>4, Blank
<1>6. EarlyInv'
  BY <1>2, EarlyKept DEF OnlyDriver, Drivers
<1> QED
  BY <1>1, <1>2, <1>5, <1>6, QuietKeepsCalm

LEMMA DrainedKeepsCalm ==
  ASSUME SupervisorAssumption, RegistryInv, DrainInv, CalmInv, NEW d \in Drivers, Drained(d)
  PROVE  CalmInv'
<1>1. Typed /\ DriverInv
  BY DEF RegistryInv
<1>2. /\ drv[d].at = "stop" /\ drv[d].todo = {} /\ OnlyDriver(d) /\ UNCHANGED <<node, fiber>>
      /\ drv'[d].at = "ended" \/ drv'[d] = [drv[d] EXCEPT !.at = "reset", !.todo = drv[d].slice]
  BY <1>1, DrainedDoes
<1>3. d = "loop"
  BY <1>2, LoopOnly DEF Busy
<1>4. EarlyInv'
  BY <1>2, <1>3, EarlyKept DEF OnlyDriver, Drivers, L
<1>5. CASE L'.at = "ended"
  BY <1>1, <1>2, <1>4, <1>5, QuietKeepsCalm
<1>6. CASE L' = [L EXCEPT !.at = "reset", !.todo = L.slice]
  <2>1. L'.at = "reset" /\ L'.slice = L.slice /\ L.slice \subseteq Nodes
    BY <1>1, <1>6 DEF L, Typed, Driver, Drivers
  <2>2. \A e \in Drivers : \A k \in L.slice : ~Live(e, k)
    BY <1>2, <1>3 DEF CalmInv, StillInv, L
  <2>3. StillInv'
    BY <1>2, <2>1, <2>2 DEF StillInv, Live
  <2>4. Fades
    BY <1>2, FadesAway
  <2>5. \A k \in Nodes : node'[k].gen = node[k].gen /\ Calm(node'[k])
    BY <1>2 DEF CalmInv, GateInv, Calm
  <2> QED
    BY <1>4, <2>3, <2>4, <2>5, CalmKept
<1> QED
  BY <1>2, <1>3, <1>5, <1>6 DEF L

LEMMA EndOfCommandKeepsCalm ==
  ASSUME SupervisorAssumption, RegistryInv, DrainInv, CalmInv, NEW d \in Drivers,
         \/ Converged(d) \/ Defect(d) \/ Settle(d) \/ HookSucceeds(d)
         \/ HookFails(d, None)
  PROVE  CalmInv'
<1>1. Typed /\ DriverInv
  BY DEF RegistryInv
<1>2. /\ UNCHANGED node /\ OnlyDriver(d) /\ drv[d].at \in {"await", "settle", "hook"}
      /\ drv'[d].at \in {"idle", "ended", "dead", "settle", "hook"}
      /\ \A e \in Drivers, k \in Nodes : fiber'[e][k] = fiber[e][k] \/ fiber'[e][k] = NoFiber
  <2>1. CASE HookFails(d, None)
    <3>1. drv[d].at = "hook" /\ UNCHANGED fiber /\ (Dies(d) \/ Finished(d, FALSE))
      BY <1>1, <2>1, HooksDoes
    <3>2. OnlyDriver(d) /\ drv'[d].at \in {"idle", "ended", "dead"}
      BY <3>1, FinishedEnds, DiesEnds
    <3>3. UNCHANGED node
      BY <2>1 DEF HookFails
    <3> QED
      BY <3>1, <3>2, <3>3
  <2>2. CASE ~HookFails(d, None)
    BY <2>2, EndOfCommandDoes
  <2> QED
    BY <2>1, <2>2
<1>3. d \in {"init", "loop"}
  BY <1>2, LoopOnly DEF Busy
<1>4. EarlyInv'
  <2>1. CASE d = "init"
    BY <1>2, <2>1 DEF EarlyInv
  <2>2. CASE d = "loop"
    BY <1>2, <2>2, EarlyKept DEF OnlyDriver, Drivers, L
  <2> QED
    BY <1>3, <2>1, <2>2
<1>5. L' = L \/ L'.at \notin {"stop", "reset"}
  BY <1>2, <1>3 DEF L, OnlyDriver, Drivers
<1> QED
  BY <1>1, <1>2, <1>4, <1>5, QuietKeepsCalm

(* A plugin that fails while its gate is open closes it to its dependents.    *)
LEMMA CalmFailed ==
  ASSUME SupervisorAssumption, NEW n \in Node, NodeSound(n), n.status \in {"pending", "acquiring"}
  PROVE  Calm(MarkFailed(n))
<1> DEFINE r == [[n EXCEPT !.value = None] EXCEPT !.status = "failed"]
           s == [r EXCEPT !.gate[r.gen] = "failed"]
<1>1. MarkFailed(n) = Resolve(r, "failed")
  BY DEF MarkFailed, Table
<1>2. r.gen = n.gen /\ r.gate = n.gate /\ n.gen \in Gens
  BY DEF Node
<1>3. r.gate[r.gen] = "open"
  BY <1>2 DEF NodeSound
<1>4. s.gen = n.gen /\ s.gate[n.gen] = "failed"
  BY <1>2 DEF Node
<1> HIDE DEF r
<1>5. MarkFailed(n) = s
  BY <1>1, <1>3 DEF Resolve
<1> HIDE DEF s
<1> QED
  BY <1>4, <1>5 DEF Calm

LEMMA CalmInterrupted ==
  ASSUME SupervisorAssumption, NEW k \in Nodes, node[k] \in Node, NodeSound(node[k]), Calm(node[k])
  PROVE  Calm(InterruptAcquire(k))
<1> DEFINE m == [node[k] EXCEPT !.fref = None]
           f == fiber[node[k].fref][k]
<1>1. m \in Node /\ NodeSound(m) /\ Calm(m)
  BY DEF Node, NodeSound, Calm
<1>2. CASE node[k].fref = None
  BY <1>2 DEF InterruptAcquire
<1>3. CASE node[k].fref # None
  <2>1. InterruptAcquire(k) = FailIfInterrupted(m, f)
    BY <1>3 DEF InterruptAcquire
  <2> HIDE DEF m, f
  <2> QED
    BY <1>1, <2>1, CalmFailed DEF FailIfInterrupted
<1> QED
  BY <1>2, <1>3

LEMMA StopNodeKeepsCalm ==
  ASSUME SupervisorAssumption, RegistryInv, DrainInv, FlowInv, CalmInv,
         NEW d \in Drivers, NEW k \in Nodes, StopNode(d, k)
  PROVE  CalmInv'
<1> DEFINE n == InterruptAcquire(k)
<1>1. Typed /\ NodesSound
  BY DEF RegistryInv
<1>2. drv[d].at = "stop" /\ k \in drv[d].todo /\ Alive
  BY DEF StopNode, At
<1>3. d = "loop"
  BY <1>2, LoopOnly DEF Busy
<1>4. Stopped(d, k)
  BY <1>1, StopNodeDoes
<1>5. /\ OnlyNode(k) /\ node'[k].gen = node[k].gen
      /\ node'[k].value = n.value /\ node'[k].gate = n.gate
      /\ L'.at = "stop" /\ L'.slice = L.slice /\ L'.todo = L.todo \ {k}
      /\ drv'["init"] = drv["init"] /\ L.slice \subseteq Nodes
      /\ \A e \in Drivers, j \in Nodes :
           fiber'[e][j] = IF e = node[k].fref /\ j = k THEN NoFiber ELSE fiber[e][j]
  <2> HIDE DEF n
  <2>1. L.slice \subseteq Nodes
    BY <1>1 DEF L, Typed, Driver, Drivers
  <2> QED
    BY <1>3, <1>4, <2>1 DEF Stopped, Proceeds, OnlyDriver, Drivers, L, n
<1>6. Fades
  BY <1>5, FadesAway
<1>7. EarlyInv'
  BY <1>2, <1>3, <1>5, EarlyKept DEF L
<1>8. StillInv'
  <2> SUFFICES ASSUME NEW e \in Drivers, NEW j \in L.slice, j \notin L'.todo
               PROVE  ~Live(e, j)'
    BY <1>5 DEF StillInv
  <2>1. j \in Nodes
    BY <1>5
  <2>2. CASE j = k
    <3>1. Live(e, k) => node[k].fref = e
      BY DEF FlowInv, OwnInv, Owned
    <3> QED
      BY <1>5, <2>2, <3>1, Blank DEF Live
  <2>3. CASE j # k
    <3>1. ~Live(e, j)
      BY <1>2, <1>3, <1>5, <2>3 DEF CalmInv, StillInv, L
    <3> QED
      BY <1>5, <2>1, <2>3, <3>1 DEF Live
  <2> QED
    BY <2>2, <2>3
<1>9. \A j \in Nodes : node'[j].gen = node[j].gen /\ Calm(node'[j])
  <2> SUFFICES ASSUME NEW j \in Nodes
               PROVE  node'[j].gen = node[j].gen /\ Calm(node'[j])
    OBVIOUS
  <2>1. node[k] \in Node /\ NodeSound(node[k]) /\ \A i \in Nodes : Calm(node[i])
    BY <1>1 DEF Typed, NodesSound, CalmInv, GateInv
  <2>2. Calm(n) /\ n.gen = node[k].gen
    BY <2>1, CalmInterrupted, InterruptSound
  <2> HIDE DEF n
  <2> QED
    BY <1>5, <2>1, <2>2 DEF OnlyNode, Calm
<1> QED
  BY <1>6, <1>7, <1>8, <1>9, CalmKept

LEMMA ClosedKeepsCalm ==
  ASSUME SupervisorAssumption, RegistryInv, DrainInv, CalmInv,
         NEW d \in Drivers, NEW k \in Nodes, Closed(d, k)
  PROVE  CalmInv'
<1>1. Typed /\ NodesSound
  BY DEF RegistryInv
<1>2. /\ OnlyNode(k) /\ node'[k].gen = node[k].gen
      /\ node'[k].value = node[k].value /\ node'[k].gate = node[k].gate
      /\ drv[d].at = "stop" /\ drv'[d].at = "stop" /\ drv'[d].todo = drv[d].todo
      /\ Proceeds(d) /\ UNCHANGED fiber
  <2>1. Closes(d, k)
    BY <1>1, ClosedDoes
  <2> QED
    BY <2>1 DEF Closes
<1>3. d = "loop"
  BY <1>2, LoopOnly DEF Busy
<1>4. /\ L.at = "stop" /\ L'.at = "stop" /\ L'.todo = L.todo /\ L'.slice = L.slice
      /\ drv'["init"] = drv["init"] /\ L.slice \subseteq Nodes
  BY <1>1, <1>2, <1>3 DEF Proceeds, OnlyDriver, Drivers, L, Typed, Driver
<1>5. Fades
  BY <1>2, FadesAway
<1>6. StillInv'
  BY <1>2, <1>4 DEF CalmInv, StillInv, Live
<1>7. \A j \in Nodes : node'[j].gen = node[j].gen /\ Calm(node'[j])
  BY <1>2 DEF OnlyNode, CalmInv, GateInv, Calm
<1>8. EarlyInv'
  BY <1>4, EarlyKept
<1> QED
  BY <1>5, <1>6, <1>7, <1>8, CalmKept

LEMMA ResetKeepsCalm ==
  ASSUME SupervisorAssumption, RegistryInv, DrainInv, CalmInv,
         NEW d \in Drivers, NEW k \in Nodes, Reset(d, k)
  PROVE  CalmInv'
<1>1. Typed /\ NodesSound
  BY DEF RegistryInv
<1>2. /\ OnlyNode(k) /\ node'[k].status = "pending" /\ NodesSound'
      /\ drv[d].at = "reset" /\ k \in drv[d].todo
      /\ drv'[d].at \in {"fork", "reset"}
      /\ Proceeds(d)
      /\ \A e \in Drivers, j \in Nodes :
           fiber'[e][j] = IF e = node[k].fref /\ j = k THEN NoFiber ELSE fiber[e][j]
  BY <1>1, ResetDoes
<1>3. d = "loop"
  BY <1>2, LoopOnly DEF Busy
<1>4. /\ L.at = "reset" /\ L'.at \in {"fork", "reset"} /\ L'.slice = L.slice
      /\ drv'["init"] = drv["init"] /\ L.slice \subseteq Nodes
  BY <1>1, <1>2, <1>3 DEF Proceeds, OnlyDriver, Drivers, L, Typed, Driver
<1>5. Fades
  BY <1>2, FadesAway
<1>6. \A e \in Drivers : \A j \in L.slice : ~Live(e, j)
  BY <1>4 DEF CalmInv, StillInv
<1>7. StillInv'
  BY <1>4, <1>5, <1>6 DEF StillInv, Fades
<1>8. GateInv'
  <2> SUFFICES ASSUME NEW j \in Nodes
               PROVE  Calm(node'[j])
    BY DEF GateInv, Calm
  <2>1. CASE j = k
    BY <1>2, <2>1 DEF NodesSound, NodeSound, Calm
  <2>2. CASE j # k
    BY <1>2, <2>2 DEF OnlyNode, CalmInv, GateInv
  <2> QED
    BY <2>1, <2>2
<1>9. SeenInv'
  <2> SUFFICES ASSUME NEW e \in Drivers, NEW j \in Nodes, fiber'[e][j].at = "waiting",
                      NEW u \in Up[j]
               PROVE  fiber'[e][j].seen[u] = node'[u].gen
    BY DEF SeenInv
  <2>1. u \in Nodes
    BY Distinct
  <2>2. fiber[e][j].at = "waiting" /\ fiber'[e][j].seen = fiber[e][j].seen
    BY <1>5 DEF Fades
  <2>3. fiber[e][j].seen[u] = node[u].gen
    BY <2>2 DEF CalmInv, SeenInv
  <2>4. j \notin L.slice
    BY <1>6, <2>2 DEF Live
  <2>5. u # k
    BY <1>2, <1>3, <1>4, <2>4 DEF DrainInv, SliceInv, L
  <2> QED
    BY <1>2, <2>1, <2>2, <2>3, <2>5 DEF OnlyNode
<1>10. DiedInv'
  BY <1>5 DEF Fades, CalmInv, DiedInv
<1>11. EarlyInv'
  BY <1>4, EarlyKept
<1> QED
  BY <1>7, <1>8, <1>9, <1>10, <1>11 DEF CalmInv

LEMMA ForkKeepsCalm ==
  ASSUME SupervisorAssumption, RegistryInv, DrainInv, CalmInv, NEW d \in Drivers, Fork(d)
  PROVE  CalmInv'
<1>1. Typed
  BY DEF RegistryInv
<1>2. /\ drv[d].at = "fork" /\ UNCHANGED node /\ OnlyDriver(d)
      /\ drv'[d].at \in {"ended", "register"}
      /\ \A e \in Drivers, j \in Nodes :
           fiber'[e][j] = fiber[e][j] \/ fiber'[e][j].at = "forked"
  <2>1. \/ drv'[d].at = "ended" /\ UNCHANGED fiber
        \/ /\ drv'[d].at = "register"
           /\ \A e \in Drivers, j \in Nodes :
                IF e = d /\ j \in drv[d].slice
                  THEN fiber'[e][j].at = "forked" /\ fiber'[e][j].gen = node[j].gen
                  ELSE fiber'[e][j] = fiber[e][j]
    BY <1>1, ForkDoes
  <2> QED
    BY <1>1, <2>1, ForkDoes
<1>3. d \in {"init", "loop"}
  BY <1>2, LoopOnly DEF Busy
<1>4. Fades
  <2> SUFFICES ASSUME NEW e \in Drivers, NEW j \in Nodes
               PROVE  /\ Live(e, j)' => Live(e, j)
                      /\ fiber'[e][j].at = "waiting" =>
                           fiber[e][j].at = "waiting" /\ fiber'[e][j].seen = fiber[e][j].seen
                      /\ fiber'[e][j].at = "died" => fiber[e][j].at = "died" \/ j \in MayDie
    BY DEF Fades
  <2> QED
    BY <1>2 DEF Live
<1>5. EarlyInv'
  <2>1. CASE d = "init"
    BY <1>2, <2>1 DEF CalmInv, EarlyInv, OnlyDriver, Drivers, L
  <2>2. CASE d = "loop"
    BY <1>2, <2>2, EarlyKept DEF OnlyDriver, Drivers, L
  <2> QED
    BY <1>3, <2>1, <2>2
<1>6. StillInv'
  <2>1. CASE d = "init"
    <3>1. L' = L
      BY <1>2, <2>1 DEF L, OnlyDriver, Drivers
    <3> QED
      BY <1>1, <1>4, <3>1, StillSame
  <2>2. CASE d = "loop"
    BY <1>2, <2>2 DEF StillInv, L
  <2> QED
    BY <1>3, <2>1, <2>2
<1>7. \A k \in Nodes : node'[k].gen = node[k].gen /\ Calm(node'[k])
  BY <1>2 DEF CalmInv, GateInv, Calm
<1> QED
  BY <1>4, <1>5, <1>6, <1>7, CalmKept

LEMMA RegisterKeepsCalm ==
  ASSUME SupervisorAssumption, RegistryInv, DrainInv, CalmInv,
         NEW d \in Drivers, NEW k \in Nodes, Register(d, k)
  PROVE  CalmInv'
<1>1. Typed /\ NodesSound
  BY DEF RegistryInv
<1>2. /\ OnlyNode(k) /\ node'[k].gen = node[k].gen
      /\ node'[k].value = node[k].value /\ node'[k].gate = node[k].gate
  BY <1>1, RegisterDoes
<1>3. /\ drv[d].at = "register" /\ drv'[d].at \in {"register", "await"} /\ OnlyDriver(d)
  BY <1>1, RegisterDoes DEF Proceeds
<1>4. /\ \A e \in Drivers, j \in Nodes : ~(e = d /\ j = k) => fiber'[e][j] = fiber[e][j]
      /\ \/ fiber'[d][k].at = "waiting" /\ \A u \in Up[k] : fiber'[d][k].seen[u] = node[u].gen
         \/ fiber'[d][k] = NoFiber
  BY <1>1, RegisterDoes
<1>5. d \in {"init", "loop"}
  BY <1>3, LoopOnly DEF Busy
<1>6. \A j \in Nodes : node'[j].gen = node[j].gen /\ Calm(node'[j])
  BY <1>2 DEF OnlyNode, CalmInv, GateInv, Calm
<1>7. GateInv'
  BY <1>6 DEF GateInv, Calm
<1>8. SeenInv'
  <2> SUFFICES ASSUME NEW e \in Drivers, NEW j \in Nodes, fiber'[e][j].at = "waiting",
                      NEW u \in Up[j]
               PROVE  fiber'[e][j].seen[u] = node[u].gen /\ node'[u].gen = node[u].gen
    BY DEF SeenInv
  <2>1. node'[u].gen = node[u].gen
    BY <1>6, Distinct
  <2>2. CASE e = d /\ j = k
    BY <1>4, <2>1, <2>2, Blank
  <2>3. CASE ~(e = d /\ j = k)
    BY <1>4, <2>1, <2>3 DEF CalmInv, SeenInv
  <2> QED
    BY <2>2, <2>3
<1>9. DiedInv'
  <2> SUFFICES ASSUME NEW e \in Drivers, NEW j \in Nodes, fiber'[e][j].at = "died"
               PROVE  j \in MayDie
    BY DEF DiedInv
  <2>1. CASE e = d /\ j = k
    BY <1>4, <2>1, Blank
  <2>2. CASE ~(e = d /\ j = k)
    BY <1>4, <2>2 DEF CalmInv, DiedInv
  <2> QED
    BY <2>1, <2>2
<1>10. EarlyInv'
  <2>1. CASE d = "init"
    BY <1>3, <2>1 DEF CalmInv, EarlyInv, OnlyDriver, Drivers, L
  <2>2. CASE d = "loop"
    BY <1>3, <2>2, EarlyKept DEF OnlyDriver, Drivers, L
  <2> QED
    BY <1>5, <2>1, <2>2
<1>11. StillInv'
  <2>1. CASE d = "init"
    <3>1. L' = L /\ L.at = "idle"
      BY <1>3, <2>1 DEF L, OnlyDriver, Drivers, CalmInv, EarlyInv
    <3> QED
      BY <3>1 DEF StillInv
  <2>2. CASE d = "loop"
    BY <1>3, <2>2 DEF StillInv, L
  <2> QED
    BY <1>5, <2>1, <2>2
<1> QED
  BY <1>7, <1>8, <1>9, <1>10, <1>11 DEF CalmInv

(* The gates that a start has waited for are those of the values it reads.    *)
LEMMA BeginKeepsCalm ==
  ASSUME SupervisorAssumption, RegistryInv, CalmInv,
         NEW d \in Drivers, NEW k \in Nodes, Begin(d, k)
  PROVE  CalmInv'
<1>1. Typed /\ NodesSound /\ FiberInv
  BY DEF RegistryInv
<1>2. /\ fiber[d][k].at = "waiting"
      /\ \A u \in Up[k] : Gate(fiber[d][k], u) = "ok"
      /\ OnlyNode(k) /\ node'[k].gen = node[k].gen
      /\ node'[k].value = node[k].value /\ node'[k].gate = node[k].gate
  BY <1>1, BeginDoes
<1>3. /\ UNCHANGED drv
      /\ \A e \in Drivers, j \in Nodes : ~(e = d /\ j = k) => fiber'[e][j] = fiber[e][j]
      /\ (\E u \in Up[k] : node[u].value = None) \/ fiber'[d][k].at = "starting"
  BY <1>1, BeginDoes
<1>4. \A u \in Up[k] : node[u].value # None
  <2> SUFFICES ASSUME NEW u \in Up[k]
               PROVE  node[u].value # None
    OBVIOUS
  <2>1. u \in Nodes
    BY Distinct
  <2>2. fiber[d][k].seen[u] = node[u].gen
    BY <1>2 DEF CalmInv, SeenInv
  <2>3. node[u].gate[node[u].gen] = "ok"
    BY <1>2, <2>2 DEF Gate
  <2> QED
    BY <2>1, <2>3 DEF CalmInv, GateInv, Calm
<1>5. fiber'[d][k].at = "starting"
  BY <1>3, <1>4
<1>6. Fades
  <2> SUFFICES ASSUME NEW e \in Drivers, NEW j \in Nodes
               PROVE  /\ Live(e, j)' => Live(e, j)
                      /\ fiber'[e][j].at = "waiting" =>
                           fiber[e][j].at = "waiting" /\ fiber'[e][j].seen = fiber[e][j].seen
                      /\ fiber'[e][j].at = "died" => fiber[e][j].at = "died" \/ j \in MayDie
    BY DEF Fades
  <2>1. CASE e = d /\ j = k
    BY <1>2, <1>5, <2>1 DEF Live
  <2>2. CASE ~(e = d /\ j = k)
    BY <1>3, <2>2 DEF Live
  <2> QED
    BY <2>1, <2>2
<1>7. \A j \in Nodes : node'[j].gen = node[j].gen /\ Calm(node'[j])
  BY <1>2 DEF OnlyNode, CalmInv, GateInv, Calm
<1>8. L' = L /\ EarlyInv'
  BY <1>3 DEF L, CalmInv, EarlyInv
<1> QED
  BY <1>1, <1>6, <1>7, <1>8, StillSame, CalmKept

LEMMA EndsCalmly ==
  ASSUME SupervisorAssumption, RegistryInv, FlowInv, CalmInv, NEW d \in Drivers, NEW k \in Nodes,
         UpstreamFailed(d, k) \/ Started(d, k) \/ StartFailed(d, k) \/ StartDied(d, k)
  PROVE  Calm(node'[k])
<1>1. Typed /\ NodesSound /\ FiberInv
  BY DEF RegistryInv
<1>2. node[k] \in Node /\ NodeSound(node[k]) /\ Calm(node[k])
  BY <1>1 DEF Typed, NodesSound, CalmInv, GateInv
<1>3. Alive /\ Live(d, k) /\ fiber[d][k].gen \in Gens
  BY <1>1 DEF UpstreamFailed, Started, StartFailed, StartDied, FiberAt, Live, FiberInv
<1>4. node[k].status \in {"pending", "acquiring"}
  BY <1>3 DEF FlowInv, OwnInv, Owned, Live, StatusIs
<1>5. ASSUME NEW n, Sound(n), NEW at \in {"none", "died"}, EndFiber(d, k, n, at), Calm(n)
      PROVE  Calm(node'[k])
  <2>1. node'[k].gen = n.gen /\ node'[k].value = n.value /\ node'[k].gate = n.gate
    BY <1>1, <1>5, EndFiberDoes
  <2> QED
    BY <1>5, <2>1 DEF Calm
<1>6. CASE UpstreamFailed(d, k) \/ StartFailed(d, k)
  <2>1. EndFiber(d, k, MarkFailed(node[k]), "none")
    BY <1>6 DEF UpstreamFailed, StartFailed
  <2>2. Sound(MarkFailed(node[k])) /\ Calm(MarkFailed(node[k]))
    BY <1>2, <1>4, MarkFailedSound, CalmFailed
  <2> QED
    BY <1>5, <2>1, <2>2
<1>7. CASE StartDied(d, k)
  <2>1. EndFiber(d, k, node[k], "died") /\ Sound(node[k])
    BY <1>2, <1>7 DEF StartDied, Sound
  <2> QED
    BY <1>2, <1>5, <2>1
<1>8. CASE Started(d, k)
  <2> DEFINE n == MarkReady(node[k], fiber[d][k].gen)
             x == IF k \in Tasks THEN Transition(n, "done") ELSE n
  <2>1. EndFiber(d, k, x, "none")
    BY <1>8 DEF Started
  <2>2. Sound(n) /\ n.value = fiber[d][k].gen
    BY <1>2, <1>3, MarkReadySound, ReadyFacts
  <2> HIDE DEF n
  <2>3. n \in Node /\ NodeSound(n)
    BY <2>2 DEF Sound
  <2>4. Sound(Transition(n, "done")) /\ Transition(n, "done").value = n.value
    <3>1. Sound(Transition(n, "done"))
      BY <2>3, TransitionSound DEF Statuses
    <3> QED
      BY <2>3, <3>1 DEF Transition, Node
  <2>5. Sound(x) /\ x.value = n.value
    BY <2>2, <2>4
  <2> HIDE DEF x
  <2>6. Calm(x)
    BY <1>3, <2>2, <2>5, Distinct DEF Calm
  <2> QED
    BY <1>5, <2>1, <2>5, <2>6
<1> QED
  BY <1>6, <1>7, <1>8

LEMMA FiberStepKeepsCalm ==
  ASSUME SupervisorAssumption, RegistryInv, FlowInv, CalmInv,
         NEW d \in Drivers, NEW k \in Nodes, FiberStep(d, k)
  PROVE  CalmInv'
<1>1. Typed /\ NodesSound /\ FiberInv
  BY DEF RegistryInv
<1>2. CASE Begin(d, k)
  BY <1>2, BeginKeepsCalm
<1>3. CASE UpstreamFailed(d, k) \/ Started(d, k) \/ StartFailed(d, k) \/ StartDied(d, k)
  <2>1. /\ OnlyNode(k) /\ node'[k].gen = node[k].gen /\ UNCHANGED drv
        /\ \A e \in Drivers, j \in Nodes : ~(e = d /\ j = k) => fiber'[e][j] = fiber[e][j]
        /\ fiber'[d][k].at = "none" \/ (fiber'[d][k].at = "died" /\ k \in MayDie)
    BY <1>1, <1>3, EndsDoes DEF Ends
  <2>2. Fades
    <3> SUFFICES ASSUME NEW e \in Drivers, NEW j \in Nodes
                 PROVE  /\ Live(e, j)' => Live(e, j)
                        /\ fiber'[e][j].at = "waiting" =>
                             fiber[e][j].at = "waiting" /\ fiber'[e][j].seen = fiber[e][j].seen
                        /\ fiber'[e][j].at = "died" => fiber[e][j].at = "died" \/ j \in MayDie
      BY DEF Fades
    <3>1. CASE e = d /\ j = k
      BY <2>1, <3>1 DEF Live
    <3>2. CASE ~(e = d /\ j = k)
      BY <2>1, <3>2 DEF Live
    <3> QED
      BY <3>1, <3>2
  <2>3. Calm(node'[k])
    BY <1>3, EndsCalmly
  <2>4. \A j \in Nodes : node'[j].gen = node[j].gen /\ Calm(node'[j])
    BY <2>1, <2>3 DEF OnlyNode, CalmInv, GateInv, Calm
  <2>5. L' = L /\ EarlyInv'
    BY <2>1 DEF L, CalmInv, EarlyInv
  <2> QED
    BY <1>1, <2>2, <2>4, <2>5, StillSame, CalmKept
<1> QED
  BY <1>2, <1>3 DEF FiberStep

LEMMA CalmStep ==
  NoBackground /\ NoEarlyCommands /\ HookSparesPlugins /\ SupervisorAssumption
    /\ RegistryInv /\ DrainInv /\ FlowInv /\ CalmInv /\ [Next]_vars => CalmInv'
<1> SUFFICES ASSUME NoBackground, NoEarlyCommands, HookSparesPlugins, SupervisorAssumption,
                    RegistryInv, DrainInv, FlowInv, CalmInv, [Next]_vars
             PROVE  CalmInv'
  OBVIOUS
<1>1. CASE (\E c \in Commands : Offer(c)) \/ UNCHANGED vars
  <2>1. UNCHANGED <<node, fiber, drv>>
    BY <1>1 DEF Offer, vars
  <2>2. L' = L /\ EarlyInv'
    BY <2>1 DEF L, CalmInv, EarlyInv
  <2> QED
    BY <2>1, <2>2, QuietKeepsCalm DEF RegistryInv
<1>2. CASE TakeCommand
  BY <1>2, TakesKeepCalm
<1>3. CASE HandlerStep
  BY <1>3, HandledKeepsCalm DEF HandlerStep
<1>4. CASE LoseRace
  <2>1. /\ UNCHANGED <<node, fiber>> /\ OnlyDriver("init") /\ drv'["init"].at = "ended"
    BY <1>4, LoseRaceDoes DEF RegistryInv
  <2>2. L' = L /\ EarlyInv'
    BY <2>1 DEF L, OnlyDriver, Drivers, EarlyInv
  <2> QED
    BY <2>1, <2>2, QuietKeepsCalm DEF RegistryInv
<1>5. ASSUME NEW d \in Drivers, DriverStep(d)
      PROVE  CalmInv'
  <2>1. CASE \E k \in Nodes : StopNode(d, k) \/ Closed(d, k)
    BY <2>1, StopNodeKeepsCalm, ClosedKeepsCalm
  <2>2. CASE \E k \in Nodes : Reset(d, k) \/ Register(d, k)
    BY <2>2, ResetKeepsCalm, RegisterKeepsCalm
  <2>3. CASE \E k \in MayFailLate : HookFails(d, k)
    <3>1. HookFails(d, None)
      BY <2>3 DEF HookSparesPlugins
    <3> QED
      BY <3>1, EndOfCommandKeepsCalm
  <2>4. CASE Drained(d) \/ Fork(d)
    BY <2>4, DrainedKeepsCalm, ForkKeepsCalm
  <2>5. CASE Converged(d) \/ Settle(d) \/ HookSucceeds(d) \/ Defect(d)
    BY <2>5, EndOfCommandKeepsCalm
  <2> QED
    BY <1>5, <2>1, <2>2, <2>3, <2>4, <2>5 DEF DriverStep
<1>6. ASSUME NEW d \in Drivers, NEW k \in Nodes, FiberStep(d, k)
      PROVE  CalmInv'
  BY <1>6, FiberStepKeepsCalm
<1> QED
  BY <1>1, <1>2, <1>3, <1>4, <1>5, <1>6 DEF Next

LEMMA InitCalm == SupervisorAssumption /\ Init => CalmInv
<1> SUFFICES ASSUME SupervisorAssumption, Init
             PROVE  CalmInv
  OBVIOUS
<1>1. L.at = "idle"
  BY Blank DEF Init, Drivers, L
<1>2. \A d \in Drivers, k \in Nodes : fiber[d][k].at = "none"
  BY Blank DEF Init
<1>3. \A k \in Nodes : node[k].gen = 1 /\ \A g \in Gens : node[k].gate[g] = "open"
  BY DEF Init
<1>4. GateInv
  BY <1>3, Distinct DEF GateInv, Calm
<1> QED
  BY <1>1, <1>2, <1>4 DEF CalmInv, EarlyInv, SeenInv, StillInv, DiedInv

(* The dependency graph guarantees that a start finds the values of its       *)
(* upstreams (plugin-registry.ts:66-70), when the initial acquire has         *)
(* registered its fibers before commands are taken and the post-acquire tasks *)
(* fail no plugin: only a start that throws dies.                             *)
THEOREM StartsFindTheirUpstreams ==
  ASSUME NoBackground, NoEarlyCommands, HookSparesPlugins
  PROVE  Spec => []ReadersFindValues
<1>1. LateCommands
  BY DEF NoEarlyCommands, LateCommands
<1>2. Init => CalmInv
  BY InitCalm, SupervisorAssumption
<1>3. RegistryInv /\ DrainInv /\ FlowInv /\ CalmInv /\ [Next]_vars => CalmInv'
  BY CalmStep, SupervisorAssumption
<1>4. CalmInv => ReadersFindValues
  BY DEF CalmInv, DiedInv, ReadersFindValues
<1>5. Spec => [](RegistryInv /\ DrainInv /\ FlowInv)
  BY <1>1, FlowHolds
<1> QED
  BY <1>2, <1>3, <1>4, <1>5, PTL DEF Spec

=============================================================================
