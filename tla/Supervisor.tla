----------------------------- MODULE Supervisor -----------------------------
(* The supervisor of one stack: it acquires the plugins of the dependency     *)
(* graph, tears slices of it down and re-acquires them on command.            *)
(*   supervisor/acquire-node.ts      acquireKeys, acquireNode                 *)
(*   supervisor/teardown.ts          teardownKeys, teardownNode,              *)
(*                                   doSelectiveRestart                       *)
(*   supervisor/command-loop.ts, background-tasks.ts, shutdown.ts,            *)
(*   start-supervisor.ts             who drives them                          *)
(*   lifecycle/plugin-registry.ts    the entries: status, gate, scope, value  *)
(* Three drivers share the registry: the initial acquire, the command loop    *)
(* and the background stack restart.  Effect's fibers interleave at every     *)
(* suspension; a step is what runs between two of them.                       *)
EXTENDS Integers, Sequences, FiniteSets

CONSTANTS
  Nodes,        \* plugin keys
  Up,           \* upstreamKeys: [Nodes -> SUBSET Nodes]
  Level,        \* index of the level of a node in graph.levels
  Tasks,        \* nodes of role 'task'
  KeepAlive,    \* nodes declared keepAliveOnRestore
  MayFail,      \* nodes whose start may fail
  MayDie,       \* nodes whose start may throw
  MayFailLate,  \* nodes whose post-acquire task may fail; None: the hook itself
  Commands,     \* the commands that callers may send
  MaxCommands,  \* BOUND: how many they send
  MaxGen,       \* BOUND: entries per key; each command replaces one at most
  EarlyPhases,  \* phases of the initial acquire in which commands are taken already
  None

Drivers == {"init", "loop", "bg"}

Gens == 1 .. MaxGen
Tags == {"selective", "restart", "capture", "restore", "apply", "shutdown", "hardkill"}
Command == [tag : Tags, key : Nodes \cup {None}, submitted : BOOLEAN]

ASSUME SupervisorAssumption ==
  /\ IsFiniteSet(Nodes)
  /\ None \notin Nodes /\ None \notin Drivers /\ None \notin Gens
  /\ None \notin Commands /\ None \notin [Nodes -> Gens \cup {None}]
  /\ Up \in [Nodes -> SUBSET Nodes]
  /\ Level \in [Nodes -> Nat]
  /\ \A k \in Nodes : \A u \in Up[k] : Level[u] < Level[k]
  /\ Tasks \subseteq Nodes /\ KeepAlive \subseteq Nodes
  /\ MayFail \subseteq Nodes /\ MayDie \subseteq Nodes /\ MayFailLate \subseteq Nodes \cup {None}
  /\ Commands \subseteq Command
  /\ \A c \in Commands : c.tag = "selective" => c.key \in Nodes
  /\ MaxCommands \in Nat /\ MaxGen \in Nat \ {0}
  /\ EarlyPhases \subseteq {"fork", "register"}

VARIABLES
  node,     \* per key: the registry's current entry, and the scopes of all its entries
  fiber,    \* per driver and key: the acquire fiber the driver forked last
  drv,      \* what each driver is doing
  queue,    \* queuedCommands
  sent,     \* how many commands callers have sent
  asked,    \* how many of them were submitted
  answered, \* how many submissions were completed
  reply,    \* the last completion
  latch,    \* shutdownLatch
  complete  \* shutdownComplete is resolved

vars == <<node, fiber, drv, queue, sent, asked, answered, reply, latch, complete>>

Statuses == {"pending", "acquiring", "ready", "stopping", "stopped", "failed", "done"}

(* An entry generation; a start that ran is known by the values it read.      *)
Reads == [Nodes -> Gens \cup {None}]
Node == [status : Statuses,
         gen    : Gens,                                   \* the current entry
         value  : Gens \cup {None},                       \* resolved: by which start
         fref   : Drivers \cup {None},                    \* acquireFiberRef
         gate   : [Gens -> {"open", "ok", "failed"}],     \* readyGate
         scope  : [Gens -> {"open", "closing", "closed"}],
         ran    : [Gens -> Reads \cup {None}]]

(* seen: the upstream entries whose gates the fiber awaits.                   *)
Fiber == [at   : {"none", "forked", "waiting", "starting", "died"},
          gen  : Gens \cup {None},
          seen : Reads]

(* todo: the keys the current loop over the slice has left; torn: the entries *)
(* whose scope a teardownNode of this driver is closing; was: the keys it     *)
(* found ready; ok: the handler succeeded.                                    *)
Driver == [at    : {"idle", "handler", "stop", "reset", "fork", "register", "await",
                    "settle", "hook", "ended", "dead"},
           cmd   : Commands \cup {None},
           slice : SUBSET Nodes,
           todo  : SUBSET Nodes,
           torn  : [Nodes -> Gens \cup {None}],
           was   : SUBSET Nodes,
           ok    : BOOLEAN]

TypeOK ==
  /\ node \in [Nodes -> Node]
  /\ fiber \in [Drivers -> [Nodes -> Fiber]]
  /\ drv \in [Drivers -> Driver]
  /\ queue \in Seq(Commands)
  /\ sent \in 0 .. MaxCommands
  /\ asked \in 0 .. sent
  /\ answered \in 0 .. asked
  /\ reply \in [cmd : Commands, ok : BOOLEAN] \cup {None}
  /\ latch \in BOOLEAN
  /\ complete \in BOOLEAN

Nothing == [k \in Nodes |-> None]
NoFiber == [at |-> "none", gen |-> None, seen |-> Nothing]
Idle == [at |-> "idle", cmd |-> None, slice |-> {}, todo |-> {}, torn |-> Nothing,
         was |-> {}, ok |-> TRUE]

Init ==
  /\ node = [k \in Nodes |->
       [status |-> "pending", gen |-> 1, value |-> None, fref |-> None,
        gate  |-> [g \in Gens |-> "open"],
        scope |-> [g \in Gens |-> "open"],
        ran   |-> [g \in Gens |-> None]]]
  /\ fiber = [d \in Drivers |-> [k \in Nodes |-> NoFiber]]
  /\ drv = [d \in Drivers |->
       IF d = "init" THEN [Idle EXCEPT !.at = "fork", !.slice = Nodes, !.todo = Nodes]
                     ELSE Idle]
  /\ queue = <<>>
  /\ sent = 0 /\ asked = 0 /\ answered = 0 /\ reply = None
  /\ latch = FALSE /\ complete = FALSE

-----------------------------------------------------------------------------
(* The registry.  An off-table transition dies, and bestEffort swallows it.   *)
Table == [pending   |-> {"acquiring", "failed"},
          acquiring |-> {"ready", "failed"},
          ready     |-> {"stopping", "failed", "done"},
          stopping  |-> {"stopped", "failed"},
          failed    |-> {"pending"},
          stopped   |-> {"pending"},
          done      |-> {"pending", "failed"}]

Transition(n, to) == IF to \in Table[n.status] THEN [n EXCEPT !.status = to] ELSE n

Resolve(n, how) ==
  IF n.gate[n.gen] = "open" THEN [n EXCEPT !.gate[n.gen] = how] ELSE n

(* Mutant: the gate is left closed to the dependents.                         *)
MarkReadyOnly(n, v) ==
  LET m == [n EXCEPT !.value = v] IN
  IF n.status \in {"pending", "acquiring", "ready"} THEN [m EXCEPT !.status = "ready"] ELSE m

(* The value is stored before the transition is asserted, the gate after.     *)
MarkReady(n, v) ==
  LET m == [n EXCEPT !.value = v] IN
  IF n.status \in {"pending", "acquiring", "ready"}
    THEN Resolve([m EXCEPT !.status = "ready"], "ok") ELSE m

(* Mutant: the dependents are not told.                                       *)
MarkFailedOnly(n) ==
  LET m == [n EXCEPT !.value = None] IN
  IF "failed" \in Table[n.status] THEN [m EXCEPT !.status = "failed"] ELSE m

MarkFailed(n) ==
  LET m == [n EXCEPT !.value = None] IN
  IF "failed" \in Table[n.status]
    THEN Resolve([m EXCEPT !.status = "failed"], "failed") ELSE m

(* clearAcquireFiberIfEntry.                                                  *)
ClearFiber(n, d, f) ==
  IF f.gen = n.gen /\ n.fref = d THEN [n EXCEPT !.fref = None] ELSE n

(* What the interrupted fiber f leaves behind                                 *)
(* (failIfAcquireInterruptedBeforeReady).                                     *)
FailIfInterrupted(n, f) ==
  IF f.gen = n.gen /\ n.status \in {"pending", "acquiring"} THEN MarkFailed(n) ELSE n

(* interruptAcquire: getAndSet the fiber, interrupt it, wait for its end.     *)
InterruptAcquire(k) ==
  IF node[k].fref = None THEN node[k]
  ELSE FailIfInterrupted([node[k] EXCEPT !.fref = None], fiber[node[k].fref][k])

FibersWithout(k) ==
  IF node[k].fref = None THEN fiber
  ELSE [fiber EXCEPT ![node[k].fref][k] = NoFiber]

ReadyOrTerminal == \A k \in Nodes : node[k].status \in {"ready", "done"}

(* Mutant: the restart does not cascade.                                      *)
SliceOfRoots(roots) == roots

(* downstreamClosure of a set of roots: the least set that holds them and     *)
(* whatever depends on a member.                                              *)
Slice(roots) ==
  {k \in Nodes : \A S \in SUBSET Nodes :
     (roots \subseteq S /\ \A n \in Nodes : Up[n] \cap S # {} => n \in S) => k \in S}

-----------------------------------------------------------------------------
(* doSelectiveRestart begins by draining the slice; teardownKeys alone does   *)
(* for a shutdown.                                                            *)
Drain(d, c, slice, ok) ==
  [Idle EXCEPT !.at = "stop", !.cmd = c, !.slice = slice, !.todo = slice, !.ok = ok]

(* Mutant: a failure is not reported.                                         *)
CompleteOnSuccess(c, ok) ==
  IF c.submitted /\ ok
    THEN answered' = answered + 1 /\ reply' = [cmd |-> c, ok |-> ok]
    ELSE UNCHANGED <<answered, reply>>

(* dispatch hands the exit to whoever submitted the command.                  *)
Complete(c, ok) ==
  IF c.submitted
    THEN answered' = answered + 1 /\ reply' = [cmd |-> c, ok |-> ok]
    ELSE UNCHANGED <<answered, reply>>

(* The end of a command: the loop completes a submission, and goes on; the    *)
(* background task clears its slot.                                           *)
Finish(d, ok) ==
  /\ drv' = [drv EXCEPT ![d] = IF d = "init" THEN [Idle EXCEPT !.at = "ended"] ELSE Idle]
  /\ IF d = "loop" THEN Complete(drv[d].cmd, ok) ELSE UNCHANGED <<answered, reply>>

(* What the interrupted background restart leaves: the scopes it was closing  *)
(* are closed, without the transition to stopped; the acquire fibers it       *)
(* forked run on, for they belong to the supervisor's scope.                  *)
InterruptBg ==
  node' = [k \in Nodes |->
    IF drv["bg"].torn[k] = None THEN node[k]
    ELSE [node[k] EXCEPT !.scope[drv["bg"].torn[k]] = "closed"]]

(* A failed initial acquire closes the supervisor's scope, and everything in  *)
(* it (boot.ts:293).                                                          *)
Alive == drv["init"].at # "dead"
At(d, phase) == Alive /\ drv[d].at = phase
FiberAt(d, k, phase) == Alive /\ fiber[d][k].at = phase

-----------------------------------------------------------------------------
(* publishCommand, submitCommand, the command bridge, notifyWatchFire.        *)
Offer(c) ==
  /\ sent < MaxCommands
  /\ queue' = Append(queue, c)
  /\ sent' = sent + 1
  /\ asked' = IF c.submitted THEN asked + 1 ELSE asked
  /\ UNCHANGED <<node, fiber, drv, answered, reply, latch, complete>>

(* The loop takes the oldest command.                                         *)
Take(c) ==
  /\ At("loop", "idle")
  /\ drv["init"].at \in {"fork", "register"} => drv["init"].at \in EarlyPhases
  /\ queue # <<>>
  /\ c = Head(queue)
  /\ queue' = Tail(queue)
  /\ UNCHANGED <<fiber, sent, asked>>

(* selective-restart.requested, apply.requested with a key, and a submitted   *)
(* stack.restart run inside the loop.                                         *)
TakeRestart == \E c \in Commands :
  /\ Take(c)
  /\ c.tag = "selective" \/ (c.tag = "restart" /\ c.submitted)
  /\ drv' = [drv EXCEPT !["loop"] =
       Drain("loop", c, IF c.tag = "selective" THEN Slice({c.key}) ELSE Nodes, TRUE)]
  /\ UNCHANGED <<node, answered, reply, latch, complete>>

(* A fire-and-forget stack.restart is forked, or skipped when one runs.       *)
TakeBgRestart == \E c \in Commands :
  /\ Take(c)
  /\ c.tag = "restart" /\ ~c.submitted
  /\ drv' = IF drv["bg"].at = "idle"
              THEN [drv EXCEPT !["bg"] = Drain("bg", c, Nodes, TRUE)] ELSE drv
  /\ UNCHANGED <<node, answered, reply, latch, complete>>

(* snapshot.capture and snapshot.restore run the injected handler first.      *)
TakeSnapshot == \E c \in Commands :
  /\ Take(c)
  /\ c.tag \in {"capture", "restore"}
  /\ drv' = [drv EXCEPT !["loop"] = [Idle EXCEPT !.at = "handler", !.cmd = c]]
  /\ UNCHANGED <<node, answered, reply, latch, complete>>

(* apply.requested without a key, codegen.requested.                          *)
TakeApply == \E c \in Commands :
  /\ Take(c)
  /\ c.tag = "apply"
  /\ drv' = [drv EXCEPT !["loop"] = [Idle EXCEPT !.at = "settle", !.cmd = c]]
  /\ UNCHANGED <<node, answered, reply, latch, complete>>

(* handleShutdownRequested, up to the teardown of the whole graph.            *)
TakeShutdown == \E c \in Commands :
  /\ Take(c)
  /\ c.tag = "shutdown"
  /\ latch' = TRUE
  /\ InterruptBg
  /\ drv' = [drv EXCEPT !["bg"] = Idle, !["loop"] = Drain("loop", c, Nodes, TRUE)]
  /\ UNCHANGED <<answered, reply, complete>>

(* handleHardKillRequested: no teardown, the scope's finalizer does it.       *)
TakeHardKill == \E c \in Commands :
  /\ Take(c)
  /\ c.tag = "hardkill"
  /\ latch' = TRUE
  /\ InterruptBg
  /\ complete' = TRUE
  /\ drv' = [drv EXCEPT !["bg"] = Idle, !["loop"] = [Idle EXCEPT !.at = "ended", !.cmd = c]]
  /\ Complete(c, TRUE)

(* Mutant: the keep-alive flag is not looked at.                              *)
HandledByAll(ok) ==
  /\ At("loop", "handler")
  /\ IF ok \/ drv["loop"].cmd.tag = "capture"
       THEN /\ drv' = [drv EXCEPT !["loop"] = Drain("loop", drv["loop"].cmd, Nodes, ok)]
            /\ UNCHANGED <<answered, reply>>
       ELSE Finish("loop", FALSE)
  /\ UNCHANGED <<node, fiber, queue, sent, asked, latch, complete>>

(* The handler of a snapshot command ends; a restore that failed does not     *)
(* drain, a capture that failed converges what it stopped.  planExcluding     *)
(* leaves the keep-alive nodes out; doSelectiveRestart takes the others as    *)
(* roots, and what depends on them with them.                                 *)
Handled(ok) ==
  /\ At("loop", "handler")
  /\ LET cmd == drv["loop"].cmd
         slice == Slice(Nodes \ KeepAlive) IN
     IF ok \/ (cmd.tag = "capture" /\ slice # {})
       THEN /\ drv' = [drv EXCEPT !["loop"] =
                 IF slice = {} THEN [@ EXCEPT !.at = "settle"]
                               ELSE Drain("loop", cmd, slice, ok)]
            /\ UNCHANGED <<answered, reply>>
       ELSE Finish("loop", FALSE)
  /\ UNCHANGED <<node, fiber, queue, sent, asked, latch, complete>>

-----------------------------------------------------------------------------
(* Mutant: only a ready node's scope is closed.                               *)
StopReadyNode(d, k) ==
  /\ At(d, "stop")
  /\ k \in drv[d].todo
  /\ \A j \in drv[d].slice : Level[j] > Level[k] =>
        j \notin drv[d].todo /\ drv[d].torn[j] = None
  /\ LET n == InterruptAcquire(k)
         ready == n.status = "ready" /\ n.scope[n.gen] = "open" IN
       /\ node' = [node EXCEPT ![k] =
            IF ready THEN [Transition(n, "stopping") EXCEPT !.scope[n.gen] = "closing"] ELSE n]
       /\ drv' = [drv EXCEPT ![d].todo = @ \ {k},
                             ![d].torn[k] = IF ready THEN n.gen ELSE None,
                             ![d].was = IF ready THEN @ \cup {k} ELSE @]
  /\ fiber' = FibersWithout(k)
  /\ UNCHANGED <<queue, sent, asked, answered, reply, latch, complete>>

(* Mutant: the levels are closed in any order.                                *)
StopAnyNode(d, k) ==
  /\ At(d, "stop")
  /\ k \in drv[d].todo
  /\ LET n == InterruptAcquire(k)
         mine == n.scope[n.gen] = "open" IN
       /\ node' = [node EXCEPT ![k] = IF mine THEN [n EXCEPT !.scope[n.gen] = "closing"] ELSE n]
       /\ drv' = [drv EXCEPT ![d].todo = @ \ {k},
                             ![d].torn[k] = IF mine THEN n.gen ELSE None]
  /\ fiber' = FibersWithout(k)
  /\ UNCHANGED <<queue, sent, asked, answered, reply, latch, complete>>

(* teardownNode, up to the close of the scope: a level starts when the ones   *)
(* above it are closed.  A scope somebody else has closed needs no wait.      *)
StopNode(d, k) ==
  /\ At(d, "stop")
  /\ k \in drv[d].todo
  /\ \A j \in drv[d].slice : Level[j] > Level[k] =>
        j \notin drv[d].todo /\ drv[d].torn[j] = None
  /\ LET n == InterruptAcquire(k)
         ready == n.status = "ready"
         m == Transition(n, "stopping")
         mine == n.scope[n.gen] = "open" IN
       /\ node' = [node EXCEPT ![k] =
            IF ready /\ mine THEN [m EXCEPT !.scope[m.gen] = "closing"]
            ELSE IF ready THEN Transition(m, "stopped")
            ELSE IF mine THEN [n EXCEPT !.scope[n.gen] = "closing"]
            ELSE n]
       /\ drv' = [drv EXCEPT ![d].todo = @ \ {k},
                             ![d].torn[k] = IF mine THEN n.gen ELSE None,
                             ![d].was = IF ready /\ mine THEN @ \cup {k} ELSE @]
  /\ fiber' = FibersWithout(k)
  /\ UNCHANGED <<queue, sent, asked, answered, reply, latch, complete>>

(* The finalizers of the scope have run.                                      *)
Closed(d, k) ==
  /\ At(d, "stop")
  /\ drv[d].torn[k] # None
  /\ LET n == [node[k] EXCEPT !.scope[drv[d].torn[k]] = "closed"] IN
     node' = [node EXCEPT ![k] = IF k \in drv[d].was THEN Transition(n, "stopped") ELSE n]
  /\ drv' = [drv EXCEPT ![d].torn[k] = None]
  /\ UNCHANGED <<fiber, queue, sent, asked, answered, reply, latch, complete>>

(* Mutant: the finalizers are not waited for.                                 *)
TornDownEarly(d) == At(d, "stop") /\ drv[d].todo = {}

TornDown(d) ==
  At(d, "stop") /\ drv[d].todo = {} /\ \A k \in Nodes : drv[d].torn[k] = None

(* Mutant: nobody resolves shutdownComplete.                                  *)
DrainedOnly(d) ==
  /\ TornDown(d)
  /\ drv' = [drv EXCEPT ![d] =
       IF drv[d].cmd.tag = "shutdown" THEN [Idle EXCEPT !.at = "ended", !.cmd = drv[d].cmd]
                                      ELSE [@ EXCEPT !.at = "reset", !.todo = drv[d].slice]]
  /\ UNCHANGED <<node, fiber, queue, sent, asked, answered, reply, latch, complete>>

(* The drain is over: reset the slice, or release who awaits the shutdown.    *)
Drained(d) ==
  /\ TornDown(d)
  /\ IF drv[d].cmd.tag = "shutdown"
       THEN /\ complete' = TRUE
            /\ drv' = [drv EXCEPT ![d] = [Idle EXCEPT !.at = "ended", !.cmd = drv[d].cmd]]
            /\ Complete(drv[d].cmd, TRUE)
       ELSE /\ drv' = [drv EXCEPT ![d].at = "reset", ![d].todo = drv[d].slice]
            /\ UNCHANGED <<answered, reply, complete>>
  /\ UNCHANGED <<node, fiber, queue, sent, asked, latch>>

(* resetForRestart, in forward order: a new gate and a new scope, and the     *)
(* status set to pending whatever it was.                                     *)
Reset(d, k) ==
  /\ At(d, "reset")
  /\ k \in drv[d].todo
  /\ \A j \in drv[d].todo : Level[j] >= Level[k]
  /\ node[k].gen < MaxGen
  /\ node' = [node EXCEPT ![k] =
       [InterruptAcquire(k) EXCEPT !.status = "pending", !.value = None, !.gen = @ + 1]]
  /\ fiber' = FibersWithout(k)
  /\ drv' = [drv EXCEPT ![d].todo = @ \ {k},
                        ![d].at = IF drv[d].todo = {k} THEN "fork" ELSE @]
  /\ UNCHANGED <<queue, sent, asked, answered, reply, latch, complete>>

-----------------------------------------------------------------------------
(* acquireKeys reads the entries of its keys and forks a fiber for each; the  *)
(* initial acquire looks at the latch first.                                  *)
Fork(d) ==
  /\ At(d, "fork")
  /\ IF d = "init" /\ latch
       THEN /\ drv' = [drv EXCEPT ![d] = [Idle EXCEPT !.at = "ended"]]
            /\ UNCHANGED fiber
       ELSE /\ drv' = [drv EXCEPT ![d].at = "register", ![d].todo = drv[d].slice]
            /\ fiber' = [fiber EXCEPT ![d] = [k \in Nodes |->
                 IF k \in drv[d].slice
                   THEN [NoFiber EXCEPT !.at = "forked", !.gen = node[k].gen]
                   ELSE @[k]]]
  /\ UNCHANGED <<node, queue, sent, asked, answered, reply, latch, complete>>

(* Mutant: the fiber takes the entry it finds, not the one it was forked for. *)
RegisterAny(d, k) ==
  /\ At(d, "register")
  /\ k \in drv[d].todo
  /\ drv' = [drv EXCEPT ![d].todo = @ \ {k},
                        ![d].at = IF drv[d].todo = {k} THEN "await" ELSE @]
  /\ node' = [node EXCEPT ![k].fref = d]
  /\ fiber' = [fiber EXCEPT ![d][k].at = "waiting",
       ![d][k].gen = node[k].gen,
       ![d][k].seen = [u \in Nodes |-> IF u \in Up[k] THEN node[u].gen ELSE None]]
  /\ UNCHANGED <<queue, sent, asked, answered, reply, latch, complete>>

(* setAcquireFiberIfEntry: a fiber whose entry was replaced meanwhile is      *)
(* interrupted; another goes on to await the gates of its upstreams.          *)
Register(d, k) ==
  /\ At(d, "register")
  /\ k \in drv[d].todo
  /\ drv' = [drv EXCEPT ![d].todo = @ \ {k},
                        ![d].at = IF drv[d].todo = {k} THEN "await" ELSE @]
  /\ IF fiber[d][k].gen = node[k].gen
       THEN /\ node' = [node EXCEPT ![k].fref = d]
            /\ fiber' = [fiber EXCEPT ![d][k].at = "waiting",
                 ![d][k].seen = [u \in Nodes |-> IF u \in Up[k] THEN node[u].gen ELSE None]]
       ELSE /\ fiber' = [fiber EXCEPT ![d][k] = NoFiber]
            /\ UNCHANGED node
  /\ UNCHANGED <<queue, sent, asked, answered, reply, latch, complete>>

Gate(f, u) == node[u].gate[f.seen[u]]

(* The rest of a step of fiber (d, k) that ends it.                           *)
EndFiber(d, k, n, at) ==
  /\ node' = [node EXCEPT ![k] = ClearFiber(n, d, fiber[d][k])]
  /\ fiber' = [fiber EXCEPT ![d][k] = [NoFiber EXCEPT !.at = at]]

(* Mutant: the upstreams are not awaited.                                     *)
BeginAtOnce(d, k) ==
  LET f == fiber[d][k] IN
  /\ FiberAt(d, k, "waiting")
  /\ LET n == Transition(node[k], "acquiring") IN
     IF \E u \in Up[k] : node[u].value = None
       THEN EndFiber(d, k, n, "died")
       ELSE /\ node' = [node EXCEPT ![k] = [n EXCEPT !.ran[f.gen] =
                 [u \in Nodes |-> IF u \in Up[k] THEN node[u].value ELSE None]]]
            /\ fiber' = [fiber EXCEPT ![d][k].at = "starting"]
  /\ UNCHANGED <<drv, queue, sent, asked, answered, reply, latch, complete>>

(* Every upstream gate is ok: claim the node, read the dependencies and start *)
(* in the scope of the entry.  A reader that finds no value throws.           *)
Begin(d, k) ==
  LET f == fiber[d][k] IN
  /\ FiberAt(d, k, "waiting")
  /\ \A u \in Up[k] : Gate(f, u) = "ok"
  /\ LET n == Transition(node[k], "acquiring") IN
     IF \E u \in Up[k] : node[u].value = None
       THEN EndFiber(d, k, n, "died")
       ELSE /\ node' = [node EXCEPT ![k] = [n EXCEPT !.ran[f.gen] =
                 [u \in Nodes |-> IF u \in Up[k] THEN node[u].value ELSE None]]]
            /\ fiber' = [fiber EXCEPT ![d][k].at = "starting"]
  /\ UNCHANGED <<drv, queue, sent, asked, answered, reply, latch, complete>>

(* An upstream failed: the node fails with it.                                *)
UpstreamFailed(d, k) ==
  LET f == fiber[d][k] IN
  /\ FiberAt(d, k, "waiting")
  /\ \E u \in Up[k] : Gate(f, u) = "failed"
  /\ EndFiber(d, k, MarkFailed(node[k]), "none")
  /\ UNCHANGED <<drv, queue, sent, asked, answered, reply, latch, complete>>

(* start succeeds.                                                            *)
Started(d, k) ==
  LET n == MarkReady(node[k], fiber[d][k].gen) IN
  /\ FiberAt(d, k, "starting")
  /\ EndFiber(d, k, IF k \in Tasks THEN Transition(n, "done") ELSE n, "none")
  /\ UNCHANGED <<drv, queue, sent, asked, answered, reply, latch, complete>>

(* start, or the dispatch of the contributions, fails.                        *)
StartFailed(d, k) ==
  /\ k \in MayFail
  /\ FiberAt(d, k, "starting")
  /\ EndFiber(d, k, MarkFailed(node[k]), "none")
  /\ UNCHANGED <<drv, queue, sent, asked, answered, reply, latch, complete>>

(* start throws: matchEffect does not see a defect, so the node keeps its     *)
(* status and its gate.                                                       *)
StartDied(d, k) ==
  /\ k \in MayDie
  /\ FiberAt(d, k, "starting")
  /\ EndFiber(d, k, node[k], "died")
  /\ UNCHANGED <<drv, queue, sent, asked, answered, reply, latch, complete>>

-----------------------------------------------------------------------------
Acquired(d) == At(d, "await") /\ \A k \in drv[d].slice : fiber[d][k].at = "none"

(* All fibers ended without a defect.                                         *)
Converged(d) ==
  /\ Acquired(d)
  /\ IF drv[d].ok
       THEN /\ drv' = [drv EXCEPT ![d].at = "settle"]
            /\ UNCHANGED <<answered, reply>>
       ELSE Finish(d, FALSE)
  /\ UNCHANGED <<node, fiber, queue, sent, asked, latch, complete>>

(* A fiber died: the defect passes through acquireKeys, which waits no        *)
(* longer.  dispatch catches it for a submission only: otherwise the loop is  *)
(* dead, as is the initial acquire.                                           *)
Defect(d) ==
  /\ At(d, "await")
  /\ \E k \in drv[d].slice : fiber[d][k].at = "died"
  /\ IF d = "bg" \/ (d = "loop" /\ drv[d].cmd.submitted)
       THEN Finish(d, FALSE)
       ELSE /\ drv' = [drv EXCEPT ![d] = [Idle EXCEPT !.at = "dead"]]
            /\ UNCHANGED <<answered, reply>>
  /\ fiber' = [fiber EXCEPT ![d] = [k \in Nodes |->
       IF @[k].at = "died" THEN NoFiber ELSE @[k]]]
  /\ UNCHANGED <<node, queue, sent, asked, latch, complete>>

(* Mutant: rows that are not ready are overlooked.                            *)
SettleBlindly(d) ==
  /\ At(d, "settle")
  /\ drv' = [drv EXCEPT ![d].at = "hook"]
  /\ UNCHANGED <<node, fiber, queue, sent, asked, answered, reply, latch, complete>>

(* allReadyOrTerminal decides whether the post-acquire hook runs; a snapshot  *)
(* command fails without it.  The initial acquire looks at the latch first.   *)
Settle(d) ==
  /\ At(d, "settle")
  /\ IF ReadyOrTerminal /\ ~(d = "init" /\ latch)
       THEN /\ drv' = [drv EXCEPT ![d].at = "hook"]
            /\ UNCHANGED <<answered, reply>>
       ELSE Finish(d, d = "loop" /\ (drv[d].slice = {}
                                     \/ drv[d].cmd.tag \notin {"capture", "restore"}))
  /\ UNCHANGED <<node, fiber, queue, sent, asked, latch, complete>>

HookSucceeds(d) ==
  /\ At(d, "hook")
  /\ Finish(d, TRUE)
  /\ UNCHANGED <<node, fiber, queue, sent, asked, latch, complete>>

(* A post-acquire task of k fails: runPostAcquireHook marks k failed.  The    *)
(* initial acquire fails, a submission too; elsewhere it is swallowed.        *)
HookFails(d, k) ==
  /\ At(d, "hook")
  /\ node' = IF k = None THEN node ELSE [node EXCEPT ![k] = MarkFailed(@)]
  /\ IF d = "init"
       THEN /\ drv' = [drv EXCEPT ![d] = [Idle EXCEPT !.at = "dead"]]
            /\ UNCHANGED <<answered, reply>>
       ELSE Finish(d, FALSE)
  /\ UNCHANGED <<fiber, queue, sent, asked, latch, complete>>

(* Boot races the initial acquire against the shutdown.                       *)
LoseRace ==
  /\ complete
  /\ drv["init"].at \notin {"ended", "dead"}
  /\ drv' = [drv EXCEPT !["init"] = [Idle EXCEPT !.at = "ended"]]
  /\ UNCHANGED <<node, fiber, queue, sent, asked, answered, reply, latch, complete>>

-----------------------------------------------------------------------------
TakeCommand ==
  \/ TakeRestart \/ TakeBgRestart \/ TakeSnapshot \/ TakeApply
  \/ TakeShutdown \/ TakeHardKill

DriverStep(d) ==
  \/ Drained(d) \/ Fork(d) \/ Converged(d) \/ Defect(d) \/ Settle(d) \/ HookSucceeds(d)
  \/ \E k \in Nodes : \/ StopNode(d, k) \/ Closed(d, k) \/ Reset(d, k) \/ Register(d, k)
  \/ \E k \in MayFailLate : HookFails(d, k)

FiberStep(d, k) ==
  \/ Begin(d, k) \/ UpstreamFailed(d, k) \/ Started(d, k)
  \/ StartFailed(d, k) \/ StartDied(d, k)

HandlerStep == \E ok \in BOOLEAN : Handled(ok)

Next ==
  \/ \E c \in Commands : Offer(c)
  \/ TakeCommand
  \/ HandlerStep
  \/ LoseRace
  \/ \E d \in Drivers : DriverStep(d) \/ \E k \in Nodes : FiberStep(d, k)

Spec == Init /\ [][Next]_vars

(* Effect runs every fiber that can run; handlers, hooks, finalizers and      *)
(* starts end.                                                                *)
Fairness ==
  /\ WF_vars(TakeCommand)
  /\ WF_vars(HandlerStep)
  /\ WF_vars(LoseRace)
  /\ \A d \in Drivers : WF_vars(DriverStep(d)) /\ \A k \in Nodes : WF_vars(FiberStep(d, k))
FairSpec == Spec /\ Fairness

-----------------------------------------------------------------------------
(* Generation g of k holds what its start acquired.                           *)
InUse(k, g) == node[k].ran[g] # None /\ node[k].scope[g] # "closed"

(* An entry is replaced only after its scope was closed, finalizers and all:  *)
(* a restarted plugin never finds what its predecessor acquired               *)
(* (resetForRestart prepares "a previously torn-down entry").                 *)
ClosedBeforeReset ==
  \A k \in Nodes : \A g \in Gens : g < node[k].gen => ~InUse(k, g)

(* What a plugin was started with stays acquired as long as the plugin does:  *)
(* teardown runs against the dependencies, across any overlap of initial      *)
(* acquire, restarts and shutdown.                                            *)
UpstreamsOutlive ==
  \A k \in Nodes : \A g \in Gens : InUse(k, g) =>
    \A u \in Up[k] : node[u].scope[node[k].ran[g][u]] = "open"

(* A plugin shown ready can be depended on, and read by the post-acquire      *)
(* hook: its gate is open to its dependents and its value is there, whatever  *)
(* failed, died, was restarted twice at once or was interrupted.              *)
ReadyIsReadable ==
  \A k \in Nodes : node[k].status \in {"ready", "done"} =>
    node[k].value # None /\ node[k].gate[node[k].gen] = "ok"

AtRest ==
  /\ \A d \in Drivers : drv[d].at \in {"idle", "ended"}
  /\ \A d \in Drivers : \A k \in Nodes : fiber[d][k].at = "none"

(* When nothing moves, a ready plugin was started by the current entry, with  *)
(* the values its dependencies have now, unless they failed since.            *)
FreshAtRest ==
  AtRest /\ ~latch =>
    \A k \in Nodes : node[k].status \in {"ready", "done"} =>
      /\ node[k].value = node[k].gen
      /\ \A u \in Up[k] :
           node[u].value = node[k].ran[node[k].gen][u] \/ node[u].status = "failed"

(* Who awaits the shutdown is released only after every plugin's scope is     *)
(* closed, whatever the initial acquire was doing (shutdown.ts, Bug #13).     *)
ShutdownDrains ==
  complete /\ drv["loop"].cmd.tag = "shutdown" =>
    \A k \in Nodes : \A g \in Gens : ~InUse(k, g)

(* No entry is started twice: the restart of a node whose acquire is in       *)
(* flight interrupts it first (the double acquire of acquire-node.ts:347).    *)
OneStartPerEntry ==
  [][\A k \in Nodes : \A g \in Gens :
       node[k].ran[g] # None => node'[k].ran[g] = node[k].ran[g]
                             /\ \A d \in Drivers : fiber[d][k].at = "waiting"
                                  /\ fiber[d][k].gen = g => fiber'[d][k].at # "starting"]_vars

(* A completion that reports success for a capture or a restore means that    *)
(* every row was ready: never a green dashboard with failed rows              *)
(* (command-loop.ts:285).                                                     *)
HonestReply ==
  [][answered' # answered /\ reply'.ok /\ reply'.cmd.tag \in {"capture", "restore"}
       => ReadyOrTerminal]_vars

(* A live restore leaves a keep-alive plugin running (plugin.ts:166): its     *)
(* scope is not closed on behalf of the command.                              *)
Restores == drv["loop"].cmd # None /\ drv["loop"].cmd.tag \in {"capture", "restore"}
KeepAliveStays ==
  [][Restores => \A k \in KeepAlive : \A g \in Gens :
       node[k].scope[g] = "open" => node'[k].scope[g] = "open"]_vars

(* The dependency graph guarantees that a start finds the values of its       *)
(* upstreams (plugin-registry.ts:66-70).                                      *)
ReadersFindValues ==
  \A d \in Drivers : \A k \in Nodes \ MayDie : fiber[d][k].at # "died"

(* Every submission is answered, and every shutdown that is asked for         *)
(* completes, unless the supervisor is told to stop before it.                *)
Answered ==
  \A n \in 1 .. MaxCommands :
    asked >= n ~> answered >= n \/ latch \/ ~Alive
Asks(tag) == \E i \in DOMAIN queue : queue[i].tag = tag
ShutdownCompletes == Asks("shutdown") ~> complete \/ ~Alive

(* The initial acquire ends, however restarts and shutdown interrupt it.      *)
InitialAcquireEnds == <>(drv["init"].at = "ended")
=============================================================================
