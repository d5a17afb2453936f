# Formal models of devstack's runtime and cctp-kit's transfers

These modules model two parts of this repository that keep state beyond one
process. One is the runtime of `devstack` (`src/packages/devstack`): it locks a stack across processes, registers who supervises
it, resolves a dependency graph of plugins, acquires, tears down and restarts
slices of that graph on command, replaces the whole state of a stack when a
snapshot is restored, takes commands through files, and hands out leases and
ports. The other is the transfer engine of `cctp-kit` (`src/packages/cctp-kit`),
which burns USDC on one chain and claims it on another from browser tabs that come
and go. They are written in TLA+, checked by TLC on small instances, and the
safety of the lock, the roster, the restore, the lease broker and the transfer's
record is proved by TLAPS for every instance.

Paths below are relative to `src/packages/devstack/src/` unless they start with
`src/`; `runtime/` stands for `substrate/runtime/`.

## 1. Inventory

### The system

A *stack* is a tuple of plugins (`plugins/*`: a Sui node, Walrus, Seal, wallets,
host services, ...). `devstack up` supervises one stack in one process. Other
processes (another `up`, `apply`, `snapshot`, `wipe`, `prune`, a dashboard) meet
it through files under the stack root `stacks/<stack>/`:

| file | written by | protected by |
| --- | --- | --- |
| `stack.lock` | `acquireStackLock` | `O_EXCL` creation, reclaim of dead holders |
| `roster.json` | `claim`, `heartbeat`, `release` | `stack.lock`, rename |
| `commands.ndjson`, `events.ndjson` | the command channel | a second lock file (`runtime-control-lock.ts`) |
| the stack root itself | snapshot restore, by stage-and-swap | `stack.lock` (which lies inside it) |
| `snapshots/<id>` | snapshot capture | `stack.lock`, stage-and-swap |

Inside the supervising process Effect fibers share the plugin registry: the
initial acquire, the command loop, the background stack restart, one acquire
fiber per plugin, the heartbeat, and the bridges that feed the command queue.

### Components, their state and what makes them correct

* **Stack lock** (`runtime/cross-process/stack-lock.ts`, `reclaim-stale-file.ts`,
  `liveness.ts`). State: the lock file, and in each contender the body or
  identity it read last. Operations: create exclusively, probe the holder,
  reclaim, time out, release. Hard: every file-system call is a point where
  another process runs; a holder may die with or without a body; a pid may be
  reused. Correct when at most one process holds the lock, a live process's
  file is never taken away, and a dead one's does not block its peers forever.
* **Roster** (`runtime/cross-process/roster.ts`, `cli/wirings/up.ts`). State:
  `roster.json`, one heartbeat fiber per supervisor. Operations: claim with
  sweep, heartbeat, release, withdrawal by a loser. Correct when one process at
  a time supervises, it is listed, nobody else removes it, and no write brings
  back a removed entry.
* **Dependency graph** (`runtime/lifecycle/dep-graph.ts`, `selective-restart.ts`,
  `runtime/reconcile/graph.ts`). Pure: members to nodes, levels, downstream
  closure. Correct when levels follow the dependencies and are as early as they
  allow, cycles and only cycles are refused, slices are what depends on the root.
* **Plugin registry** (`runtime/lifecycle/plugin-registry.ts`,
  `state-machine.ts`, `ready-gate.ts`). State per key: status, ready gate, scope,
  acquire fiber, resolved value. An entry is replaced at each restart.
* **Supervisor** (`runtime/supervisor/*`, `orchestrators/boot.ts`). State: the
  registry, the command queue, the shutdown latch and completion, the slot of
  the background restart. Operations: `acquireKeys`, `acquireNode`,
  `teardownKeys`, `doSelectiveRestart`, the commands, shutdown and hard kill.
  Hard: three drivers act on the same entries, fibers are interrupted between
  any two suspensions, starts fail or throw, post-acquire tasks fail plugins
  others already depend on. Correct when no entry is started twice, a
  dependency outlives its dependents, shutdown drains everything, what is shown
  ready can be depended on, and callers get an honest answer.
* **Command channel** (`runtime/cross-process/command-channel/*`,
  `cli/wirings/up-ipc.ts`, `up.ts`). State: two append-only files, the offset and the
  partial line of each tail, the pending captures. Operations: publish, append
  under a lock, tail, submit, reply, answer a capture from its engine event,
  re-subscribe after a line that does not decode. Hard: readers and
  writers share nothing but the files, a writer may die in the middle of a
  record, two fibers of one `up` may answer the same capture, and an `up` tails
  the commands before its roster claim tells it whether another one supervises the
  stack. Correct when a command runs at most once in each `up`, in none that came after it
  was sent, the reply is found and honest, and what the `up` that holds the claim reads
  it answers.
* **Stage-and-swap** (`runtime/stage-and-swap`, `runtime/reconcile/fs-plan.ts`).
  State: what is at the target, at the staging and at the backup names. Two
  renames with a gap in between. Correct when the last published tree can
  always be found, and a failure restores what was there.
* **Snapshot restore** (`orchestrators/snapshot/restore.ts`,
  `interrupted-restore.ts`, `service.ts`). State: the stack root, image tags,
  a sentinel in the root. A restore swaps the root, promotes images one by one,
  removes containers, clears the sentinel; the next boot resumes what a kill
  interrupted. Correct when root and images never disagree without the sentinel
  that says so, and recovery repairs without discarding work.
* **Lease broker** (`runtime/lease-broker/service.ts`). State per key: the
  holder and a queue of waiters. Correct when one call has the lease, in the
  order of arrival, and a cancelled waiter neither keeps nor loses it.
* **Port broker** (`runtime/port-broker/service.ts`). State: a map of ports per
  process and a reservation file per port. Correct when a port that was given
  out stays reserved, and nothing is reserved that nobody has.
* **Subnet broker, cache, atomic write** (`runtime/subnet-broker.ts`, `cache`,
  `atomic-write.ts`). A second reservation scheme, a cache of directories
  published by rename, and the write primitives of the others.
* **Router, code generation, prune, projection, observability, docker runtime,
  surfaces, api, contracts, build integrations**: wiring, rendering or adapters;
  see `PROJECT.json` for each.
* **Transfer engine of cctp-kit** (`src/packages/cctp-kit/src/core/transfer.ts`,
  `core/index.ts`, `engine/*`). State: a record per transfer in the site's storage, a
  lease key beside it, and in each page a run with its own copy of the record.
  Operations: burn, wait for the attestation while watching the source chain, have a
  sponsor claim or claim with the wallet, resume, settle, remove. Hard: money moves
  at a step whose answer may never arrive, tabs share nothing but the storage, chains
  and services answer late or wrongly, a page may be frozen or torn down inside any
  await. Correct when a transfer burns once, its burn is never forgotten, it is
  pursued to its attestation, nothing is called complete that is not claimed, and no
  wallet opens unasked.
* **Other packages** of the repository: `dev-wallet`, `walrus-console-mcp` (with its
  own file lock and atomic write), `create-devstack-app`, the dashboard, docs and
  examples. They are independent of the above and not modelled.

### How the modelled parts meet

```
 up --claim/heartbeat/release--> Roster --withStackLock--> StackLock
 up --boot--> Supervisor --resolveGraph/downstreamClosure--> DepGraph
                   |--entries, gates, scopes--> plugin registry (in Supervisor)
 dashboard, signals, watcher --publishCommand/submitCommand--> Supervisor's queue
 other processes --CommandChannel (files)--> up-ipc --runCommand--> Supervisor's queue
 up --beforeInitialAcquire--> SnapshotRestore (recovery) --EXTENDS--> StageAndSwap
 snapshot.restore (live: Supervisor's handler) --> SnapshotRestore
 plugins --acquire--> LeaseBroker, PortBroker

 pages --runTransfer, lease, storage--> CctpTransfer   (chains, Circle, sponsor: external)
```

`Roster` takes the lock as exclusive; `StackLock` says, and its finding
qualifies, when it is. `Supervisor` takes a graph whose levels agree with its
edges (`SupervisorAssumption`) and computes slices as downstream closures; the
run of `DepGraph` shows that `resolveGraph` and `downstreamClosure` deliver both, and
`LevelsAreSound` and `SlicesAreDownstream` prove it for graphs of any size.
`SnapshotRestore` takes restores in turns, which `stack.lock` is for, and lets a
peer that did not get it trespass into the gap; the control lock of the command
channel is the same code as `stack.lock` and taken as exclusive. What a snapshot
command does inside `Supervisor` is a handler that succeeds or fails;
`SnapshotRestore` is that handler.

## 2. The modules

| module | what it is |
| --- | --- |
| `StackLock`, `StackLock_proofs` | the lock, one action per file-system call; its theorems |
| `DepGraph` | `resolveGraph` and `downstreamClosure`, step by step |
| `Supervisor`, `Supervisor_proofs` | registry, acquire, teardown, restart, command loop, shutdown; its theorems |
| `Roster`, `SingleSupervisor`, `Roster_proofs` | the roster protocol of `up`, what it promises abstractly, its theorems with the refinement |
| `StageAndSwap` | `stageAndSwap`, one action per file-system call; also the abstract specification of the swap inside a restore |
| `SnapshotRestore`, `SnapshotRestore_proofs` | `runRestore` and the recovery of a boot, over `StageAndSwap`; the theorems of both |
| `CommandChannel`, `RequestReply`, `CommandChannel_proofs` | the two files and their users; what publishers are promised; the theorems with the refinement |
| `LeaseBroker`, `FifoQueue`, `LeaseBroker_proofs` | the leases of one key; the line they implement; the theorems |
| `PortBroker` | the attempts of several processes on one port |
| `GraphPorts_proofs` | the theorems of `DepGraph` and of `PortBroker`, two parts that share nothing |
| `CctpTransfer`, `CctpTransfer_proofs` | one transfer of cctp-kit, driven from several pages; its theorems |
| `MCStackLock`, `MCSupervisor`, `MCSnapshotRestore`, `MCCommandChannel`, `MCCctpTransfer` | instances for TLC |
| `MCLockPorts`, `MCRosterLeases` | instances of two and of three modules that share nothing, side by side: a behaviour is one of one of them |

The `map` of `PROJECT.json` gives for each definition the lines it translates.
Operators whose comment starts with "Mutant:" are not part of a specification:
each is a plausible bug of the definition after it, and documents which
property would notice it.

### StackLock

`file` is what lies at the path: an identity, an owner, whether the body has
been flushed (`parses`) and whether its mtime is outside the staleness window
(`old`). `pc` follows `acquireStackLock`: `attempt` (the O_EXCL create of
`tryAcquireSync`), `writing` (the file exists, its body not), `held`, `read`
(EEXIST: read the body), `probe` and `unlinkDead` (the dead-holder branch), and
`stat`, `parse`, `restat`, `reread`, `unlinkStale` (the calls of
`reclaimUnparseableStaleFile`). Each call is a step; synchronous JavaScript
protects a sequence of calls from the own process only. `Crash` may hit anywhere.
`clobbered` is a history variable: some unlink removed a file that was not the one
its decision was about. Backoff and elapsed time are the choice between `Retry`
and `TimeOut`.

### DepGraph

A member is known by its position, the resource it provides is `id`. `Index`,
`Link`, `Peel`, `Trap`, `Resolve` are the phases of `resolveGraph`, with `indegree`
decremented as the code does; `StartWalk`, `Visit`, `EndWalk` are the breadth-first
walk of `downstreamClosure` (its queue is a set, since the closure does not depend
on the order). Initial states are all tuples of members over the ids. What the
levels and slices are checked against is a definition that iterates nothing:
`Before(m, n)` says that `n` is in every set that holds `m`'s dependents and theirs.

### Supervisor

`node[k]` is the registry's entry of a key. Entries are numbered (`gen`); gates
and scopes are kept per generation because old ones stay referenced by fibers and
teardowns; `ran[g]` says which values the start of generation `g` has read.
`fiber[d][k]` is the acquire fiber a driver forked last. `drv[d]` is where the
three drivers are: the initial acquire (`init`), the command loop (`loop`) and the
background stack restart (`bg`). A restart passes through `stop` (`teardownKeys`,
level by level, scopes closed by finalizers that take time), `reset`
(`resetForRestart` in forward order), `fork` and `register` (the two halves of
`acquireKeys`, between which an entry may be replaced), `await`, `settle`
(`allReadyOrTerminal`) and `hook` (the post-acquire hook). The ways a start ends
are `Started`, `StartFailed` and `StartDied` (a thrown defect, which `matchEffect`
does not see).

Abstractions: the interruption of a fiber and the end of its interrupt handler are
one step, since the interrupter waits for it; closing a scope that another fiber is
closing or has closed returns at once; finalizers, handlers, hooks and starts end;
the supervisor scope's own finalizer, after `shutdownComplete`, is not modelled;
commands that change no registry state (`snapshot.list`, `snapshot.delete`, wipe,
prune, `advance-clock`, `stack.start`) are left out. `apply.requested` with a key
is a selective restart and is not told apart from it.

### Roster and SingleSupervisor

A mutation is `Lock`, `Read` (with the sweep when it is a claim), `WriteClaim`,
`WriteBeat` or `WriteRelease`, and `Unlock`, after which `op` decides how the
process goes on: the sole holder is `up`, another claimer withdraws its entry and is
refused. `ShutDown` interrupts a heartbeat wherever it is, and the release
follows. `Crash` leaves lock file and entry behind. `Twins` are processes that run
under the pid of an earlier one while no start-time stamp tells them apart: then
`checkHolderLiveness` takes the earlier one for alive and `isOwnEntry` its entry for
one's own. A process that restarts is another member of `Procs`. An interrupt
between the claim's write and `addFinalizer` has the effect of a crash: the entry
stays. `setIntent` has no caller and is left out. A process killed between the creation of
its lock file and the write of its body leaves a lock (`torn`) that is freed only when it
is 30 seconds old, while a claimer waits for five: `Free` lets nobody by, and
`LockFails` is what its peers' waits come to. A roster that does not decode would be read as
an empty one (`roster.ts:209`); no step of the protocol leaves one, since the document
is renamed into place.

`SingleSupervisor` has one variable, the set of supervising processes: a process
enters when it is empty, and leaves. `ImplementsSingleSupervisor` is the
refinement, with a process supervising from the unlock after its claim to the
removal of its entry.

### StageAndSwap and SnapshotRestore

A tree has a body, says whether the preserved paths (`snapshots/` above all) are in
it (`kept`) and whether it is all there (`whole`: a copy that fails half-way, or a
build over leftovers, is not). `target`, `staging[id]` and `backup[id]` are what is
at the paths; besides trees there may be an empty directory, which a rename
replaces, and `Litter`, which it does not. `at` follows the call: `prepare`,
`build`, `lock`, `backup`, `preserve`, `promote` (and `copy` for EXDEV), `reap` and
`putback` (the rollback), `drop` and `dropping` (the backup is removed file by
file), `published` or `failed`. Every call may fail (`Fault`, bounded by
`MaxFaults`), and swallowed failures are swallowed here. `Gap` is where the target
is away; a peer's `mkdir -p` and file come there (`Trespass`). `stake` is a history
variable: the last tree published at the target or written to there.

`SnapshotRestore` puts a root into the target whose body says from which snapshot
it is, what was done in it since (`work`) and whether it carries the sentinel
(`mark`). `step` follows `runRestore`: `untar`, `load`, `mark`, `swap`, the
promotion of the images one by one, the removal of the containers, `clear`. `Kill`
hits anywhere; `Resume` and `Boot` are what `beforeInitialAcquire` does then. The
checks before the first mutation (identity, integrity, graph input, cache,
artifact) are a refusal that changes nothing: `Begin` is a restore that passes
them. Images and containers of the engine survive a kill; staging tags are
orphaned by it. Not modelled: the pre-seed of code generation, and `fs.exists`
failing (which the code reads as "there is no target").

### CommandChannel and RequestReply

A record is two halves, so that an append may be torn; a line decodes if it is one
whole record. Offsets are positions in the sequence of halves. `writer` is who holds
the control lock in the middle of an append. A publisher takes the size of the
events file, appends, and waits; `Visible` is what a tail from its offset decodes.

`up[u]` is one `devstack up`, from `Boot` (`up.ts:384`: the bridge is installed) over
`Claim` (`:388`: held, or refused, whereupon the scope of the `up` is closed) to `End`.
Between the two its tail and its command loop run already, so two `up`s of one stack may
both take a command. Its tail is `pos`, `partial` and `batch`; `Poll` may read short. A
line that does not decode fails the tail (`mode = "pause"`), and `Resume` anchors at
the current end, which skips what was appended in between, as the code says it does.
`doing` follows `consumeCommands`, which handles one record at a time: `runCommand` is
`submitCommand`, so it awaits the end of the command in the loop. For a capture the loop
runs the handler (`CaptureEnds`, which publishes the engine event), starts the stack
again (`converge`), and only then does `runCommand` return or fail (`CaptureReturns`);
its `catchCause` is `Drain`. The second fiber is the tee of engine events into
`publishEvent` (`hub`, `routing`, `RouteOn`): it is forked after the claim, appends the
event, and answers the capture if it is still in `pending`. The two race. Which payloads are
no `EngineCommand`, and are refused, is left open: `Take` may refuse any but a capture.
Ends of an `up` and append failures are bounded together by `MaxTroubles`, the `up`s by
`Ups`; publishers in `Mortal` may be killed in the middle of an append.

`RequestReply` is the promise: at most one run per command and `up`, only in an `up` that
tailed the commands when the command was appended (`addressed`), none after the publisher
was told "unsent", "done" only of what ran and succeeded somewhere. "failed" promises nothing
about the run: an ack that cannot be appended is reported as a failed command, and so is
a capture whose stack did not start again. "done" of a capture says that it was captured: it
is told on the event, before the stack is started again.

Abstractions: a command's own end is a choice, and what it does is `Supervisor`'s. A
submission queued behind a shutdown is not completed by the loop (see `Answered`); here
that is a command that lasts until its `up` ends, which fairness rules out for the others.
`snapshot.captureSkipped` has a reply and no sender in `devstack up`; a capture without
a snapshot id, which the CLI never sends, would be answered as any other command; and
a handler that ends in interruption only publishes no event, which happens when the `up` itself
ends.

### LeaseBroker, FifoQueue and PortBroker

One key, one action per update of the `Ref` or resumption of a fiber. An interrupt
between promotion and wake-up is `Interrupt`, `Check` (`cleanupCancelledWait`), and
then a release or a removal. Effect yields between two operators only when a fiber
has run long; `Preempted` names the calls whose clean-up is split by such a yield.
`FifoQueue` is a line one joins at the end and may leave anywhere.

`PortBroker` has `slot` (the in-process map), `file` (the reservation, created by
link) and the attempt of each allocation from `TryReserve` to `RemoveReservation`.
Reading and unlinking are separate steps, since another process may act in between;
the steps of one process between two suspensions are interleaved with those of its
other fibers as well, which only adds behaviours. `Unnoted` names the allocations
whose fiber yields between the link and the assignment of `reservationCell`.
`Listen` is the caller's server: the kernel lets one bind.

### CctpTransfer

Paths in this section are relative to `src/packages/cctp-kit/src/`. `stored` is the
record in storage, `lease` the key beside it; a page is at one await (`at`), with the
copy of the record its run works on (`copy`) and the way it began (`how`): `load` and
`stop` are runs with `stopAfterAttestation` (`load` nobody asked for), `press` is a
claim, `auto` walks through. A step is what happens between two awaits: `AtStart`,
`AtAttest`, `AtClaim` and `ToMint` compute the record and the next await as
`runTransfer` does, `Await` writes it through `onUpdate`, `End`, `Stop` and `Fail` are the
ways a run ends in `execute`. `SendBurn` and `SendClaim` are the moments the chain
takes a transaction, `RecordBurn` and `RecordClaim` the page learning of it, so that a
page may go away in between. `Heeds` names the awaits that end with the signal; a run
in any other one goes on until the next look at it (`aborted`). `chain` is what became
of each burn, `spent` the messages that are claimed; both are right, and what a page
reads of them may be old: a nonce that is used may be read as unused, a Solana burn
that landed as expired. A burn that is sped up is mined under another hash (`Settle`):
a wait for its receipt that has fetched the first transaction and reads the block sees it
(`replaced`, from where `ChainConfirms` takes the hash over and `ChainSilent` loses it again);
a wait that begins later never does, and Circle attests nothing for the hash on record.
`lost` is a history variable: a run went on without its lease (its page was frozen inside an
await that does not heed the signal, or slept until the lease lapsed), or a burn went out that
no page heard of (the page left, or the wallet erred after it had sent: `BurnUnheard`).
The user can still import such a burn by its hash.

Abstractions: amounts, fees and addresses; a burn is a model value, sped up or as it was
sent; the approval of EVM and the token account of Solana are one await each, and the
balance checks ways to fail; the time a lease lasts is `Lapse`, which for a live page is
a mishap; `retrySponsor`'s wait is any wait. The two tabs see each other's writes
at once, as the storage of one origin gives them.

## 3. Runs

Bounds are named in the `.cfg` files and in the CONSTANTS that say `BOUND`.

| run | shows | bounds |
| --- | --- | --- |
| `lock_ports` | `ExclusionUnlessClobbered`, `OnlyOrphansAreReclaimed`, and `OrphanIsReclaimed` (liveness); a reserved port stays reserved and is given back | the lock: 3 processes, two may be killed, one pid recycled, one write may fail, 4 file identities; the port: sets of 3 allocations in 2 or 3 processes, one mortal, a garbage file at the start or not |
| `stack_lock_exclusion` | **violated**: `MutualExclusion` | 3 processes, one killed |
| `supervisor_restart` | closing, order, freshness, shutdown, one start per entry | chain of 3, 2 commands, starts of `a` may fail, commands from the `register` phase on |
| `supervisor_snapshot` | captures and restores with a keep-alive plugin; answers, shutdown, end of the initial acquire (liveness) | `b` needs `a` and the keep-alive `c`, starts of `a` may fail, 2 commands |
| `supervisor_chaos` | `ReadyIsReadable` | pair, failing, throwing and late failing plugins, background restart, hard kill |
| `supervisor_keepalive` | **violated**: `KeepAliveStays` | a keep-alive plugin with a dependency, one restore |
| `roster_leases` | the roster's action properties, its refinement and `EntryIsRemoved` (liveness); a lease is a line (refinement) and is served (liveness); levels, cycles, slices | 3 processes, 2 killed, one recycled pid, one with failing I/O; 4 calls of 2 owners, one preempted; the tuples of 3 members over 4 ids, up to names |
| `snapshot_restore` | nothing lost, failures restore, torn roots are marked and repaired (liveness), the refinement | 2 snapshots, 2 images, 2 restores, 1 kill, 2 failing calls or trespasses |
| `snapshot_recovery` | **violated**: `RecoveryIsRepeatable` | the same, without failing calls |
| `command_channel` | replies found and honest, the refinement, what is read is answered (liveness) | 2 publishers and one `up`, or one publisher and 2 `up`s (the casts of `MCCommandChannel`); one publisher captures, one is mortal, one impatient; one append failure or end of an `up` |
| `cctp_transfer` | a transfer burns once, keeps its burn, is complete only when claimed, opens no wallet unasked, and a mined burn is pursued (liveness) | 2 pages, 2 burns, 1 mishap; routes out of Sui, from EVM claimed by hand, from Solana fast with a sponsor |
| `cctp_reload` | **violated**: `FoundBurnIsFollowed` | 1 page, 1 burn, 1 mishap, from EVM |

Why the bounds are enough. A clobber of the lock needs a dead owner and two
reclaimers; the third process is what lets an unlink hit a live holder's file. The
file identities suffice when a fresh one exists at every create, which `FreshIds`
guarantees for as many as there are decisions outstanding plus one. Three members
make every acyclic shape of three nodes, self-dependencies and cycles of length up
to three. A slice of a chain of three has something above it and something below it;
two commands are what it takes to overlap a restart with another, with the
initial acquire and with a shutdown; `MaxGen` is `MaxCommands + 1`, so that no
restart is held back by it. In the roster, three processes are a supervisor, its
successor and a competitor; the successor may reuse the pid. A second restore meets
the leftovers of the first, under the same name or another; one kill and two faults
make a restore fail, its rollback fail, and a boot in between; two images are what a
kill can come between. In the channel the second publisher is before or after a
torn record or a long capture, and the second `up` comes too early or takes over. The safety
properties and the invariant of the proofs are for any number of both. In a lease's queue the fourth call is behind one that is promoted while
it is cancelled; on a port, the third allocation is the peer that links between a
peer's decision and its unlink. A transfer needs a second page to take it over, and a
second burn to be the one too many; one mishap is what separates the two; with `Mishaps = 2` the
safety properties hold as well (5.6 million states, too many for a routine run). The three
routes have each ecosystem as the source, both sides as the destination, a claim by
hand, an expiring message and a sponsor.

Deadlock is not checked where a run ends by design: a graph is resolved, a
supervisor has shut down or has no more commands, all processes have left, all
restores or commands of the bound are used up, a transfer is complete. It is checked
for the stack lock, which always goes on; allocations that are used up may stutter.

Type invariants without a run of their own are conjuncts of the inductive
invariants (`LockInv`, `RosterInv`, `SwapInv`, `RestoreInv`, `LeaseInv`, `PortInv`, `GraphInv`,
`TransferInv`, `ChannelInv`, `RegistryInv`) that the proofs below establish.

### What the violations say

1. `MutualExclusion` (`stack-lock.ts:219`): after a crash under the lock, two
   peers read the dead holder's body. The first unlinks, creates and holds; the
   second unlinks that new file. The unlink is by path, the decision was about a
   file. The unparseable branch has a re-stat guard for this case; the dead-holder
   branch has none because "a dead holder cannot have written a fresh body"; its
   peer has.
2. `KeepAliveStays` (`command-loop.ts:250`, `selective-restart.ts:49`): the slice
   without keep-alive plugins is closed downstream again, so a keep-alive plugin
   with a dependency, as a host service with `after`, is torn down by the restore.
3. `RecoveryIsRepeatable` (`stage-and-swap/index.ts:336`, `:409`): a kill while the
   backup `.bak.<id>` is removed leaves a directory of that name and a root with its
   sentinel. Each boot resumes the restore of the same id, whose first rename cannot
   replace that directory; nothing removes it, since only staging is pre-cleaned. The
   stack stays half restored until somebody deletes the directory or restores
   another snapshot; `interrupted-restore.ts:35` calls the recovery idempotent.
4. `FoundBurnIsFollowed` (`core/transfer.ts:467`, `engine/evm.ts:167`): an EVM burn that was
   sped up in the wallet and mined while no page was open is looked for under its first
   hash for ever. The record stays `attesting` until the user imports the burn by its other hash.

Reachable in the models without a run of their own, each by a change of constants:

* In `Supervisor`, a background restart and a selective restart that overlap may
  replace an entry whose scope nobody has closed (`plugin-registry.ts:234`), and
  `ReadersFindValues` fails when a post-acquire task fails a plugin whose gate is
  already open (`MayFailLate = {a}`; `background-tasks.ts:265`). With `MayDie`
  non-empty a throwing start in a fire-and-forget restart ends the command loop:
  `matchEffect` does not see a defect, `acquireKeys` rethrows it
  (`acquire-node.ts:577`), and `dispatch` catches typed failures only
  (`command-loop.ts:348`).
* In `SnapshotRestore`, `KillSparesTheRoot` fails: a kill between the two renames
  leaves no root at all, so the next boot starts over an empty one, with the old
  root under its backup name and nothing that points at it
  (`interrupted-restore.ts:28` says the live root is untouched). `StakeSurvives`
  says that it is there to be found.
* In `StageAndSwap`, `FailureRemovesStaging` fails (`stage-and-swap/index.ts:19`, `:219`):
  only a failing build removes the staging directory. A publish lock that is not acquired
  (`:327`) or a failed rename leaves the staged copy of the stack beside it, until a
  restore of the same snapshot cleans it first.
* In `LeaseBroker`, a clean-up that is preempted between its two updates, with a
  release in between, leaks the lease (`lease-broker/service.ts:187` says it does
  not); the properties except calls in `Preempted`, and `NothingLeaks` is proved
  where there are none.
* In `PortBroker`, an interrupt before `reservationCell` is set leaves the file of a
  live process (`port-broker/service.ts:409` describes this very case as closed),
  and a second release drops the slot of another allocation (`:119` calls it a
  no-op). `NoLeakedReservation` excepts the first, and `HolderIsReserved` shows that
  after the second the file still keeps the port.
* In `CctpTransfer`, a kit torn down while a Sui claim without a sponsor looks up its
  nonce goes on to the wallet: nothing looks at the signal between the two
  (`core/transfer.ts:204` to `:215`), where the sponsored way does (`:747`, "a kit that
  was torn down must not reach it"). A Solana burn writes `burning` after the same kind
  of gap (`:419`). `remove()` of a transfer whose run is inside an await that cannot be
  ended (a wallet) is undone when the answer comes, because `upsert` adds a record it
  does not find (`core/index.ts:787`; `:141` calls the removal permanent), which also
  keeps the hash of a burn that was just sent. A live run whose lease lapses, as a
  background tab's may, can burn beside another page, and so can a retry after a wallet
  that erred once it had sent the burn (`core/transfer.ts:406`; `wallets/solana.ts:76` knows the
  case and keeps the signature when the kit sends by itself): `lost` excepts both from
  `BurnsOnce`.
* In `CommandChannel`, a command runs in two `up`s when the second tails it before its claim
  is refused (`up.ts:384`, `:388`): `ran` may have two members where `addressed` has.
  A kill of an `up`, or a refused claim, leaves what it had in hand unanswered. And
  `RepliesAreDeferred` fails with `MaxTroubles = 0` (`up-ipc.ts:155`, `:191`): the comment
  takes a capture for a background task whose `runCommand` returns at once and whose reply
  waits for its engine event. `runCommand` awaits the capture and the start of the stack
  after it (`start-supervisor.ts:258`, `command-loop.ts:135`), and when either fails its
  `catchCause` answers with an error, perhaps before the tee has published the event; a
  capture that succeeded may be reported as failed. `EveryCommandIsAnswered` holds all the
  same.

### Fairness

* `StackLock`: a live process takes its next step, callers release, a process
  that gave up comes back (the heartbeat does, every ten seconds), time passes.
  Nothing favours a retry over a timeout.
* `Supervisor`: Effect runs each fiber that can run, so weak fairness of every
  driver and every acquire fiber; it is assumed that starts, handlers, hooks and
  finalizers end. A start that hangs inside a command blocks the loop, shutdown
  included: the code has no timeout there, and the model does not pretend one.
* `Roster`: weak fairness of the steps under the lock, strong fairness of `Lock`:
  the lock is held for milliseconds every ten seconds, and a waiter polls at least
  every 200 ms for five seconds; and weak fairness of `LockFails`, since a wait times out.
* `SnapshotRestore`: a restore under way goes on; stacks are shut down and booted
  again and again, which is what the recovery waits for. Neither restores nor kills
  are fair.
* `CommandChannel`: the fibers of an `up` run, commands and captures end, and who
  is in the middle of an append ends it or dies. Nobody is forced to publish, to
  look for a reply in time, to boot or to claim, so `EveryCommandIsAnswered` speaks of
  commands ahead of a running tail, and of commands in hand of an `up` that holds its claim.
* `LeaseBroker`: fibers that can run do, and holders close their scopes.
* `CctpTransfer`: a page's awaits end, the source chain and Circle answer in the end, a
  page that was closed or frozen is opened again, a lease of a dead page runs out, and
  a host that destroyed a kit makes another once the old run has ended. (A kit made
  while that run winds down skips the transfer, as it is in `RUNNING`, and sets no
  timer: only the next load resumes it.) Users owe nothing: no press, approval or
  claim is fair, so `BurnIsPursued` ends at the attestation. No wait is forced to see a burn
  mined under another hash: the property excepts an unseen one (`Unseen`).

`Answered` of the supervisor excepts submissions queued behind a shutdown, which the
loop never takes; the liveness properties except a supervisor whose initial acquire
failed, since boot then closes everything. The model's initial acquire may die when
commands are taken before it has registered its fibers, so `ReadersFindValues` and
the liveness properties are checked with commands taken afterwards
(`EarlyPhases = {}`), and the overlap in `supervisor_restart` and
`supervisor_chaos`.

## 4. Proofs

`tlapm` checks `StackLock_proofs`, `Roster_proofs`, `SnapshotRestore_proofs`,
`LeaseBroker_proofs`, `GraphPorts_proofs`, `CctpTransfer_proofs`, `CommandChannel_proofs`
and `Supervisor_proofs` to the last leaf. Every invariant, action property and
refinement that a passing run checks is stated by a theorem; what remains
model-checked only is liveness.

The theorems hold for any constants; the assumptions are those of the modules'
`ASSUME`s: subsets, model values apart from each other, a finite tuple of members, and
for the roster that a pid is reused only after a process that may die. Theorems that
need more name it in their `ASSUME`: `Supervisor`'s, below, and the crash-free ones.

* `LockInv` is inductive. `MutualExclusion` alone says nothing of processes in the
  middle of a reclaim, so the invariant keeps what each knows: `CreatorsInv` (a
  file still at the path belongs to the process that created it),
  `DeadDecisionInv` (a dead-holder decision names a file of a dead process, if that
  file is still there), `StaleDecisionInv` (the same for the unparseable branch)
  and `OwnersInv` (unless clobbered, whoever writes or holds finds its file).
  `ExclusionUnlessClobbered` follows, since two owners of one file are one process.
  With `CrashFreeInv` on top, no reclaim reaches its unlink where nobody dies,
  hence `CrashFreeExclusion`. `OnlyOrphansGo` is the action property: `PathEmptied`
  names the four steps that empty the path, and a reclaimer's decision says whose
  file it takes.
* `RosterInv` is inductive. That one process supervises needs to know what a writer
  is about to write (`ViewInv`: all running processes of the file), that the lock
  covers read to write (`LockInv`), that supervisors and fresh claimers are in the
  file (`ListedInv`), who else may be (`UnlistedInv`), and that a sole claimer counts
  from its write on (`SoleInv`). `TwinInv` keeps recycled pids from touching live
  entries. The refinement theorem maps each step to `Become`, `Cease` or a stutter.
* `SwapInv` is inductive for `StageAndSwap`: in the gap some backup is the last
  published tree, and the backup that is dropped is one the new target has replaced.
  `RollbackInv` follows one call: until the swap the target is what it found, in the
  gap its backup is, and only a fault leads to the rollback. Both are proved for
  `SwapSpec` action by action; `RestoreImplementsSwap` maps every step of a restore
  to a swap step or a stutter, so the restore inherits them (`RestoreKeepsSwapInv`),
  and with them `StakeSurvives` and `FailureRestores`, without a second proof.
* `RestoreInv` adds what a restore does around the swap: what the sentinel says at
  each step (`StepInv`), that a stack restored in part has one unless its write
  failed (`MarkInv`), and, where no call fails, that a root with new work in it has
  no sentinel that would let a boot resume over it (`WorkInv`).
  `TornStackIsMarked` and `RecoverySparesWork` follow. `WorkInv` needs
  `faults = 0`: a sentinel whose removal failed does outlive the restore it names.
* `LeaseInv` is inductive: one call at most has the lease, awake or not yet
  (`Exclusive`), the queue holds a waiter once (`QueueInv`), who is signalled has left
  it (`SignalInv`), and a lease leaks only from a preempted clean-up (`LeakInv`). The
  refinement maps the call that has the lease and the waiters behind it to the line.
* `PortInv` is inductive. What an allocation has been given rests on its reservation
  from the link on (`Reserved`), and only an unlink could break that. An unlink
  follows a decision about a file read earlier, so the invariant says that the
  holder such a decision names is dead (`DeadDecision`), and stays dead
  (`DeadRest`): whoever loses a file alive is in `lost`. `HolderIsReserved` and
  `NoLeakedReservation` follow. `MoveKeeps` treats every step that leaves the file
  alone, `RemovalKeeps` those that remove it.
* `TransferInv` is inductive. That a transfer shown complete is claimed
  (`CompleteMeansSpent`) cannot be kept without the copies runs work on, since any of
  them may be stored next: `Good` says of every record what the chains must bear out,
  and, since claims only add up, stays true of a stale one. `Fits` says in which await
  a run may be with its record and its beginning, which is what keeps a run nobody
  asked for from a wallet (`UnattendedIsSilent`): it resumes only with a burn on
  record, and where it may reach a claim it has the sponsor's claim pending. The proof
  computes `AtStart`, `AtClaim` and the like once (`SoundAtStart`, ...), shows what each
  way a step can end keeps (`AwaitKeeps`, `EndKeeps`, ...), and goes through the actions.
* `BurnInv` is inductive on top of `TransferInv`, until something is `lost`: one page at
  most runs the transfer and has its lease (`OneRun`); its copy is the record, or all
  there is of it after `remove()`, and names no burn where a wallet may be asked
  (`RunsTidily`); and a burn that was sent is named by the record or by that run, or
  on its way to it from the wallet (`Held`). `TransferBurnsOnce` and
  `TransferKeepsBurn` follow.
* `GraphInv` is inductive for the loop of `resolveGraph`. `CountInv` says what an
  indegree is in the middle of the peeling: the number of upstreams in no level yet;
  it starts right because `id` is a bijection between dependencies and upstreams once
  nothing is a duplicate or unresolved. `LayerInv` keeps the levels disjoint and
  closed under upstreams, `WaitInv` says that who is not settled has an upstream in
  the last level or in none, which makes levels tight (`LevelsAreSound`). When the
  loop stops early, everyone left has an upstream that is left (`EndInv`), and a
  finite set in which each has a predecessor has a cycle: `TrappedInCycle` takes the
  member with the fewest of the trapped before it, by well-foundedness of strict
  inclusion, so `CyclesAreReported` needs no induction over paths. `WalkInv` says that
  the queue is what the walk still owes, hence `SlicesAreDownstream`.
* `ChannelInv` is inductive. A record is torn or whole by its halves: the last half of
  a command is in the file at most once, and only after its append (`SentInv`). Per `up` (`UpInv`): what lies
  behind its tail or is in its batch has not run there, the batch names no command
  twice (`TailInv`, `BatchInv`, `LoopInv`), and whatever it may still read was appended while it
  tailed (`AddressedInv`), so a command cannot run twice in one `up`, nor in one that
  came later; what the tee has in hand is the event of a capture that ended (`RouteInv`). A
  reply tells the outcome and lies behind the offset its publisher took before it sent
  (`ReplyInv`). Decoding is a choice of the halves that end a record, by position, and
  needs no recursion.

### The supervisor

The invariant is built in tiers, each of which uses those before it:

| tier | conjuncts | hypotheses | theorems |
| --- | --- | --- | --- |
| `RegistryInv` | the type; per plugin, how status, value, gate and scope of an entry agree | none | `ShownReadyIsReadable` |
| `DrainInv` | which scopes are open at each step of the loop (`ScopeInv`, `SliceInv`, `StopInv`, `ResetInv`, `RestInv`) | `NoBackground` | `ReplacedAfterClose`, `ShutdownLeavesNothing` |
| `KeptInv` | a capture or restore restarts what is not kept alive, and its dependents | `NoBackground`; the theorem `KeepAliveIsClosed` as well | `KeepAliveIsKept` |
| `FlowInv` | teardown goes down the edges (`OrderInv`); an entry has one acquire fiber, which it refers to (`OwnInv`, `BornInv`, `ForkInv`, `TodoInv`, `LoopInv`); a start has read what its upstreams are now (`ReadInv`); the hook comes when all is ready (`HookInv`) | `NoBackground`, `LateCommands` | `EachEntryStartsOnce`, `TeardownSparesUpstreams`, `RestIsFresh`; with `SomeRestarts` `SuccessMeansReady` |
| `CalmInv` | a gate that is ok has a value behind it (`GateInv`); a fiber that waits, waits for the current entries of its upstreams (`SeenInv`); no fiber of the slice is alive behind the teardown (`StillInv`) | `NoBackground`, `NoEarlyCommands`, `HookSparesPlugins` | `StartsFindTheirUpstreams` |

The hypotheses are where the code stops keeping the property, not conveniences of
the proof:

* `NoBackground`: no fire-and-forget `stack.restart`. Such a restart runs beside
  the loop, and the two replace each other's entries (section 3): two drivers tear
  down and reset the same keys with no order between them.
* `KeepAliveIsClosed`: what a keep-alive plugin depends on is keep-alive. The code
  does not enforce it, and the run `supervisor_keepalive` shows the property fail
  without it.
* `LateCommands`: the loop takes its first command after the initial acquire has
  read the entries it forks for. Nothing in the code orders the two; when a restart
  gets ahead and resets a key, both fork for the new entry, and its start may run
  twice (TLC finds it with `EarlyPhases = {"fork", "register"}` in the setting of
  `supervisor_restart`). Commands between the fork and the registration are allowed.
* `SomeRestarts`: some plugin is not keep-alive. Where all are, the slice is empty
  and a capture reports success without looking at any row.
* `NoEarlyCommands`: a fiber of the initial acquire that registers when the teardown
  of a restart has passed its key escapes the interrupts, finds the old gates of its
  upstreams open and starts when they are reset already; TLC finds this with
  `EarlyPhases = {"register"}`. `HookSparesPlugins`: a late post-acquire failure takes
  the value of a plugin whose gate stays open.

The drivers share one registry, so most steps are treated by a few frame lemmas: what
a step leaves alone of the loop, of a plugin's entry and of its fibers decides which
conjuncts it can disturb, and only the steps that move a scope, an entry or a fiber
are looked at conjunct by conjunct.

### What is only model-checked

The liveness properties: `OrphanIsReclaimed`, `EntryIsRemoved`, `Answered`,
`ShutdownCompletes`, `InitialAcquireEnds`, `TornIsRepaired`, `EveryWaiterIsServed`,
`EveryCommandIsAnswered` and `BurnIsPursued`. They rest on fairness, whose ENABLED
the provers do not handle. And the parts of the supervisor's safety that the
hypotheses above leave out: `supervisor_chaos` runs background restarts, early
commands and dying starts together, for `ReadyIsReadable`, which holds there too.

## 5. Not modelled, and why

* Two restores at once, after a live restore has swapped `stack.lock` away with the
  root, and the offline verbs' `ensureNoLiveSupervisor`: a composition of `Roster`,
  `StackLock` and `SnapshotRestore`, whose state spaces multiply; `Trespass` stands
  for the peers meanwhile.
* Capture of a snapshot, `prune` and `wipe`: sequences of container and file calls
  whose failures stop them; what they publish goes through `StageAndSwap` as well.
* `AtomicWrite` and `Cache`: a temporary file or directory and one rename; the
  modules above take the rename and the link as atomic, which they are.
* The subnet broker: the port broker's scheme with a file per subnet.
* The supervisor's scope finalizer after `shutdownComplete` and the signal handler.
* Rendering, code generation, argument parsing, container engines and the plugins'
  own logic, which a model sees as a start that succeeds, fails or throws.
* Of `cctp-kit`: `importTransfer` and `track` (a transfer found by its burn's hash; its
  `complete` may be overwritten by the stale copy of a run under way), quotes, balances,
  wallets' connections and the widget, `dismiss` and `restore` (a flag of the card), and
  the sponsor's and Circle's clients, of which the model keeps what they may answer.
* The other packages: they share no state with the above.

Next in line: the composition of roster, lock and restore above; what the supervisor
still promises when commands overlap the initial acquire's fork (`LateCommands`) or a
background restart (`NoBackground`); then the offline verbs and the subnet broker.
