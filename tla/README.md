# go-rocketmq-dashboard in TLA+

A verification development of the RocketMQ dashboard: TLA+ models of the parts
of the server that keep state, model-checked with TLC on small instances, and
theorems about them that TLAPS proves for every value of the constants. Every
definition is translated from the Go source; `PROJECT.json` names the lines.

## 1. The system

The dashboard is one Go process. It serves a web page and a JSON API over HTTP,
queries RocketMQ clusters through admin commands, and executes a few write
commands for authorised operators. The parts, with the state each keeps:

| Part (source) | State | Operations | Modelled in |
|---|---|---|---|
| Snapshot cache (`internal/server/snapshot.go`, `cluster_runtime.go`) | per cluster four list snapshots and six families of keyed snapshots: data, time, error, running flag | view, refresh if stale, forced refresh, delete, clear | `SnapshotCache` |
| HTTP handlers (`server.go`) | none of their own | GET of lists and details; topic upsert, delete, send; offset reset | `SnapshotCache`, `MutationAudit` |
| Write admission and audit log (`auth_audit.go`) | a JSON-lines file and its mutex | begin, complete, denied, append, list | `MutationAudit` |
| Online configuration (`runtime_config.go`) | a mutex per cluster runtime; the nodes hold the values | read, write, read back, undo | `RuntimeConfig` |
| Cluster registry (`cluster_registry.go`) | runtimes, order, persisted list, registry file | register, update, delete, load | `ClusterRegistry` |
| Proxy runtime (`proxy_runtime.go`, `proxy_grpc_probe.go`) | state file, `rmq-proxy.json`, a Java process, health | restore, apply, restart, close, snapshot | `ProxyRuntime` |
| mqadmin provider (`internal/rocketmq/mqadmin_provider.go`) | four TTL caches; temporary files | one method per query or write; sidecar with fallback | `ProviderOperations` (every operation), `CommandRun` (transports, topic types) |
| Native admin client (`internal/rocketmq/goadmin/remoting_client.go`) | connections, one command each | some hundred admin commands, many of them over all brokers | `Administration` and its tables (every command), `StaticTopic`, `TopicCommands`, `AllocateQueues` |
| Shadow comparison (`goadmin/shadow*.go`, `cmd/rmqdash/main.go`) | results of a batch; fixtures on the cluster | run a command on several implementations and compare | `ShadowBatch`, `ShadowPlan`, `ShadowHooks`; beside a write: `CommandRun` |
| Command line (`internal/goadmin/cli.go`) | none | arguments to a transport or a batch; the hooks of a sample | `ShadowHooks`, `CommandRun` |
| Admin sidecar (`cmd/rocketmq-admin-sidecar/AdminSidecar.java`) | the standard output of a JVM and a lock | one command per HTTP request | `CommandRun` |
| Startup, configuration (`cmd/rmqdash/main.go`, `internal/config`) | none | environment to calls; the runner with shadows | `CommandRun` |
| Parsers, features, message chain (`internal/rocketmq`) | none | text to structures | no |
| Patched Java classes, front end (`public/app.js`) | the page | pollers and forms | no |

How they interact. A request is bound to the runtime of its cluster
(`clusterScoped`), an object that holds the provider, the snapshots and the
configuration mutex; the registry adds, replaces and removes these objects while
requests hold them. A GET reads a snapshot and perhaps starts a goroutine that
calls the provider; it never waits. A write is admitted (identity, permission,
reason, started record), executed by the provider, invalidates snapshots, and is
completed in the audit log before it is answered. Configuration and Proxy
changes are writes of that kind whose execution is a protocol of its own. The
provider turns each operation into admin commands; a command goes to the native
client, the sidecar or a process, and after an error perhaps to the next of them; the
native client turns it into requests to name servers, brokers and controllers. With
`RMQD_GO_ADMIN_SHADOW` a command is run again by other transports after its answer,
and `goadmin --m6-shadow-run` does so for a whole plan of samples.

What is hard: loads that overtake each other and the writes that should
invalidate them; decisions taken in one critical section and used in another;
errors that say nothing about the effect of a command; contexts cancelled when
a client leaves; crashes between two steps of a file update; a child process
that ends at any moment of an operation on it. The hazards, each at its line,
are listed in `PROJECT.json` with the properties that cover them.

What makes each part correct:

* snapshots: one load per store at a time; a detail read after a write is
  answered is not older than it; list answers do not go back in time; nobody
  waits for a cluster;
* audit: no effect without a durable start; outcomes that agree with the
  cluster; answers that tell whether the operation was executed; bounded loss;
* configuration: a batch is set on all its nodes or on none, or the answer says
  that the undo is incomplete;
* registry: the copies agree; requests are atomic; what was answered survives;
* Proxy: one process; health reported only of that process; the saved
  configuration is the one in use;
* static topics: a broker never uses one physical queue for two logical ones; a
  change keeps the queues that were there; a mapping left torn by a failure is not
  built upon;
* topic commands: an ok means that every master and name server has taken the change,
  whatever failed before; a deleted topic does not come back;
* admin commands: an ok means that every target was written; what depends on an earlier
  step waits for it; an export misses no broker;
* transports: success means executed; repetitions have a cause; what the sidecar
  answers is what the command printed;
* shadow batches: providers meet the same fixture, leave it as it was, and compare the
  files they wrote themselves;
* allocation of queues: every queue to one consumer, shares that differ by at most one;
* all: every request and every operation ends.

## 2. Modules

`SnapshotCache` models one cluster runtime for one kind of data. The constant
`Domain` selects the topic side (list, route, status and message snapshots;
upsert, delete, send) or the consumer side (list and detail snapshots; offset
reset). A write that the cluster applies increments `source`; a snapshot holds
the version its loader saw. Every critical section of the Go code is an action
of its own: `Lookup` (keyed map), `Precheck`, `CheckStale`, `TriggerRefresh`,
`View`; a goroutine is `LoaderReturns` then `RefreshCompletes`; a write handler
is `Mutate`, one `Invalidate` for each `clear()` or `delete()`, `RefreshList`,
`Answer`. Stores live on a heap of identities because goroutines and readers
keep stores that were dropped from the map; a cell is reused when nothing refers
to it. `acked`, `seen`, `reqFloor`, `reqSeen` and `born` are history variables.
The incremental loader of browsed messages takes its previous rows from the
store it loads, so a store created after a write has none older than the write;
it is modelled as the load of a version.

`MutationAudit` models requests that go through admission, `Append` of the
started record, the provider, and `Append` of the completed one. The file is a
sequence of whole records, fragments and newlines, with a durable prefix. Faults
are short writes and failing syncs; the process may die (page cache kept) or the
machine (any prefix that contains the synced part kept). `Disconnect` cancels the
context that both appends look at.

`RuntimeConfig` models `applyRuntimeConfigChange` node by node. Commands may be
*refused* (error, no effect), *delivered* (error, effect) or *ignored* (no error,
no effect). `AtomicBatch` is the promise: a change sets every node of its batch
or none, or admits an incomplete undo. The refinement mapping shows, while a
change is under way, the values it found.

`ClusterRegistry` models the three registry operations under `clusterMu`, the
file as truncated and then written, crashes and the panicking start.
`AtomicRegistry` is the promise: each request is answered by the state it meets
and changes it at once; a restart shows every answered change, at most one
unanswered change more, or (after a torn save) nothing.

`ProxyRuntime` models the operations of the manager (serialised by
`operationMu`, so one at a time) beside Java processes, their waiters and one
Snapshot that probes without the lock. A process is alive, ready on the port,
exited, reaped, or done (its waiter has updated the manager and reported).

`StaticTopic` models the two commands of the native admin client that read what
many brokers hold, compute a new whole, and write it broker by broker. `stored` has
the configs of the masters that hold the topic, `table` is what the name server lists,
`plan` the command under way with its configs and the brokers still to be written.
`UpdateStaticTopic` and `RemappingStaticTopic` are the reads, the checks and the
computation of a command; `WriteMaster`, `BrokerHasNoMaster` and `WriteFails` its
writes, in the order of broker names (`Turn`); `BrokerLeaves` and `BrokerReturns` change the
routes. `UpToNum` with `LeastBrokers` is the allocator that both commands share (its state
after each queue, as a recursive function); `Seats` are the places of a remap's targets that
are free, `WaitingQueues` the queues that must move, and `Matched` gives each its seat by the
rank of both. An epoch is the clock, or 1000 more than the last one that the command read:
any number after those it read (`Epochs`), which a broker that it skipped may hold already.
`before`, `epoch` and `repeated` of a plan are history. A command that is refused or cannot
read changes nothing.

`TopicCommands` models `updateTopic`, `updateTopicPerm` and `deleteTopic` of the same
client, run by several operators at once. `topics` is what the masters hold, `routes`
and `orderConf` what each name server holds, `listed` which masters it lists;
`Registers` is a master that registers its topics, at any time. A command reads
(`UpdateTopic`, `UpdateTopicPerm`, `DeleteTopic`), writes master by master
(`WriteBroker`) and name server by name server (`WriteServer`), where a transport error
ends it (`WriteBrokerFails`, `WriteServerFails`) and a refusal by a name server is
remembered (`ServerRefuses`). A command is undisturbed while no other than its own
repetitions runs beside it or has begun since. `TopicBrokers` is what the two models of
topics share: the brokers, the order of their names, and the bounds.

**The admin commands** are one engine and many tables. `FanOut` is the engine: a program
of steps, each of which sends requests to one target after the other or to several at a
time. A target answers, has nothing, refuses, or its answer never arrives; a step says
what a refusal and a lost answer do (`stop`, `later`, `pass`, `blank`, `leave`), and what
follows when it has no target or no row. In the client these are loops with `return
err`, `errs = append(...)`, `continue` or `_ =` in them, and pools of goroutines with a
`WaitGroup` and a semaphore: the engine's actions name one function each that shows the
form. `CommandSteps` has the vocabulary for programs, `Deployment` the servers and how
commands pick them, `ClientSteps` the helpers that many commands share. The tables
`AuthCommands`, `BrokerCommands`, `ConsumerCommands`, `MessageCommands` define one operator
per Go function, under its name: the set of the programs that it may run, one for each way
its arguments pick targets, built from the operators of the functions that it calls.
`ProviderOperations` does the same for the provider, whose requests are admin commands.
`Administration` puts the tables together and states what depends on their content. How
the functions are put together, as far as the properties rest on it, it states as
assumptions on the programs (`QueriesAssumption`, `RoutesAssumption`,
`ExportsAssumption`), which TLC evaluates for every program of the tables.
Reads that only shape the answer are requests like others; what is computed from them is
left out.

`CommandRun` is how one command of a write reaches the cluster. A run is one execution:
the one that is answered, or that of a shadow. `RunsDirectly` is the native client or the
process, `AsksSidecar`, `SidecarTimesOut` and the `Sidecar...` actions are the HTTP client
and the JVM behind it, `FallsBack` the next transport. What a caller gave up may happen
later (`ExecutesLate`, or the sidecar in its own time). `LooksUp`, `ReadsTypes`,
`StoresTypes` load the cache of topic types, which `Returns` clears after a success.
`surplus` counts executions less the attempts that failed in doubt; it and `since`,
`entry.meanwhile` are history.

`ShadowBatch` is a batch: workers take samples in order, the first provider of a sample
runs before the others, which run at once unless the sample is serial. A run is a
sequence of before hooks, command, exported file, after hooks. A provider may have several
transports: `TriesNext` is an attempt that gets lost and of which nobody is told, since the
next transport runs the command again. `ShadowPlan` is the default
plan; `ShadowHooks` the hooks of each command and what commands do to a fixture, under the
names of the functions in `cli.go`. A fixture is a record of the things that samples
create, remove or set. Its proofs are in `CommandRunProofs`, with those of the other way
a command reaches the cluster.

`AllocateQueues` is `allocateMessageQueueAveragely`, a pure function.

The definitions that a comment calls a mutant are plausible bugs; they are no part
of the specifications, and each one is named in `PROJECT.json` with the property that
notices it.

The `MC...` modules give symmetry sets and small constants. `MCSnapshotCache`
also has a VIEW that hides the history variable `born` and the fields of cells
nothing refers to (`Lookup` overwrites them before anything reads them).
`MCAdministration` also evaluates the allocation of up to 7 queues to up to 5 consumers.

## 3. Runs

| Run | Question | Bounds |
|---|---|---|
| `SnapshotKeyed` | types, single flight, keyed reads after answered writes | 1 key, 2 readers, 1 writer, 2 writes, 2 loads, 2 cells |
| `SnapshotList` | list answers never go back; every handler answers | list, 2 readers, 1 writer, 1 write, 2 loads, clock 0..1 |
| `AuditLog` | types, traces, loss, agreement, answers; every request ends | 2 requests, 2 I/O errors, 2 crashes |
| `ConfigAtomic` | serial changes, atomic batch; every change ends | 2 nodes, 2 values, 2 changes of overlapping batches, 2 faults, 2 runtimes |
| `RegistryAtomic` | types, agreement of the copies, atomic registry | 3 ids, 1 of them of the startup configuration, 2 definitions, 2 requests of any kind, 1 fault, 1 crash |
| `StaticTopic` | types, exclusive physical queues, updates, remaps, refusal of torn mappings | 3 brokers in 2 clusters, 3 queues, 3 commands, 1 failing write, 1 absent broker |
| `TopicCommands` | types, updates that hold, final deletions, permission updates | 2 brokers, 2 name servers, 2 operators, 2 commands, 1 failing request, 1 absent master |
| `ProxySafety` | types, no orphans, health, saved state | 2 process identities, 2 settings, 1 file error, 1 crash |
| `Commands` | what an ok means, order of dependent steps, whole exports; every command ends | 154 programs; 2 masters with a slave each, 2 name servers, 1 controller, 3 items, pools of 2 |
| `CommandRun` | executed, repeated, late, cached and printed writes | 2 writes, 1 load of the types, transport `auto` with a sidecar, 1 shadow, 1 caller that gives up |
| `ShadowBatch` | like with like, fixtures come back, own files; every batch ends | each command of the plan alone with 3 providers; 3 pairs in turn on one fixture; 2 batches with 2 workers; `auto` and the sidecar fall back; 1 lost command or attempt |

The type invariant is an invariant of its own in `SnapshotKeyed`, and a conjunct of one
property of every other module.

Why these bounds are enough to be interesting. A stale keyed read needs a load
that starts before a write and ends after it, a reader that follows the write,
and a second write to tell a late load from an early one: two loads, two readers,
two writes. Cells are sufficient for every store a reader, a loader or the map can
hold at once; when all are in use the next lookup waits, which cuts no
behaviour in the safety run that a larger heap would not only repeat, and
cannot happen in `SnapshotList`, where no GET looks a store up. More keys, readers
and writers, the consumer side and its two deletions are covered by the theorems
of section 5. A list answer goes back in time when a load that began before a write
is published after one that began later: one write and two loads. In the audit
log two operations have four records, of which two may be torn, lose the one that
follows, and be followed by a crash. In the configuration runs a batch of two nodes
fails at its first or second node, in the write or the read-back, and the undo fails
once more. Three registry ids are one on each side of the startup cluster. Two
process identities are the old process and the new one, or the new one and the one
that the restore starts: an identity is used again once its waiter has finished.
Static topics need a creation, a change and a second change to meet a mapping with
history; three queues on one, two or three brokers are dealt out with and without a
remainder, and the third broker is outside the cluster of the others, so it is not
completed with them. A topic command repeated while it runs, or after it failed, and a
deletion or a permission update that meets the leftovers of another command are pairs
of commands; a refusal that must not be forgotten needs a second name server. A program
forgets a target only if it has two: two masters and two name servers, a slave to tell
masters from brokers, and three items against pools of two, so that goroutines wait for a
place (the code has 4 and 16). Every subset of the brokers may be listed. In `CommandRun`
the chain of three transports is the longest there is, an old write needs a new one, and
a repetition needs one lost answer. A batch needs three providers to tell "the others at
once" from "in turn", and two workers with a third sample to see a worker go on.

Deadlock checking is off in every run: bounded requests end, and the bounded
clock, writes and faults run out, so every instance stops. The liveness
properties say that nothing stops too early.

One run expects a violation, of what a comment of the code states (`findings` in
`PROJECT.json`). `StaticTopicRetry`: a retry after a creation that failed half way answers
success and leaves the topic without one of its queues.

Other gaps were met while modelling. They have no run of their own; where the models contain
the behaviour, the properties except it.

* Allocation: with more consumers than queues, `allocateMQ` computes a negative capacity
  for every consumer past the last queue, and `make` panics
  (`remoting_client.go:16163`; theorem `SpareConsumersPanic`).
* Transports: with transport `auto` any error of the native client, after a partial write
  too, runs the whole command again by the sidecar or a process, and so does a timeout of
  the sidecar (`cli.go:2576`, `mqadmin_provider.go:1401`). `RepeatsHaveACause` and
  `OldWritesReturnLate` say that nothing worse happens.
* With `RMQD_GO_ADMIN_SHADOW` (off by default) writes are executed again by every other
  transport after their answer (`main.go:437`), perhaps after the next write.
* A load of the topic types that is under way when a write clears the cache stores the old
  types after it (`mqadmin_provider.go:232`).
* A permission update takes the numbers of queues from the first entry of the route,
  whichever broker it writes (`remoting_client.go:10102`; the comment at line 10073 says it
  keeps them), and one that read the route before a deletion brings the topic back.
* A client that leaves cancels the context that the completed record is appended under:
  the outcome of its executed operation is missing from the log (`auth_audit.go:425`).
* The deletion of a group ignores every error of the deletion of its retry and dead letter
  topics (`remoting_client.go:10591`). A cluster whose brokers have no listed master is
  answered with success by the commands that skip such brokers.
* A message that was stored is reported as failed when its trace cannot be sent
  (`remoting_client.go:7289`). A name server or broker that was written is likewise followed
  by errors of the reads that only serve the answer (`remoting_client.go:6114`, `8561`).
* Two copies of users or access lists at once both check and both create.
* Shadow samples: those without hooks (sends, `updateKvConfig`, cleaning) are not compared
  like with like, as the notes of the plan say, and what they leave behind meets a later
  sample on their fixture (`copyAcl` before `createAcl`, whose command then changes nothing):
  `TargetsStartAlike` presumes samples with hooks only; samples that share placeholders disturb each
  other with more than one worker; `deleteAcl` leaves the list when the command failed; a
  lost export may overwrite the file of the next provider. A provider that falls back does not
  report its first attempt (`cli.go:2576`), which may have changed the fixture that the second
  finds, or does so later: the three properties of fixtures and files except such a sample.
* Static topics: a command that skips the broker with the newest epoch may take the same one
  again within a second (`remoting_client.go:9118`, `9285`), and the epoch check then takes
  the two mappings for one. `RemapsShareTheTopic` excepts what follows.
* A list refresh that a write asks for is dropped when an older one is in flight, so the
  list may lack an answered write until its TTL has passed (`server.go:567`).
* A node that takes a value although the command failed is reported as restored
  (`runtime_config.go:401`). An update of a cluster definition replaces the mutex of a
  change under way (`cluster_registry.go:271`): two changes overlap only then
  (`ChangesAreSerial`).
* A crash between the truncation and the write of the registry leaves a file that stops
  the next start (`cluster_registry.go:196`): `AtomicRegistry` admits it as the loss of
  everything.

The corresponding positive properties say how far the promise does hold:
`ListReadsAreMonotonic` although the list may be stale, `UpdatesExtendTheTopic` on a
mapping that is whole, `PermUpdatesOfUniformTopics`, `AnswersAreTrue` although
an outcome may be missing, `ImplementsAtomicBatch` as long as an error of a write
means no effect and no other change overlaps, `ImplementsAtomicRegistry` with a registry
that may be lost by a torn save, `LossIsBoundedByTears` although a torn line
swallows the next record, `TruthUnlessUndoFailed` outside interrupted restores.

## 4. Fairness

Handlers and operations run on goroutines, which the Go scheduler runs: weak
fairness of the steps of each handler. `sync.Mutex` is starvation free: a
handler that waits for one gets it once its holder lets go, and every holder does.
In `FanOut` the whole next-state relation is weakly fair: every request ends, by its
answer or by the time limit of the client (`GetsLost`), and which of the two is free. In
`ShadowBatch` the steps of workers and providers are, for the same reason; late commands
need never arrive.
Nothing is assumed of loaders, of clients, of Java processes, or of faults.

## 5. Proofs

`SnapshotCacheProofs` proves, for all constants that satisfy the assumptions
named in `SnapshotCache`:

* `TypeCorrect`: the type invariant. It is inductive with one more fact, the
  shape of a write handler (`MutatorShape`: which steps have a pending batch or a
  kind), together `TypeInv`.
* `SingleFlightHolds`: inductive over `TypeInv`. The step that needs an
  argument is `Lookup`: it resets the running flag of a reused cell, and no task
  works for that cell because the cell is free.
* `KeyedReadsSafe`: not inductive. `VersionInv` strengthens it: a store on the
  map was created with or after the last write whose batch has been dropped, a
  load of a store never holds a version older than the store (`born`), a write
  handler past a batch has left no store older than its write on the map, and a
  reader's store is not older than the floor of its request.
* `ListReadsMonotonic`: `ListInv` adds that what anybody has seen of the list
  is in the list already, and that a load of the list, of which single flight
  leaves at most one, is never older than the list.

`AdministrationProofs` proves, for whatever programs, servers, items and choice of targets:

* `CommandTypes`: the type invariant.
* `AnswersMeanWrites`: a command that answers ok has written at every target of its strict
  steps. The invariant `IInv` says of the requests of an open target that those it is past
  are done (`Progressed`), of a settled target without an error that all its due writes
  are (`Kept`), and of the steps behind that no target was left unsettled or in error
  (`Passed`): `EndStep` is the action that turns these into the answer. The size of pools
  and the order in which goroutines get a place play no part in it.

It also proves, for all programs that satisfy the assumptions of `Administration`, the three
properties that depend on what the programs are made of. `IInv` says which step may leave
which (`LeftTogether`, `Followed`), that only requests of a step that was reached are on
record (`Recorded`), and which targets have a row (`Rows`):

* `MessagesFound`: a query that may not end without a row has found one when it is behind.
* `RoutesLast`: a step of name servers that wrote was not left, so the masters before it were
  not left either, and a firm step behind has written at each of its targets.
* `ExportsComplete`: a complete step drops no target, so every target of it has a row.

`CommandRunProofs` proves all five properties of `CommandRun`, for
whatever chain of transports, shadows, writes, loads and callers that give up:

* `AnsweredWasExecuted`: a success, in a run, in the sidecar or in an answer, stands for an
  execution (`Executed`).
* `OutputsAreOwn`: the sidecar works on one run at a time and the standard output is that
  run's (`OwnOutput`), whatever is left in its queue by callers that gave up.
* `StaleTypesAreInFlight`: what a load has read holds what was answered before it began
  (`Reading`), since an answer comes after the execution.
* `RepeatsAreAccountedFor`: not inductive. `Claims` adds to the executions of a write those
  still to come: of its run while that is free to try a transport, of a request that is
  late, in the queue of the sidecar or in work there. The sum never exceeds one, as a run
  waits for the sidecar nowhere but at the sidecar (`Asking`), and whatever sets it free
  again is an attempt in doubt.
* `OrderIsKept`: a write executes as its own only while its run is not answered, so nothing
  has begun after it by then; what begins later has executed nothing yet (`Order`).

Of shadow batches it proves, for any batches of samples of the plan, in any order, with any
number of workers, providers, transports, refused steps and lost commands:

* `ProvidersStartAlike`: `TargetsStartAlike`; `HooksBringBack`: `FixturesComeBack`;
  `FilesAreOwn`: `ArtifactsAreOwn`. The invariant `BatchInv` says who has a fixture: samples on
  one fixture run one by one (`InTurns`, `OneByOne`, `HasItAlone`), so the fixture is what the
  steps of the provider whose turn it is have made of the baseline, each field as the last
  step left it that sets it and was not refused (`ValuesFollow`, `IsShown`), and a file is
  read by the one that wrote it (`FilesKept`). A command that was lost, with its
  run or before the next transport, reaches only the fixture of its sample, of which nothing
  is said (`NoneLost`); and it has left its mark in `failed`, so that a sample without any
  is on a fixture that no lost command reaches (`LostOnes`). What remains is about the
  tables of hooks: of each command that has after hooks, they set all that it and its before
  hooks have changed to the baseline, and the command changes what they leave
  (`HooksRestore`, one command after the other).

`BatchesAssumption` and `FixturesAssumption` are the bounds of the theorems: samples come from
the default plan with fixtures as their arguments name them, and samples that may run at once
have fixtures of their own.

`AdminClientProofs` is about two specifications and a function. For any operators, brokers,
name servers, absences and failing requests, it proves all three properties of
`TopicCommands`:

* `UpdatesHold`, `DeletesFinal`, `PermUpdatesPrecise`. The invariant says of every command
  what it has written and still has to write (`Placed`), and of one that is undisturbed that
  beside it run its own repetitions only (`Alike`). So whatever is written beside it is
  written once more with the same value (`KeptBesideTopics`, `KeptBesideServers`), and what
  it wrote is still there (`Kept`). A master can register a deleted topic nowhere, since it
  does not hold it any more when the name servers are told (`Unrouted`).

Of static topics it proves, for any brokers, clusters, queues, absences and failing writes:

* `QueuesExclusive`: `PhysicalQueuesAreExclusive`. The invariant `StaticInv` is about what
  masters hold and what the command under way still has to write (`Of`): each physical queue
  of a broker in its own mapping has a number below its `WriteQueueNums` (`Below`), one place
  only (`Exclusive`), and what is to be written extends what the broker holds. A command
  builds a config of generations that were known and of new ones, whose numbers are from
  `WriteQueueNums` on and differ by their ranks (`Built`, `UpdateBuilds`, `RemapBuilds`),
  whatever the allocator chose. A master that was away keeps an older config, which the
  others know no more of than it does itself.
* `TornRefused`: `TornTopicsAreRefused`. With all masters listed a command reads every config,
  and two epochs fail the first of its checks.
* `UpdatesExtend`: `UpdatesExtendTheTopic`, and `RemapsShare`: `RemapsShareTheTopic`. Both say
  what a command leaves behind when all its writes are done, so the invariant `PlanInv` says of
  the command under way that its configs keep the promise made of what it read
  (`PlanPromises`) and that each config not in `todo` is stored (`PlanWritten`). The promise
  itself is kept by what a command computes (`UpdateExtends`, `RemapShares`), in three parts.
  The allocator deals every queue to a least loaded broker: after any number of queues, a
  broker that got some has at most one more than any other (`DealtOut`, `UpToNumDeals`). A
  remap fills the places of its targets: queues and places (`Slots`) are as many, and the queues
  that stay and those matched by rank are a bijection (`KeptParts`, `MatchedParts`), so each
  target ends with the load that the allocator expected. And a remap reads a total that is the
  number of its queues and no mere bound: no version on the brokers leads more queues than it
  is for, whatever was written of it (`VersionsFit`), and with fewer queues than seats the
  command is refused (`EnoughQueues`). `VersionsFit` rests on epochs that tell the versions
  apart, so it, and with it the promise of a remap, is kept until one is repeated; the other
  three theorems need no such premise.

What the allocator deals is proved by an induction over the number of queues. The theorems of
the library that take an operator cannot be used here, but the least counterexample can: for
a set of numbers the principle is a lemma of its own (`LeastElement`, `AllNumbers`).

It also proves of the allocation, for any number of queues and consumers:

* `QueuesAreDealtOut`: with at least as many queues as consumers nobody panics, every queue
  goes to exactly one consumer, and no two shares differ by more than one. The argument
  writes the number of queues as quotient and remainder, and finds the consumer of a
  position by a division in the longer or in the shorter shares.
* `SpareConsumersPanic`: with fewer queues, every consumer past the last one panics.

`MutationAuditProofs` proves, for any operations, I/O errors and crashes, all the safety
properties of `MutationAudit`, from one inductive invariant:

* `EffectsTraced`: what was acknowledged lies before the synced prefix as a record with its
  newline (`Lines`), and a request has no effect before its started record was (`Phases`).
* `AnswersTrue`: an answer agrees with the effect (`AnswersAreTrue` is inductive with `Phases`).
* `LogAgrees`: no outcome of an operation is in the file before its last append is synced or
  sure to be (`NoOutcomeYet`), and the one that is follows its started record (`Outcomes`).
* `LossBounded`: a place where a line ends without newline was torn by a short write or a
  crash (`TearsCounted`). A lost record has one of its own, which is shown by an injection
  of lost records into torn places. The lemmas on sequences say what a step does to the
  file: it agrees with the old one on a prefix.

`ClusterRegistryProofs` proves, for any clusters and requests:

* `Consistent` and `DiskFollows`: the map, the order and the persisted list hold the same ids
  between operations, and the file, unless torn, is what is persisted, or within the save of
  an operation the one before or after it (`Saves`, `FileFollows`).
* `Refines`: `ImplementsAtomicRegistry`. A step is mapped to a change, an answer, a restart or
  a stutter; the obligations that need an argument are the verdict (the guards of the handler
  against those of the promise) and the restart, which reads what `FileFollows` admits.

They rest on lemmas on sorting: an ascending list of a finite set of ids exists, is complete
and is unique. The existence is by the least counterexample, since induction over an operator
is out of reach. The refinement found two definitions whose `CASE` had overlapping guards, of
which TLA+ leaves the choice open: they are conditionals now, in the order of the code. Ids are
a finite set, as `clusterIDPattern` bounds their length (`cluster_registry.go:20`).

`RuntimeConfigProofs` proves, for any nodes, batches, values and faults:

* `Serial`: two changes are inside at once only if a change of the registry replaced the
  runtime, and its mutex, between them (`Mutexes`, `Overlapping`, `Alone`).
* `ChangesAreAtomic`: `ImplementsAtomicBatch`. While no changes have overlapped, the nodes
  before `index` hold the new value and the others that of the beginning, `previous` is
  what they held, and an undo that has not failed puts it back (`Data`). Its hypothesis
  `HonestFaults` is the bound of the run `ConfigAtomic`: the failed command of a write has no
  effect, and that of an undo reports its failure. Without it the promise is false: see
  `runtime_config.go:401` in section 3.

`ProxyRuntimeProofs` proves, for any settings, processes, file errors and crashes:

* `NobodyIsLost`: a process that runs is the manager's, or survived its kill (`Single`).
* `HealthIsOwn`: a recorded answer is one of the process it is recorded for (`Health`), since
  what an operation or a Snapshot still has to record is dropped when the manager's process
  is no longer the one it asked (`Answered`, `Snapped`).
* `FileIsTruth`: each place of an operation says how far the files and the process have come
  (`Disk`, with the kind of stop in `Flow`).

The invariants of these four, of the topic commands and of shadow batches were checked by TLC on the
instances of the runs before they were proved. In all modules a lemma per action says what the action preserves; the step of the
invariant splits on the actions and cites them, and a temporal step by PTL ends the theorem.
The list of theorems is in `PROJECT.json`.

Every invariant that a passing run checks is stated by a theorem, and so are the two
refinements and the other safety properties. Only model-checked: `UpdatedTopicsAreComplete`,
which is false (section 3), and every liveness property (fairness and ENABLED are outside the
prover's reach). The theorems of the
library on induction take an operator and are outside its reach too, as are recursive
operators, of which no module here declares one; where an induction is needed it is one over
a set of numbers, by its least counterexample.

## 6. Not modelled

Text formats, parsing, validation and normalisation, of the server as of the remoting
protocol; what the client computes from the rows it has read (sums, filters, orders,
windows of offsets); the connections of the client. The message chain, the feature tables
and the reports and normalizers of shadow comparisons are pure functions of such data. The
caches of the provider that no write clears only expire. A target of the admin commands
takes a write once: that servers are changed by several commands at once is modelled for
topics only (`TopicCommands`), and the order of rows in an answer not at all. The sidecar
answers files too, which are left out. Of the shadow plan, fixtures that several
samples share while they run at once are left out, since nothing is promised of them.

Tokens and roles; the order
and limit of the audit list and its result `rolled_back`; the metrics of
snapshots; writers of a node's configuration besides the dashboard; errors of
`Close`, a loss of power and a changed startup configuration in the registry;
settings that change the gRPC port; an undo that a node ignores without an error
(the code does not read it back). A Proxy process that survives its kill is in the
model, and exempt from `NoOrphans`: a second process may then start. That every
Proxy operation ends is not checked: each wait of the model has its deadline as an
action, but the fair instance with two settings is too large for TLC. Keyed details are not promised to be
monotonic: a reader of a dropped store may see a newer load than the store that
replaced it has. A request that takes effect only after its command has given up
waiting is left out of the topic commands, as is a broker that loses its slaves too.
Two commands on one static topic at once are left out: what a
broker does with a mapping of an older epoch is not in this repository.

## 7. Plan

What is modelled is what the program keeps, orders and repeats; the rest of it is text
and arithmetic on rows. Next:

1. `MessageBrowse`: the pages of the message browser over time, which reuse the messages of
   earlier pages while offsets are removed and a topic is made anew under its name.
2. The copies of users and access lists, and changes of brokers, by several operators at
   once, as `TopicCommands` does for topics.
