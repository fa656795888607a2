# Flowgen: a TLA+ verification project

Flowgen runs data flows. A flow is a list of tasks (sources, processors, sinks) written in YAML; a worker process ("pod") wires the tasks with bounded channels and runs them on tokio. Sources acknowledge a message to its broker only when the whole flow has finished with it. Pods share flows through leases in a NATS key-value bucket; flows are replaced at run time when their definition in that bucket changes; HTTP, MCP and AI gateway servers turn requests into events; a web UI shows what the pods do and lets users propose, review and publish changes of flows. This directory models these parts, checks them with TLC and proves some of them with TLAPS. Paths below are relative to `src/flowgen/`.

## 1. Inventory

| Component | State | Operations | Interacts with |
|---|---|---|---|
| Event completion (`core/src/event.rs`) | counter of leaves still missing, one-shot sender | signal, signal with an error, forward a failure | every copy of an event holds it; the source waits on it |
| Task graph (`app/src/flow.rs`) | parents, channels and leaf count of each task | `resolve_parents`, `build_linear`, `build_dag` | sizes completion, wires the channels |
| Task runner and fan-out (`core/src/task/runner.rs`, `retry.rs`, `app/src/flow.rs`) | slots, running handlers, attempts | `process_events`, `handle_with_retry`, init, `fan_out` | events in, events or signals out |
| Handlers of all processor and sink tasks (`core/src/task/`, `object-store/`, `gcp/`, `mssql/`, `mongodb/`, `http/`, `html/`, `klaviyo/`, `braze/`, `salesforce/`, `kafka/`, `nats/`, `ai-agent/`, `git/`, `oci/`) | the call under way | parse, call the service, emit, signal | runner, external services |
| Buffer and iterate (`core/src/task/buffer.rs`, `iterate.rs`) | batches per key, sessions, completions held | add, flush by size, time, key or completion; split, fan in | completion |
| Sources (NATS, Kafka, Salesforce Pub/Sub, MongoDB change stream, generate) | position, deliveries in flight | read, deliver, judge, store, restart | completion, cache, broker |
| Leases (`core/src/executor.rs`, `core/src/task/manager.rs`, `nats/src/cache.rs`) | lease entry with revision, a task per flow | acquire, reclaim, take over, renew, hand over, release | cache; tells the flow monitor |
| Peers and rebalancing (`core/src/peer.rs`) | registrations, informer, rounds | register, renew, follow, mark ready, prefer, hand over | cache, leases |
| Flow lifecycle and hot reload (`app/src/flow.rs`, `watcher.rs`, `reconciler.rs`, `app.rs`) | flow registry, watch stream, task handles, endpoints | watch, batch, stop, start, clean up, shut down | flow cache, leases, endpoint registries |
| Application start (`app/src/app.rs`, `main.rs`) | buckets, loaded flows, servers | open, load, start, mark ready | all of the above |
| Endpoints (`http/src/endpoint.rs`, `mcp/src/server.rs`, `ai-agent/src/ai_gateway/server.rs`, `core/src/task/inproc/`, `core/src/registry.rs`) | dispatch tables, response registry, streams | register, admit, call, stream, answer, time out | flows, clients |
| MCP catalogue (`mcp/src/`, `core/src/resource.rs`) | four tables, sessions, mounted files | list, get, read, complete, notify | flows, cache |
| AI gateway protocols (`ai-agent/src/ai_gateway/protocol/`, `completion/passthrough.rs`) | transcript, stream writer | translate a request, write a response or stream | endpoints, model |
| AI agent tool connections (`ai-agent/src/completion.rs`) | toolsets per user, tokens, slots | open, reuse, refresh, sweep, retry a turn | MCP servers, identity provider |
| Client registry (`core/src/client_registry.rs`) | client and guard per key | `get_or_init`, `remove` | all connectors |
| Web authoring (`app/src/authoring.rs`, `git/src/push/client.rs`) | change records, the branch | propose, edit, approve, reject, publish, push | publish flow, git host |
| Login and sessions (`app/src/login.rs`, `web.rs`) | cookie key, session cookie, single flight | sign in and out, resolve, refresh | identity provider |
| Telemetry, logs, activity (`core/src/telemetry*`, `core/src/flow/`) | rings, counters, peers' streams, cluster token | log, count, query, tail, merge | peers, web UI |
| Web pages, configuration, script engine, sandbox, charts, documentation | - | - | I/O and data around the core |

What is hard here: leaves signal on several threads; channels of one place couple the speed of all tasks; cancellation reaches tasks in any order; handlers fail after part of their work and are tried again; brokers redeliver; cache calls fail before or after they took effect; leases, changes and registrations are read in one call and written in another; pods stop between any two calls; watches and streams break and come back; clients leave while a flow writes to them. `PROJECT.json` lists these hazards at their lines.

What makes each part correct:

* completion, graph, pipeline: an ack means every leaf is done with every copy; the source is never left waiting; a cancelled flow ends;
* handlers: an event that becomes several counts once for every leaf, a call that must not be repeated is made once, and every event ends in a signal, a failure or a drop the source learns of;
* batches: a source learns success only when nothing its event went into is still waiting, and learns something in the end;
* sources: a stored position lies behind handled or given-up records only, and no record is skipped but in the two ways named below;
* leases and peers: only the holder renews, the tasks follow the lease, a flow without a leader gets one, pods agree on their peers, hand-overs end;
* hot reload and start: the registry follows what the watch delivers, no two copies run side by side unless a stop timed out, a ready pod serves what it loaded or has logged why not;
* endpoints and catalogue: a success is the whole answer, everyone is answered unless a flow is deadlocked with a stream that was left, nobody gets in against the configuration, hidden entries stay hidden, clients hear of stale lists;
* authoring and sessions: what is published is what was reviewed, no foreign commit is lost, concurrent refreshes do not end a session;
* telemetry: query and tail leave no gap but the one between the answer and the subscription, the merged view converges while nothing is lost in a full channel.

## 2. Modules

| Module | Models |
|---|---|
| `Completion`, `CompletionPromise` | `CompletionState` one atomic access at a time, with the source's wait; the abstract count-down it implements |
| `TaskGraph`, `TaskRegistry` | parents, channels and leaf counts as operators; `build` as a step, with reference definitions by paths |
| `Pipeline` | one running flow: subscriber, dispatchers, processors (extends `TaskGraph`) |
| `TaskSteps`, `CoreTasks`, `StoreTasks`, `ServiceTasks`, `Handling` | a vocabulary for handlers; the paths of every handler; one event at one task of any kind |
| `Batches` | iterate, buffer, their completions |
| `Sources` | Kafka, Salesforce, MongoDB and generate as readers of a log |
| `LeaderElection`, `Cluster` | one flow's lease among pods; peers, readiness and hand-overs |
| `HotReload`, `Boot` | watcher, reconciler, registry and shutdown of a pod; its start |
| `Listings`, `Admission`, `Endpoints` | dispatch tables and sessions; who may call; requests, streams and the response registry (extends both) |
| `Catalog`, `Gateway` | the MCP methods; the AI gateway's protocols |
| `Toolsets`, `Clients` | tool connections of AI agents; the client registry |
| `Sessions`, `Authoring` | login; workspace changes (extends `Sessions`: every request comes from a caller it resolved) |
| `Telemetry`, `Logs` | counts over the cluster; log lines, queries and tails |
| `CompletionProofs`, `PipelineProofs`, `SourcesProofs`, `LeaderElectionProofs`, `HotReloadProofs`, `EndpointsProofs`, `AuthoringProofs`, `PartsProofs` | theorems: completion; leaf counts and a running flow; sources and handlers; leases and peers; hot reload; requests and lists; changes and sessions; start, tool connections, logs, counts, catalogue and clients, conversations |
| `MC...` | model values and instances. `MCCompletion`, `MCTasks`, `MCTelemetry` and `MCParts` join parts that share no state: a variable says which one a behaviour is about, the others rest |

A definition that is listed under `mutants` in `PROJECT.json` is used by no specification: it is a fault of the definition after it that a property is shown to catch.

### Completion

`remaining` and `armed` are the two fields of `CompletionState`, `outcome` and `waiter` (the waiting source) the two ends of the one-shot channel. `last_leaf` is a compare-and-swap loop; `Load`, `Observe` (zero: the call is late), `CasOk` and `CasFail` are its accesses, so leaves interleave inside it. `SendVerdict` takes the sender and sends. A leaf may be dropped at any time before it signals. When all copies are gone, the closed channel tells the source (`SourceClosed`); an `ack_timeout` or stop is `SourceGivesUp`. `CompletionPromise` has only a counter, the verdict and the source; the CAS that succeeds is the abstract count, everything else a stutter. The other modules use the abstract, one-step signal.

### TaskGraph, TaskRegistry, Pipeline

A task is a name, an optional `depends_on` and whether it takes part in the pipeline. The operators keep the code's order of tests. `Branches(parents, p)` has one element per mention of `p`, because `build_dag` clones a sender per mention. The reverse pass that propagates leaf sets is a recursive function.

In `Pipeline`, `delivery[d]` is the subscriber's task for one message; `remaining`, `outcome` its completion; `queue[n]` the input channel of node `n` (capacity 1); `slots[n]` the handlers a processor runs; `sending`, `todo` the event a dispatcher clones and the branches it owes it to; `alive[n]` whether the node initialises, runs, has closed its channel or has ended. `lost` is history: deliveries of which a copy went away without a signal. Sends block on a full channel and fail on a closed one. The source, each processor and each dispatcher notices cancellation by itself. A delivery pulled again after a nak is a new delivery. The source is task 1 and all other tasks have a parent.

### Handling and the handlers

A handler is the set of its paths, one for every way its code branches to an `Ok`; a path is a sequence of steps: `Try` (may return one of the named errors), `Call` (changes the service and may fail before or after it did), `Emit` with or without the completion, `SignalOnce`, `SignalLeaves`, and so on. `CoreTasks`, `StoreTasks` and `ServiceTasks` give the paths of 48 kinds; a service whose operations treat errors differently has a kind for each. `Handling` runs a path under `Runner::run` and `handle_with_retry`: start with attempts, failed events passed on, retries of errors that are not permanent, cancellation of the delay, the closed next task, leaves that handle or fail what reaches them. What a script, query or conversion computes is data; whether it fails, and how many events come out (none, one, two), is not. The handlers' tables are where most of the mapped lines are: the map names the code of each path, formats included, and the steps keep its order and errors.

### Batches

Events reach the buffer directly or as elements of an iterate. `inbox` is the channel to the buffer, `loop` its select loop, `buffers`, `session` and `timed` the maps per key, `batches` what was flushed and is under way below, `chan` the completion channel of every event and element, `learned` what the sources learn. Size, time, key and completion flushes, the proxy that hands one result to all upstream channels, the fan-in of iterate, failed events, cancellation and a closed next task are actions. `broken` is history: completions whose batch failed at its last leaf, and events that iterate left before the end of their array (`Leave`).

### Sources

`first..end-1` is the log, `stored` the position in the cache, `next`, `batch`, `answers` and `deliveries` what the task keeps in memory; a crash loses the latter. `handled`, `given` (given up by `max_deliver`, lost by retention or truncation), `started` (partitions that were started before) and `passed` are history. `passed` holds the records the code steps over: those before the place of a partition's first start without a stored offset, and those produced at an offset the task is already past (`Past`), which a truncation makes possible. A Kafka task keeps an offset per partition and watches for new ones; Salesforce a replay id per batch; generate a count and the time of its last attempt; the change stream nothing.

### LeaderElection and Cluster

`entry` is the key with its JetStream revision: a lease, a tombstone or absent. Each pod's lease task is cut at its awaits, one action per cache call; `CallFails` ends a call with an error, before or after the cache applied it. Time is relative: the age of `renewed_at` and, per call, the time since it read `now`. `chan`, `flow` and `inst` are the leadership channel, the flow monitor and the running copies. The preference for a pod only delays an acquisition or starts a hand-over, so both are nondeterministic there.

`Cluster` models that preference and abstracts the lease to its holder: the records `peers.{identity}`, the renewal task that builds a record and writes it later, the informer that opens its watch, lists, reads and follows, `mark_ready`, the membership that must be settled for one TTL, the budget of a hand-over round, and shutdown. Rendezvous scores are a parameter.

### HotReload and Boot

Every start of a flow is an instance with its own definition, tasks, lease task, token and `abandoned` flag. `feed` holds the events under way: a front part in the reconciler's channel, the rest still in the watch stream. When the watch breaks, what was not forwarded is dropped with the stream (`CutOff`) and never repeated; `missed` remembers the flows whose last change was lost that way or was written while nobody watched. The reconciler goes through `CollectBatch`, `LastEvents`, `Ignored`, `StopOld`, `OldStopped` or `StopTimeout`, `StartNew`, `InsertNew`. A leader-elected flow's handle has a token no task holds (`reconciler.rs:405`), so its running tasks do not see a stop. The shutdown stops flows, waits with the timeout, and releases leases. `Boot` follows `App::start` on one or two pods: buckets, flows from files and cache, servers, flows, peers, readiness, where the leases are kept, and the failure of each step. `start_tasks` that fails, or a blocking task that ends with an error, is logged and nothing else (`StartFlows` picks any such set of flows): they are registered without routes.

### Endpoints, Admission, Listings, Catalog, Gateway

A request looks its registration up, is judged by `Admission` (own credentials, required user, headers, choice of model), gets an entry in the response registry if it streams, hands an event to the flow and waits. The registry is a map behind one mutex, and `send_progress` keeps it while it waits for room, so `lock` is a variable. Tenures separate a flow's successive registrations. `Listings` has one contested key per dispatch table, the queues of MCP sessions and what each client got when it listed (`listed`). A table changes in one step and its notification is broadcast in a later one (`announcing`), so other changes, listings and sessions come in between. `execute_tool_call` reads its table twice without an await in between; this is one step.

`Catalog` answers every JSON-RPC method over tables that change while a text is loaded. A call of a tool is judged by the tool's own API keys where it has some, everything else by the server's (`Authorized`), before the headers are looked at. A URI and a template are sequences of characters and parameters; matching is the code's search for the next literal. `Gateway` carries a conversation, as places of blocks, through `translate_request` and `build_request`, and the model's pieces of text and tool calls back through the blocking body or the stream writers.

### Toolsets, Clients, Sessions, Authoring, Telemetry, Logs

`Toolsets`: connections with static headers are shared, those with a user's token belong to the user; tokens change, sweeps close idle connections, a turn is retried. `Clients`: each map access is a step, clients and guards are numbered. `Sessions`: one browser, a provider that rotates refresh tokens and revokes a login whose token it sees twice, the cookie key in the cache, the single flight of each pod. `Authoring`: handlers read and write a change in two steps against its revision; the publish flow reads the branch and pushes against the tip; reports get lost. `Telemetry`: the counter of one flow on each pod, broadcast, the stream of each peer, the follower, the merged view, the cluster token. All flows of a pod share one bounded broadcast channel, so any frame of this flow may be lost to those of others (`Publish`, `LagLocal`); `lagged` remembers the pods whose last one was. `Logs`: an event of tracing goes through the layers in steps on its thread while others log, query and tail; a reader asks and subscribes in either order.

## 3. Runs

| Run | Question | Bounds |
|---|---|---|
| `completion` | Is the lock-free count-down an atomic one (`ImplementsPromise`), does the source always learn the end (`SourceLearns`), does an ack mean all leaves (`AckAfterEveryLeaf`); is a position stored by what was learned safe (`StoredIsHandled`), is every record read (`RecordsAreRead`)? | 3 copies, channel sized for 2: covers late signals; 2 records, up to 2 partitions, 2 disruptions, 5 ticks |
| `pipeline` | What does an ack mean (`AckAfterAllLeaves`), is every delivery answered (`EveryDeliveryEnds`), does a cancelled flow end (`CancelledFlowEnds`)? | a task that feeds a fork of 2 leaves, 2 deliveries that overlap once an `ack_timeout` passed, 1 slot, 2 attempts |
| `pipeline_remerge` (violation) | Does an ack mean the same where branches meet again? | 4 tasks, 1 delivery |
| `tasks` | Does an ack cover every leaf (`AckCoversEveryLeaf`), is an unsafe call made once (`UnsafeCallOnce`), does every event settle (`Settles`); does nothing of an acked event wait (`AckedIsDone`), do sources learn (`SourcesLearn`)? | 47 kinds, up to 2 leaves, 2 attempts; 2 events, 2 keys, 2 elements, buffer of 1 or 2 |
| `added_partition` (violation) | Is an added Kafka partition read from its earliest record (`AddedFromEarliest`)? | as for the sources in `completion` |
| `leader` | Who may renew (`OnlyHolderCanRenew`), do tasks follow the lease (`FlowFollowsLease`), is a free flow taken up (`FlowIsTakenUp`), does a stale leader stop (`StaleLeaderStops`)? | 2 pods, 3 writes, 1 disruption, any restarts |
| `cluster` | Do pods agree on their peers (`MembershipConverges`), do hand-overs end (`HandOversCease`)? | 2 pods, one of which comes and goes, 1 fault |
| `hot_reload` | Are copies kept apart (`OneCopyUnlessAbandoned`), is a released flow stopped (`ReleasedIsStopped`), do delivered changes arrive (`ChangesArrive`)? | 2 flows (one from files), 4 definitions, 2 writes, 1 break of the watch |
| `endpoints` | Is a success complete (`SuccessIsComplete`), the door kept (`AdmittedAsConfigured`), a client with a stale list told (`StaleIsAnnounced`), everyone answered (`EveryoneIsAnswered`)? | 2 requests, 2 flows, 1 session with a queue of 2, 2 starts and stops, channels of 1, all guards with all headers; a client that leaves with more chunks to come than its channel holds |
| `telemetry` | Do query and tail together miss only what was announced before the subscription (`NoGap`), does the view converge (`ViewConverges`)? | 1 viewer, 1 peer, 3 lines, 2 counts, 1 fault |
| `authoring` | Is what is published reviewed (`PublishedIsReviewed`), no commit lost (`NoEditIsLost`), does publishing end (`PublishingEnds`), does a session survive (`SessionSurvives`)? | 1 change, 2 approvals, 2 requests at once, 2 pods, 2 tokens |
| `parts` | Are leaf counts right (`LeavesAreReachable`), transcripts kept (`TranscriptIsKept`), tokens one's own (`OwnToken`), connections closed (`UserConnectionsClose`), ready pods serving or having logged why not (`ReadyIsServed`), clients healed (`ClientsHeal`), hidden entries absent (`HiddenIsAbsent`), templates substitutions (`MatchIsSubstitution`)? | all flows of up to 2 tasks, all of 4 distinct tasks; conversations of 2 messages; 2 users; 2 pods; 10 offers |

Small bounds suffice because the faults in question need few actors: two pods for any race on a lease, two leaves for any disagreement, two deliveries for any competition over a place in a channel of one, two writes for a replacement and a deletion, two requests for a race on a record, a token or a mutex, channels of one so that they are full often. Every property of a passing run fails for a mutant of the code it is about.
Deadlock is not checked: all these systems may stop (a pod exits, a flow finishes, a bound is reached); that they do not stop too early is what the liveness properties say.

Further properties hold in the same configurations and are kept in the modules, commented, to be named in a `.cfg` when the code they are about changes. Proved as well: the type invariants of `Completion`, `LeaderElection`, `HotReload` and `Pipeline`, `OneLastLeaf`, `TakeoverOnlyAfterExpiry`, `DeletedOnlyByHolder`, `NoLostInstance`, `FilesystemWins`, `OneLeaseTask`, `RoutesFollowRegistry`, `ClaimIsKept`, `DecisionIsFinal`, `OpensOnce`, `SplitIsWarned`, `InformedIsCurrent`, `FailureIsNotAcked`, `OneLogin`, `MountWins`, `EveryEventIsJudged`, `EntryHasOwner`, `HandledIsReported`, `ViewIsCurrent`, `OneToken`. Only tried with TLC: the other type invariants, `LinearIsDag`, `ImplicitChainIsFed`, `BatchIsSound`, `IntervalKept`, `Rebalanced`, `QueryIsNewest`, `StatusIsLatest`, `StreamIsWellFormed`, `TextIsToldOnce`.

### Fairness

* `Completion`: leaves keep being scheduled, and each ends or is dropped. Strong fairness of a successful CAS: another leaf's CAS can fail it only as often as there are leaves.
* `Pipeline`, `Handling`, `Batches`: tokio polls every task that can go on, a handler returns, `init` ends; attempts are bounded by `max_attempts`, 10 unless it is set to none. The buffer's interval ticks. Nothing is assumed of `ack_timeout`s, new messages, panics, aborts or cancellation.
* `Sources`: a task that is down is started again, calls succeed in the end (disruptions are bounded), the flow answers.
* `LeaderElection`, `Cluster`: time passes, lease tasks, renewals, informers, monitors and shutdowns go on. Faults are bounded, so calls succeed in the end.
* `HotReload`: the watcher subscribes again and the reconciler goes on. Nothing is assumed of flows stopping.
* `Endpoints`: flows handle what they take, stream tasks go on, clients read or leave. Timeouts are only assumed where one is configured.
* `Authoring`: handlers, publish tasks and flow runs go on; the report or the timeout of a publish task comes.
* `Telemetry`: followers reconnect, subscriptions deliver; faults are bounded.
* `Clients`, `Toolsets`: tasks and sweeps go on.
* In a run that joins parts the fairness is that of the part the behaviour is about; the others rest.

### Counterexamples

Two disagreements with what the repository says are runs of their own. `pipeline_remerge`: `build_dag` counts distinct leaves, but a leaf that two branches reach gets two copies and signals for each. The counter is at zero before the last copy is handled. (A buffer at the meeting point merges the copies, which is the case the comment there has in mind.) `added_partition`: the documentation has an added Kafka partition "read from [its] earliest record" (`docs/src/routes/kafka/subscribe/+page.md:62`), which only `watch_partitions` sees to. When the task connects anew, is started again, or the cache does not take that offset, `init` finds the partition first and starts it at `start_offset`, so "latest" skips what it holds.

Other instances end in a counterexample too. Each is obtained from the `.cfg` of its module's run by the changes named here:

* `Completion.cfg` with `LeafCount = 3` and only `INVARIANT NoSilentPartialAck`: only the last leaf's verdict reaches the source; if one leaf fails and a later one succeeds, the message is acked. The documentation says partial failures never silently ack.
* `LeaderElection.cfg` with `SPECIFICATION Spec`, `MaxRev = 4`, `MaxGen = 3`, `MaxDisruptions = 0` and only `PROPERTY NoLiveLeaseIsTaken`: `acquire_lease` reads "no value" and asks for the revision in another call; a lease written in between is overwritten without an expiry check.
* The same with `MaxDisruptions = 1`, `ParallelInstances = 2` and only `INVARIANT AllInstancesRun`: a re-acquired lease starts one instance instead of `parallel_instances`.
* `HotReload.cfg` with `SPECIFICATION Spec`, `Flows = {f1}`, `Files = {}`, `Configs = {plain, elected}`, `Broken = {}`, `BadGraph = {}`, `MaxStarts = 4`, `MaxWrites = 2`, `MaxBreaks = 0` and only `INVARIANT NoOverlap`: the running tasks of a leader-elected flow do not hear the stop of a hot reload, so the replacement runs next to them.
* `MCSources` with `SPECIFICATION SourcesSpec`, `SourceSetups <- SalesforceTask`, `MaxLog = 2`, `MaxBatch = 2`, `MaxTime = 0`, `Interval = 1`, `MaxRuns = 1` and only `INVARIANT ReplayIsHandled`: `process_events` logs an event whose flow failed or timed out and returns Ok, so the replay id is cached behind it, against the comment at `salesforce/src/pubsubapi/subscriber.rs:163` ("replay_id is only cached after ALL events succeed").
* `MCTasks` with `Kinds <- Publisher` and no `BatchSetups` (`FailedIsUnhandled`): the Salesforce publisher's own loop handles events that failed upstream.

Seen while modelling, and the reason why some properties are stated as they are:

* Hot reload. A change written while the watch is down is never applied, and neither is one that was still on its way when the watch broke: the stream is dropped with it and the next watch starts without history (`watcher.rs:76`, `85-98`). Until the flow changes again or the pod restarts it runs the old definition. `ChangesArrive` excepts these flows (`missed`) and speaks of changes that were delivered. A definition whose graph is wrong passes the checks before the old flow is stopped (`reconciler.rs:330`). At shutdown leader-elected flows always run into `FLOW_STOP_TIMEOUT`, and the leases of flows started by a hot reload are not released (`app.rs:1219`); they expire.
* Leases. Between the expiry of a lease and the old leader's next renewal, two pods run the flow: leases have no fencing. `StaleLeaderStops` bounds it.
* Start. `start_tasks` that fails, or a blocking task that ends with an error, is only logged (`app.rs:1099-1119`); the flow is registered, the pod becomes ready and serves without its routes. `ReadyIsServed` therefore says served or logged. A pod whose system bucket does not open keeps its leases in the runtime cache while others use the system bucket: two leaders (`EnabledIsShared` fails). With `cache: enabled: false` every pod has a memory cache of its own and the warning at `app.rs:964` does not fire. One cache value that is not UTF-8 aborts the start.
* Peers. A renewal built before `mark_ready` and written after it takes the readiness back until the next renewal (`peer.rs:189-205`). The memory cache does not tell watchers of create, update and delete by revision.
* Handlers. Klaviyo and Braze retry failed sends of unsafe calls. `object_read` drops the completion for an unsupported extension; `object_write` of an empty batch signals once, whatever the leaves; a retry of `object_read` with deletion emits again; an object move that failed half-way fails for ever; a BigQuery append error without row errors counts as success (`storage_write.rs:705`); an upsert creates on any lookup error; concurrent `git_sync` ticks share a clone. `UnsafeCallOnce` names the kinds it is about.
* Batches. A keyed buffer of size 1 makes batches of two; a cancelled buffer drops its contents although `buffer.rs:204` speaks of a flush. `SourcesLearn` holds because the dropped completions close. Behind an `iterate` a source is told "ok" although the batch with one of its elements failed or went away with a cancelled buffer: the fan-in counts an element whatever its verdict (`iterate.rs:108`), also one whose completion was dropped. The comment above it (`iterate.rs:88-90`) has missing signals treated as success, and in the same breath has the source fall back to its `ack_timeout` when no completion arrives; the code does the former. `AckedIsDone` says of such an event only that nothing of it is still waiting and that iterate sent its array to the end.
* Sources. A MongoDB change stream keeps no resume token, a managed Salesforce subscription never commits, and an added Kafka partition may start at `start_offset` (the run `added_partition`). After a truncation, new records get offsets that the task may be past already, in memory or in the cache, and are not read. `RecordsAreRead` and `StoredIsHandled` count the records of both kinds as passed over (`passed`) and no others.
* Endpoints. `send_progress` (`core/src/registry.rs:117`) holds the registry's mutex while it waits for a full channel; the stream task of a client that left waits for the mutex in `remove` and owns the receiver nobody drains (`http/src/endpoint.rs:763`). Neither goes on, and the other requests of that flow wait behind them. The run `endpoints` contains this: `EveryoneIsAnswered` excepts the requests of a flow that is `Deadlocked` so, and holds otherwise. `broadcast_notification` drops what does not fit: a client whose queue is full of notifications of one list is not told of a change of the other and keeps its old list until that changes again. `StaleIsAnnounced` excepts this (`missed`), and what changed before a session was opened. An entry stays when the handler's future is dropped in the send (`EntriesAreCleanedUp` fails), or when the gateway cannot write its opening frames. A failed completion of a webhook stream sends nothing; the gateway closes a dropped completion like a finished one, and a timeout without closing frames: `SuccessIsComplete` is about answers that say success. MCP tools insert into the MCP server's registry while the flow's task sends progress to the flow's (`app/src/flow.rs:571`), so tool progress is not delivered. Webhook `register` overwrites. Basic credentials together with `auth.required` admit nobody.
* Catalogue. A literal after the last parameter of a template is not compared, a repeated parameter keeps the last value, an empty value does not match (`mcp/src/server.rs:1358`): `MatchIsSubstitution` leaves these templates out. A hidden concrete resource shadows a visible template; `completion/complete` does not look at headers. `execute_tool_call` checks a tool's own credentials before its headers (`mcp/src/server.rs:1415`, `1426`), so a caller whose key those credentials and the server's judge differently learns that a hidden tool exists; the comment on `headers` in `mcp/src/tool.rs:53` has hidden and absent tools alike. `HiddenIsAbsent` excepts these cases, and has no other.
* Gateway. A retry after a broken model stream repeats streamed text; a blocking OpenAI response with tool calls drops the text. A non-tool Anthropic request drops assistant turns: `TranscriptIsKept` says which blocks must arrive.
* Clients. A client that dies before its subscriber has finished setting up is never removed (`ClientsAlwaysHeal` fails); `ClientsHeal` is about those some subscriber ran on.
* Authoring, sessions. A change whose push landed but whose report was lost is recorded as failed and may be rejected although it is on the branch. The single flight of a refresh is per process, so two pods may use a token twice; `torn` excludes it from `SessionSurvives`. A refresh that answers after a logout sets the cookie again.
* Telemetry. Two threads that count the same level may store times backwards; a peer's log lines are lost while its stream reconnects; a late line of a peer that is gone may stay. All flows of a pod share one broadcast channel of 256 frames, and a receiver that lags skips what it lost (`activity.rs:410`, `442-447`): the last frame of a flow may be among it, and the view of a flow that then is quiet stays behind for ever. `ViewConverges` and `ViewIsCurrent` except these three (`misordered`, `straggled`, `lagged`). The readers of logs ask first (`activityStore.svelte.ts:234-241`) or ask and subscribe at once (`monitor/logs/+page.svelte:131-132`): a line stored after the answer and announced before the subscription is in neither. `NoGap` names these lines (`unheard`) and shows that no other is missed, in either order; a reader that subscribes first misses none.

## 4. Proofs

All theorems hold for every value of the constants allowed by the named assumptions; tlapm checks every leaf.

`CompletionProofs` (any finite set of leaves, any `LeafCount`). `AckAfterEveryLeaf` is not inductive by itself: an ack depends on the outcome, which depends on the leaf that won the last CAS, which depends on the counter. The invariant is `IInv == TypeOK /\ CountInv /\ WinnerInv /\ SenderInv /\ SignalInv`: leaves counted plus `remaining` equals `Expected`; at most one leaf is the last and only when `remaining` is zero; an outcome exists only once the sender is gone, and the source acks only an outcome "ok"; a leaf in the loop has a verdict and has seen a counter above zero. `CountInv` rests on `NextCounted`: a CAS adds one leaf to a finite set, other steps none. From it:
* `TypeCorrect`, `AckIsComplete` (`AckAfterEveryLeaf`), `LastLeafIsUnique` (`OneLastLeaf`);
* `AckMeansAllLeaves`: if the channel is sized for all copies, an ack means all copies counted;
* `Refinement`: initial states and steps map to `CompletionPromise`.

`LeaderElectionProofs` (any pods, any bounds). `IInv == TypeOK /\ EntryShape /\ \A p \in Pods : PodKnows(p)`. `EntryShape`: the entry's revision is at most `seq`, and a lease has a pod as holder. `PodKnows(p)`: what pod `p` remembers was true when it read it: if its revision still is the entry's, the entry is the one it saw, in every state of its lease task. Revisions only grow, so a write by one pod makes the others' memories harmless (`OthersKnow`); each action then has to re-establish only the acting pod's part (`PodStep`). From it: `TypeCorrect`, `RenewalIsTheHolders` (`OnlyHolderCanRenew`), and the action properties `TakeoverNeedsExpiry` (`TakeoverOnlyAfterExpiry`) and `DeletedByHolder` (`DeletedOnlyByHolder`). `FlowIsTold` (`FlowFollowsLease`) needs more: `FlowInv` says for each pod what its leadership channel and its flow monitor know, as the last message sent and not yet read is the truth about the lease, or the lease task is about to send it.

The same module proves `InformersAreCurrent` (`Cluster.InformedIsCurrent`) for any pods, scores and bounds. While an informer follows its watch, for every pod either the last event about it that is still to be taken brings the record the cache has (`Arrives`), or nothing about it is to come and what has been read, or is known, is at least as new (`UpToDate`); a pod that follows its own record is the exception, since its older events may come after it knows better. `InformerInv` adds that a feed, a reading and a watch belong to an informer that runs (`Attached`). A pod hears of its own record as long as its informer is still reading (`Hears`): what it reads may be older.

`PipelineProofs` (any task list; any flow that builds, any bounds). The leaf sets `build_dag` propagates are a recursive function, so nothing about them follows until it is shown to exist and to be the only one. It exists: the sets of leaves that a path leads to (`Led`) satisfy its equation, because every parent comes before its children. It is unique: two solutions that differ would differ at a greatest task, whose children agree. So `LeafCountsAreRight` (`LeavesAreReachable`) holds for every list of tasks, without induction over data. `AckIsComplete` (`AckAfterAllLeaves`) is stated for flows in which every task but the source has one parent (`OnePath`): `pipeline_remerge` refutes it for others. It needs a count of what is still to come. A copy of the event, wherever it is (with the subscriber, in a channel, in a slot of a processor, with a dispatcher), owes a signal for each leaf below it that it has not been sent towards. `Books(d)`: what two places owe is disjoint (`Apart`), and all of it, with one more if a copy was thrown away, does not exceed `remaining` (`Covered`); an outcome exists only once `remaining` is zero. Every step either moves what is owed from a place to places it did not reach before (`Kept`), or takes a leaf away and counts it (`Counted`); with `PTypes`, the type invariant with the shapes of channels and slots, `PInv` is inductive.

`EventsAreJudged` (`EveryEventIsJudged`) needs the bound in the other direction, and holds for every flow, whether or not its branches meet: while all tasks run and no copy was lost, `remaining` is at most the number of leaves still owed, and stays above zero until there is an outcome (`Awaited`). A step leaves every place what it owes except the one it takes the event from, and what that one owed is owed there or where the event went (`Carries`); only a leaf's own signal takes a leaf away, and it counts it (`Served`). `OpenBefore`: tasks that run now ran before, so no step went through a closed channel. When no copy is left nothing is owed, the counter is at zero and the source has its verdict.

`SourcesProofs`. (1) `PlacesAreSafe` (`StoredIsHandled`), for any partitions, setups, logs, crashes and cache failures. `PlaceInv`, for tasks that keep a place per record (Kafka, generate): every record below the stored place, and below what is read next, is handled, given up or passed over (`Covered`); an answer that says "completed" is about a handled record, and at most the next record is with the flow (`Delivered`); a partition that was started has a stored place, so `init` steps over records of a partition once (`Fresh`). (2) `AcksCoverLeaves` (`AckCoversEveryLeaf`) and `UnsafeCallsOnce` (`UnsafeCallOnce`), for every kind of task, any leaves and attempts. What the proof has to know of the handlers is one assumption over the tables of paths, `PathsAssumption`, which TLC evaluates for every kind: except in `WorksAfterHandOn`, a path hands its completion on, or signals, with its last step, and a task that does not retry safely makes one call after which only permanent errors come. `HandInv == HandTypes /\ Accounts /\ Cautious`. `Accounts`: while the task works nothing below has heard of the completion (`Untold`), or the path is at its end and every leaf was handed the completion once, with `remaining` plus the leaves that served it equal to their number (`HandedOn`), or the task is done and only an error went on (`ReportedFailed`). `Cautious`: behind an unsafe call no step of the rest of the path can fail with an error that is retried. (3) `FailuresAreNotAcked` (`FailureIsNotAcked`), for every kind but the Salesforce publisher, whose own loop works on events that failed upstream: with `HandInv`, a task that gave up or never worked has told nobody of a success (`Truthful`). (4) `SourcesAreTold` (`HandledIsReported`), in the other direction: unless something stops the task or the next one, or it does not start, nothing is known of an event until the last step of a path, which every path has (`Concludes`, also in `PathsAssumption`; three kinds of `object_*` tasks are excepted); from then on, also after a failure on the last attempt, the source has a verdict or still counts exactly the leaves that an event is on its way to (`Sent`), so its channel cannot close on it.

`HotReloadProofs` (any finite non-empty set of flows, any definitions, starts, writes). `IInv == TypeOK /\ Born /\ Handles /\ Found /\ Superseded /\ Drained /\ Leases /\ FilesystemWins`. While the pod is up, an instance that lives is registered, in the reconciler's hands or abandoned (`Found`); an instance with a younger one of its flow is done or abandoned (`Superseded`); the shutdown waits for all that live (`Drained`); a lease task is the registered instance's or belongs to the one being stopped (`Leases`). From it `NoSecondCopy` (`OneCopyUnlessAbandoned`), `ShutdownDrains` (`ReleasedIsStopped`), `NothingIsLost` (`NoLostInstance`), `LeasesAndFiles` (`OneLeaseTask`, `FilesystemWins`); with `Routes`, which says what is registered while a flow is being replaced, `ServedIsRegistered` (`RoutesFollowRegistry`).

`EndpointsProofs` (any flows, requests, setups, sessions, capacities). `EndInv == RequestTypes /\ Queued /\ \A r \in Asked : Served(r)`. A request is in one input channel once, that of the tenure it found. `Served` follows it from the door to the answer: it was let in by the guard (`Door`), stream stages belong to streams (`Stage`), the flow sends nothing after its completion (`Settled`), every chunk the flow sent is told, in the body or on its way (`Counted`), a success comes last and only after a completion that succeeded (`Closing`), a client that left is told nothing (`Left`). From it `SuccessesAreComplete` and `DoorsAreKept`. `ChangesAreAnnounced` (`StaleIsAnnounced`) is inductive with its types (`ListInv`), by a case for every way a list and what a client has of it come apart: a step that changes what a list holds, a registration or a stop, leaves a notification for that list to be broadcast (`Announces`, `ContentKept`), a broadcast puts it into every open queue that has room, and a client that reads it has the list to list again. `ClaimsAreKept` (`ClaimIsKept`) is an action property. `EntriesAreOwned` (`EntryHasOwner`) rests on `Owned`: which entries a request has in the response registry, and at which stages of its handler and its stream; a step takes one request on or removes its entry, and the entries of the others stay (`OwnersRest`).

`AuthoringProofs` (any changes, paths, contents, requests, pods). `AuthInv == AuthTypes /\ Created /\ Reads /\ Keeps /\ Seen /\ Builds`: what a handler is about to write follows from the change it read, as long as the revision has not moved (`Reads`); a publish task holds the record its approval wrote (`Keeps`); a page that shows the last edit shows the files as they are (`Seen`); a commit whose parent is still the tip replaces what it expects (`Builds`). From it `ReviewedIsPublished`, `EditsAreKept` and `DecisionsStand`. `SessInv == SessTypes /\ Keyed /\ Issued /\ Logins /\ Flights`: pods that are up have one key; tokens belong to logins; unless the login was torn, one exchange of a token is under way, and each login has a live token. From it `SessionsSurvive`.

`PartsProofs` (any deployments, pods, users, servers, tokens, lines, filters, catalogues, callers, conversations). `BootInv`: what a pod offers, has logged as failed and was warned of at each stage of its start, and where its leases are: `ReadyPodsServe`, `SplitsAreWarned`. `ToolInv == ToolTypes /\ Owned /\ Holds /\ Fetches /\ Locks`: every slot belongs to one user, for ever, and one turn at a time holds the lock of a slot: `TokensAreOwn`, `ConnectionsOpenOnce`. `LogInv`: a line stored after the answer to a query does not match the filter, was announced before the reader subscribed (`unheard`), has reached the tail or is with the thread that logs it, whether the reader asked or subscribed first: `TailsHaveNoGap`. `HiddenStaysHidden` (`HiddenIsAbsent`): replies are made of entries the caller's headers admit, when they are looked up and again when a text has been loaded. What a tool's own credentials say of the caller depends on the tool, hidden or not: a table holds a key once (`Unambiguous`), so where these and the server's agree, or the tool is visible (not `Betrays`), the verdict at the door is that of a server without the hidden entries (`CredentialsHide`). `MountComesFirst` (`MountWins`): a loader that went on to the cache has seen that the mount has no such key. `MatchesSubstitute` (`MatchIsSubstitution`), for templates and URIs of any length: `Match` is a recursive function, so `MatchIs` first shows that it exists and satisfies its equation (approximations for templates up to a length exist, agree, and agree with their limit); `FirstSplits` cuts template and URI around the first parameter; `MatchesAreBound` then takes a shortest template whose bindings would not give back the URI, which cannot be, since the template behind its first parameter is shorter. The same argument on lengths replaces induction for what `FlattenSeq` joins (`FlattenConcat`). `ReadInv` brings it to the handler: what was chosen for a read is a registered template that matched. `ClientInv`: until a key is removed there is one guard for it, so one caller at a time asks the provider and the others find the client: `LoginsAreShared` (`OneLogin`). `TranscriptsAreKept` (`TranscriptIsKept`), for conversations of any length: what a message becomes is mapped to what the model is given of it, and joining and mapping commute (`MappedConcat`, `MappedFlatten`), so one message at a time will do (`EachPasses`). A user's message is a recursive scan of its blocks; the scan exists (`ScansExist`), and at each block what it has put out, with the text it still buffers, is what is kept of the blocks so far (`Reached`). A message that the model's interface refuses refuses the request (`Taken`, `FlattenHasAll`).

The same module proves the safety half of `ViewConverges`, `ViewsAreCurrent` (`ViewIsCurrent`), for any peers, channel capacities and faults. `CurrentInv`: a pod's count was broadcast last or has yet to be (`CountsAreTold`); while a stream is followed the newest value on its way, in the coalesced update, the lines, the channel or the view itself, is the count (`StreamAgrees`, `LatestComes`), where an update that came before the snapshot may be older only while a newer one is due; behind a peer that is not followed any more comes its Gone (`LeftPeer`). `EndsWith(q, v)` says what the view holds of a peer once the channel is drained; taking an item keeps it, a new item replaces it for its peer alone (`EndsTaken`, `EndsAppended`). The two races that `ViewConverges` excepts, `misordered` and `straggled`, are excepted here too, and so are the pods whose last frame was lost in the shared channel (`lagged`), until the next one. `PodsShareToken` (`OneToken`): until a regeneration the cache's token is the first one or not there, and what pods keep is that or nothing.

`BatchesAckWhenDone` (`AckedIsDone`, also in `CompletionProofs`), for any events, keys, flows below the buffer, sizes and numbers of elements. `BatchInv == BatchTypes /\ Single /\ Kept(c) /\ Counts(b) /\ Splits(e)` for all completions `c`, batches `b` and events `e`. A completion is in one place, the channel to the buffer, one key's buffer or one batch (`OnePlace`); as long as it is there, or iterate still owes its message, nobody has signalled to it (`Kept`): under a proxy it is as new, without one it counts in step with its batch (`Follows`). A batch has no more leaves left than its counter (`Counts`). An event iterate works on is not with the buffer, and its verdict is a success only when none of its elements is held (`Splits`). So `AckedIsDone` follows from "what is held has no verdict" (`HeldIsOpen`). The theorem says that a batch did not fail only of the batch an event itself is in; of the batches with an event's elements it says that none is under way, since iterate drops their verdicts. Every step touches the completions of one event, one message or one batch: `AloneKept` does all others at once.

The assumptions are named `ASSUME`s that TLC evaluates: finite sets where something is counted, capacities and attempts of at least one, model values that differ from the markers of the modules, lists that are sequences, and `PathsAssumption`. 

Only model-checked: liveness (fairness and `ENABLED` are out of the provers' reach), which includes both properties of the run `cluster`, `ViewConverges`, `ClientsHeal` and `UserConnectionsClose`; and the properties "only tried with TLC" above.

## 5. Not modelled

* Payloads, formats, templates, scripts, queries and wording are data; what external services compute is external. Where a handler's choice depends on data, the model takes every choice.
* Web pages, listings and conversations of `app/src/web.rs`, configuration parsing, the script engine, the sandbox, the memory of agents, charts and the documentation site: no protocol, or only data.
* NATS stream and consumer management, per-value expiry and key listing of the cache backends.
* OTLP export, and the thread pool behind tracing.
* Time is relative or a small clock; delays are abstracted to their order, except where an expiry is judged by an old reading.

## 6. Plan

The modules cover every component with a protocol; every safety property that a run checks is proved. What is left is to prove the properties of section 3 that are only tried with TLC. In this order:

1. `Gateway.TextIsToldOnce` and `StreamIsWellFormed`, which need the lists of frames as filters that the provers can open, as `FlattenSeq` is.
2. `Logs.StatusIsLatest`, then `QueryIsNewest`, which counts the lines a ring has dropped.
