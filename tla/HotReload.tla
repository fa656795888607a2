------------------------------ MODULE HotReload ------------------------------
(***************************************************************************)
(* Hot reload of flows on one pod: the watcher (app/src/watcher.rs) that    *)
(* follows the flow cache, the reconciler (app/src/reconciler.rs) that     *)
(* turns its events into starts and stops, the flow registry with its      *)
(* FlowHandles (app/src/app.rs), the flows' monitors (app/src/flow.rs) and *)
(* the shutdown of the process.                                            *)
(*                                                                         *)
(* Every start of a flow is an instance of its own; instances that are     *)
(* stopped, abandoned or replaced stay in the model, because their tasks   *)
(* may go on.  The reconciler is cut at its awaits.  `feed` holds the      *)
(* events under way to the reconciler: a front part is in its channel, the *)
(* rest still in the watch stream and lost when the stream breaks.         *)
(***************************************************************************)
EXTENDS Naturals, Sequences, FiniteSets

CONSTANTS Flows,        \* flow identities
          Files,        \* the flows loaded from the filesystem
          Configs,      \* flow definitions
          FileConfig,   \* the definition the filesystem holds
          Elected,      \* definitions that run under leader election
          Broken,       \* definitions that do not parse, validate, build or initialise
          BadGraph,     \* definitions whose task graph is wrong, seen when tasks are spawned
          MaxStarts,    \* bound: instances
          MaxWrites,    \* bound: writes to the flow cache
          MaxBreaks     \* bound: ends of the watch stream

Deleted == "deleted"
NoEvent == "no event"

\* start_tasks spawns the tasks and fails on a wrong graph; that of a
\* leader-elected flow returns at once.
Startable == (Configs \ (Broken \cup BadGraph)) \cup (Elected \ Broken)

ASSUME ConstantsAssumption ==
  /\ Files \subseteq Flows
  /\ FileConfig \in Configs \ (Broken \cup BadGraph)
  /\ Elected \subseteq Configs
  /\ Broken \subseteq Configs
  /\ BadGraph \subseteq Configs
  /\ MaxStarts \in Nat
  /\ MaxWrites \in Nat
  /\ MaxBreaks \in Nat
  /\ {Deleted, NoEvent} \cap Configs = {}
  /\ IsFiniteSet(Flows) /\ Flows # {}
  /\ Cardinality(Flows) + MaxWrites <= MaxStarts

Ids == 1..MaxStarts

VARIABLES stored,     \* flow definitions in the flow cache
          watching,   \* the watcher is subscribed
          feed,       \* watch events the reconciler has not taken yet
          registry,   \* flow_registry: the instance behind each flow's handle, 0 if none
          route,      \* the instance whose endpoints the shared servers hold, 0 if none
          flowOf, config, tasks, lease, cancelled, abandoned,   \* of each instance
          starts,     \* instances so far
          booted,     \* instances whose task manager App::start collected
          pc, batch, cur, want, old,   \* the reconciler and its local variables
          phase,      \* App::start: "up", "stopping", "releasing", "leaving" or "exited"
          waits,      \* instances whose handles stop_flows has drained
          dropped,    \* history: instances in the reconciler's hands when it was aborted
          missed,     \* history: flows whose last change no watch brings: written while
                      \* nobody watched, or cut off in a stream that broke
          writes, breaks

instVars == <<flowOf, config, tasks, lease, cancelled, abandoned, starts>>
recVars == <<pc, batch, cur, want, old>>
appVars == <<booted, phase, waits, dropped>>
envVars == <<stored, watching, missed, writes, breaks>>
vars == <<envVars, feed, registry, route, instVars, recVars, appVars>>

Max(S) == CHOOSE x \in S : \A y \in S : y <= x

\* Mutant of LastEvents: the first event of each key wins.
FirstEvents(events) ==
  [f \in Flows |->
     LET at == {i \in 1..Len(events) : events[i].flow = f}
     IN IF at = {} THEN NoEvent
        ELSE events[CHOOSE i \in at : \A j \in at : i <= j].config]

\* Deduplication of a batch: the last event of each key.
LastEvents(events) ==
  [f \in Flows |->
     LET at == {i \in 1..Len(events) : events[i].flow = f}
     IN IF at = {} THEN NoEvent ELSE events[Max(at)].config]

\* The monitor of instance i has returned and its tasks are gone.
Done(i) == tasks[i] = "done"

-----------------------------------------------------------------------------

\* load_flows_from_filesystem: one flow per file that parses and validates.
FilesystemFlow(f) == IF f \in Files THEN FileConfig ELSE Deleted

\* load_flows_from_cache: the keys under the prefix; a definition that does not
\* parse or validate is skipped.
CacheFlow(f) == IF stored[f] \in Broken THEN Deleted ELSE stored[f]

\* The definition App::start runs for a flow; the filesystem takes precedence.
BootConfig(f) == IF FilesystemFlow(f) # Deleted THEN FilesystemFlow(f) ELSE CacheFlow(f)

\* What spawning a definition gives: tasks, or a wait for leadership.
Spawned(c) == IF c \in Elected THEN "idle" ELSE IF c \in BadGraph THEN "done" ELSE "running"

\* App::start has loaded, initialised and started the flows, one instance for
\* each; one whose start_tasks failed is registered all the same.  Watcher and
\* reconciler are spawned only now.
Init ==
  /\ stored \in [Flows -> Configs \cup {Deleted}]
  /\ LET runs == {f \in Flows : BootConfig(f) \notin Broken \cup {Deleted}}
         order == 1..Cardinality(runs)
         first == CHOOSE s \in [order -> runs] :
                    \A f \in runs : \E i \in order :
                      s[i] = f /\ \A k \in order : s[k] = f => k = i
         boot == [f \in Flows |-> IF f \in runs THEN CHOOSE i \in order : first[i] = f ELSE 0]
     IN /\ starts = Cardinality(runs)
        /\ registry = boot
        /\ flowOf = [i \in Ids |-> IF i <= starts THEN first[i] ELSE CHOOSE f \in Flows : TRUE]
        /\ config = [i \in Ids |-> IF i <= starts THEN BootConfig(first[i]) ELSE FileConfig]
        /\ tasks = [i \in Ids |-> IF i <= starts THEN Spawned(config[i]) ELSE "unborn"]
        /\ lease = [i \in Ids |-> IF i <= starts /\ config[i] \in Elected
                                  THEN "seeking" ELSE "none"]
        /\ route = [f \in Flows |-> IF f \in runs /\ tasks[boot[f]] = "running"
                                    THEN boot[f] ELSE 0]
        /\ booted = 1..starts
  /\ watching = FALSE
  /\ feed = <<>>
  /\ cancelled = [i \in Ids |-> FALSE]
  /\ abandoned = [i \in Ids |-> FALSE]
  /\ pc = "list"
  /\ batch = [f \in Flows |-> NoEvent]
  /\ cur = CHOOSE f \in Flows : TRUE
  /\ want = Deleted
  /\ old = 0
  /\ phase = "up"
  /\ waits = {}
  /\ dropped = {}
  /\ missed = {}
  /\ writes = 0
  /\ breaks = 0

(***************************************************************************)
(* The flow cache and the watcher.                                         *)
(***************************************************************************)

\* Somebody (git sync, the authoring API) puts or deletes a definition.
Write(f, c) ==
  /\ writes < MaxWrites
  /\ phase = "up"
  /\ c = Deleted => stored[f] # Deleted
  /\ writes' = writes + 1
  /\ stored' = [stored EXCEPT ![f] = c]
  /\ feed' = IF watching THEN Append(feed, [flow |-> f, config |-> c]) ELSE feed
  /\ missed' = IF watching THEN missed \ {f} ELSE missed \cup {f}
  /\ UNCHANGED <<watching, breaks, registry, route, instVars, recVars, appVars>>

\* watch(prefix, false): only what is written from now on.
Subscribe ==
  /\ phase = "up"
  /\ ~watching
  /\ watching' = TRUE
  /\ UNCHANGED <<stored, missed, writes, breaks, feed, registry, route, instVars, recVars, appVars>>

\* The flows with an event among those after the n-th of the feed.
CutOff(n) == {f \in Flows : \E i \in (n + 1)..Len(feed) : feed[i].flow = f}

\* The stream ends or fails and is dropped with the events it has not delivered;
\* those forwarded before stay in the channel.  The watcher waits before it
\* subscribes again, and the new stream does not repeat the lost ones.
WatchBreaks ==
  /\ watching
  /\ breaks < MaxBreaks
  /\ breaks' = breaks + 1
  /\ watching' = FALSE
  /\ \E n \in 0..Len(feed) :
       /\ feed' = SubSeq(feed, 1, n)
       /\ missed' = missed \cup CutOff(n)
  /\ UNCHANGED <<stored, writes, registry, route, instVars, recVars, appVars>>

(***************************************************************************)
(* The reconciler.                                                         *)
(***************************************************************************)

\* cleanup_stale_cache_entries: the keys of the flows the filesystem manages.
ListStale ==
  /\ pc = "list"
  /\ batch' = [f \in Flows |-> IF f \in Files /\ stored[f] # Deleted THEN Deleted ELSE NoEvent]
  /\ pc' = "cleanup"
  /\ UNCHANGED <<cur, want, old, envVars, feed, registry, route, instVars, appVars>>

\* A listed key is deleted, or its deletion fails and is logged.
DeleteStale(f) ==
  /\ pc = "cleanup"
  /\ batch[f] # NoEvent
  /\ batch' = [batch EXCEPT ![f] = NoEvent]
  /\ \/ UNCHANGED <<stored, feed>>
     \/ /\ stored' = [stored EXCEPT ![f] = Deleted]
        /\ feed' = IF watching THEN Append(feed, [flow |-> f, config |-> Deleted]) ELSE feed
  /\ UNCHANGED <<pc, cur, want, old, watching, missed, writes, breaks, registry, route, instVars, appVars>>

\* collect_batch: the debounce window closes after any number of events.
CollectBatch ==
  /\ pc = "collect"
  /\ \E n \in 1..Len(feed) :
       /\ batch' = LastEvents(SubSeq(feed, 1, n))
       /\ feed' = SubSeq(feed, n + 1, Len(feed))
  /\ pc' = "next"
  /\ UNCHANGED <<cur, want, old, envVars, registry, route, instVars, appVars>>

\* runs_source: the running instance comes from exactly this definition.
RunsSource(f, c) ==
  registry[f] # 0 /\ config[registry[f]] = c /\ ~Done(registry[f])

\* The early returns of reconcile_put and reconcile_delete that leave the
\* running flow as it is.
Ignored(f, c) ==
  \/ f \in Files
  \/ c # Deleted /\ (c \in Broken \/ RunsSource(f, c))

\* Mutant of StopOld: the replacement goes in without stopping the old flow.
StopOldNever(f) == UNCHANGED <<registry, cancelled, route>> /\ old' = 0 /\ pc' = "start"

\* stop_and_deregister: the handle leaves the registry, its token is cancelled,
\* its endpoints are removed from the servers.
StopOld(f) ==
  IF registry[f] = 0
  THEN /\ pc' = "start"
       /\ old' = 0
       /\ UNCHANGED <<registry, cancelled, route>>
  ELSE /\ pc' = "stop"
       /\ old' = registry[f]
       /\ registry' = [registry EXCEPT ![f] = 0]
       /\ cancelled' = [cancelled EXCEPT ![registry[f]] = TRUE]
       /\ route' = [route EXCEPT ![f] = 0]

\* reconcile_put and reconcile_delete up to the wait for the old flow.
Reconcile(f) ==
  /\ pc = "next"
  /\ batch[f] # NoEvent
  /\ batch' = [batch EXCEPT ![f] = NoEvent]
  /\ cur' = f
  /\ want' = batch[f]
  /\ IF Ignored(f, batch[f])
     THEN UNCHANGED <<pc, old, registry, cancelled, route>>
     ELSE StopOld(f)
  /\ UNCHANGED <<envVars, feed, flowOf, config, tasks, lease, abandoned, starts, appVars>>

BatchDone ==
  /\ pc \in {"cleanup", "next"}
  /\ \A f \in Flows : batch[f] = NoEvent
  /\ pc' = "collect"
  /\ UNCHANGED <<batch, cur, want, old, envVars, feed, registry, route, instVars, appVars>>

\* TaskManager::unregister aborts the old flow's lease task; the key stays.
Unregister == lease' = [lease EXCEPT ![old] = "none"]

\* The old flow's monitor has returned within FLOW_STOP_TIMEOUT.
OldStopped ==
  /\ pc = "stop"
  /\ Done(old)
  /\ Unregister
  /\ pc' = "start"
  /\ UNCHANGED <<batch, cur, want, old, envVars, feed, registry, route, flowOf, config,
                 tasks, cancelled, abandoned, starts, appVars>>

\* FLOW_STOP_TIMEOUT: the JoinHandle is dropped, the monitor goes on.
StopTimeout ==
  /\ pc = "stop"
  /\ ~Done(old)
  /\ Unregister
  /\ abandoned' = [abandoned EXCEPT ![old] = TRUE]
  /\ pc' = "start"
  /\ UNCHANGED <<batch, cur, want, old, envVars, feed, registry, route, flowOf, config,
                 tasks, cancelled, starts, appVars>>

\* A delete is done; a definition whose task graph is wrong fails in start_tasks.
StartNothing ==
  /\ pc = "start"
  /\ want \notin Startable
  /\ pc' = "next"
  /\ UNCHANGED <<batch, cur, want, old, envVars, feed, registry, route, instVars, appVars>>

\* The blocking tasks register the new flow's endpoints; a leader-elected flow
\* has none.
StartRoute(i) == [route EXCEPT ![cur] = IF want \in Elected THEN 0 ELSE i]

\* start_tasks of the new flow; the tasks of a leader-elected one wait.
StartNew ==
  /\ pc = "start"
  /\ want \in Startable
  /\ starts < MaxStarts
  /\ starts' = starts + 1
  /\ flowOf' = [flowOf EXCEPT ![starts + 1] = cur]
  /\ config' = [config EXCEPT ![starts + 1] = want]
  /\ tasks' = [tasks EXCEPT ![starts + 1] = Spawned(want)]
  /\ route' = StartRoute(starts + 1)
  /\ pc' = "insert"
  /\ UNCHANGED <<batch, cur, want, old, envVars, feed, registry, lease, cancelled, abandoned, appVars>>

\* The endpoints are registered: run() registers for leadership and the handle
\* goes into the registry, with a token no leader-elected task listens to.
InsertNew ==
  /\ pc = "insert"
  /\ lease' = [lease EXCEPT ![starts] = IF want \in Elected THEN "seeking" ELSE "none"]
  /\ registry' = [registry EXCEPT ![cur] = starts]
  /\ pc' = "next"
  /\ UNCHANGED <<batch, cur, want, old, envVars, feed, route, flowOf, config, tasks,
                 cancelled, abandoned, starts, appVars>>

(***************************************************************************)
(* The instances.                                                          *)
(***************************************************************************)

\* The lease task wins the lease and the monitor spawns the tasks, or returns
\* on a wrong graph.  A monitor that is gone ends the lease task.
Acquire(i) ==
  /\ lease[i] = "seeking"
  /\ lease' = [lease EXCEPT ![i] = IF Done(i) THEN "none" ELSE "held"]
  /\ tasks' = [tasks EXCEPT ![i] = IF Done(i) \/ config[i] \in BadGraph THEN "done" ELSE "running"]
  /\ UNCHANGED <<envVars, feed, registry, route, flowOf, config, cancelled, abandoned, starts,
                 recVars, appVars>>

\* Another pod has the lease now: the tasks are aborted.
LoseLease(i) ==
  /\ lease[i] = "held"
  /\ lease' = [lease EXCEPT ![i] = IF Done(i) THEN "none" ELSE "seeking"]
  /\ tasks' = [tasks EXCEPT ![i] = IF Done(i) THEN "done" ELSE "idle"]
  /\ UNCHANGED <<envVars, feed, registry, route, flowOf, config, cancelled, abandoned, starts,
                 recVars, appVars>>

\* All tasks of the instance end by themselves.
Finish(i) ==
  /\ tasks[i] = "running"
  /\ tasks' = [tasks EXCEPT ![i] = "done"]
  /\ UNCHANGED <<envVars, feed, registry, route, flowOf, config, lease, cancelled, abandoned,
                 starts, recVars, appVars>>

\* The tasks drain after their token was cancelled and the servers dropped
\* their senders, or the monitor of a leader-elected flow that waits for
\* leadership sees its channel closed.
Drain(i) ==
  /\ \/ tasks[i] = "running" /\ cancelled[i] /\ config[i] \notin Elected /\ route[flowOf[i]] # i
     \/ tasks[i] = "idle" /\ lease[i] = "none" /\ ~(pc = "insert" /\ i = starts)
  /\ tasks' = [tasks EXCEPT ![i] = "done"]
  /\ UNCHANGED <<envVars, feed, registry, route, flowOf, config, lease, cancelled, abandoned,
                 starts, recVars, appVars>>

(***************************************************************************)
(* Shutdown: App::start after the signal.                                  *)
(***************************************************************************)

\* The reconciler has taken instance i out of the registry and waits for it,
\* or has started it and not put it there yet.
InHand(i) == (pc = "stop" /\ old = i) \/ (pc = "insert" /\ starts = i)

\* Watcher and reconciler are aborted wherever they wait; stop_flows drains the
\* registry, cancels every flow and deregisters its endpoints.
Shutdown ==
  /\ phase = "up"
  /\ phase' = "stopping"
  /\ watching' = FALSE
  /\ pc' = "aborted"
  /\ waits' = {i \in Ids : \E f \in Flows : registry[f] = i}
  /\ dropped' = {i \in Ids : InHand(i)}
  /\ cancelled' = [i \in Ids |-> cancelled[i] \/ i \in waits']
  /\ route' = [f \in Flows |-> IF registry[f] = 0 THEN route[f] ELSE 0]
  /\ registry' = [f \in Flows |-> 0]
  /\ UNCHANGED <<stored, missed, writes, breaks, feed, batch, cur, want, old, flowOf, config, tasks,
                 lease, abandoned, starts, booted>>

\* Mutant of FlowsStopped: the join handles are not waited for.
FlowsStoppedUnchecked ==
  /\ phase = "stopping"
  /\ phase' = "releasing"
  /\ UNCHANGED <<envVars, feed, registry, route, instVars, recVars, booted, waits, dropped>>

\* Every flow of the registry has stopped, ...
FlowsStopped ==
  /\ phase = "stopping"
  /\ \A i \in waits : Done(i)
  /\ phase' = "releasing"
  /\ UNCHANGED <<envVars, feed, registry, route, instVars, recVars, booted, waits, dropped>>

\* ... or the timeout has passed: "shutting down anyway".
StopFlowsTimeout ==
  /\ phase = "stopping"
  /\ \E i \in waits : ~Done(i)
  /\ phase' = "releasing"
  /\ abandoned' = [i \in Ids |-> abandoned[i] \/ (i \in waits /\ ~Done(i))]
  /\ UNCHANGED <<envVars, feed, registry, route, flowOf, config, tasks, lease, cancelled, starts,
                 recVars, booted, waits, dropped>>

\* The task managers collected at boot shut down and release their leases.
ReleaseBooted ==
  /\ phase = "releasing"
  /\ phase' = "leaving"
  /\ lease' = [i \in Ids |-> IF i \in booted THEN "none" ELSE lease[i]]
  /\ UNCHANGED <<envVars, feed, registry, route, flowOf, config, tasks, cancelled, abandoned, starts,
                 recVars, booted, waits, dropped>>

\* The process ends; other leases lapse.
Exit ==
  /\ phase = "leaving"
  /\ phase' = "exited"
  /\ lease' = [i \in Ids |-> "none"]
  /\ tasks' = [i \in Ids |-> IF tasks[i] = "unborn" THEN "unborn" ELSE "done"]
  /\ UNCHANGED <<envVars, feed, registry, route, flowOf, config, cancelled, abandoned, starts,
                 recVars, booted, waits, dropped>>

Reconciler ==
  \/ ListStale \/ (\E f \in Flows : DeleteStale(f)) \/ CollectBatch \/ BatchDone \/ (\E f \in Flows : Reconcile(f))
  \/ OldStopped \/ StopTimeout \/ StartNothing \/ StartNew \/ InsertNew

Next ==
  \/ \E f \in Flows : \E c \in Configs \cup {Deleted} : Write(f, c)
  \/ Subscribe
  \/ WatchBreaks
  \/ ListStale
  \/ \E f \in Flows : DeleteStale(f)
  \/ CollectBatch
  \/ \E f \in Flows : Reconcile(f)
  \/ BatchDone
  \/ OldStopped
  \/ StopTimeout
  \/ StartNothing
  \/ StartNew
  \/ InsertNew
  \/ \E i \in Ids : Acquire(i)
  \/ \E i \in Ids : LoseLease(i)
  \/ \E i \in Ids : Finish(i)
  \/ \E i \in Ids : Drain(i)
  \/ Shutdown
  \/ FlowsStopped
  \/ StopFlowsTimeout
  \/ ReleaseBooted
  \/ Exit

Spec == Init /\ [][Next]_vars

\* The watcher subscribes and the reconciler goes on: its waits are bounded by
\* timers.  Nothing is assumed of the tasks, of leases, of writers.
FairSpec == Spec /\ WF_vars(Subscribe) /\ WF_vars(Reconciler)

-----------------------------------------------------------------------------

\* Type invariant of watcher, reconciler, registry and instances.
TypeOK ==
  /\ stored \in [Flows -> Configs \cup {Deleted}]
  /\ watching \in BOOLEAN
  /\ feed \in Seq([flow : Flows, config : Configs \cup {Deleted}])
  /\ starts \in 0..MaxStarts
  /\ registry \in [Flows -> 0..starts]
  /\ route \in [Flows -> 0..starts]
  /\ flowOf \in [Ids -> Flows]
  /\ config \in [Ids -> Configs]
  /\ tasks \in [Ids -> {"unborn", "idle", "running", "done"}]
  /\ lease \in [Ids -> {"none", "seeking", "held"}]
  /\ cancelled \in [Ids -> BOOLEAN]
  /\ abandoned \in [Ids -> BOOLEAN]
  /\ booted \subseteq Ids
  /\ pc \in {"list", "cleanup", "collect", "next", "stop", "start", "insert", "aborted"}
  /\ batch \in [Flows -> Configs \cup {Deleted, NoEvent}]
  /\ cur \in Flows
  /\ want \in Configs \cup {Deleted}
  /\ old \in 0..starts
  /\ pc = "stop" => old # 0
  /\ pc = "insert" => starts # 0 /\ want \in Configs
  /\ phase \in {"up", "stopping", "releasing", "leaving", "exited"}
  /\ waits \subseteq Ids /\ dropped \subseteq Ids
  /\ missed \subseteq Flows
  /\ writes \in 0..MaxWrites
  /\ breaks \in 0..MaxBreaks

\* While the pod is up, an instance whose tasks run can be found: its handle is
\* in the registry or in the reconciler's hands, unless it was given up after
\* FLOW_STOP_TIMEOUT.  A handle overwritten or dropped (stop_and_deregister,
\* reconcile_put's insert) would leave tasks nobody can stop.
NoLostInstance ==
  phase = "up" =>
    \A i \in Ids : tasks[i] = "running" =>
      registry[flowOf[i]] = i \/ InHand(i) \/ abandoned[i]

\* Two instances of one flow run at the same time only if the older one did
\* not stop within FLOW_STOP_TIMEOUT (reconcile_put stops before it starts).
OneCopyUnlessAbandoned ==
  \A i, j \in Ids :
    i < j /\ flowOf[i] = flowOf[j] /\ tasks[i] = "running" /\ tasks[j] = "running"
      => abandoned[i]

\* A flow loaded from the filesystem keeps its boot instance, uncancelled,
\* whatever is put or deleted under its key, the clean-up of stale keys and the
\* delete events it produces included.
FilesystemWins ==
  phase = "up" => \A f \in Files : registry[f] \in booted /\ ~cancelled[registry[f]]

\* The shared servers hold the endpoints of the flow's current instance and no
\* other, and a registered, running instance that has endpoints is served:
\* deregistering by name neither leaves an old sender nor removes the new one.
RoutesFollowRegistry ==
  phase = "up" =>
    \A f \in Flows :
      /\ route[f] # 0 => route[f] = registry[f] \/ (pc = "insert" /\ cur = f /\ route[f] = starts)
      /\ registry[f] # 0 /\ tasks[registry[f]] = "running" /\ config[registry[f]] \notin Elected
           => route[f] = registry[f]

\* A flow has at most one lease task on the pod: two would renew the same key
\* under one holder identity and fight over its revision, which is why
\* stop_and_deregister unregisters the old one.
OneLeaseTask ==
  \A i, j \in Ids :
    i # j /\ flowOf[i] = flowOf[j] => lease[i] = "none" \/ lease[j] = "none"

\* When the shutdown has released the leases, "no flows are processing events"
\* (App::start): whatever runs still was given up after FLOW_STOP_TIMEOUT or was
\* in the reconciler's hands when the shutdown aborted it.
ReleasedIsStopped ==
  phase = "leaving" => \A i \in Ids : tasks[i] = "running" => abandoned[i] \/ i \in dropped

\* The registry shows what the flow cache holds for f.
Reflects(f) ==
  /\ stored[f] \in Startable => registry[f] # 0 /\ config[registry[f]] = stored[f]
  /\ stored[f] = Deleted => registry[f] = 0

\* A change the watch delivers reaches the pod: while it stays up, the registry
\* ends with the definition last written, whatever was batched, deduplicated,
\* missed before, or written while the reconciler was busy with an older one.
\* Not covered: a last change written while nobody watched, or still undelivered
\* when its stream broke; run_watch_loop subscribes without history, so nothing
\* repeats it, and the pod keeps the old definition.
ChangesArrive ==
  \A f \in Flows \ Files : <>[](phase = "up" /\ f \notin missed) => <>[]Reflects(f)

-----------------------------------------------------------------------------
(***************************************************************************)
(* What comments, log lines and documents say of the program and the runs  *)
(* refute.                                                                 *)
(***************************************************************************)

\* "Stop the old flow before starting tasks so both never consume the same
\* source concurrently": no two instances of a flow run at once, for tasks that
\* all stop in time when their token is cancelled (none was given up while its
\* tasks could see the cancellation).
NoOverlap ==
  (\A i \in Ids : abandoned[i] => config[i] \in Elected) =>
    \A i, j \in Ids :
      i # j /\ flowOf[i] = flowOf[j] => ~(tasks[i] = "running" /\ tasks[j] = "running")

=============================================================================
