-------------------------------- MODULE Boot --------------------------------
(***************************************************************************)
(* The start of a pod (app/src/main.rs, App::start of app/src/app.rs): which *)
(* buckets it finds, which flows it loads from the filesystem and the cache, *)
(* the order in which it starts flows, servers and listeners, and where it   *)
(* keeps its leases.  Pods of one deployment start beside each other, while  *)
(* somebody writes to the flow cache.                                       *)
(*                                                                         *)
(* A bucket is where its keys are: shared by all pods under a name, or the   *)
(* memory of one pod.  A flow definition is one of                          *)
(*   "good", "unusable" (its init fails), "invalid" (it does not parse or    *)
(*   validate) and "binary" (its bytes are no text).                        *)
(***************************************************************************)
EXTENDS Naturals, FiniteSets

CONSTANTS BootFlows,      \* flow identities
          Serving,        \* flows with a task that registers with a server
          Electing,       \* flows that ask for leader election
          Deployments,    \* the configurations of a deployment, see below
          MaxTroubles,    \* bound: calls that fail
          MaxBootWrites   \* bound: writes to the flow cache

\* A deployment: `replicas` are its pods; `cache` is "none", "disabled" or "enabled";
\* `flows` the bucket of the flow cache, "off" or a name; `files` the definitions on the
\* filesystem, "none" for no file; `twice`: two files give one identity; `login`: the web
\* UI asks for a login; `logs`: the pods keep their logs in memory, for each other.
ASSUME DeploymentsAssumption == \A d \in Deployments : d.cache \in {"none", "disabled", "enabled"}

VARIABLES deployment,
          keys,      \* the flow cache, when it is shared
          pods,      \* the state of each pod's start
          leads,     \* who holds the lease of each flow in each bucket
          troubles, bootWrites

Replicas == deployment.replicas

bootVars == <<deployment, keys, pods, leads, troubles, bootWrites>>

None == "none"
Shared(name) == [pod |-> None, name |-> name]
Memory(p, name) == [pod |-> p, name |-> name]
Nowhere == [pod |-> None, name |-> None]

Stopped ==
  [pc |-> "main", runtime |-> Nowhere, system |-> Nowhere, cached |-> Nowhere, listed |-> {}, read |-> <<>>,
   loaded |-> <<>>, initialised |-> {}, routes |-> {}, logged |-> {}, listening |-> FALSE, registry |-> {},
   peer |-> None, web |-> FALSE, health |-> FALSE, watching |-> FALSE, warned |-> FALSE]

BootInit ==
  /\ deployment \in Deployments
  /\ keys = deployment.keys
  /\ pods = [p \in Replicas |-> Stopped]
  /\ leads = [f \in Electing |-> {}]
  /\ troubles = 0 /\ bootWrites = 0

PodAt(p, pc) == pods[p].pc = pc
PodGoes(p, new) == pods' = [pods EXCEPT ![p] = new]
At(p, pc) == [pods[p] EXCEPT !.pc = pc]
Trouble == troubles < MaxTroubles /\ troubles' = troubles + 1

\* App::start returns an error and the process exits.
BootFails(p) == PodGoes(p, At(p, "failed")) /\ Trouble

-----------------------------------------------------------------------------

\* init_cache: NATS when the cache is enabled, which may fail; a memory of its own for
\* every call otherwise.
Opened(p, name) == IF deployment.cache = "enabled" THEN Shared(name) ELSE Memory(p, name)
MayFail == deployment.cache = "enabled"

\* main: without its runtime cache the process exits.
OpenRuntime(p) ==
  /\ PodAt(p, "main")
  /\ \/ PodGoes(p, [At(p, "system") EXCEPT !.runtime = Opened(p, "runtime")]) /\ UNCHANGED troubles
     \/ MayFail /\ BootFails(p)
  /\ UNCHANGED <<deployment, keys, leads, bootWrites>>

\* SystemBucket::open, with a warning when it fails.
OpenSystem(p) ==
  /\ PodAt(p, "system")
  /\ \/ /\ PodGoes(p, [At(p, "flows") EXCEPT !.system = IF deployment.cache = None THEN Nowhere ELSE Opened(p, "system")])
        /\ UNCHANGED troubles
     \/ PodGoes(p, At(p, "flows")) /\ MayFail /\ Trouble
  /\ UNCHANGED <<deployment, keys, leads, bootWrites>>

\* open_sibling: the flow cache is the system bucket, or a bucket of its own; without it
\* the flows come from the filesystem only.
OpenFlows(p) ==
  /\ PodAt(p, "flows")
  /\ \/ /\ PodGoes(p, [At(p, "list") EXCEPT !.cached =
               CASE deployment.flows = "off" -> Nowhere
                 [] deployment.flows = "system" /\ pods[p].system # Nowhere -> pods[p].system
                 [] OTHER -> Opened(p, deployment.flows)])
        /\ UNCHANGED troubles
     \/ /\ MayFail /\ deployment.flows # "off" /\ (deployment.flows = "system" => pods[p].system = Nowhere)
        /\ PodGoes(p, At(p, "list")) /\ Trouble
  /\ UNCHANGED <<deployment, keys, leads, bootWrites>>

\* Who sees the flow cache of the deployment; the memory of a pod that starts is empty.
Sees(p) == pods[p].cached # Nowhere /\ pods[p].cached.pod = None

-----------------------------------------------------------------------------
(* The flows                                                                *)

\* load_flows_from_cache: list the keys, ...
ListFlows(p) ==
  /\ PodAt(p, "list")
  /\ \/ /\ PodGoes(p, [At(p, "read") EXCEPT !.listed = IF Sees(p) THEN {f \in BootFlows : keys[f] # None} ELSE {}])
        /\ UNCHANGED troubles
     \/ Sees(p) /\ BootFails(p)
  /\ UNCHANGED <<deployment, keys, leads, bootWrites>>

With(f, c, g) == [x \in DOMAIN g \cup {f} |-> IF x = f THEN c ELSE g[x]]

\* ... and read them one by one.  A key that has gone meanwhile and a definition that is
\* invalid are skipped; bytes that are no text, like a read that fails, end the start.
ReadFlow(p, f) ==
  /\ PodAt(p, "read") /\ f \in pods[p].listed
  /\ IF keys[f] = "binary" THEN PodGoes(p, At(p, "failed"))
     ELSE PodGoes(p, [pods[p] EXCEPT !.listed = @ \ {f},
                                     !.read = IF keys[f] \in {None, "invalid"} THEN @ ELSE With(f, keys[f], @)])
  /\ UNCHANGED <<deployment, keys, leads, troubles, bootWrites>>
ReadFails(p) ==
  /\ PodAt(p, "read") /\ pods[p].listed # {}
  /\ BootFails(p)
  /\ UNCHANGED <<deployment, keys, leads, bootWrites>>

\* load_flows_from_filesystem skips what it cannot read, parse or validate.
Mounted == {f \in BootFlows : deployment.files[f] \notin {None, "invalid", "binary"}}

\* Two files of one identity end the start.  A cache flow with the identity of a file is
\* left out and its key deleted, as far as that works.
Merge(p) ==
  /\ PodAt(p, "read") /\ pods[p].listed = {}
  /\ IF deployment.twice THEN PodGoes(p, At(p, "failed")) /\ UNCHANGED keys
     ELSE /\ PodGoes(p, [At(p, "servers") EXCEPT !.loaded =
                [f \in DOMAIN pods[p].read \cup Mounted |->
                   IF f \in Mounted THEN deployment.files[f] ELSE pods[p].read[f]]])
          /\ \E gone \in SUBSET (Mounted \cap DOMAIN pods[p].read) :
               keys' = [f \in BootFlows |-> IF f \in gone THEN None ELSE keys[f]]
  /\ UNCHANGED <<deployment, leads, troubles, bootWrites>>

\* The shared servers are made; one whose auth provider cannot be built ends the start.
MakeServers(p) ==
  /\ PodAt(p, "servers")
  /\ \/ PodGoes(p, At(p, "cluster")) /\ UNCHANGED troubles
     \/ BootFails(p)
  /\ UNCHANGED <<deployment, keys, leads, bootWrites>>

\* Leader election without a system bucket gets a warning.
Warns(p) == pods[p].system = Nowhere /\ DOMAIN pods[p].loaded \cap Electing # {}

\* The executor's cache: the system bucket, or else the runtime cache.
LeaseBucket(p) == IF pods[p].system # Nowhere THEN pods[p].system ELSE pods[p].runtime

\* cluster_port: pods that keep logs in memory and share a bucket serve each other.
Serves(p) == deployment.logs /\ pods[p].system # Nowhere

\* The listener for peers is bound, or the start ends; then the pod registers as a peer,
\* as far as that works.
JoinCluster(p) ==
  /\ PodAt(p, "cluster")
  /\ \/ /\ \E peer \in {None, "registered"} :
             PodGoes(p, [At(p, "build") EXCEPT !.peer = peer, !.warned = Warns(p)])
        /\ UNCHANGED troubles
     \/ Serves(p) /\ PodGoes(p, [At(p, "failed") EXCEPT !.warned = Warns(p)]) /\ Trouble
  /\ UNCHANGED <<deployment, keys, leads, bootWrites>>

\* Flow::init checks that the servers the tasks need are there.
Usable(c) == c = "good"

\* init_flows keeps the flows whose init succeeds.
InitFlows(p) ==
  /\ PodAt(p, "build")
  /\ PodGoes(p, [At(p, "tasks") EXCEPT !.initialised = {f \in DOMAIN pods[p].loaded : Usable(pods[p].loaded[f])}])
  /\ UNCHANGED <<deployment, keys, leads, troubles, bootWrites>>

\* is_leader_elected: a flow that registers with a server never is.
Elects(f) == f \in Electing \ Serving

\* Mutant: the servers do not wait for the flows.
StartFlowsBehind(p) ==
  /\ PodAt(p, "tasks")
  /\ PodGoes(p, At(p, "peers"))
  /\ UNCHANGED <<deployment, keys, leads, troubles, bootWrites>>

\* start_tasks of every flow, then their blocking tasks, which register the routes, are
\* waited for.  start_tasks leaves an elected flow for later; where it fails, or a blocking
\* task ends with an error, that is logged and the start goes on.
StartFlows(p) ==
  /\ PodAt(p, "tasks")
  /\ \E failed \in SUBSET {f \in pods[p].initialised : ~Elects(f)} :
       /\ PodGoes(p, [At(p, "peers") EXCEPT !.routes = (pods[p].initialised \cap Serving) \ failed,
                                            !.logged = failed])
       /\ IF failed = {} THEN UNCHANGED troubles ELSE Trouble
  /\ UNCHANGED <<deployment, keys, leads, bootWrites>>

\* The client for peers cannot be built: the start ends with flows started.
ReachPeers(p) ==
  /\ PodAt(p, "peers")
  /\ \/ PodGoes(p, At(p, "listen")) /\ UNCHANGED troubles
     \/ Serves(p) /\ BootFails(p)
  /\ UNCHANGED <<deployment, keys, leads, bootWrites>>

\* start_server of every server, in tasks of their own: a port that is taken is logged.
Listen(p) ==
  /\ PodAt(p, "listen")
  /\ \/ PodGoes(p, [At(p, "run") EXCEPT !.listening = TRUE]) /\ UNCHANGED troubles
     \/ PodGoes(p, At(p, "run")) /\ Trouble
  /\ UNCHANGED <<deployment, keys, leads, bootWrites>>

\* run of a flow, and its handle.
RunFlow(p, f) ==
  /\ PodAt(p, "run") /\ f \in pods[p].initialised \ pods[p].registry
  /\ PodGoes(p, [pods[p] EXCEPT !.registry = @ \cup {f}])
  /\ UNCHANGED <<deployment, keys, leads, troubles, bootWrites>>

\* mark_ready, as far as that works.
MarkPodReady(p) ==
  /\ PodAt(p, "run") /\ pods[p].registry = pods[p].initialised
  /\ \/ PodGoes(p, [At(p, "web") EXCEPT !.peer = "ready"]) /\ UNCHANGED troubles
     \/ PodGoes(p, At(p, "web")) /\ Trouble
  /\ UNCHANGED <<deployment, keys, leads, bootWrites>>

\* The web UI, unless its login cannot be set up.
StartWeb(p) ==
  /\ PodAt(p, "web")
  /\ \/ PodGoes(p, [At(p, "health") EXCEPT !.web = TRUE]) /\ UNCHANGED troubles
     \/ deployment.login /\ PodGoes(p, At(p, "health")) /\ Trouble
  /\ UNCHANGED <<deployment, keys, leads, bootWrites>>

StartHealth(p) ==
  /\ PodAt(p, "health")
  /\ PodGoes(p, [At(p, "watch") EXCEPT !.health = TRUE])
  /\ UNCHANGED <<deployment, keys, leads, troubles, bootWrites>>

\* Watcher and reconciler, when there is a flow cache.
StartWatcher(p) ==
  /\ PodAt(p, "watch")
  /\ PodGoes(p, [At(p, "up") EXCEPT !.watching = pods[p].cached # Nowhere])
  /\ UNCHANGED <<deployment, keys, leads, troubles, bootWrites>>

-----------------------------------------------------------------------------

\* The lease of a flow, in the bucket the pod keeps its leases in (LeaderElection).
Lead(p, f) ==
  /\ f \in pods[p].registry /\ Elects(f)
  /\ \A h \in leads[f] : h.bucket # LeaseBucket(p)
  /\ leads' = [leads EXCEPT ![f] = @ \cup {[pod |-> p, bucket |-> LeaseBucket(p)]}]
  /\ UNCHANGED <<deployment, keys, pods, troubles, bootWrites>>

\* A sync flow of another pod writes or deletes a definition.
WriteKey(f, c) ==
  /\ deployment.cache = "enabled" /\ deployment.flows # "off"
  /\ bootWrites < MaxBootWrites /\ keys[f] # c
  /\ keys' = [keys EXCEPT ![f] = c]
  /\ bootWrites' = bootWrites + 1
  /\ UNCHANGED <<deployment, pods, leads, troubles>>

BootStep(p) ==
  \/ OpenRuntime(p) \/ OpenSystem(p) \/ OpenFlows(p) \/ ListFlows(p) \/ ReadFails(p) \/ Merge(p)
  \/ MakeServers(p) \/ JoinCluster(p) \/ InitFlows(p) \/ StartFlows(p) \/ ReachPeers(p) \/ Listen(p)
  \/ MarkPodReady(p) \/ StartWeb(p) \/ StartHealth(p) \/ StartWatcher(p)
  \/ \E f \in BootFlows : ReadFlow(p, f) \/ RunFlow(p, f)

BootNext ==
  \/ \E p \in Replicas : BootStep(p) \/ \E f \in Electing : Lead(p, f)
  \/ \E f \in BootFlows, c \in {None, "good"} : WriteKey(f, c)

-----------------------------------------------------------------------------

\* readyz: at least one flow is registered.
Readyz(p) == pods[p].health /\ pods[p].registry # {}

\* Traffic and hand-overs find the flows: a server listens, a pod is ready for rebalanced
\* flows and the readiness probe succeeds only when every flow that could be initialised
\* has its routes or an error in the log says that its start failed, and the latter two
\* only when it runs (the order of App::start).  Such an error stops nothing: the pod is
\* ready, and the flow registered, without those routes.
ReadyIsServed ==
  \A p \in Replicas :
    /\ pods[p].listening \/ pods[p].peer = "ready" \/ Readyz(p) =>
         pods[p].initialised \cap Serving \subseteq pods[p].routes \cup pods[p].logged
    /\ pods[p].peer = "ready" \/ Readyz(p) => pods[p].registry = pods[p].initialised

Split(f) == \E h, l \in leads[f] : h.pod # l.pod

\* Two pods lead one flow only when one of them has warned of it, or the cache section
\* is there and switched off: then each pod's system bucket is a memory of its own, and
\* nobody is told (SystemBucket::open and the executor's cache).
SplitIsWarned ==
  \A f \in Electing : Split(f) =>
    deployment.cache = "disabled" \/ \E h \in leads[f] : pods[h.pod].warned

\* The comment on the executor's cache, "absent only when the cache is disabled": with the
\* cache enabled the pods of a deployment elect one leader.
EnabledIsShared == deployment.cache = "enabled" => \A f \in Electing : ~Split(f)

=============================================================================
