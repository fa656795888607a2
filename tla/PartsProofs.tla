------------------------------ MODULE PartsProofs ------------------------------
(***************************************************************************)
(* Proofs about Boot, Toolsets, Logs, Telemetry, Catalog, Clients and      *)
(* Gateway, for any deployments, flows, users, server lists, logs, peers,  *)
(* offers, requests, tasks, conversations and bounds.                      *)
(***************************************************************************)
EXTENDS Boot, Toolsets, Logs, Telemetry, Catalog, Clients, Gateway, FiniteSetTheorems,
        SequenceTheorems, WellFoundedInduction, TLAPS

BootSpec == BootInit /\ [][BootNext]_bootVars

\* The stages of App::start after which the flows have their routes, run, and
\* are all there.
FlowsRun == {"run", "web", "health", "watch", "up"}
FlowsStarted == {"peers", "listen"} \cup FlowsRun
AllRun == {"web", "health", "watch", "up"}
FlowsLoaded == {"build", "tasks"} \cup FlowsStarted

\* What a pod offers at each stage of its start.
Staged(s) ==
  /\ DOMAIN s = DOMAIN Stopped
  /\ s.pc \notin FlowsRun => s.listening = FALSE /\ s.registry = {}
  /\ s.pc \notin AllRun => s.peer # "ready" /\ s.health = FALSE
  /\ s.pc \in FlowsStarted => s.initialised \cap Serving \subseteq s.routes \cup s.logged
  /\ s.pc \in AllRun => s.registry = s.initialised

\* A flow that asks for election and cannot share its lease has been warned of.
Told(s) ==
  /\ s.pc \in FlowsLoaded => s.system # Nowhere \/ DOMAIN s.loaded \cap Electing = {} \/ s.warned = TRUE
  /\ s.pc \in {"tasks"} \cup FlowsStarted => s.initialised \subseteq DOMAIN s.loaded
  /\ s.registry # {} => s.registry \subseteq s.initialised

\* Where the system bucket is.
Placed(s) ==
  /\ deployment.cache = "none" => s.system = Nowhere
  /\ deployment.cache = "enabled" => s.system \in {Nowhere, Shared("system")}

Starts(s) == Staged(s) /\ Told(s) /\ Placed(s)

\* A lease is in the bucket of a pod that runs the flow, and in each bucket once.
Leads ==
  \A f \in Electing :
    /\ \A h \in leads[f] :
         h.pod \in Replicas /\ f \in pods[h.pod].registry /\ h.bucket = LeaseBucket(h.pod)
    /\ \A h, l \in leads[f] : h.bucket = l.bucket => h = l

\* The inductive invariant of the start.
BootInv ==
  /\ pods = [p \in Replicas |-> pods[p]] /\ leads = [f \in Electing |-> leads[f]]
  /\ deployment \in Deployments
  /\ \A p \in Replicas : Starts(pods[p])
  /\ Leads

\* A pod keeps its buckets once flows run.
Keeps(s, t) ==
  /\ s.registry \subseteq t.registry
  /\ s.registry # {} => t.system = s.system /\ t.runtime = s.runtime

\* A step of a pod's start is one of the pod alone.
LEMMA PodMoves ==
  ASSUME BootInv, NEW p \in Replicas, NEW s, Starts(s), Keeps(pods[p], s), PodGoes(p, s),
         UNCHANGED <<deployment, leads>>
  PROVE  BootInv'
<1>1. /\ pods' = [q \in Replicas |-> pods'[q]] /\ leads' = [f \in Electing |-> leads'[f]]
      /\ deployment' \in Deployments /\ Replicas' = Replicas
      /\ \A q \in Replicas : pods'[q] = IF q = p THEN s ELSE pods[q]
  BY DEF BootInv, PodGoes, Replicas
<1>2. \A q \in Replicas : Starts(pods[q])'
  BY <1>1 DEF BootInv, Starts, Placed, Staged, Told
<1>3. \A q \in Replicas : Keeps(pods[q], pods'[q])
  BY <1>1 DEF Keeps
<1>4. Leads'
  BY <1>1, <1>3 DEF BootInv, Leads, Keeps, LeaseBucket
<1> QED
  BY <1>1, <1>2, <1>4 DEF BootInv

LEMMA BootSteps ==
  ASSUME BootInv, NEW p \in Replicas, BootStep(p)
  PROVE  BootInv'
<1>0. Starts(pods[p])
  BY DEF BootInv
<1> USE <1>0, PodMoves DEF Starts, Told, Placed, Keeps, FlowsLoaded, PodAt, At, Staged, FlowsStarted, FlowsRun, AllRun, Stopped, BootFails
<1>1. CASE OpenRuntime(p)
  BY <1>1 DEF OpenRuntime
<1>2. CASE OpenSystem(p)
  <2>1. PodAt(p, "system") /\ UNCHANGED <<deployment, leads>>
    BY <1>2 DEF OpenSystem
  <2>2. CASE PodGoes(p, [At(p, "flows") EXCEPT !.system = IF deployment.cache = None THEN Nowhere ELSE Opened(p, "system")])
    <3> DEFINE b == IF deployment.cache = None THEN Nowhere ELSE Opened(p, "system")
    <3>1. (deployment.cache = "none" => b = Nowhere) /\ (deployment.cache = "enabled" => b \in {Nowhere, Shared("system")})
      BY DEF None, Opened
    <3> HIDE DEF b
    <3> DEFINE s == [At(p, "flows") EXCEPT !.system = b]
    <3>2. Starts(s) /\ Keeps(pods[p], s)
      BY <2>1, <3>1
    <3>3. PodGoes(p, s)
      BY <2>2 DEF b
    <3> QED BY <2>1, <3>2, <3>3, PodMoves
  <2>3. CASE PodGoes(p, At(p, "flows"))
    BY <2>1, <2>3
  <2> QED BY <1>2, <2>2, <2>3 DEF OpenSystem
<1>3. CASE OpenFlows(p)
  BY <1>3 DEF OpenFlows
<1>4. CASE ListFlows(p)
  BY <1>4 DEF ListFlows
<1>5. CASE ReadFails(p)
  BY <1>5 DEF ReadFails
<1>6. CASE Merge(p)
  BY <1>6 DEF Merge
<1>7. CASE MakeServers(p)
  BY <1>7 DEF MakeServers
<1>8. CASE JoinCluster(p)
  <2>1. PodAt(p, "cluster") /\ UNCHANGED <<deployment, leads>>
    BY <1>8 DEF JoinCluster
  <2>2. ASSUME NEW peer \in {None, "registered"}, NEW w,
               PodGoes(p, [At(p, "build") EXCEPT !.peer = peer, !.warned = w]),
               w = Warns(p)
        PROVE  BootInv'
    <3> DEFINE s == [At(p, "build") EXCEPT !.peer = peer, !.warned = w]
    <3>1. /\ DOMAIN s = DOMAIN pods[p] /\ s.pc = "build" /\ s.peer = peer /\ s.warned = w
          /\ \A x \in DOMAIN pods[p] \ {"pc", "peer", "warned"} : s[x] = pods[p][x]
      BY <2>1
    <3>2. s.peer # "ready" /\ (s.system # Nowhere \/ DOMAIN s.loaded \cap Electing = {} \/ s.warned = TRUE)
      BY <2>2, <3>1 DEF None, Warns
    <3>3. Starts(s) /\ Keeps(pods[p], s)
      BY <2>1, <3>1, <3>2
    <3> QED BY <2>1, <2>2, <3>3, PodMoves
  <2>3. ASSUME NEW w, PodGoes(p, [At(p, "failed") EXCEPT !.warned = w])
        PROVE  BootInv'
    <3> DEFINE s == [At(p, "failed") EXCEPT !.warned = w]
    <3>1. Starts(s) /\ Keeps(pods[p], s)
      BY <2>1
    <3> QED BY <2>1, <2>3, <3>1, PodMoves
  <2> QED BY <1>8, <2>2, <2>3 DEF JoinCluster
<1>9. CASE InitFlows(p)
  BY <1>9 DEF InitFlows
<1>10. CASE StartFlows(p)
  <2>1. PodAt(p, "tasks") /\ UNCHANGED <<deployment, leads>>
    BY <1>10 DEF StartFlows
  <2>2. ASSUME NEW failed,
               PodGoes(p, [At(p, "peers") EXCEPT !.routes = (pods[p].initialised \cap Serving) \ failed, !.logged = failed])
        PROVE  BootInv'
    <3> DEFINE s == [At(p, "peers") EXCEPT !.routes = (pods[p].initialised \cap Serving) \ failed, !.logged = failed]
    <3>1. /\ DOMAIN s = DOMAIN pods[p] /\ s.pc = "peers" /\ s.logged = failed
          /\ s.routes = (pods[p].initialised \cap Serving) \ failed
          /\ \A x \in DOMAIN pods[p] \ {"pc", "routes", "logged"} : s[x] = pods[p][x]
      BY <2>1
    <3>2. s.initialised = pods[p].initialised
      BY <3>1
    <3>3. s.initialised \cap Serving \subseteq s.routes \cup s.logged
      BY <3>1, <3>2
    <3>4. Starts(s) /\ Keeps(pods[p], s)
      BY <2>1, <3>1, <3>3
    <3> QED BY <2>1, <2>2, <3>4, PodMoves
  <2> QED BY <1>10, <2>1, <2>2 DEF StartFlows
<1>11. CASE ReachPeers(p)
  BY <1>11 DEF ReachPeers
<1>12. CASE Listen(p)
  BY <1>12 DEF Listen
<1>13. CASE MarkPodReady(p)
  BY <1>13 DEF MarkPodReady
<1>14. CASE StartWeb(p)
  BY <1>14 DEF StartWeb
<1>15. CASE StartHealth(p)
  BY <1>15 DEF StartHealth
<1>16. CASE StartWatcher(p)
  BY <1>16 DEF StartWatcher
<1>17. CASE \E f \in BootFlows : ReadFlow(p, f)
  BY <1>17 DEF ReadFlow
<1>18. CASE \E f \in BootFlows : RunFlow(p, f)
  BY <1>18 DEF RunFlow
<1> QED
  BY <1>1, <1>2, <1>3, <1>4, <1>5, <1>6, <1>7, <1>8, <1>9, <1>10, <1>11, <1>12, <1>13, <1>14, <1>15, <1>16, <1>17, <1>18 DEF BootStep

\* A lease is taken where nobody holds it.
LEMMA LeadSteps ==
  ASSUME BootInv, NEW p \in Replicas, NEW f \in Electing, Lead(p, f)
  PROVE  BootInv'
<1> DEFINE new == [pod |-> p, bucket |-> LeaseBucket(p)]
<1>1. /\ UNCHANGED <<deployment, pods>> /\ Replicas' = Replicas
      /\ \A q : LeaseBucket(q)' = LeaseBucket(q)
      /\ leads' = [g \in Electing |-> IF g = f THEN leads[f] \cup {new} ELSE leads[g]]
      /\ f \in pods[p].registry /\ \A h \in leads[f] : h.bucket # new.bucket
  BY DEF Lead, BootInv, Replicas, LeaseBucket
<1>2. new.pod = p /\ new.bucket = LeaseBucket(p)
  OBVIOUS
<1> HIDE DEF new
<1>3. Leads'
  BY <1>1, <1>2 DEF BootInv, Leads
<1>4. \A q \in Replicas : Starts(pods[q])'
  BY <1>1 DEF BootInv, Starts, Staged, Told, Placed
<1> QED
  BY <1>1, <1>3, <1>4 DEF BootInv

\* App::start: the stages of every pod's start, its buckets and its leases.
THEOREM BootInvariance == BootSpec => []BootInv
<1>1. BootInit => BootInv
  <2> SUFFICES ASSUME BootInit PROVE BootInv
    OBVIOUS
  <2>1. Staged(Stopped)
    BY DEF Staged, Stopped, None, FlowsStarted, FlowsRun, AllRun
  <2>2. Told(Stopped) /\ Placed(Stopped)
    BY DEF Told, Placed, Stopped, FlowsLoaded, FlowsStarted, FlowsRun
  <2>3. Leads
    BY DEF BootInit, Leads
  <2> QED BY <2>1, <2>2, <2>3 DEF BootInit, BootInv, Starts, Replicas
<1>2. BootInv /\ [BootNext]_bootVars => BootInv'
  <2> SUFFICES ASSUME BootInv, [BootNext]_bootVars PROVE BootInv'
    OBVIOUS
  <2>1. CASE \E p \in Replicas : BootStep(p)
    BY <2>1, BootSteps
  <2>2. CASE \E p \in Replicas, f \in Electing : Lead(p, f)
    BY <2>2, LeadSteps
  <2>3. CASE UNCHANGED <<deployment, pods, leads>>
    <3>1. Replicas' = Replicas /\ \A q : LeaseBucket(q)' = LeaseBucket(q)
      BY <2>3 DEF Replicas, LeaseBucket
    <3>2. \A q \in Replicas : Starts(pods[q])'
      BY <2>3 DEF BootInv, Starts, Staged, Told, Placed
    <3>3. Leads'
      BY <2>3, <3>1 DEF BootInv, Leads
    <3> QED BY <2>3, <3>1, <3>2, <3>3 DEF BootInv
  <2> QED
    BY <2>1, <2>2, <2>3 DEF BootNext, WriteKey, bootVars
<1> QED
  BY <1>1, <1>2, PTL DEF BootSpec

\* App::start: traffic, hand-overs and the readiness probe find the flows there.
THEOREM ReadyPodsServe == BootSpec => []ReadyIsServed
<1>1. BootInv => ReadyIsServed
  <2> SUFFICES ASSUME BootInv, NEW p \in Replicas
               PROVE  /\ pods[p].listening \/ pods[p].peer = "ready" \/ Readyz(p)
                          => pods[p].initialised \cap Serving \subseteq pods[p].routes \cup pods[p].logged
                      /\ pods[p].peer = "ready" \/ Readyz(p) => pods[p].registry = pods[p].initialised
    BY DEF ReadyIsServed
  <2> QED
    BY DEF BootInv, Starts, Staged, Readyz, FlowsStarted, FlowsRun, AllRun
<1> QED
  BY <1>1, BootInvariance, PTL

\* App::start and SystemBucket::open: two pods lead one flow only after a warning, or
\* where the cache is switched off.
THEOREM SplitsAreWarned == BootSpec => []SplitIsWarned
<1>1. BootInv => SplitIsWarned
  <2> SUFFICES ASSUME BootInv, NEW f \in Electing, NEW h \in leads[f], NEW l \in leads[f],
                      h.pod # l.pod, deployment.cache # "disabled"
               PROVE  \E x \in leads[f] : pods[x.pod].warned
    BY DEF SplitIsWarned, Split
  <2>1. /\ h.pod \in Replicas /\ f \in pods[h.pod].registry
        /\ l.pod \in Replicas /\ f \in pods[l.pod].registry
        /\ LeaseBucket(h.pod) # LeaseBucket(l.pod)
    BY DEF BootInv, Leads
  <2>2. \E x \in {h, l} : pods[x.pod].system = Nowhere
    BY <2>1, DeploymentsAssumption DEF BootInv, Starts, Placed, LeaseBucket
  <2>3. ASSUME NEW x \in {h, l}, pods[x.pod].system = Nowhere
        PROVE  pods[x.pod].warned
    BY <2>1, <2>3 DEF BootInv, Starts, Staged, Told, FlowsLoaded, FlowsStarted
  <2> QED BY <2>2, <2>3
<1> QED
  BY <1>1, BootInvariance, PTL

-----------------------------------------------------------------------------
(* The tool connections of an ai_completion task. *)

ToolsSpec == ToolsInit /\ [][ToolsNext]_toolVars

TurnType == [pc : {"none", "resolve", "look", "look_again", "judge", "judge_again", "wait", "connect",
                   "client", "use"},
             user : Owners, token : Nat, model : Models \cup {0}, slot : Nat, toolset : Nat]
SlotType == [toolset : Nat, connecting : BOOLEAN]
ToolsetType == [user : Owners, token : Nat, header : Nat, cached : Nat, clients : SUBSET (Models \cup {0})]

ToolTypes ==
  /\ token \in [Users -> Nat] /\ fetched \in Nat
  /\ turn \in [Turns -> TurnType]
  /\ slots \in Seq(SlotType)
  /\ toolsets \in Seq(ToolsetType)
  /\ slotOf \in [Owners -> Nat]

\* Every slot has one owner: who is sent to it, whose turns use it and whose
\* toolset is in it.
OwnedBy(own) ==
  /\ \A o \in Owners : slotOf[o] # 0 => slotOf[o] \in DOMAIN slots /\ own[slotOf[o]] = o
  /\ \A r \in Turns : turn[r].slot # 0 => turn[r].slot \in DOMAIN slots /\ own[turn[r].slot] = turn[r].user
  /\ \A i \in DOMAIN slots : slots[i].toolset # 0 =>
       slots[i].toolset \in DOMAIN toolsets /\ toolsets[slots[i].toolset].user = own[i]

Owned == \E own \in [DOMAIN slots -> Owners] : OwnedBy(own)

\* What a turn holds: a slot once it has resolved one, a toolset of its user's, and
\* one with its own token once that was judged.
Holds ==
  \A r \in Turns :
    /\ turn[r].pc \notin {"none", "resolve"} => turn[r].slot # 0
    /\ turn[r].toolset # 0 => turn[r].toolset \in DOMAIN toolsets
                              /\ toolsets[turn[r].toolset].user = turn[r].user
    /\ turn[r].pc \in {"client", "use"} =>
         turn[r].toolset # 0 /\ (PerUser => toolsets[turn[r].toolset].token = turn[r].token)

\* Tokens fetched for a toolset later are not the one it was opened with.
Fetches ==
  \A t \in DOMAIN toolsets :
    toolsets[t].header <= fetched /\ toolsets[t].cached <= fetched /\ (OAuth => toolsets[t].header # 0)

\* Turns that hold `connecting`: one for each slot, and what they read stays true.
Connecting == {"look_again", "judge_again", "connect"}
Locks ==
  /\ \A r \in Turns : turn[r].pc \in Connecting => slots[turn[r].slot].connecting
  /\ \A r, q \in Turns :
       turn[r].pc \in Connecting /\ turn[q].pc \in Connecting /\ turn[r].slot = turn[q].slot => r = q
  /\ \A r \in Turns : turn[r].pc \in {"judge_again", "connect"} =>
       turn[r].toolset = slots[turn[r].slot].toolset
  /\ \A r \in Turns : turn[r].pc = "connect" /\ turn[r].toolset # 0 =>
       ~IsCurrent(r, toolsets[turn[r].toolset])

\* The inductive invariant of the tool connections.
ToolInv == ToolTypes /\ Owned /\ Holds /\ Fetches /\ Locks

\* Replacing an element of a sequence.
LEMMA Replaced ==
  ASSUME NEW S, NEW s \in Seq(S), NEW i \in DOMAIN s, NEW e \in S
  PROVE  /\ [s EXCEPT ![i] = e] \in Seq(S)
         /\ DOMAIN [s EXCEPT ![i] = e] = DOMAIN s
         /\ \A j \in DOMAIN s : [s EXCEPT ![i] = e][j] = IF j = i THEN e ELSE s[j]
BY ExceptSeq

\* Appending one.
LEMMA Appended ==
  ASSUME NEW S, NEW s \in Seq(S), NEW e \in S
  PROVE  /\ Append(s, e) \in Seq(S)
         /\ DOMAIN Append(s, e) = DOMAIN s \cup {Len(s) + 1}
         /\ Len(s) + 1 \notin DOMAIN s /\ Len(s) + 1 # 0
         /\ Append(s, e)[Len(s) + 1] = e
         /\ \A j \in DOMAIN s : Append(s, e)[j] = s[j]
<1>1. Len(s) \in Nat /\ DOMAIN s = 1..Len(s)
  BY LenProperties
<1> QED BY <1>1, AppendProperties

\* What an outdated toolset is, for a turn with this token.
Outdated(tok, t) == (PerUser /\ t.token # tok) \/ (OAuth /\ t.cached # t.header)

LEMMA CurrentOrOutdated ==
  ASSUME NEW r \in Turns, NEW t
  PROVE  IsCurrent(r, t) <=> ~Outdated(turn[r].token, t)
BY DEF IsCurrent, SameUser, SameOAuth, Outdated

\* What the next state of a turn needs of the toolsets there are.
Fits(r, new) ==
  /\ new \in TurnType
  /\ new.slot # 0 => new.slot = turn[r].slot /\ new.user = turn[r].user
  /\ new.pc \notin {"none", "resolve"} => new.slot # 0
  /\ new.toolset # 0 => new.toolset \in DOMAIN toolsets /\ toolsets[new.toolset].user = new.user
  /\ new.pc \in {"client", "use"} =>
       new.toolset # 0 /\ (PerUser => toolsets[new.toolset].token = new.token)
  /\ new.pc \in Connecting => turn[r].pc \in Connecting
  /\ new.pc \in {"judge_again", "connect"} => new.toolset = slots[new.slot].toolset
  /\ new.pc = "connect" /\ new.toolset # 0 => Outdated(new.token, toolsets[new.toolset])

\* The `connecting` of the turn's slot is left alone, or dropped by its holder.
Unlocks(r, new) ==
  \/ UNCHANGED slots
  \/ /\ turn[r].pc \in Connecting /\ new.pc \notin Connecting
     /\ slots' = [slots EXCEPT ![turn[r].slot].connecting = FALSE]

\* What may change in the toolsets there are: tokens cached later than the one they
\* were opened with, and the clients built.
Drifts ==
  /\ fetched' \in Nat /\ fetched <= fetched'
  /\ toolsets' \in Seq(ToolsetType) /\ DOMAIN toolsets' = DOMAIN toolsets
  /\ \A t \in DOMAIN toolsets :
       /\ toolsets'[t].user = toolsets[t].user /\ toolsets'[t].token = toolsets[t].token
       /\ toolsets'[t].header = toolsets[t].header /\ toolsets'[t].cached <= fetched'
       /\ toolsets'[t].cached = toolsets[t].cached \/ ~OAuth \/ toolsets'[t].cached # toolsets[t].header

LEMMA SlotsAre ==
  ASSUME ToolInv
  PROVE  /\ \A i \in DOMAIN slots : slots[i] \in SlotType
         /\ \A r \in Turns : turn[r].slot # 0 => turn[r].slot \in DOMAIN slots
         /\ \A r \in Turns : turn[r].pc \in Connecting => turn[r].slot \in DOMAIN slots
         /\ \A t \in DOMAIN toolsets : toolsets[t] \in ToolsetType
<1>1. /\ \A i \in DOMAIN slots : slots[i] \in SlotType
      /\ \A t \in DOMAIN toolsets : toolsets[t] \in ToolsetType
  BY ElementOfSeq, LenProperties DEF ToolInv, ToolTypes
<1>2. \A r \in Turns : turn[r].slot # 0 => turn[r].slot \in DOMAIN slots
  BY DEF ToolInv, Owned, OwnedBy
<1> QED
  BY <1>1, <1>2 DEF ToolInv, Holds, Connecting

LEMMA NoDrift ==
  ASSUME ToolInv, UNCHANGED <<fetched, toolsets>>
  PROVE  Drifts
BY DEF ToolInv, ToolTypes, Fetches, Drifts

LEMMA DriftKeeps ==
  ASSUME ToolInv, Drifts, UNCHANGED servers
  PROVE  /\ PerUser' = PerUser /\ OAuth' = OAuth
         /\ Fetches'
         /\ \A t \in DOMAIN toolsets : \A tok :
              Outdated(tok, toolsets[t]) => Outdated(tok, toolsets[t])'
<1>1. PerUser' = PerUser /\ OAuth' = OAuth
  BY DEF PerUser, OAuth
<1>2. Fetches'
  <2> SUFFICES ASSUME NEW t \in DOMAIN toolsets
               PROVE  /\ toolsets'[t].header <= fetched' /\ toolsets'[t].cached <= fetched'
                      /\ OAuth => toolsets'[t].header # 0
    BY <1>1 DEF Fetches, Drifts
  <2>1. toolsets[t].header \in Nat /\ toolsets[t].header <= fetched /\ fetched \in Nat /\ (OAuth => toolsets[t].header # 0)
    BY SlotsAre DEF ToolsetType, ToolInv, ToolTypes, Fetches
  <2> QED BY <2>1 DEF Drifts
<1>3. ASSUME NEW t \in DOMAIN toolsets, NEW tok, Outdated(tok, toolsets[t])
      PROVE  (PerUser /\ toolsets'[t].token # tok) \/ (OAuth /\ toolsets'[t].cached # toolsets'[t].header)
  BY <1>3 DEF Outdated, Drifts
<1> QED
  BY <1>1, <1>2, <1>3 DEF Outdated

\* Steps that change a turn alone, and its lock.
LEMMA TurnMoves ==
  ASSUME ToolInv, NEW r \in Turns, NEW new, Fits(r, new), Unlocks(r, new),
         turn' = [turn EXCEPT ![r] = new],
         Drifts, UNCHANGED <<servers, token, slotOf>>
  PROVE  ToolInv'
<1>1. /\ turn' \in [Turns -> TurnType]
      /\ \A q \in Turns : turn'[q] = IF q = r THEN new ELSE turn[q]
  BY DEF ToolInv, ToolTypes, Fits
<1>2. PerUser' = PerUser /\ OAuth' = OAuth
  BY DriftKeeps
<1>3. /\ slots' \in Seq(SlotType) /\ DOMAIN slots' = DOMAIN slots
      /\ \A i \in DOMAIN slots :
           /\ slots'[i].toolset = slots[i].toolset
           /\ i # turn[r].slot \/ new.pc \in Connecting => slots'[i].connecting = slots[i].connecting
  <2>1. CASE UNCHANGED slots
    BY <2>1 DEF ToolInv, ToolTypes
  <2>2. CASE turn[r].pc \in Connecting /\ new.pc \notin Connecting
             /\ slots' = [slots EXCEPT ![turn[r].slot].connecting = FALSE]
    <3>1. turn[r].slot \in DOMAIN slots
      BY <2>2, SlotsAre
    <3> DEFINE e == [slots[turn[r].slot] EXCEPT !.connecting = FALSE]
    <3>2. e \in SlotType /\ e.toolset = slots[turn[r].slot].toolset
      BY <3>1, SlotsAre DEF SlotType
    <3>3. slots' = [slots EXCEPT ![turn[r].slot] = e]
      BY <2>2
    <3> HIDE DEF e
    <3>4. slots \in Seq(SlotType)
      BY DEF ToolInv, ToolTypes
    <3>5. /\ slots' \in Seq(SlotType) /\ DOMAIN slots' = DOMAIN slots
          /\ \A i \in DOMAIN slots : slots'[i] = IF i = turn[r].slot THEN e ELSE slots[i]
      BY <3>1, <3>2, <3>3, <3>4, Replaced
    <3> QED BY <2>2, <3>2, <3>5
  <2> QED BY <2>1, <2>2 DEF Unlocks
<1>4. ToolTypes'
  BY <1>1, <1>3 DEF ToolInv, ToolTypes, Drifts
<1>5. Owned'
  <2>1. PICK own \in [DOMAIN slots -> Owners] : OwnedBy(own)
    BY DEF ToolInv, Owned
  <2>2. OwnedBy(own)'
    <3>1. \A o \in Owners : slotOf'[o] # 0 => slotOf'[o] \in DOMAIN slots' /\ own[slotOf'[o]] = o
      BY <1>1, <1>3, <2>1 DEF OwnedBy
    <3>2. \A q \in Turns : turn'[q].slot # 0 => turn'[q].slot \in DOMAIN slots' /\ own[turn'[q].slot] = turn'[q].user
      BY <1>1, <1>3, <2>1 DEF OwnedBy, Fits
    <3>3. \A i \in DOMAIN slots' : slots'[i].toolset # 0 =>
            slots'[i].toolset \in DOMAIN toolsets' /\ toolsets'[slots'[i].toolset].user = own[i]
      BY <1>1, <1>3, <2>1 DEF OwnedBy, Drifts
    <3> QED BY <3>1, <3>2, <3>3 DEF OwnedBy
  <2> QED BY <1>3, <2>2 DEF Owned
<1>6. Holds'
  BY <1>1, <1>2 DEF ToolInv, Holds, Fits, Drifts
<1>7. Fetches'
  BY DriftKeeps
<1>8. Locks'
  <2>1. \A q \in Turns : turn'[q].pc \in Connecting => slots'[turn'[q].slot].connecting
    <3> SUFFICES ASSUME NEW q \in Turns, turn'[q].pc \in Connecting
                 PROVE  slots'[turn'[q].slot].connecting
      OBVIOUS
    <3>1. turn[q].pc \in Connecting /\ turn'[q].slot = turn[q].slot
      BY <1>1 DEF Fits, Connecting
    <3>2. turn[q].slot \in DOMAIN slots /\ slots[turn[q].slot].connecting
      BY <3>1, SlotsAre DEF ToolInv, Locks
    <3>3. q = r => new.pc \in Connecting
      BY <1>1
    <3>4. UNCHANGED slots \/ q = r \/ turn[q].slot # turn[r].slot
      BY <3>1 DEF Unlocks, ToolInv, Locks
    <3> QED BY <1>3, <3>1, <3>2, <3>3, <3>4
  <2>2. \A p, q \in Turns :
          turn'[p].pc \in Connecting /\ turn'[q].pc \in Connecting /\ turn'[p].slot = turn'[q].slot => p = q
    BY <1>1 DEF ToolInv, Locks, Fits, Connecting
  <2>3. \A q \in Turns : turn'[q].pc \in {"judge_again", "connect"} => turn'[q].toolset = slots'[turn'[q].slot].toolset
    BY <1>1, <1>3 DEF ToolInv, Locks, Fits, Holds, Owned, OwnedBy
  <2>4. \A q \in Turns : turn'[q].pc = "connect" /\ turn'[q].toolset # 0 =>
          ~IsCurrent(q, toolsets[turn[q].toolset])'
    <3> SUFFICES ASSUME NEW q \in Turns, turn'[q].pc = "connect", turn'[q].toolset # 0
                 PROVE  ~IsCurrent(q, toolsets[turn[q].toolset])'
      OBVIOUS
    <3>1. PICK ts, tok : ts = turn'[q].toolset /\ tok = turn'[q].token
      OBVIOUS
    <3>2. ts \in DOMAIN toolsets
      BY <1>1, <3>1 DEF Fits, ToolInv, Holds
    <3>3. Outdated(tok, toolsets[ts])
      BY <1>1, <3>1, CurrentOrOutdated DEF Fits, ToolInv, Locks
    <3>4. Outdated(tok, toolsets[ts])'
      BY <3>2, <3>3, DriftKeeps
    <3> QED BY <3>1, <3>4 DEF IsCurrent, SameUser, SameOAuth, Outdated
  <2> QED BY <2>1, <2>2, <2>3, <2>4 DEF Locks
<1> QED
  BY <1>4, <1>5, <1>6, <1>7, <1>8 DEF ToolInv

LEMMA TurnEnding ==
  ASSUME ToolInv, NEW r \in Turns, NEW u \in Owners, NEW t \in Nat, NEW m \in Models \cup {0}
  PROVE  /\ Fits(r, NoTurn)
         /\ Fits(r, [NoTurn EXCEPT !.pc = "resolve", !.user = u, !.token = t, !.model = m])
BY DEF Fits, NoTurn, TurnType, Connecting, Owners, Task

\* A turn ends, or is tried again, and its lock is dropped.
LEMMA Failing ==
  ASSUME ToolInv, NEW r \in Turns, FailsWith(r), UNCHANGED <<servers, token, fetched, slotOf, toolsets>>,
         \/ UNCHANGED slots
         \/ turn[r].pc \in Connecting /\ slots' = [slots EXCEPT ![turn[r].slot].connecting = FALSE]
  PROVE  ToolInv'
<1>1. turn[r].user \in Owners /\ turn[r].token \in Nat /\ turn[r].model \in Models \cup {0}
  BY DEF ToolInv, ToolTypes, TurnType
<1> DEFINE again == [NoTurn EXCEPT !.pc = "resolve", !.user = turn[r].user, !.token = turn[r].token,
                                   !.model = turn[r].model]
<1>2. Fits(r, NoTurn) /\ Fits(r, again)
  BY <1>1, TurnEnding
<1>3. again.pc = "resolve" /\ NoTurn.pc = "none"
  BY DEF NoTurn
<1> HIDE DEF again
<1>4. Unlocks(r, NoTurn) /\ Unlocks(r, again)
  BY <1>3 DEF Unlocks, Connecting
<1>5. turn' = [turn EXCEPT ![r] = again] \/ turn' = [turn EXCEPT ![r] = NoTurn]
  BY DEF FailsWith, TurnEnds, again
<1> QED
  BY <1>2, <1>4, <1>5, NoDrift, TurnMoves

\* A turn goes on to a place that needs no more than it has.
LEMMA Going ==
  ASSUME ToolInv, NEW r \in Turns, NEW c \in {"wait", "connect", "client", "use"}, TurnGoes(r, c),
         Unlocks(r, [turn[r] EXCEPT !.pc = c]),
         Drifts, UNCHANGED <<servers, token, slotOf>>,
         turn[r].slot # 0,
         c \in {"client", "use"} => turn[r].toolset # 0 /\ (PerUser => toolsets[turn[r].toolset].token = turn[r].token),
         c = "connect" => /\ turn[r].pc = "judge_again"
                          /\ turn[r].toolset # 0 => Outdated(turn[r].token, toolsets[turn[r].toolset])
  PROVE  ToolInv'
<1> DEFINE new == [turn[r] EXCEPT !.pc = c]
<1>1. turn[r] \in TurnType
  BY DEF ToolInv, ToolTypes
<1>2. /\ new \in TurnType /\ new.pc = c
      /\ \A x \in {"user", "token", "model", "slot", "toolset"} : new[x] = turn[r][x]
  BY <1>1 DEF TurnType
<1>3. turn' = [turn EXCEPT ![r] = new]
  BY DEF TurnGoes
<1>4. Unlocks(r, new)
  OBVIOUS
<1> HIDE DEF new
<1>5. /\ new.slot = turn[r].slot /\ new.user = turn[r].user
      /\ new.toolset = turn[r].toolset /\ new.token = turn[r].token
  BY <1>2
<1>6. turn[r].toolset # 0 => turn[r].toolset \in DOMAIN toolsets
                             /\ toolsets[turn[r].toolset].user = turn[r].user
  BY DEF ToolInv, Holds
<1>7. c = "connect" => turn[r].toolset = slots[turn[r].slot].toolset
  BY DEF ToolInv, Locks
<1>8. Fits(r, new)
  BY <1>2, <1>5, <1>6, <1>7 DEF Fits, Connecting
<1> QED
  BY <1>3, <1>4, <1>8, TurnMoves

LEMMA MinorSteps ==
  ASSUME ToolInv, NEW r \in Turns,
         \/ Receive(r) \/ Look(r) \/ NothingYet(r) \/ Judge(r) \/ RefetchFails(r) \/ ConnectFails(r)
         \/ Client(r) \/ BuildFails(r) \/ Prompt(r) \/ PromptFails(r)
  PROVE  ToolInv'
<1>0. turn[r] \in TurnType
  BY DEF ToolInv, ToolTypes
<1>1. CASE Receive(r)
  <2>1. PICK u \in (IF PerUser THEN Users ELSE {Task}), m \in Models :
          turn' = [turn EXCEPT ![r] = [NoTurn EXCEPT !.pc = "resolve", !.user = u,
                                            !.token = IF PerUser THEN token[u] ELSE 0, !.model = m]]
    BY <1>1 DEF Receive
  <2> DEFINE tok == IF PerUser THEN token[u] ELSE 0
  <2>2. u \in Owners /\ tok \in Nat /\ m \in Models \cup {0}
    BY DEF Owners, ToolInv, ToolTypes
  <2> HIDE DEF tok
  <2> DEFINE new == [NoTurn EXCEPT !.pc = "resolve", !.user = u, !.token = tok, !.model = m]
  <2>3. turn' = [turn EXCEPT ![r] = new]
    BY <2>1 DEF tok
  <2>4. Fits(r, new)
    BY <2>2, TurnEnding
  <2> HIDE DEF new
  <2> QED BY <1>1, <2>3, <2>4, NoDrift, TurnMoves DEF Receive, Unlocks
<1>2. CASE Look(r)
  <2> DEFINE c == IF TurnAt(r, "look") THEN "judge" ELSE "judge_again"
             ts == slots[turn[r].slot].toolset
             new == [turn[r] EXCEPT !.toolset = ts, !.pc = c]
  <2>1. /\ turn[r].slot # 0 /\ turn[r].slot \in DOMAIN slots /\ slots[turn[r].slot] \in SlotType
    BY <1>2, SlotsAre DEF Look, ToolInv, Holds
  <2>2. ts \in Nat /\ (ts # 0 => ts \in DOMAIN toolsets /\ toolsets[ts].user = turn[r].user)
    BY <2>1 DEF SlotType, ToolInv, Owned, OwnedBy
  <2>3. c \in {"judge", "judge_again"} /\ (c = "judge_again" => turn[r].pc = "look_again")
    BY <1>2 DEF Look, TurnAt
  <2>4. turn' = [turn EXCEPT ![r] = new]
    BY <1>2, <1>0 DEF Look, TurnType
  <2> HIDE DEF c
  <2>5. /\ new \in TurnType /\ new.pc = c /\ new.toolset = ts /\ new.slot = turn[r].slot
        /\ new.user = turn[r].user /\ new.token = turn[r].token
    BY <1>0, <2>2, <2>3 DEF TurnType
  <2> HIDE DEF new
  <2>6. Fits(r, new)
    BY <2>1, <2>2, <2>3, <2>5 DEF Fits, Connecting
  <2> QED BY <1>2, <2>4, <2>6, NoDrift, TurnMoves DEF Look, Unlocks
<1>3. CASE NothingYet(r)
  <2>1. turn[r].slot # 0
    BY <1>3 DEF NothingYet, Judging, ToolInv, Holds
  <2>2. CASE TurnAt(r, "judge")
    BY <1>3, <2>1, <2>2, NoDrift, Going DEF NothingYet, NotFresh, Unlocks
  <2>3. CASE turn[r].pc = "judge_again"
    BY <1>3, <2>1, <2>3, NoDrift, Going DEF NothingYet, NotFresh, Unlocks, TurnAt
  <2> QED BY <1>3, <2>2, <2>3 DEF NothingYet, Judging, TurnAt
<1>4. CASE Judge(r)
  <2> DEFINE t == toolsets[turn[r].toolset]
  <2>1. turn[r].slot # 0 /\ turn[r].toolset # 0
    BY <1>4 DEF Judge, Judging, ToolInv, Holds
  <2>2. CASE IsCurrent(r, t)
    <3>1. TurnGoes(r, "client") /\ slots' = Unlocked(r) /\ UNCHANGED <<servers, token, fetched, slotOf, toolsets>>
      BY <1>4, <2>2 DEF Judge
    <3>2. PerUser => t.token = turn[r].token
      BY <2>2 DEF IsCurrent, SameUser
    <3>3. [turn[r] EXCEPT !.pc = "client"].pc = "client"
      BY <1>0 DEF TurnType
    <3>4. Unlocks(r, [turn[r] EXCEPT !.pc = "client"])
      BY <1>4, <3>1, <3>3 DEF Unlocks, Unlocked, Judge, Judging, TurnAt, Connecting
    <3> QED BY <2>1, <3>1, <3>2, <3>4, NoDrift, Going
  <2>3. CASE ~IsCurrent(r, t)
    <3>1. NotFresh(r) /\ UNCHANGED <<servers, token, fetched, slots, slotOf, toolsets>>
      BY <1>4, <2>3 DEF Judge
    <3>2. Outdated(turn[r].token, t)
      BY <2>3, CurrentOrOutdated
    <3>3. CASE turn[r].pc = "judge"
      BY <2>1, <3>1, <3>3, NoDrift, Going DEF NotFresh, Unlocks, TurnAt
    <3>4. CASE turn[r].pc = "judge_again"
      BY <2>1, <3>1, <3>2, <3>4, NoDrift, Going DEF NotFresh, Unlocks, TurnAt
    <3> QED BY <1>4, <3>3, <3>4 DEF Judge, Judging
  <2> QED BY <2>2, <2>3
<1>5. CASE RefetchFails(r)
  BY <1>5, Failing DEF RefetchFails, Unlocked, Judging, TurnAt, Connecting
<1>6. CASE ConnectFails(r)
  BY <1>6, Failing DEF ConnectFails, TurnAt, Connecting
<1>7. CASE Client(r)
  BY <1>7, NoDrift, Going DEF Client, Unlocks, ToolInv, Holds, TurnAt
<1>8. CASE BuildFails(r)
  BY <1>8, Failing DEF BuildFails
<1>9. CASE Prompt(r)
  <2>1. Fits(r, NoTurn)
    BY <1>0, TurnEnding DEF TurnType
  <2> QED BY <1>9, <2>1, NoDrift, TurnMoves DEF Prompt, TurnEnds, Unlocks
<1>10. CASE PromptFails(r)
  BY <1>10, Failing DEF PromptFails
<1> QED
  BY <1>1, <1>2, <1>3, <1>4, <1>5, <1>6, <1>7, <1>8, <1>9, <1>10

\* A toolset's token cache, or its clients.
LEMMA ToolsetDrifts ==
  ASSUME ToolInv, NEW t \in DOMAIN toolsets, NEW e \in ToolsetType,
         e.user = toolsets[t].user, e.token = toolsets[t].token, e.header = toolsets[t].header,
         toolsets' = [toolsets EXCEPT ![t] = e],
         \/ fetched' = fetched /\ e.cached = toolsets[t].cached
         \/ fetched' = fetched /\ e.cached = 0 /\ OAuth
         \/ fetched' = fetched + 1 /\ e.cached = fetched + 1
  PROVE  Drifts
<1>1. /\ toolsets' \in Seq(ToolsetType) /\ DOMAIN toolsets' = DOMAIN toolsets
      /\ \A i \in DOMAIN toolsets : toolsets'[i] = IF i = t THEN e ELSE toolsets[i]
  BY Replaced DEF ToolInv, ToolTypes
<1>2. fetched \in Nat /\ fetched' \in Nat /\ fetched <= fetched'
  BY DEF ToolInv, ToolTypes
<1>3. ASSUME NEW i \in DOMAIN toolsets
      PROVE  /\ toolsets[i].header \in Nat /\ toolsets[i].cached \in Nat
             /\ toolsets[i].header <= fetched /\ toolsets[i].cached <= fetched
             /\ OAuth => toolsets[i].header # 0
  BY SlotsAre DEF ToolInv, Fetches, ToolsetType
<1> QED
  BY <1>1, <1>2, <1>3 DEF Drifts

LEMMA Drifting ==
  ASSUME ToolInv, Drifts, UNCHANGED <<servers, slots, slotOf, turn>>, token' \in [Users -> Nat]
  PROVE  ToolInv'
<1>1. ToolTypes'
  BY DEF ToolInv, ToolTypes, Drifts
<1>2. Owned'
  <2>1. PICK own \in [DOMAIN slots -> Owners] : OwnedBy(own)
    BY DEF ToolInv, Owned
  <2>2. OwnedBy(own)'
    BY <2>1 DEF OwnedBy, Drifts
  <2> QED BY <2>2 DEF Owned
<1>3. Holds'
  BY DriftKeeps DEF ToolInv, Holds, Drifts
<1>4. Locks'
  <2>1. \A q \in Turns : turn[q].pc = "connect" /\ turn[q].toolset # 0 =>
          ~IsCurrent(q, toolsets[turn[q].toolset])'
    <3> SUFFICES ASSUME NEW q \in Turns, turn[q].pc = "connect", turn[q].toolset # 0
                 PROVE  ~IsCurrent(q, toolsets[turn[q].toolset])'
      OBVIOUS
    <3>1. PICK ts, tok : ts = turn[q].toolset /\ tok = turn[q].token
      OBVIOUS
    <3>2. Outdated(tok, toolsets[ts]) /\ ts \in DOMAIN toolsets
      BY <3>1, CurrentOrOutdated DEF ToolInv, Locks, Holds
    <3>3. Outdated(tok, toolsets[ts])'
      BY <3>2, DriftKeeps
    <3> QED BY <3>1, <3>3 DEF IsCurrent, SameUser, SameOAuth, Outdated
  <2> QED BY <2>1 DEF ToolInv, Locks
<1> QED
  BY <1>1, <1>2, <1>3, <1>4, DriftKeeps DEF ToolInv

LEMMA ToolsetSteps ==
  ASSUME ToolInv,
         \/ \E r \in Turns : Refetch(r) \/ BuildClient(r)
         \/ \E t \in DOMAIN toolsets : Lapse(t)
         \/ \E u \in Users : Renew(u)
  PROVE  ToolInv'
<1>1. ASSUME NEW r \in Turns, Refetch(r) PROVE ToolInv'
  <2> DEFINE t == turn[r].toolset
             e == [toolsets[t] EXCEPT !.cached = fetched + 1]
  <2>1. /\ turn[r].slot # 0 /\ t # 0 /\ t \in DOMAIN toolsets /\ toolsets[t] \in ToolsetType
        /\ fetched \in Nat
    BY <1>1, SlotsAre DEF Refetch, Lapsed, Judging, ToolInv, ToolTypes, Holds
  <2>2. /\ e \in ToolsetType /\ e.cached = fetched + 1
        /\ e.user = toolsets[t].user /\ e.token = toolsets[t].token /\ e.header = toolsets[t].header
    BY <2>1 DEF ToolsetType
  <2>3. toolsets' = [toolsets EXCEPT ![t] = e] /\ fetched' = fetched + 1
    BY <1>1 DEF Refetch
  <2> HIDE DEF e
  <2>4. Drifts
    BY <2>1, <2>2, <2>3, ToolsetDrifts
  <2>5. Outdated(turn[r].token, toolsets[t])
    BY <1>1, <2>1 DEF Refetch, Lapsed, Outdated, ToolInv, Fetches
  <2>6. CASE turn[r].pc = "judge"
    BY <1>1, <2>1, <2>4, <2>6, Going DEF Refetch, NotFresh, Unlocks, TurnAt
  <2>7. CASE turn[r].pc = "judge_again"
    BY <1>1, <2>1, <2>4, <2>5, <2>7, Going DEF Refetch, NotFresh, Unlocks, TurnAt
  <2> QED BY <1>1, <2>6, <2>7 DEF Refetch, Judging
<1>2. ASSUME NEW r \in Turns, BuildClient(r) PROVE ToolInv'
  <2> DEFINE t == turn[r].toolset
             e == [toolsets[t] EXCEPT !.clients = @ \cup {turn[r].model}]
  <2>1. /\ turn[r].slot # 0 /\ t # 0 /\ t \in DOMAIN toolsets /\ toolsets[t] \in ToolsetType
        /\ turn[r].model \in Models \cup {0} /\ (PerUser => toolsets[t].token = turn[r].token)
    BY <1>2, SlotsAre DEF BuildClient, TurnAt, ToolInv, ToolTypes, Holds, TurnType
  <2>2. /\ e \in ToolsetType /\ e.cached = toolsets[t].cached
        /\ e.user = toolsets[t].user /\ e.token = toolsets[t].token /\ e.header = toolsets[t].header
    BY <2>1 DEF ToolsetType
  <2>3. toolsets' = [toolsets EXCEPT ![t] = e]
    BY <1>2 DEF BuildClient
  <2> HIDE DEF e
  <2>4. Drifts
    BY <1>2, <2>1, <2>2, <2>3, ToolsetDrifts DEF BuildClient
  <2> QED BY <1>2, <2>1, <2>4, Going DEF BuildClient, Unlocks, TurnAt
<1>3. ASSUME NEW t \in DOMAIN toolsets, Lapse(t) PROVE ToolInv'
  <2> DEFINE e == [toolsets[t] EXCEPT !.cached = 0]
  <2>1. toolsets[t] \in ToolsetType
    BY SlotsAre
  <2>2. /\ e \in ToolsetType /\ e.cached = 0
        /\ e.user = toolsets[t].user /\ e.token = toolsets[t].token /\ e.header = toolsets[t].header
    BY <2>1 DEF ToolsetType
  <2>3. toolsets' = [toolsets EXCEPT ![t] = e]
    BY <1>3 DEF Lapse
  <2> HIDE DEF e
  <2>4. Drifts
    BY <1>3, <2>2, <2>3, ToolsetDrifts DEF Lapse
  <2> QED BY <1>3, <2>4, Drifting DEF Lapse, ToolInv, ToolTypes
<1>4. ASSUME NEW u \in Users, Renew(u) PROVE ToolInv'
  <2>1. token' \in [Users -> Nat]
    BY <1>4 DEF Renew, ToolInv, ToolTypes
  <2> QED BY <1>4, <2>1, NoDrift, Drifting DEF Renew
<1> QED
  BY <1>1, <1>2, <1>3, <1>4

\* self.connecting.lock(): nobody holds the lock of the slot.
LEMMA WaitSteps ==
  ASSUME ToolInv, NEW r \in Turns, Wait(r)
  PROVE  ToolInv'
<1> DEFINE i == turn[r].slot
           e == [slots[i] EXCEPT !.connecting = TRUE]
           new == [turn[r] EXCEPT !.pc = "look_again"]
<1>1. /\ i # 0 /\ i \in DOMAIN slots /\ slots[i] \in SlotType /\ turn[r] \in TurnType
      /\ turn[r].pc = "wait" /\ slots[i].connecting = FALSE
  BY SlotsAre DEF Wait, TurnAt, ToolInv, ToolTypes, Holds, SlotType
<1>2. e \in SlotType /\ e.connecting = TRUE /\ e.toolset = slots[i].toolset
  BY <1>1 DEF SlotType
<1>3. /\ new \in TurnType /\ new.pc = "look_again" /\ new.slot = i /\ new.toolset = turn[r].toolset
      /\ new.user = turn[r].user /\ new.token = turn[r].token
  BY <1>1 DEF TurnType
<1>4. slots' = [slots EXCEPT ![i] = e] /\ turn' = [turn EXCEPT ![r] = new]
  BY DEF Wait, TurnGoes
<1> HIDE DEF i, e, new
<1>5. /\ slots' \in Seq(SlotType) /\ DOMAIN slots' = DOMAIN slots
      /\ \A j \in DOMAIN slots : slots'[j] = IF j = i THEN e ELSE slots[j]
  BY <1>1, <1>2, <1>4, Replaced DEF ToolInv, ToolTypes
<1>6. /\ turn' \in [Turns -> TurnType]
      /\ \A q \in Turns : turn'[q] = IF q = r THEN new ELSE turn[q]
  BY <1>3, <1>4 DEF ToolInv, ToolTypes
<1>7. UNCHANGED <<servers, token, fetched, slotOf, toolsets>> /\ PerUser' = PerUser /\ OAuth' = OAuth
  BY DEF Wait, PerUser, OAuth
<1>8. \A q \in Turns : turn[q].pc \in Connecting => turn[q].slot \in DOMAIN slots /\ turn[q].slot # i
  BY <1>1, SlotsAre DEF ToolInv, Locks
<1>9. ToolTypes'
  BY <1>5, <1>6, <1>7 DEF ToolInv, ToolTypes
<1>10. Owned'
  <2>1. PICK own \in [DOMAIN slots -> Owners] : OwnedBy(own)
    BY DEF ToolInv, Owned
  <2>2. i = turn[r].slot
    BY DEF i
  <2>3. OwnedBy(own)'
    BY <1>2, <1>3, <1>5, <1>6, <1>7, <2>1, <2>2 DEF OwnedBy
  <2> QED BY <1>5, <2>3 DEF Owned
<1>11. Holds'
  BY <1>1, <1>3, <1>6, <1>7 DEF ToolInv, Holds
<1>12. Fetches'
  BY <1>7 DEF ToolInv, Fetches
<1>13. Locks'
  <2>1. \A q \in Turns : turn'[q].pc \in Connecting => slots'[turn'[q].slot].connecting
    BY <1>1, <1>2, <1>3, <1>5, <1>6, <1>8 DEF ToolInv, Locks
  <2>2. \A p, q \in Turns :
          turn'[p].pc \in Connecting /\ turn'[q].pc \in Connecting /\ turn'[p].slot = turn'[q].slot => p = q
    BY <1>3, <1>6, <1>8 DEF ToolInv, Locks
  <2>3. \A q \in Turns : turn'[q].pc \in {"judge_again", "connect"} => turn'[q].toolset = slots'[turn'[q].slot].toolset
    BY <1>2, <1>3, <1>5, <1>6, <1>8 DEF ToolInv, Locks, Connecting
  <2>4. \A q \in Turns : turn'[q].pc = "connect" /\ turn'[q].toolset # 0 =>
          ~IsCurrent(q, toolsets[turn[q].toolset])'
    BY <1>3, <1>6, <1>7 DEF ToolInv, Locks, IsCurrent, SameUser, SameOAuth
  <2> QED BY <2>1, <2>2, <2>3, <2>4 DEF Locks
<1> QED
  BY <1>9, <1>10, <1>11, <1>12, <1>13 DEF ToolInv

\* connect_mcp_tools: the slot gets a toolset of the turn's user, with its token.
LEMMA ConnectSteps ==
  ASSUME ToolInv, NEW r \in Turns, Connect(r)
  PROVE  ToolInv'
<1> DEFINE i == turn[r].slot
           n == Len(toolsets) + 1
           t == [user |-> turn[r].user, token |-> turn[r].token, header |-> fetched', cached |-> fetched',
                 clients |-> {}]
           e == [toolset |-> n, connecting |-> FALSE]
           new == [turn[r] EXCEPT !.toolset = n, !.pc = "client"]
<1>1. /\ i # 0 /\ i \in DOMAIN slots /\ slots[i] \in SlotType /\ turn[r] \in TurnType
      /\ turn[r].pc = "connect" /\ fetched \in Nat /\ toolsets \in Seq(ToolsetType)
  BY SlotsAre DEF Connect, TurnAt, ToolInv, ToolTypes, Holds
<1>2. fetched' \in Nat /\ fetched <= fetched' /\ (OAuth => fetched' # 0)
  BY <1>1 DEF Connect
<1>3. n \in Nat
  BY <1>1, LenProperties
<1>4. /\ t \in ToolsetType /\ t.user = turn[r].user /\ t.token = turn[r].token
      /\ t.header = fetched' /\ t.cached = fetched'
  BY <1>1, <1>2 DEF ToolsetType, TurnType
<1>5. e \in SlotType /\ e.toolset = n
  BY <1>3 DEF SlotType
<1>6. /\ new \in TurnType /\ new.pc = "client" /\ new.slot = i /\ new.toolset = n
      /\ new.user = turn[r].user /\ new.token = turn[r].token
  BY <1>1, <1>3 DEF TurnType
<1>7. /\ toolsets' = Append(toolsets, t) /\ slots' = [slots EXCEPT ![i] = e]
      /\ turn' = [turn EXCEPT ![r] = new] /\ UNCHANGED <<servers, token, slotOf>>
  BY <1>1 DEF Connect, TurnType
<1>8. i = turn[r].slot /\ n = Len(toolsets) + 1
  OBVIOUS
<1> HIDE DEF i, n, t, e, new
<1>9. /\ slots' \in Seq(SlotType) /\ DOMAIN slots' = DOMAIN slots
      /\ \A j \in DOMAIN slots : slots'[j] = IF j = i THEN e ELSE slots[j]
  BY <1>1, <1>5, <1>7, Replaced DEF ToolInv, ToolTypes
<1>10. /\ turn' \in [Turns -> TurnType]
       /\ \A q \in Turns : turn'[q] = IF q = r THEN new ELSE turn[q]
  BY <1>6, <1>7 DEF ToolInv, ToolTypes
<1>11. /\ toolsets' \in Seq(ToolsetType) /\ DOMAIN toolsets' = DOMAIN toolsets \cup {n}
       /\ n \notin DOMAIN toolsets /\ n # 0 /\ toolsets'[n] = t
       /\ \A j \in DOMAIN toolsets : toolsets'[j] = toolsets[j]
  BY <1>1, <1>4, <1>7, <1>8, Appended
<1>12. PerUser' = PerUser /\ OAuth' = OAuth
  BY <1>7 DEF PerUser, OAuth
<1>13. ToolTypes'
  BY <1>2, <1>7, <1>9, <1>10, <1>11 DEF ToolInv, ToolTypes
<1>14. Owned'
  <2>1. PICK own \in [DOMAIN slots -> Owners] : OwnedBy(own)
    BY DEF ToolInv, Owned
  <2>2. OwnedBy(own)'
    BY <1>1, <1>4, <1>5, <1>6, <1>7, <1>8, <1>9, <1>10, <1>11, <2>1 DEF OwnedBy
  <2> QED BY <1>9, <2>2 DEF Owned
<1>15. Holds'
  BY <1>1, <1>4, <1>6, <1>10, <1>11, <1>12 DEF ToolInv, Holds
<1>16. Fetches'
  <2>1. \A j \in DOMAIN toolsets : toolsets[j].header \in Nat /\ toolsets[j].cached \in Nat
    BY SlotsAre DEF ToolsetType
  <2> QED BY <1>1, <1>2, <1>4, <1>11, <1>12, <2>1 DEF ToolInv, Fetches
<1>17. Locks'
  <2>0. \A q \in Turns : q # r /\ turn[q].pc \in Connecting => turn[q].slot \in DOMAIN slots /\ turn[q].slot # i
    BY <1>1, <1>8, SlotsAre DEF ToolInv, Locks, Connecting
  <2>1. \A q \in Turns : turn'[q].pc \in Connecting => slots'[turn'[q].slot].connecting
    BY <1>6, <1>9, <1>10, <2>0 DEF ToolInv, Locks, Connecting
  <2>2. \A p, q \in Turns :
          turn'[p].pc \in Connecting /\ turn'[q].pc \in Connecting /\ turn'[p].slot = turn'[q].slot => p = q
    BY <1>6, <1>10 DEF ToolInv, Locks, Connecting
  <2>3. \A q \in Turns : turn'[q].pc \in {"judge_again", "connect"} => turn'[q].toolset = slots'[turn'[q].slot].toolset
    BY <1>6, <1>9, <1>10, <2>0 DEF ToolInv, Locks, Connecting
  <2>4. \A q \in Turns : turn'[q].pc = "connect" /\ turn'[q].toolset # 0 =>
          ~IsCurrent(q, toolsets[turn[q].toolset])'
    BY <1>6, <1>10, <1>11, <1>12 DEF ToolInv, Locks, Holds, IsCurrent, SameUser, SameOAuth
  <2> QED BY <2>1, <2>2, <2>3, <2>4 DEF Locks
<1> QED
  BY <1>13, <1>14, <1>15, <1>16, <1>17 DEF ToolInv

\* users.entry(id).or_insert_with: a slot that is made is nobody else's.
LEMMA ResolveSteps ==
  ASSUME ToolInv, NEW r \in Turns, Resolve(r)
  PROVE  ToolInv'
<1> DEFINE o == turn[r].user
           e == [toolset |-> 0, connecting |-> FALSE]
           s == IF slotOf[o] # 0 THEN slotOf[o] ELSE Len(slots) + 1
           new == [turn[r] EXCEPT !.slot = s, !.pc = "look"]
<1>1. /\ turn[r] \in TurnType /\ turn[r].pc = "resolve" /\ o \in Owners
      /\ slots \in Seq(SlotType) /\ slotOf \in [Owners -> Nat]
      /\ slotOf[o] # 0 => slotOf[o] \in DOMAIN slots
  BY DEF Resolve, TurnAt, ToolInv, ToolTypes, TurnType, Owned, OwnedBy
<1>2. e \in SlotType /\ e.toolset = 0
  BY DEF SlotType
<1>3. /\ slots' = IF slotOf[o] # 0 THEN slots ELSE Append(slots, e)
      /\ slotOf' = [slotOf EXCEPT ![o] = s]
      /\ UNCHANGED <<servers, token, fetched, toolsets>>
  BY DEF Resolve
<1>4. s \in Nat /\ s # 0
  BY <1>1, LenProperties
<1>5. turn' = [turn EXCEPT ![r] = new]
  BY <1>1 DEF Resolve, TurnType
<1>6. /\ new \in TurnType /\ new.pc = "look" /\ new.slot = s /\ new.toolset = turn[r].toolset
      /\ new.user = o /\ new.token = turn[r].token
  BY <1>1, <1>4 DEF TurnType
<1>7. o = turn[r].user /\ s = IF slotOf[o] # 0 THEN slotOf[o] ELSE Len(slots) + 1
  OBVIOUS
<1> HIDE DEF o, e, s, new
<1>8. /\ slots' \in Seq(SlotType) /\ s \in DOMAIN slots' /\ DOMAIN slots' = DOMAIN slots \cup {s}
      /\ s \notin DOMAIN slots => slotOf[o] = 0 /\ slots'[s].toolset = 0
      /\ s \in DOMAIN slots => slotOf[o] = s
      /\ \A j \in DOMAIN slots : slots'[j] = slots[j]
  <2>1. CASE slotOf[o] # 0
    BY <1>1, <1>3, <1>7, <2>1
  <2>2. CASE slotOf[o] = 0
    BY <1>1, <1>2, <1>3, <1>7, <2>2, Appended
  <2> QED BY <2>1, <2>2
<1>9. /\ turn' \in [Turns -> TurnType]
      /\ \A q \in Turns : turn'[q] = IF q = r THEN new ELSE turn[q]
  BY <1>5, <1>6 DEF ToolInv, ToolTypes
<1>10. PerUser' = PerUser /\ OAuth' = OAuth
  BY <1>3 DEF PerUser, OAuth
<1>11. ToolTypes'
  BY <1>1, <1>3, <1>4, <1>8, <1>9 DEF ToolInv, ToolTypes
<1>12. Owned'
  <2>1. PICK own \in [DOMAIN slots -> Owners] : OwnedBy(own)
    BY DEF ToolInv, Owned
  <2> DEFINE next == [j \in DOMAIN slots \cup {s} |-> IF j \in DOMAIN slots THEN own[j] ELSE o]
  <2>0. PICK held : held = next
    OBVIOUS
  <2>2. /\ held \in [DOMAIN slots \cup {s} -> Owners] /\ held[s] = o
        /\ \A j \in DOMAIN slots : held[j] = own[j]
    BY <1>1, <1>8, <2>0, <2>1 DEF OwnedBy
  <2> HIDE DEF next
  <2>3. \A p \in Owners : slotOf'[p] # 0 => slotOf'[p] \in DOMAIN slots' /\ held[slotOf'[p]] = p
    BY <1>1, <1>3, <1>8, <2>1, <2>2 DEF OwnedBy
  <2>4. \A q \in Turns : turn'[q].slot # 0 => turn'[q].slot \in DOMAIN slots' /\ held[turn'[q].slot] = turn'[q].user
    BY <1>6, <1>8, <1>9, <2>1, <2>2 DEF OwnedBy
  <2>5. \A j \in DOMAIN slots' : slots'[j].toolset # 0 =>
          slots'[j].toolset \in DOMAIN toolsets' /\ toolsets'[slots'[j].toolset].user = held[j]
    BY <1>3, <1>8, <2>1, <2>2 DEF OwnedBy
  <2>6. OwnedBy(held)'
    BY <2>3, <2>4, <2>5 DEF OwnedBy
  <2>7. held \in [DOMAIN slots' -> Owners]
    BY <1>8, <2>2
  <2> QED BY <2>6, <2>7 DEF Owned
<1>13. Holds'
  BY <1>3, <1>4, <1>6, <1>7, <1>9, <1>10 DEF ToolInv, Holds
<1>14. Fetches'
  BY <1>3, <1>10 DEF ToolInv, Fetches
<1>15. Locks'
  <2>1. \A q \in Turns : turn[q].pc \in Connecting \cup {"judge_again"} => turn[q].slot \in DOMAIN slots
    BY SlotsAre DEF Connecting
  <2> QED BY <1>3, <1>6, <1>8, <1>9, <1>10, <2>1, SMTT(30) DEF ToolInv, Locks, Connecting, IsCurrent, SameUser, SameOAuth
<1> QED
  BY <1>11, <1>12, <1>13, <1>14, <1>15 DEF ToolInv

\* close_idle: the slot of a user is forgotten.
LEMMA IdleSteps ==
  ASSUME ToolInv, NEW u \in Users, CloseIdle(u)
  PROVE  ToolInv'
<1>1. /\ UNCHANGED <<servers, token, fetched, slots, toolsets, turn>>
      /\ slotOf' \in [Owners -> Nat]
      /\ \A o \in Owners : slotOf'[o] \in {0, slotOf[o]}
  BY DEF CloseIdle, ToolInv, ToolTypes, Owners
<1>2. ToolTypes'
  BY <1>1 DEF ToolInv, ToolTypes
<1>3. Owned'
  <2>1. PICK own \in [DOMAIN slots -> Owners] : OwnedBy(own)
    BY DEF ToolInv, Owned
  <2>2. OwnedBy(own)'
    BY <1>1, <2>1 DEF OwnedBy
  <2> QED BY <1>1, <2>2 DEF Owned
<1>4. Holds' /\ Fetches' /\ Locks'
  BY <1>1 DEF ToolInv, Holds, Fetches, Locks, IsCurrent, SameUser, SameOAuth, PerUser, OAuth
<1> QED
  BY <1>2, <1>3, <1>4 DEF ToolInv

\* UserToolsets, ToolsetSlot::current: owners of slots, toolsets of turns, and the lock.
THEOREM ToolInvariance == ToolsSpec => []ToolInv
<1>1. ToolsInit => ToolInv
  <2> SUFFICES ASSUME ToolsInit PROVE ToolInv
    OBVIOUS
  <2>1. CASE PerUser
    <3>1. /\ toolsets = <<>> /\ slots = <<>> /\ fetched = 0
          /\ \A o \in Owners : slotOf[o] = 0
          /\ slotOf \in [Owners -> Nat] /\ token \in [Users -> Nat]
      BY <2>1 DEF ToolsInit
    <3>2. NoTurn \in TurnType /\ NoTurn.pc = "none" /\ NoTurn.slot = 0 /\ NoTurn.toolset = 0
      BY DEF NoTurn, TurnType, Owners
    <3>3. turn \in [Turns -> TurnType] /\ \A r \in Turns : turn[r] = NoTurn
      BY <3>2 DEF ToolsInit
    <3>4. ToolTypes
      BY <3>1, <3>3 DEF ToolTypes
    <3>5. Owned
      <4> DEFINE own == [j \in DOMAIN slots |-> Task]
      <4>1. own \in [DOMAIN slots -> Owners]
        BY DEF Owners
      <4>2. OwnedBy(own)
        BY <3>1, <3>2, <3>3 DEF OwnedBy
      <4> QED BY <4>1, <4>2 DEF Owned
    <3>6. Holds /\ Fetches /\ Locks
      BY <3>1, <3>2, <3>3 DEF Holds, Fetches, Locks, Connecting
    <3> QED BY <3>4, <3>5, <3>6 DEF ToolInv
  <2>2. CASE ~PerUser
    <3> DEFINE t == [user |-> Task, token |-> 0, header |-> 1, cached |-> 1, clients |-> {}]
               e == [toolset |-> 1, connecting |-> FALSE]
    <3>1. /\ t \in ToolsetType /\ t.user = Task /\ t.header = 1 /\ t.cached = 1
          /\ e \in SlotType /\ e.toolset = 1
      BY DEF ToolsetType, SlotType, Owners
    <3>2. /\ toolsets = <<t>> /\ slots = <<e>> /\ fetched = 1
          /\ slotOf \in [Owners -> Nat] /\ token \in [Users -> Nat]
          /\ \A o \in Owners : slotOf[o] = IF o = Task THEN 1 ELSE 0
      BY <2>2 DEF ToolsInit
    <3> HIDE DEF t, e
    <3>3. /\ toolsets \in Seq(ToolsetType) /\ DOMAIN toolsets = {1} /\ toolsets[1] = t
          /\ slots \in Seq(SlotType) /\ DOMAIN slots = {1} /\ slots[1] = e
      BY <3>1, <3>2
    <3>4. NoTurn \in TurnType /\ NoTurn.pc = "none" /\ NoTurn.slot = 0 /\ NoTurn.toolset = 0
      BY DEF NoTurn, TurnType, Owners
    <3>5. turn \in [Turns -> TurnType] /\ \A r \in Turns : turn[r] = NoTurn
      BY <3>4 DEF ToolsInit
    <3>6. ToolTypes
      BY <3>2, <3>3, <3>5 DEF ToolTypes
    <3>7. Owned
      <4> DEFINE own == [j \in DOMAIN slots |-> Task]
      <4>1. own \in [DOMAIN slots -> Owners] /\ own[1] = Task
        BY <3>3 DEF Owners
      <4> HIDE DEF own
      <4>2. OwnedBy(own)
        BY <3>1, <3>2, <3>3, <3>4, <3>5, <4>1 DEF OwnedBy
      <4> QED BY <4>1, <4>2 DEF Owned
    <3>8. Holds /\ Fetches
      BY <3>1, <3>2, <3>3, <3>4, <3>5 DEF Holds, Fetches
    <3>9. Locks
      BY <3>4, <3>5 DEF Locks, Connecting
    <3> QED BY <3>6, <3>7, <3>8, <3>9 DEF ToolInv
  <2> QED BY <2>1, <2>2
<1>2. ToolInv /\ [ToolsNext]_toolVars => ToolInv'
  <2> SUFFICES ASSUME ToolInv, [ToolsNext]_toolVars PROVE ToolInv'
    OBVIOUS
  <2>1. ASSUME NEW r \in Turns, Receive(r) \/ TurnStep(r) PROVE ToolInv'
    BY <2>1, MinorSteps, WaitSteps, ConnectSteps, ResolveSteps, ToolsetSteps DEF TurnStep
  <2>2. ASSUME NEW u \in Users, Renew(u) \/ CloseIdle(u) PROVE ToolInv'
    BY <2>2, ToolsetSteps, IdleSteps
  <2>3. ASSUME NEW t \in DOMAIN toolsets, Lapse(t) PROVE ToolInv'
    BY <2>3, ToolsetSteps
  <2>4. CASE UNCHANGED toolVars
    BY <2>4, NoDrift, Drifting DEF toolVars, ToolInv, ToolTypes
  <2> QED BY <2>1, <2>2, <2>3, <2>4 DEF ToolsNext
<1> QED
  BY <1>1, <1>2, PTL DEF ToolsSpec

\* UserToolsets, ToolsetSlot::current: a turn's tools act for its own user and with
\* the token it came with.
THEOREM TokensAreOwn == ToolsSpec => []OwnToken
<1>1. ToolInv => OwnToken
  BY DEF ToolInv, Holds, OwnToken, TurnAt
<1> QED
  BY <1>1, ToolInvariance, PTL

\* ToolsetSlot::current, under `connecting`: a connection is opened only when the slot
\* has none that would do.
THEOREM ConnectionsOpenOnce == ToolsSpec => OpensOnce
<1>1. ToolInv =>
        [\A r \in Turns :
           TurnAt(r, "connect") /\ Len(toolsets') > Len(toolsets) /\ slots[turn[r].slot].toolset # 0 =>
             ~IsCurrent(r, toolsets[slots[turn[r].slot].toolset])]_toolVars
  BY DEF ToolInv, Locks, TurnAt
<1> QED
  BY <1>1, ToolInvariance, PTL DEF OpensOnce

-----------------------------------------------------------------------------
(* The log of a pod. *)

\* A sequence, of whatever.
IsASequence(s) == \E S : s \in Seq(S)

LEMMA AppendIs ==
  ASSUME NEW s, IsASequence(s), NEW x
  PROVE  /\ IsASequence(Append(s, x)) /\ Len(s) \in Nat /\ Len(Append(s, x)) = Len(s) + 1
         /\ \A i \in 1..Len(s) : Append(s, x)[i] = s[i]
         /\ Append(s, x)[Len(s) + 1] = x
<1>1. PICK S : s \in Seq(S)
  BY DEF IsASequence
<1>2. s \in Seq(S \cup {x}) /\ x \in S \cup {x}
  BY <1>1
<1>3. Append(s, x) \in Seq(S \cup {x})
  BY <1>2, AppendProperties
<1> QED BY <1>2, <1>3, AppendProperties DEF IsASequence

\* What the threads that log, the tail and the query look like.
LogTypes ==
  /\ DOMAIN history = LogPods /\ \A p \in LogPods : IsASequence(history[p])
  /\ \A w \in writing : DOMAIN w = {"id", "pod", "of", "flow", "level", "counts", "ts", "stage"}
  /\ \A w \in writing : w.stage = "stored" => w.pod = Reader
  /\ tail.open \in BOOLEAN /\ (tail.open => DOMAIN tail = {"open", "filter", "got", "unheard"})
  /\ query.stage \in {"none", "asked", "answered"}
  /\ query.stage # "none" =>
       /\ {"stage", "at"} \subseteq DOMAIN query
       /\ query.stage = "asked" => "answers" \in DOMAIN query
       /\ query.at \in Nat /\ query.at <= Len(history[Reader])

\* A line stored after the answer is at the reader or with the thread that logs it, or
\* was announced before the reader subscribed.
Followed(line) ==
  \/ ~Matches(tail.filter, line)
  \/ line \in tail.got \/ line \in tail.unheard
  \/ \E w \in writing : w.stage = "stored" /\ Line(w) = line
LogInv ==
  /\ LogTypes
  /\ HasAnswered(Reader) /\ tail.open =>
       \A i \in query.at + 1 .. Len(history[Reader]) : Followed(history[Reader][i])

\* A step that stores nothing, and takes no line from the tail or from its thread.
LEMMA NothingStored ==
  ASSUME LogInv, LogTypes', history'[Reader] = history[Reader],
         HasAnswered(Reader)' /\ tail'.open =>
           HasAnswered(Reader) /\ tail.open /\ query'.at >= query.at,
         tail.open => tail'.filter = tail.filter /\ tail.got \subseteq tail'.got /\ tail'.unheard = tail.unheard,
         tail.open => \A w \in writing :
           w.stage = "stored" => w \in writing' \/ ~Matches(tail.filter, Line(w)) \/ Line(w) \in tail'.got
  PROVE  LogInv'
<1> SUFFICES ASSUME HasAnswered(Reader)', tail'.open, NEW i \in query'.at + 1 .. Len(history[Reader])
             PROVE  Followed(history[Reader][i])'
  BY DEF LogInv
<1>1. /\ HasAnswered(Reader) /\ query'.at >= query.at /\ query.at \in Nat /\ query'.at \in Nat
      /\ tail.open
  BY DEF HasAnswered, LogInv, LogTypes
<1>2. Len(history[Reader]) \in Nat
  BY LogsAssumption, AppendIs DEF LogInv, LogTypes
<1>3. Followed(history[Reader][i])
  BY <1>1, <1>2 DEF LogInv
<1> PICK line : line = history[Reader][i]
  OBVIOUS
<1>4. \A f, l : Matches(f, l)' = Matches(f, l)
  BY DEF Matches
<1> QED BY <1>1, <1>3, <1>4 DEF Followed, Matches, Line

LEMMA ObserveLines ==
  ASSUME LogInv, NEW p \in LogPods, NEW e \in Events, Observe(p, e)
  PROVE  LogInv'
<1>1. UNCHANGED <<history, tail, query>> /\ writing \subseteq writing'
  BY DEF Observe
<1>2. \A w \in writing' \ writing : w.stage \in {"observed", "formatted"}
                                   /\ DOMAIN w = {"id", "pod", "of", "flow", "level", "counts", "ts", "stage"}
  BY DEF Observe, FirstStage
<1>3. LogTypes'
  BY <1>1, <1>2 DEF LogInv, LogTypes, IsASequence
<1> QED BY <1>1, <1>3, NothingStored DEF LogInv, LogTypes, HasAnswered

LEMMA CountLines ==
  ASSUME LogInv, NEW w \in writing, Count(w)
  PROVE  LogInv'
<1>1. /\ UNCHANGED <<history, tail, query>> /\ w.stage = "observed"
      /\ writing' = (writing \ {w}) \cup {[w EXCEPT !.stage = "formatted", !.ts = now]}
  BY DEF Count
<1>2. \A v \in writing' : /\ DOMAIN v = {"id", "pod", "of", "flow", "level", "counts", "ts", "stage"}
                          /\ v.stage = "stored" => v.pod = Reader
  BY <1>1 DEF LogInv, LogTypes
<1>3. LogTypes'
  BY <1>1, <1>2 DEF LogInv, LogTypes, IsASequence
<1>4. \A v \in writing : v.stage = "stored" => v \in writing'
  BY <1>1
<1> QED BY <1>1, <1>3, <1>4, NothingStored DEF LogInv, LogTypes, HasAnswered

\* The line is in its ring; if it is the reader's the thread goes on with it.
LEMMA StoreLines ==
  ASSUME LogInv, NEW w \in writing, w.stage = "formatted", Push(Line(w)),
         writing' = (writing \ {w}) \cup (IF w.pod = Reader THEN {[w EXCEPT !.stage = "stored"]} ELSE {}),
         UNCHANGED <<tail, query>>
  PROVE  LogInv'
<1>1. PICK line : line = Line(w)
  OBVIOUS
<1>2. line.pod = w.pod /\ history' = [history EXCEPT ![w.pod] = Append(@, line)]
  BY <1>1 DEF Push, Line
<1>3. \A p \in LogPods : IsASequence(history[p]) /\ Len(history[p]) \in Nat
  BY AppendIs DEF LogInv, LogTypes
<1>4. DOMAIN history' = LogPods /\ \A p \in LogPods : IsASequence(history'[p])
  <2>1. \A p \in LogPods : history'[p] = IF p = w.pod THEN Append(history[p], line) ELSE history[p]
    BY <1>2 DEF LogInv, LogTypes
  <2> QED BY <1>2, <1>3, <2>1, AppendIs DEF LogInv, LogTypes
<1>5. \A v \in writing' : /\ DOMAIN v = {"id", "pod", "of", "flow", "level", "counts", "ts", "stage"}
                          /\ v.stage = "stored" => v.pod = Reader
  BY DEF LogInv, LogTypes
<1>6. CASE w.pod # Reader
  <2>1. history'[Reader] = history[Reader]
    BY <1>2, <1>6, LogsAssumption DEF LogInv, LogTypes
  <2>2. LogTypes'
    BY <1>4, <1>5, <2>1 DEF LogInv, LogTypes, IsASequence
  <2>3. \A v \in writing : v.stage = "stored" => v \in writing'
    OBVIOUS
  <2> QED BY <2>1, <2>2, <2>3, NothingStored DEF LogInv, LogTypes, HasAnswered
<1>7. CASE w.pod = Reader
  <2> DEFINE v == [w EXCEPT !.stage = "stored"]
  <2>1. v \in writing' /\ v.stage = "stored" /\ Line(v) = line
    BY <1>1, <1>7 DEF Line, LogInv, LogTypes
  <2> HIDE DEF v
  <2>2. history'[Reader] = Append(history[Reader], line)
    BY <1>2, <1>7, LogsAssumption DEF LogInv, LogTypes
  <2>3. /\ Len(history'[Reader]) = Len(history[Reader]) + 1 /\ history'[Reader][Len(history[Reader]) + 1] = line
        /\ \A i \in 1..Len(history[Reader]) : history'[Reader][i] = history[Reader][i]
    BY <1>3, <2>2, AppendIs, LogsAssumption
  <2>4. LogTypes'
    BY <1>3, <1>4, <1>5, <2>3, LogsAssumption DEF LogInv, LogTypes, IsASequence
  <2>5. ASSUME HasAnswered(Reader), tail.open, NEW i \in query.at + 1 .. Len(history'[Reader])
        PROVE  Followed(history[Reader][i])'
    <3>1. CASE i = Len(history[Reader]) + 1
      <4>1. history'[Reader][i] = line
        BY <2>3, <3>1
      <4> QED BY <2>1, <4>1 DEF Followed, Line
    <3>2. CASE i # Len(history[Reader]) + 1
      <4>1. Len(history[Reader]) \in Nat /\ query.at \in Nat
        BY <1>3, <2>5, LogsAssumption DEF LogInv, LogTypes, HasAnswered
      <4>2. i \in query.at + 1 .. Len(history[Reader]) /\ i \in 1..Len(history[Reader])
        BY <2>3, <2>5, <3>2, <4>1
      <4>3. Followed(history[Reader][i])
        BY <2>5, <4>2 DEF LogInv
      <4>4. PICK l : l = history[Reader][i]
        OBVIOUS
      <4>5. history'[Reader][i] = l
        BY <2>3, <4>2, <4>4
      <4>6. \A u \in writing : u.stage = "stored" => u \in writing'
        OBVIOUS
      <4> QED BY <4>3, <4>4, <4>5, <4>6 DEF Followed, Line, Matches
    <3> QED BY <3>1, <3>2
  <2>6. HasAnswered(Reader)' = HasAnswered(Reader)
    BY DEF HasAnswered
  <2> QED BY <2>4, <2>5, <2>6 DEF LogInv
<1> QED BY <1>6, <1>7

LEMMA AnnounceLines ==
  ASSUME LogInv, NEW w \in writing, Announce(Line(w)), writing' = writing \ {w}, UNCHANGED <<history, query>>,
         w.stage = "stored"
  PROVE  LogInv'
<1>1. Line(w).pod = Reader
  BY DEF Line, LogInv, LogTypes
<1>2. CASE tail.open /\ Matches(tail.filter, Line(w))
  <2>1. tail' = [tail EXCEPT !.got = @ \cup {Line(w)}] /\ DOMAIN tail = {"open", "filter", "got", "unheard"}
    BY <1>1, <1>2 DEF Announce, LogInv, LogTypes
  <2>2. tail'.open = tail.open /\ tail'.filter = tail.filter /\ tail'.got = tail.got \cup {Line(w)}
        /\ tail'.unheard = tail.unheard /\ DOMAIN tail' = DOMAIN tail
    BY <2>1
  <2>3. LogTypes'
    BY <2>2 DEF LogInv, LogTypes, IsASequence
  <2> QED BY <2>2, <2>3, NothingStored DEF LogInv, LogTypes, HasAnswered
<1>3. CASE ~ (tail.open /\ Matches(tail.filter, Line(w)))
  <2>1. UNCHANGED tail
    BY <1>3 DEF Announce
  <2>2. LogTypes'
    BY <2>1 DEF LogInv, LogTypes, IsASequence
  <2> QED BY <1>3, <2>1, <2>2, NothingStored DEF LogInv, LogTypes, HasAnswered
<1> QED BY <1>2, <1>3

\* The reader opens its tail and asks, in any order.
LEMMA ReaderLines ==
  ASSUME LogInv,
         \/ TickLogs \/ MergeAnswers
         \/ \E filter \in Filters : OpenTail(filter) \/ \E limit \in Limits : Ask(filter, limit)
         \/ \E p \in LogPods : Answer(p)
  PROVE  LogInv'
<1>0. Len(history[Reader]) \in Nat
  BY LogsAssumption, AppendIs DEF LogInv, LogTypes
<1>1. CASE TickLogs
  <2>1. UNCHANGED <<writing, history, tail, query>>
    BY <1>1 DEF TickLogs
  <2>2. LogTypes'
    BY <2>1 DEF LogInv, LogTypes, IsASequence
  <2> QED BY <2>1, <2>2, NothingStored DEF LogInv, LogTypes, HasAnswered
<1>2. ASSUME NEW filter \in Filters, OpenTail(filter) PROVE LogInv'
  <2>1. /\ UNCHANGED <<writing, history, query>> /\ ~tail.open
        /\ tail' = [open |-> TRUE, filter |-> filter, got |-> {}, unheard |-> SinceAnswer]
    BY <1>2 DEF OpenTail
  <2>2. LogTypes'
    BY <2>1 DEF LogInv, LogTypes, IsASequence
  <2>3. ASSUME HasAnswered(Reader), NEW i \in query.at + 1 .. Len(history[Reader]),
               NEW line, line = history[Reader][i]
        PROVE  Followed(line)'
    <3>1. CASE \E w \in writing : w.stage = "stored" /\ Line(w) = line
      BY <2>1, <3>1 DEF Followed, Line
    <3>2. CASE \A w \in writing : w.stage = "stored" => Line(w) # line
      <4>1. line \in SinceAnswer
        BY <2>3, <3>2 DEF SinceAnswer
      <4> QED BY <2>1, <4>1 DEF Followed
    <3> QED BY <3>1, <3>2
  <2>4. HasAnswered(Reader)' = HasAnswered(Reader)
    BY <2>1 DEF HasAnswered
  <2>5. \A i : history'[Reader][i] = history[Reader][i]
    BY <2>1
  <2> QED BY <2>1, <2>2, <2>3, <2>4, <2>5 DEF LogInv
<1>3. ASSUME NEW filter \in Filters, NEW limit \in Limits, Ask(filter, limit) PROVE LogInv'
  <2>1. /\ UNCHANGED <<writing, history, tail>>
        /\ query'.stage = "asked" /\ query'.at = Len(history[Reader])
        /\ {"stage", "at", "answers"} \subseteq DOMAIN query' /\ query'.answers = [p \in {} |-> {}]
    BY <1>3 DEF Ask
  <2>2. LogTypes'
    BY <1>0, <2>1 DEF LogInv, LogTypes, IsASequence
  <2>3. ~HasAnswered(Reader)'
    BY <2>1 DEF HasAnswered
  <2> QED BY <2>2, <2>3 DEF LogInv
<1>4. ASSUME NEW p \in LogPods, Answer(p) PROVE LogInv'
  <2>1. UNCHANGED <<writing, history, tail>> /\ query.stage = "asked"
    BY <1>4 DEF Answer
  <2>2. \E merged : \/ query' = Answered(p, merged)
                   \/ query' = [Answered(p, merged) EXCEPT !.kept = {line \in @ : line.pod # p}]
    BY <1>4 DEF Answer
  <2>3. /\ query'.stage = "asked" /\ DOMAIN query' = DOMAIN query
        /\ query'.at = IF p = Reader THEN Len(history[p]) ELSE query.at
        /\ DOMAIN query'.answers = DOMAIN query.answers \cup {p}
    BY <2>1, <2>2 DEF Answered, LogInv, LogTypes
  <2>4. query'.at \in Nat /\ query'.at >= query.at /\ query'.at <= Len(history[Reader])
    BY <1>0, <2>1, <2>3 DEF LogInv, LogTypes
  <2>5. LogTypes'
    BY <2>1, <2>3, <2>4 DEF LogInv, LogTypes, IsASequence
  <2>6. CASE p = Reader
    <3>1. \A i \in query'.at + 1 .. Len(history'[Reader]) : FALSE
      BY <1>0, <2>1, <2>3, <2>6
    <3> QED BY <2>5, <3>1 DEF LogInv
  <2>7. CASE p # Reader
    <3>1. HasAnswered(Reader)' => HasAnswered(Reader)
      BY <2>1, <2>3, <2>7 DEF HasAnswered
    <3> QED BY <2>1, <2>4, <2>5, <3>1, NothingStored
  <2> QED BY <2>6, <2>7
<1>5. CASE MergeAnswers
  <2>1. /\ UNCHANGED <<writing, history, tail>> /\ HasAnswered(Reader) /\ query.stage = "asked"
        /\ query'.stage = "answered" /\ query'.at = query.at
        /\ {"stage", "at"} \subseteq DOMAIN query'
    BY <1>5, LogsAssumption DEF MergeAnswers, HasAnswered
  <2>2. LogTypes'
    BY <2>1 DEF LogInv, LogTypes, IsASequence
  <2> QED BY <2>1, <2>2, NothingStored DEF LogInv, LogTypes, HasAnswered
<1> QED BY <1>1, <1>2, <1>3, <1>4, <1>5

\* serve_logs, ingest: what a reader with history and tail lacks of the lines its pod
\* stored after the answer was announced before it subscribed; nothing, when it subscribed
\* first: for any number of threads, lines and filters, and both orders.
THEOREM TailsHaveNoGap == LogsSpec => []NoGap
<1>1. LogsInit => LogInv
  <2> SUFFICES ASSUME LogsInit PROVE LogInv
    OBVIOUS
  <2>1. \A p \in LogPods : history[p] = <<>> /\ <<>> \in Seq({})
    BY DEF LogsInit
  <2> QED BY <2>1 DEF LogsInit, LogInv, LogTypes, IsASequence, NoTail, NoQuery
<1>2. LogInv /\ [LogsNext]_logVars => LogInv'
  <2> SUFFICES ASSUME LogInv, [LogsNext]_logVars PROVE LogInv'
    OBVIOUS
  <2>1. CASE \E p \in LogPods, e \in Events : Observe(p, e)
    BY <2>1, ObserveLines
  <2>2. ASSUME NEW w \in writing, Count(w) \/ Ingest(w) PROVE LogInv'
    <3>1. CASE Count(w)
      BY <3>1, CountLines
    <3>2. CASE Ingest(w) /\ w.stage = "formatted"
      BY <3>2, StoreLines DEF Ingest
    <3>3. CASE Ingest(w) /\ w.stage # "formatted"
      BY <3>3, AnnounceLines DEF Ingest
    <3> QED BY <2>2, <3>1, <3>2, <3>3
  <2>3. CASE UNCHANGED logVars
    <3>1. UNCHANGED <<writing, history, tail, query>>
      BY <2>3 DEF logVars
    <3>2. LogTypes'
      BY <3>1 DEF LogInv, LogTypes, IsASequence
    <3> QED BY <3>1, <3>2, NothingStored DEF LogInv, LogTypes, HasAnswered
  <2> QED BY <2>1, <2>2, <2>3, ReaderLines DEF LogsNext
<1>3. LogInv => NoGap
  <2> SUFFICES ASSUME LogInv, query.stage = "answered", tail.open, NEW i \in query.at + 1 .. Len(history[Reader]),
                      NEW line, line = history[Reader][i]
               PROVE  \/ ~Matches(tail.filter, line) \/ line \in tail.got \cup tail.unheard
                      \/ \E w \in writing : w.id = line.id
    BY DEF NoGap
  <2>1. Followed(line)
    BY DEF LogInv, HasAnswered
  <2>2. \A w \in writing : Line(w) = line => w.id = line.id
    BY DEF Line
  <2> QED BY <2>1, <2>2 DEF Followed
<1> QED BY <1>1, <1>2, <1>3, PTL DEF LogsSpec

-----------------------------------------------------------------------------
(***************************************************************************)
(* Catalog.  What handles a request looks at the entries its caller may    *)
(* see, and at no others.                                                  *)
(***************************************************************************)
CatalogSteps == CatalogInit /\ [][CatalogNext]_catalogVars

\* A hidden resource that has the URI of the request.
Hides(call, es) == \E e \in Named(es, "resource", call.key) : ~Satisfies(call, e)

LEMMA VisibleTwice ==
  ASSUME NEW call, NEW es
  PROVE  /\ Visible(call, Visible(call, es)) = Visible(call, es)
         /\ \A kind, key : Visible(call, Named(Visible(call, es), kind, key)) = Visible(call, Named(es, kind, key))
BY DEF Visible, Named

LEMMA ListsHide ==
  ASSUME NEW call, NEW es
  PROVE  ListEntries(call, Visible(call, es)) = ListEntries(call, es)
BY VisibleTwice DEF ListEntries

LEMMA CallsHide ==
  ASSUME NEW call, NEW es
  PROVE  CallTool(call, Visible(call, es)) = CallTool(call, es)
BY VisibleTwice DEF CallTool

LEMMA PromptsHide ==
  ASSUME NEW call, NEW es
  PROVE  GetPrompt(call, Visible(call, es)) = GetPrompt(call, es)
<1>1. Visible(call, Named(Visible(call, es), "prompt", call.key)) = Visible(call, Named(es, "prompt", call.key))
  BY VisibleTwice
<1> QED BY <1>1, Zenon DEF GetPrompt

LEMMA ReadsHide ==
  ASSUME NEW call, NEW es, ~Hides(call, es)
  PROVE  ReadResource(call, Visible(call, es)) = ReadResource(call, es)
<1>1. Named(Visible(call, es), "resource", call.key) = Named(es, "resource", call.key)
  BY DEF Named, Visible, Hides
<1> QED BY <1>1, VisibleTwice DEF ReadResource

\* A hidden tool whose own credentials answer for it.
Betrays(call, es) ==
  \E e \in OwnCredentials(call, es) :
    ~Satisfies(call, e) /\ ~(Admits(e.keys, call) <=> Admits(ServerKeys, call))

\* A key is taken once.
OneEach(es) == \A e, d \in es : e.kind = d.kind /\ e.key = d.key => e = d

\* Whom validate_auth lets in does not show what is hidden, where credentials agree.
LEMMA CredentialsHide ==
  ASSUME NEW call, NEW es, OneEach(es), ~Betrays(call, es)
  PROVE  Authorized(call, Visible(call, es)) <=> Authorized(call, es)
<1>1. OwnCredentials(call, Visible(call, es)) = {e \in OwnCredentials(call, es) : Satisfies(call, e)}
  BY DEF OwnCredentials, Visible, Named
<1>2. CASE \A e \in OwnCredentials(call, es) : Satisfies(call, e)
  BY <1>1, <1>2 DEF Authorized
<1>3. ASSUME NEW d \in OwnCredentials(call, es), ~Satisfies(call, d)
      PROVE  Authorized(call, Visible(call, es)) <=> Authorized(call, es)
  <2>1. OwnCredentials(call, es) = {d}
    BY DEF OneEach, OwnCredentials, Named
  <2>2. OwnCredentials(call, Visible(call, es)) = {}
    BY <1>1, <1>3, <2>1
  <2>3. Admits(d.keys, call) <=> Admits(ServerKeys, call)
    BY <1>3 DEF Betrays
  <2> QED BY <2>1, <2>2, <2>3 DEF Authorized
<1> QED BY <1>2, <1>3

LEMMA AnswersHide ==
  ASSUME NEW call, NEW es, call.method # "complete", ~(call.method = "read" /\ Hides(call, es)),
         OneEach(es), ~Betrays(call, es)
  PROVE  Replies(call, es) = Replies(call, Visible(call, es))
<1>3. Authorized(call, Visible(call, es)) <=> Authorized(call, es)
  BY CredentialsHide
<1>1. CASE call.method = "read"
  BY <1>1, <1>3, ReadsHide DEF Replies, Handlers, ListKind
<1>2. CASE call.method # "read"
  BY <1>2, <1>3, ListsHide, CallsHide, PromptsHide DEF Replies, Handlers, ListKind
<1> QED BY <1>1, <1>2

\* The tables, now and as they were when the request came, hold a key once.
Unambiguous == OneEach(entries) /\ OneEach(found)

LEMMA RegistrationsAreUnique ==
  ASSUME Unambiguous, NEW o \in Offers, NEW text, RegisterEntry(o, text)
  PROVE  Unambiguous'
<1> DEFINE e == Extend(o, "text", text)
<1>1. {"kind", "key"} \subseteq DOMAIN o
  BY OffersAssumption
<1>2. e.kind = o.kind /\ e.key = o.key
  BY <1>1 DEF Extend
<1>3. entries' = entries \cup {e} /\ found' = found /\ \A d \in entries : d.kind # o.kind \/ d.key # o.key
  BY DEF RegisterEntry
<1> HIDE DEF e
<1> QED BY <1>2, <1>3 DEF Unambiguous, OneEach

\* Whatever is registered and whoever asks, an entry that the caller's headers do not
\* satisfy is answered for as if it were not there (headers_satisfy in every handler
\* of handle_mcp), but for a tool whose own credentials answer first (validate_auth).
THEOREM HiddenStaysHidden == CatalogSteps => []HiddenIsAbsent
<1>1. CatalogInit => Unambiguous
  BY DEF CatalogInit, Unambiguous, OneEach
<1>2. Unambiguous /\ [CatalogNext]_catalogVars => Unambiguous'
  <2> SUFFICES ASSUME Unambiguous, [CatalogNext]_catalogVars PROVE Unambiguous'
    OBVIOUS
  <2>1. ASSUME NEW o \in Offers, RegisterTool(o) \/ RegisterPrompt(o) \/ RegisterResource(o) PROVE Unambiguous'
    BY <2>1, RegistrationsAreUnique DEF RegisterTool, RegisterPrompt, RegisterResource
  <2>2. ASSUME NEW f, DeregisterFlow(f) PROVE Unambiguous'
    BY <2>2 DEF DeregisterFlow, Unambiguous, OneEach
  <2>3. ASSUME NEW call \in Calls, AskServer(call) PROVE Unambiguous'
    BY <2>3 DEF AskServer, Unambiguous
  <2>4. CASE TakeReply
    BY <2>4 DEF TakeReply, Unambiguous, OneEach
  <2>5. ASSUME (\E state : ReplaceFile(state)) \/ RenderInline \/ LoadFile \/ LoadCopy \/ UNCHANGED catalogVars
        PROVE  Unambiguous'
    BY <2>5 DEF ReplaceFile, RenderInline, LoadFile, LoadCopy, Render, catalogVars, Unambiguous
  <2> QED BY <2>1, <2>2, <2>3, <2>4, <2>5, Zenon DEF CatalogNext
<1>3. Unambiguous => HiddenIsAbsent
  BY AnswersHide DEF HiddenIsAbsent, Hides, Betrays, Unambiguous
<1> QED BY <1>1, <1>2, <1>3, PTL DEF CatalogSteps

\* The loader looks into the cache only behind a file that was not there, and what it
\* answers is what it read.
Looked ==
  /\ stand = "cache" => noFile
  /\ MountWins

\* A text from the cache is answered only when the file was missing as the loader
\* looked, however files and registrations change meanwhile (ResourceLoader::load).
THEOREM MountComesFirst == CatalogSteps => []MountWins
<1>1. CatalogInit => Looked
  BY DEF CatalogInit, Looked, MountWins
<1>2. Looked /\ [CatalogNext]_catalogVars => Looked'
  <2> SUFFICES ASSUME Looked, [CatalogNext]_catalogVars PROVE Looked'
    OBVIOUS
  <2>1. CASE UNCHANGED <<stand, chosen, reply, noFile>>
    BY <2>1 DEF Looked, MountWins
  <2>2. ASSUME NEW call \in Calls, AskServer(call) PROVE Looked'
    <3>1. stand' # "cache" /\ (reply' = NoReply \/ chosen' = NoChoice)
      BY <2>2 DEF AskServer
    <3> QED BY <3>1 DEF Looked, MountWins, NoReply
  <2>3. CASE RenderInline
    BY <2>3 DEF RenderInline, Render, Refuse, Looked, MountWins
  <2>4. CASE LoadFile
    BY <2>4 DEF LoadFile, Render, Refuse, Looked, MountWins
  <2>5. CASE LoadCopy
    BY <2>5 DEF LoadCopy, Render, Refuse, Looked, MountWins
  <2>6. CASE TakeReply
    BY <2>6 DEF TakeReply, Looked, MountWins
  <2>7. ASSUME NEW o \in Offers,
               RegisterTool(o) \/ RegisterPrompt(o) \/ RegisterResource(o) \/ DeregisterFlow(o.flow)
        PROVE  UNCHANGED <<stand, chosen, reply, noFile>>
    BY <2>7 DEF RegisterTool, RegisterPrompt, RegisterResource, RegisterEntry, DeregisterFlow
  <2>8. ASSUME NEW state, ReplaceFile(state) PROVE UNCHANGED <<stand, chosen, reply, noFile>>
    BY <2>8 DEF ReplaceFile
  <2>9. CASE UNCHANGED catalogVars
    BY <2>1, <2>9 DEF catalogVars
  <2> QED BY <2>1, <2>2, <2>3, <2>4, <2>5, <2>6, <2>7, <2>8, <2>9 DEF CatalogNext
<1>3. Looked => MountWins
  BY DEF Looked
<1> QED BY <1>1, <1>2, <1>3, PTL DEF CatalogSteps

-----------------------------------------------------------------------------
(***************************************************************************)
(* Catalog, the URIs of templates.  What match_uri_template computes is a  *)
(* recursive function: that it exists, that it is the only one and what it *)
(* says of every URI is shown by looking at the shortest template for      *)
(* which it would fail, since the template behind a parameter is shorter.  *)
(***************************************************************************)
\* A set of naturals has a least element.
LEMMA LeastOf ==
  ASSUME NEW T \in SUBSET Nat, T # {}
  PROVE  \E m \in T : \A k \in T : m <= k
<1> DEFINE R == {ss \in Nat \X Nat : ss[1] < ss[2]}
<1>1. IsWellFoundedOn(R, Nat)
  BY NatLessThanWellFounded DEF OpToRel
<1>2. \E m \in T : \A k \in T : ~ (<<k, m>> \in R)
  <2> HIDE DEF R
  <2> QED BY <1>1, WFMin
<1>3. PICK m \in T : \A k \in T : ~ (<<k, m>> \in R)
  BY <1>2
<1>4. ASSUME NEW k \in T PROVE m <= k
  <2>1. k \in Nat /\ m \in Nat /\ ~ (k < m)
    BY <1>3
  <2> QED BY <2>1
<1> QED BY <1>4

\* Induction over a set of naturals.
LEMMA NatSet ==
  ASSUME NEW T, 0 \in T, \A n \in Nat : n \in T => n + 1 \in T
  PROVE  Nat \subseteq T
<1>1. SUFFICES ASSUME Nat \ T # {} PROVE FALSE
  OBVIOUS
<1>2. PICK U \in SUBSET Nat : U = Nat \ T
  OBVIOUS
<1>3. PICK m \in U : \A k \in U : m <= k
  BY <1>1, <1>2, LeastOf
<1>4. m \in Nat /\ m \notin T /\ m # 0
  BY <1>2, <1>3
<1>5. m - 1 \in Nat /\ m - 1 \notin U /\ (m - 1) + 1 = m
  BY <1>3, <1>4
<1> QED BY <1>2, <1>4, <1>5

Associate(x, y, z) == (x \o y) \o z = x \o (y \o z)

LEMMA Assoc == \A S : \A x, y, z \in Seq(S) : Associate(x, y, z)
BY ConcatAssociative DEF Associate

\* A sequence without its last element.
LastOff(S, s, n) ==
  \E r \in Seq(S), e \in S :
    /\ s = Append(r, e) /\ s = r \o <<e>> /\ Len(r) = n
    /\ DOMAIN s = 1..(n + 1) /\ DOMAIN r = 1..n /\ s[n + 1] = e
    /\ \A i \in 1..n : s[i] = r[i]

LEMMA LastApart == \A S : \A s \in Seq(S), n \in Nat : Len(s) = n + 1 => LastOff(S, s, n)
<1> SUFFICES ASSUME NEW S, NEW s \in Seq(S), NEW n \in Nat, Len(s) = n + 1 PROVE LastOff(S, s, n)
  OBVIOUS
<1>1. PICK r \in Seq(S), e \in S : s = Append(r, e)
  BY SequenceEmptyOrAppend, EmptySeq
<1>2. PICK k \in Nat : k = Len(r) /\ DOMAIN r = 1..k
  BY LenProperties
<1>3. /\ Len(s) = k + 1 /\ DOMAIN s = 1..(k + 1) /\ s[k + 1] = e
      /\ \A i \in 1..k : s[i] = r[i]
  BY <1>1, <1>2, LenProperties, AppendProperties
<1>4. s = r \o <<e>>
  BY <1>1, AppendIsConcat
<1>5. k = n
  BY <1>2, <1>3
<1> QED BY <1>1, <1>2, <1>3, <1>4, <1>5 DEF LastOff

\* Sequences are joined one after the other.
Joined(S, ss, n) ==
  \E F \in [1..n -> Seq(S)] : \A i \in 1..n : F[i] = IF i = 1 THEN ss[i] ELSE F[i - 1] \o ss[i]

LEMMA JoinsExist ==
  ASSUME NEW S, NEW ss \in Seq(Seq(S))
  PROVE  Joined(S, ss, Len(ss))
<1> DEFINE Done(n) == Joined(S, ss, n)
           T == {n \in 0..Len(ss) : ~ Done(n)}
<1>1. Len(ss) \in Nat /\ \A i \in 1..Len(ss) : ss[i] \in Seq(S)
  BY LenProperties, ElementOfSeq
<1>2. SUFFICES ASSUME T # {} PROVE FALSE
  BY <1>1
<1>3. PICK n \in T : \A k \in T : n <= k
  <2>1. T \in SUBSET Nat
    BY <1>1
  <2> HIDE DEF T
  <2> QED BY <1>2, <2>1, LeastOf
<1>4. n \in 0..Len(ss) /\ ~ Done(n)
  OBVIOUS
<1>5. n # 0
  <2>1. SUFFICES ASSUME n = 0 PROVE Done(n)
    BY <1>4
  <2>2. [i \in 1..0 |-> <<>>] \in [1..0 -> Seq(S)] /\ 1..0 = {}
    OBVIOUS
  <2> QED BY <2>1, <2>2 DEF Joined
<1>6. Done(n - 1)
  <2>1. n - 1 \in 0..Len(ss) /\ ~ (n <= n - 1)
    BY <1>1, <1>4, <1>5
  <2>2. n - 1 \notin T
    BY <1>3, <2>1
  <2> HIDE DEF Done
  <2> QED BY <2>1, <2>2
<1>7. PICK F \in [1..(n - 1) -> Seq(S)] :
        \A i \in 1..(n - 1) : F[i] = IF i = 1 THEN ss[i] ELSE F[i - 1] \o ss[i]
  BY <1>6 DEF Joined
<1>8. PICK last \in Seq(S) : last = IF n = 1 THEN ss[n] ELSE F[n - 1] \o ss[n]
  <2>1. ss[n] \in Seq(S)
    BY <1>1, <1>4, <1>5
  <2>2. n # 1 => F[n - 1] \in Seq(S)
    BY <1>1, <1>4, <1>5, <1>7
  <2> QED BY <2>1, <2>2, ConcatProperties
<1>9. PICK G : G = [i \in 1..n |-> IF i = n THEN last ELSE F[i]]
  OBVIOUS
<1>10. G \in [1..n -> Seq(S)]
  BY <1>1, <1>4, <1>5, <1>7, <1>9
<1>11. ASSUME NEW i \in 1..n PROVE G[i] = IF i = 1 THEN ss[i] ELSE G[i - 1] \o ss[i]
  <2>1. n \in Nat /\ n # 0 /\ i \in Nat /\ 1 <= i /\ i <= n
    BY <1>1, <1>4, <1>5
  <2>2. i # 1 => i - 1 \in 1..n /\ i - 1 # n /\ G[i - 1] = F[i - 1]
    BY <2>1, <1>9
  <2>3. CASE i = n
    <3>1. G[i] = last
      BY <1>9, <2>3
    <3> QED BY <1>8, <2>2, <2>3, <3>1
  <2>4. CASE i # n
    <3>1. i \in 1..(n - 1) /\ G[i] = F[i]
      BY <1>9, <2>1, <2>4
    <3>2. F[i] = IF i = 1 THEN ss[i] ELSE F[i - 1] \o ss[i]
      BY <1>7, <3>1
    <3> QED BY <2>2, <3>1, <3>2
  <2> QED BY <2>3, <2>4
<1>12. Done(n)
  BY <1>10, <1>11 DEF Joined
<1> QED BY <1>4, <1>12

LEMMA FlattenJoins ==
  ASSUME NEW S, NEW ss \in Seq(Seq(S)), ss # << >>
  PROVE  \E F \in [1..Len(ss) -> Seq(S)] :
           /\ \A i \in 1..Len(ss) : F[i] = IF i = 1 THEN ss[i] ELSE F[i - 1] \o ss[i]
           /\ FlattenSeq(ss) = F[Len(ss)]
<1>1. Len(ss) \in Nat /\ Len(ss) # 0 /\ \A i \in 1..Len(ss) : ss[i] \in Seq(S)
  BY LenProperties, ElementOfSeq, EmptySeq
<1> DEFINE Rec(F) == [i \in 1..Len(ss) |-> IF i = 1 THEN ss[i] ELSE F[i - 1] \o ss[i]]
           C == CHOOSE F : F = Rec(F)
<1>2. C = Rec(C)
  <2>1. PICK F \in [1..Len(ss) -> Seq(S)] :
          \A i \in 1..Len(ss) : F[i] = IF i = 1 THEN ss[i] ELSE F[i - 1] \o ss[i]
    BY JoinsExist DEF Joined
  <2>2. F = Rec(F)
    BY <2>1
  <2> QED BY <2>2
<1>3. FlattenSeq(ss) = C[Len(ss)]
  BY <1>1 DEF FlattenSeq
<1> HIDE DEF C
<1>4. \A i \in 1..Len(ss) : C[i] = IF i = 1 THEN ss[i] ELSE C[i - 1] \o ss[i]
  BY <1>2
<1>5. \A i \in 1..Len(ss) : C[i] \in Seq(S)
  <2> DEFINE T == {i \in 1..Len(ss) : C[i] \notin Seq(S)}
  <2>1. SUFFICES ASSUME T # {} PROVE FALSE
    OBVIOUS
  <2>2. PICK m \in T : \A k \in T : m <= k
    <3>1. T \in SUBSET Nat
      BY <1>1
    <3> HIDE DEF T
    <3> QED BY <2>1, <3>1, LeastOf
  <2>3. m \in 1..Len(ss) /\ ss[m] \in Seq(S)
    BY <1>1
  <2>4. m # 1 => C[m - 1] \in Seq(S)
    BY <1>1, <2>2, <2>3
  <2>5. C[m] \in Seq(S)
    BY <1>4, <2>3, <2>4, ConcatProperties
  <2> QED BY <2>5
<1>6. C = [i \in 1..Len(ss) |-> C[i]]
  BY <1>2
<1>7. C \in [1..Len(ss) -> Seq(S)]
  BY <1>5, <1>6
<1> QED BY <1>3, <1>4, <1>7

LEMMA FlattenIsSeq ==
  ASSUME NEW S, NEW ss \in Seq(Seq(S))
  PROVE  FlattenSeq(ss) \in Seq(S)
<1>1. CASE ss = << >>
  BY <1>1, EmptySeq DEF FlattenSeq
<1>2. CASE ss # << >>
  <2>1. PICK F \in [1..Len(ss) -> Seq(S)] : FlattenSeq(ss) = F[Len(ss)]
    BY <1>2, FlattenJoins
  <2>2. Len(ss) \in 1..Len(ss)
    BY <1>2, EmptySeq
  <2> QED BY <2>1, <2>2
<1> QED BY <1>1, <1>2

\* What comes last is joined last.
LEMMA FlattenAppend ==
  ASSUME NEW S, NEW ss \in Seq(Seq(S)), NEW s \in Seq(S)
  PROVE  FlattenSeq(Append(ss, s)) = FlattenSeq(ss) \o s
<1> DEFINE tt == Append(ss, s)
           n == Len(ss)
<1>1. /\ n \in Nat /\ tt \in Seq(Seq(S)) /\ tt # << >> /\ Len(tt) = n + 1 /\ tt[n + 1] = s
      /\ \A i \in 1..n : tt[i] = ss[i]
  BY AppendProperties, LenProperties
<1> HIDE DEF tt, n
<1>2. PICK F \in [1..(n + 1) -> Seq(S)] :
        /\ \A i \in 1..(n + 1) : F[i] = IF i = 1 THEN tt[i] ELSE F[i - 1] \o tt[i]
        /\ FlattenSeq(tt) = F[n + 1]
  <2>1. \E F \in [1..Len(tt) -> Seq(S)] :
           /\ \A i \in 1..Len(tt) : F[i] = IF i = 1 THEN tt[i] ELSE F[i - 1] \o tt[i]
           /\ FlattenSeq(tt) = F[Len(tt)]
    BY <1>1, FlattenJoins
  <2> QED BY <1>1, <2>1
<1>3. CASE n = 0
  <2>1. FlattenSeq(tt) = s
    BY <1>1, <1>2, <1>3
  <2>2. ss = << >> /\ FlattenSeq(ss) = << >>
    BY <1>3, EmptySeq DEF n, FlattenSeq
  <2> QED BY <2>1, <2>2, ConcatEmptySeq DEF tt
<1>4. CASE n # 0
  <2>1. PICK G \in [1..n -> Seq(S)] :
          /\ \A i \in 1..n : G[i] = IF i = 1 THEN ss[i] ELSE G[i - 1] \o ss[i]
          /\ FlattenSeq(ss) = G[n]
    <3>1. ss # << >>
      BY <1>4, EmptySeq DEF n
    <3> QED BY <3>1, FlattenJoins DEF n
  <2>2. \A i \in 1..n : F[i] = G[i]
    <3> DEFINE T == {i \in 1..n : F[i] # G[i]}
    <3>1. SUFFICES ASSUME T # {} PROVE FALSE
      OBVIOUS
    <3>2. PICK m \in T : \A k \in T : m <= k
      <4>1. T \in SUBSET Nat
        BY <1>1
      <4> HIDE DEF T
      <4> QED BY <3>1, <4>1, LeastOf
    <3>3. m \in 1..n /\ F[m] # G[m]
      OBVIOUS
    <3>4. m # 1 => F[m - 1] = G[m - 1]
      BY <1>1, <3>2, <3>3
    <3>5. m \in 1..(n + 1) /\ tt[m] = ss[m]
      BY <1>1, <3>3
    <3>6. F[m] = IF m = 1 THEN ss[m] ELSE F[m - 1] \o ss[m]
      BY <1>2, <3>5
    <3>7. G[m] = IF m = 1 THEN ss[m] ELSE G[m - 1] \o ss[m]
      BY <2>1, <3>3
    <3> QED BY <3>3, <3>4, <3>6, <3>7
  <2>3. F[n + 1] = F[n] \o tt[n + 1]
    <3>1. n + 1 \in 1..(n + 1) /\ n + 1 # 1 /\ (n + 1) - 1 = n
      BY <1>1, <1>4
    <3>2. F[n + 1] = IF n + 1 = 1 THEN tt[n + 1] ELSE F[(n + 1) - 1] \o tt[n + 1]
      BY <1>2, <3>1
    <3> QED BY <3>1, <3>2
  <2>4. n \in 1..n
    BY <1>1, <1>4
  <2>5. FlattenSeq(tt) = G[n] \o s
    BY <1>1, <1>2, <2>2, <2>3, <2>4
  <2> QED BY <2>1, <2>5 DEF tt
<1> QED BY <1>3, <1>4

LEMMA FlattenConcat ==
  ASSUME NEW S, NEW ss \in Seq(Seq(S)), NEW tt \in Seq(Seq(S))
  PROVE  FlattenSeq(ss \o tt) = FlattenSeq(ss) \o FlattenSeq(tt)
<1> DEFINE Good(n) == \A uu \in Seq(Seq(S)) :
                        Len(uu) = n => FlattenSeq(ss \o uu) = FlattenSeq(ss) \o FlattenSeq(uu)
           T == {n \in Nat : Good(n)}
<1>1. Good(0)
  <2> SUFFICES ASSUME NEW uu \in Seq(Seq(S)), Len(uu) = 0
               PROVE  FlattenSeq(ss \o uu) = FlattenSeq(ss) \o FlattenSeq(uu)
    OBVIOUS
  <2>1. uu = << >> /\ FlattenSeq(<< >>) = << >>
    BY EmptySeq DEF FlattenSeq
  <2>2. ss \o << >> = ss
    BY ConcatEmptySeq
  <2>3. PICK a \in Seq(S) : a = FlattenSeq(ss)
    BY FlattenIsSeq
  <2>4. a \o << >> = a
    BY ConcatEmptySeq
  <2> QED BY <2>1, <2>2, <2>3, <2>4
<1>2. ASSUME NEW n \in Nat, Good(n) PROVE Good(n + 1)
  <2> SUFFICES ASSUME NEW uu \in Seq(Seq(S)), Len(uu) = n + 1
               PROVE  FlattenSeq(ss \o uu) = FlattenSeq(ss) \o FlattenSeq(uu)
    OBVIOUS
  <2>1. PICK vv \in Seq(Seq(S)), v \in Seq(S) : uu = Append(vv, v) /\ uu = vv \o <<v>> /\ Len(vv) = n
    <3>1. LastOff(Seq(S), uu, n)
      BY LastApart
    <3> QED BY <3>1 DEF LastOff
  <2>2. FlattenSeq(ss \o vv) = FlattenSeq(ss) \o FlattenSeq(vv)
    BY <1>2, <2>1
  <2> HIDE DEF Good
  <2>3. PICK a \in Seq(S), c \in Seq(S) : a = FlattenSeq(ss) /\ c = FlattenSeq(vv)
    BY FlattenIsSeq
  <2>4. PICK xx \in Seq(Seq(S)) : xx = ss \o vv
    BY ConcatProperties
  <2>5. PICK w \in Seq(Seq(S)) : w = <<v>>
    <3>1. <<v>> \in Seq(Seq(S))
      OBVIOUS
    <3> QED BY <3>1, Zenon
  <2>6. ss \o uu = xx \o <<v>>
    <3>1. Associate(ss, vv, w)
      BY Assoc
    <3> QED BY <2>1, <2>4, <2>5, <3>1, Zenon DEF Associate
  <2>7. xx \o <<v>> = Append(xx, v)
    BY AppendIsConcat
  <2>8. FlattenSeq(Append(xx, v)) = FlattenSeq(xx) \o v /\ FlattenSeq(Append(vv, v)) = FlattenSeq(vv) \o v
    BY FlattenAppend
  <2>9. (a \o c) \o v = a \o (c \o v)
    <3>1. Associate(a, c, v)
      BY Assoc
    <3> QED BY <3>1, Zenon DEF Associate
  <2> QED BY <2>1, <2>2, <2>3, <2>4, <2>6, <2>7, <2>8, <2>9
<1> HIDE DEF Good
<1>3. Nat \subseteq T
  <2>1. 0 \in T /\ \A n \in Nat : n \in T => n + 1 \in T
    BY <1>1, <1>2
  <2> HIDE DEF T
  <2> QED BY <2>1, NatSet
<1>4. Len(tt) \in Nat
  BY LenProperties
<1>5. Good(Len(tt))
  BY <1>3, <1>4
<1> QED BY <1>5 DEF Good

LEMMA FlattenOne ==
  ASSUME NEW S, NEW s \in Seq(S)
  PROVE  FlattenSeq(<<s>>) = s
<1>1. << >> \in Seq(Seq(S)) /\ Append(<< >>, s) = <<s>> /\ FlattenSeq(<< >>) = << >>
  BY EmptySeq DEF FlattenSeq
<1>2. FlattenSeq(Append(<< >>, s)) = FlattenSeq(<< >>) \o s
  BY <1>1, FlattenAppend
<1> QED BY <1>1, <1>2, ConcatEmptySeq
\* The pieces of a text that is substituted.
Pieces(t, b) == [i \in DOMAIN t |-> IF t[i] \in Parameters THEN b[t[i]] ELSE <<t[i]>>]
Marks(t) == {i \in DOMAIN t : t[i] \in Parameters}
UsedIn(t) == {t[i] : i \in Marks(t)}
Binds(b, t, A) == \A p \in UsedIn(t) : b[p] \in Seq(A)

LEMMA PiecesAre ==
  ASSUME NEW A, NEW t \in Seq(A), NEW b, Binds(b, t, A)
  PROVE  Pieces(t, b) \in Seq(Seq(A)) /\ Len(Pieces(t, b)) = Len(t) /\ DOMAIN Pieces(t, b) = DOMAIN t
<1>1. Len(t) \in Nat /\ DOMAIN t = 1..Len(t) /\ \A i \in 1..Len(t) : t[i] \in A
  BY LenProperties, ElementOfSeq
<1>2. ASSUME NEW i \in DOMAIN t PROVE Pieces(t, b)[i] \in Seq(A)
  <2>1. t[i] \in A => <<t[i]>> \in Seq(A)
    OBVIOUS
  <2> QED BY <1>1, <1>2, <2>1 DEF Pieces, Binds, UsedIn, Marks
<1>3. Pieces(t, b) \in [1..Len(t) -> Seq(A)]
  BY <1>1, <1>2 DEF Pieces
<1>4. Pieces(t, b) \in Seq(Seq(A))
  BY <1>1, <1>3, SeqDef
<1>5. DOMAIN Pieces(t, b) = DOMAIN t
  BY DEF Pieces
<1> QED BY <1>1, <1>4, <1>5, LenProperties

LEMMA SubstitutedIs ==
  ASSUME NEW A, NEW t \in Seq(A), NEW b, Binds(b, t, A)
  PROVE  Substituted(t, b) = FlattenSeq(Pieces(t, b)) /\ Substituted(t, b) \in Seq(A)
<1>1. Substituted(t, b) = FlattenSeq(Pieces(t, b))
  BY DEF Substituted, Pieces
<1>2. FlattenSeq(Pieces(t, b)) \in Seq(A)
  BY PiecesAre, FlattenIsSeq
<1> QED BY <1>1, <1>2

LEMMA SubstitutedConcat ==
  ASSUME NEW A, NEW s \in Seq(A), NEW t \in Seq(A), NEW b, Binds(b, s \o t, A)
  PROVE  /\ Binds(b, s, A) /\ Binds(b, t, A)
         /\ Substituted(s \o t, b) = Substituted(s, b) \o Substituted(t, b)
<1>1. /\ s \o t \in Seq(A) /\ Len(s) \in Nat /\ Len(t) \in Nat
      /\ DOMAIN s = 1..Len(s) /\ DOMAIN t = 1..Len(t) /\ DOMAIN (s \o t) = 1..(Len(s) + Len(t))
      /\ Len(s \o t) = Len(s) + Len(t)
      /\ \A i \in 1..Len(s) : (s \o t)[i] = s[i]
      /\ \A i \in 1..Len(t) : (s \o t)[Len(s) + i] = t[i]
  BY LenProperties, ConcatProperties
<1>2. Binds(b, s, A) /\ Binds(b, t, A)
  <2>1. ASSUME NEW i \in Marks(s) PROVE i \in Marks(s \o t) /\ (s \o t)[i] = s[i]
    BY <1>1 DEF Marks
  <2>2. ASSUME NEW i \in Marks(t) PROVE Len(s) + i \in Marks(s \o t) /\ (s \o t)[Len(s) + i] = t[i]
    BY <1>1 DEF Marks
  <2> QED BY <2>1, <2>2 DEF Binds, UsedIn
<1>3. Pieces(s \o t, b) = Pieces(s, b) \o Pieces(t, b)
  <2> DEFINE x == Pieces(s \o t, b)
             y == Pieces(s, b)
             z == Pieces(t, b)
  <2>1. /\ x \in Seq(Seq(A)) /\ y \in Seq(Seq(A)) /\ z \in Seq(Seq(A))
        /\ Len(x) = Len(s) + Len(t) /\ Len(y) = Len(s) /\ Len(z) = Len(t)
    BY <1>1, <1>2, PiecesAre
  <2>2. ASSUME NEW i \in 1..(Len(s) + Len(t))
        PROVE  x[i] = IF i <= Len(s) THEN y[i] ELSE z[i - Len(s)]
    <3>1. CASE i <= Len(s)
      <4>1. i \in 1..Len(s)
        BY <1>1, <3>1
      <4> QED BY <1>1, <2>2, <3>1, <4>1 DEF Pieces
    <3>2. CASE ~ (i <= Len(s))
      <4>1. i - Len(s) \in 1..Len(t) /\ Len(s) + (i - Len(s)) = i
        BY <1>1, <2>2, <3>2
      <4>2. (s \o t)[i] = t[i - Len(s)]
        BY <1>1, <4>1
      <4> QED BY <1>1, <2>2, <3>2, <4>1, <4>2 DEF Pieces
    <3> QED BY <3>1, <3>2
  <2> HIDE DEF x, y, z
  <2>3. /\ y \o z \in Seq(Seq(A)) /\ Len(y \o z) = Len(y) + Len(z)
        /\ \A i \in 1..(Len(y) + Len(z)) : (y \o z)[i] = IF i <= Len(y) THEN y[i] ELSE z[i - Len(y)]
    <3>1. ASSUME NEW a \in Seq(Seq(A)), NEW c \in Seq(Seq(A))
          PROVE  /\ a \o c \in Seq(Seq(A)) /\ Len(a \o c) = Len(a) + Len(c)
                 /\ \A i \in 1..(Len(a) + Len(c)) : (a \o c)[i] = IF i <= Len(a) THEN a[i] ELSE c[i - Len(a)]
      BY ConcatProperties
    <3> QED BY <2>1, <3>1
  <2>4. x = y \o z
    BY <2>1, <2>2, <2>3, SeqEqual
  <2> QED BY <2>4 DEF x, y, z
<1>4. FlattenSeq(Pieces(s, b) \o Pieces(t, b)) = FlattenSeq(Pieces(s, b)) \o FlattenSeq(Pieces(t, b))
  BY <1>2, PiecesAre, FlattenConcat
<1> QED BY <1>1, <1>2, <1>3, <1>4, SubstitutedIs

\* A text without parameters is its own substitution.
LEMMA PlainStays ==
  ASSUME NEW A, NEW t \in Seq(A), NEW b, Marks(t) = {}
  PROVE  Substituted(t, b) = t
<1> DEFINE Good(n) == \A s \in Seq(A) : Len(s) = n /\ Marks(s) = {} => Substituted(s, b) = s
           T == {n \in Nat : Good(n)}
<1>1. Good(0)
  <2> SUFFICES ASSUME NEW s \in Seq(A), Len(s) = 0 PROVE Substituted(s, b) = s
    OBVIOUS
  <2>1. s = << >>
    BY EmptySeq
  <2>2. Pieces(<< >>, b) = << >> /\ FlattenSeq(<< >>) = << >>
    BY DEF Pieces, FlattenSeq
  <2> QED BY <2>1, <2>2 DEF Substituted, Pieces
<1>2. ASSUME NEW n \in Nat, Good(n) PROVE Good(n + 1)
  <2> SUFFICES ASSUME NEW s \in Seq(A), Len(s) = n + 1, Marks(s) = {} PROVE Substituted(s, b) = s
    OBVIOUS
  <2>1. PICK r \in Seq(A), c \in A :
          /\ s = r \o <<c>> /\ Len(r) = n /\ DOMAIN s = 1..(n + 1) /\ DOMAIN r = 1..n /\ s[n + 1] = c
          /\ \A i \in 1..n : s[i] = r[i]
    <3>1. LastOff(A, s, n)
      BY LastApart
    <3> QED BY <3>1 DEF LastOff
  <2>2. Marks(r) = {} /\ c \notin Parameters
    <3>1. \A i \in DOMAIN s : s[i] \notin Parameters
      BY DEF Marks
    <3>2. n + 1 \in DOMAIN s /\ \A i \in 1..n : i \in DOMAIN s
      BY <2>1
    <3>3. c \notin Parameters
      BY <2>1, <3>1, <3>2, Zenon
    <3>4. \A i \in DOMAIN r : r[i] \notin Parameters
      BY <2>1, <3>1, <3>2, Zenon
    <3> QED BY <3>3, <3>4, Zenon DEF Marks
  <2>3. Substituted(r, b) = r
    BY <1>2, <2>1, <2>2
  <2> HIDE DEF Good
  <2>4. Binds(b, s, A) /\ <<c>> \in Seq(A)
    BY DEF Binds, UsedIn
  <2>5. Substituted(s, b) = Substituted(r, b) \o Substituted(<<c>>, b)
    <3>1. \A x, y \in Seq(A) : Binds(b, x \o y, A) =>
             Substituted(x \o y, b) = Substituted(x, b) \o Substituted(y, b)
      BY SubstitutedConcat
    <3> QED BY <2>1, <2>4, <3>1
  <2>6. Substituted(<<c>>, b) = <<c>>
    <3>1. Pieces(<<c>>, b) = <<<<c>>>>
      BY <2>2 DEF Pieces
    <3>2. FlattenSeq(<<<<c>>>>) = <<c>>
      BY <2>4, FlattenOne
    <3> QED BY <3>1, <3>2 DEF Substituted, Pieces
  <2> QED BY <2>1, <2>3, <2>5, <2>6
<1> HIDE DEF Good
<1>3. Nat \subseteq T
  <2>1. 0 \in T /\ \A n \in Nat : n \in T => n + 1 \in T
    BY <1>1, <1>2
  <2> HIDE DEF T
  <2> QED BY <2>1, NatSet
<1>4. Len(t) \in Nat
  BY LenProperties
<1>5. Good(Len(t))
  BY <1>3, <1>4
<1> QED BY <1>5 DEF Good

\* Only the bindings of its parameters matter.
LEMMA SameBindings ==
  ASSUME NEW t, NEW b, NEW c, \A p \in UsedIn(t) : b[p] = c[p]
  PROVE  Substituted(t, b) = Substituted(t, c)
<1>1. Pieces(t, b) = Pieces(t, c)
  BY DEF Pieces, UsedIn, Marks
<1> QED BY <1>1 DEF Substituted, Pieces

\* The first parameter of a text.
LEMMA FirstMark ==
  ASSUME NEW A, NEW t \in Seq(A)
  PROVE  \/ Marks(t) = {} /\ Placeholder(t) = 0
         \/ /\ Placeholder(t) \in Marks(t) /\ Placeholder(t) \in 1..Len(t)
            /\ \A k \in Marks(t) : Placeholder(t) <= k
<1>1. Len(t) \in Nat /\ DOMAIN t = 1..Len(t)
  BY LenProperties
<1>2. Marks(t) = {i \in 1..Len(t) : t[i] \in Parameters} /\ Marks(t) \in SUBSET Nat
  BY <1>1 DEF Marks
<1>3. Placeholder(t) = IF Marks(t) # {} THEN CHOOSE x \in Marks(t) : \A y \in Marks(t) : x <= y ELSE 0
  BY <1>2 DEF Placeholder, SelectInSeq, Min
<1>4. CASE Marks(t) # {}
  <2>1. PICK m \in Marks(t) : \A k \in Marks(t) : m <= k
    BY <1>2, <1>4, LeastOf
  <2> DEFINE P(x) == \A y \in Marks(t) : x <= y
  <2>2. Placeholder(t) = CHOOSE x \in Marks(t) : P(x)
    BY <1>3, <1>4
  <2>3. Placeholder(t) \in Marks(t) /\ P(Placeholder(t))
    <3> HIDE DEF P
    <3>1. P(m)
      BY <2>1 DEF P
    <3> QED BY <2>2, <3>1
  <2> QED BY <1>2, <2>3
<1> QED BY <1>3, <1>4

\* A sequence is what it begins with and the rest.
Halves(A, s, n) ==
  /\ SubSeq(s, 1, n) \in Seq(A) /\ Drop(s, n) \in Seq(A)
  /\ Len(SubSeq(s, 1, n)) = n /\ Len(Drop(s, n)) = Len(s) - n
  /\ DOMAIN SubSeq(s, 1, n) = 1..n /\ DOMAIN Drop(s, n) = 1..(Len(s) - n)
  /\ \A i \in 1..n : SubSeq(s, 1, n)[i] = s[i]
  /\ \A i \in 1..(Len(s) - n) : Drop(s, n)[i] = s[n + i]
  /\ s = SubSeq(s, 1, n) \o Drop(s, n)

LEMMA InHalves ==
  ASSUME NEW A, NEW s \in Seq(A), NEW n \in Nat, n <= Len(s)
  PROVE  Halves(A, s, n)
<1>1. PICK k \in Nat : k = Len(s) /\ DOMAIN s = 1..k /\ \A i \in 1..k : s[i] \in A
  BY LenProperties, ElementOfSeq
<1>2. /\ SubSeq(s, 1, n) \in Seq(A) /\ Len(SubSeq(s, 1, n)) = n
      /\ \A i \in 1..n : SubSeq(s, 1, n)[i] = s[i]
  <2>1. \A i \in 1..n : s[i] \in A
    BY <1>1
  <2> QED BY <2>1, SubSeqProperties
<1>3. /\ Drop(s, n) \in Seq(A) /\ Len(Drop(s, n)) = k - n
      /\ \A i \in 1..(k - n) : Drop(s, n)[i] = s[n + i]
  <2>1. \A i \in (n + 1)..k : s[i] \in A
    BY <1>1
  <2>2. /\ SubSeq(s, n + 1, k) \in Seq(A)
        /\ Len(SubSeq(s, n + 1, k)) = IF n + 1 <= k THEN k - (n + 1) + 1 ELSE 0
        /\ \A i \in 1..(k - (n + 1) + 1) : SubSeq(s, n + 1, k)[i] = s[(n + 1) + i - 1]
    BY <2>1, SubSeqProperties, n + 1 \in Int, k \in Int
  <2> QED BY <1>1, <2>2 DEF Drop
<1>4. DOMAIN SubSeq(s, 1, n) = 1..n /\ DOMAIN Drop(s, n) = 1..(k - n)
  BY <1>2, <1>3, LenProperties
<1>5. s = SubSeq(s, 1, n) \o Drop(s, n)
  <2>1. SubSeq(s, 1, n) \o SubSeq(s, n + 1, k) = SubSeq(s, 1, k)
    <3>1. 1 \in 1..(Len(s) + 1) /\ n \in 0..Len(s) /\ k \in n..Len(s)
      BY <1>1
    <3> QED BY <3>1, ConcatAdjacentSubSeq
  <2>2. SubSeq(s, 1, k) = s
    BY <1>1, SubSeqFull
  <2> QED BY <1>1, <2>1, <2>2 DEF Drop
<1> QED BY <1>1, <1>2, <1>3, <1>4, <1>5 DEF Halves

\* What a match of the first parameter is, case by case.
MatchOf(p, value, template, uri) ==
  [status |-> "match", param |-> p, value |-> value, template |-> template, uri |-> uri]
Literal(t) == SubSeq(t, 1, Placeholder(t) - 1)
Rest(t) == Drop(t, Placeholder(t))
Behind(t, u) == Drop(u, Placeholder(t) - 1)
Ending(t) == SubSeq(Rest(t), 1, Placeholder(Rest(t)) - 1)
Stop(t, u) == First(Finds(Behind(t, u), Ending(t)))

LEMMA FirstUnfolds ==
  ASSUME NEW t, NEW u, FirstParameter(t, u).status = "match"
  PROVE  /\ IsPrefix(Literal(t), u)
         /\ \/ /\ Placeholder(Rest(t)) = 0
               /\ FirstParameter(t, u) = MatchOf(t[Placeholder(t)], Behind(t, u), <<>>, <<>>)
            \/ /\ Placeholder(Rest(t)) # 0 /\ Finds(Behind(t, u), Ending(t)) # {}
               /\ FirstParameter(t, u) =
                    MatchOf(t[Placeholder(t)], SubSeq(Behind(t, u), 1, Stop(t, u)),
                            Drop(Rest(t), Placeholder(Rest(t)) - 1),
                            Drop(Behind(t, u), Stop(t, u) + Len(Ending(t))))
<1> DEFINE upTo(value, template, uri) ==
             IF value = <<>> \/ "/" \in Range(value) THEN NoMatch
             ELSE MatchOf(t[Placeholder(t)], value, template, uri)
<1>1. FirstParameter(t, u) =
        CASE ~IsPrefix(Literal(t), u) -> NoMatch
          [] IsPrefix(Literal(t), u) /\ Placeholder(Rest(t)) = 0 -> upTo(Behind(t, u), <<>>, <<>>)
          [] OTHER -> IF Finds(Behind(t, u), Ending(t)) = {} THEN NoMatch
                      ELSE upTo(SubSeq(Behind(t, u), 1, Stop(t, u)),
                                Drop(Rest(t), Placeholder(Rest(t)) - 1),
                                Drop(Behind(t, u), Stop(t, u) + Len(Ending(t))))
  BY Zenon DEF FirstParameter, MatchOf, Literal, Rest, Behind, Ending, Stop, RemainingAfterValue
<1>2. NoMatch.status # "match"
  BY DEF NoMatch
<1>3. ASSUME NEW value, NEW template, NEW uri, upTo(value, template, uri).status = "match"
      PROVE  upTo(value, template, uri) = MatchOf(t[Placeholder(t)], value, template, uri)
  BY <1>2, <1>3
<1> HIDE DEF upTo
<1>4. IsPrefix(Literal(t), u)
  BY <1>1, <1>2
<1>5. CASE Placeholder(Rest(t)) = 0
  BY <1>1, <1>3, <1>4, <1>5
<1>6. CASE Placeholder(Rest(t)) # 0
  <2>1. FirstParameter(t, u) =
          IF Finds(Behind(t, u), Ending(t)) = {} THEN NoMatch
          ELSE upTo(SubSeq(Behind(t, u), 1, Stop(t, u)),
                    Drop(Rest(t), Placeholder(Rest(t)) - 1),
                    Drop(Behind(t, u), Stop(t, u) + Len(Ending(t))))
    BY <1>1, <1>4, <1>6
  <2> QED BY <1>2, <1>3, <1>4, <1>6, <2>1
<1> QED BY <1>5, <1>6

\* Where the first parameter stands in the template.
TemplateParts(A, t) ==
  /\ Placeholder(t) \in Nat /\ Placeholder(t) - 1 \in Nat /\ Placeholder(t) <= Len(t)
  /\ t[Placeholder(t)] \in Parameters /\ t[Placeholder(t)] \in A
  /\ Literal(t) \in Seq(A) /\ Len(Literal(t)) = Placeholder(t) - 1 /\ Marks(Literal(t)) = {}
  /\ Rest(t) \in Seq(A) /\ Len(Rest(t)) = Len(t) - Placeholder(t)
  /\ \A i \in 1..(Len(t) - Placeholder(t)) : Rest(t)[i] = t[Placeholder(t) + i]
  /\ t = Literal(t) \o (<<t[Placeholder(t)]>> \o Rest(t))

LEMMA TemplateSplits ==
  ASSUME NEW A, NEW t \in Seq(A), Placeholder(t) # 0
  PROVE  TemplateParts(A, t)
<1>1. PICK k \in Nat : k = Len(t) /\ DOMAIN t = 1..k /\ \A i \in 1..k : t[i] \in A
  BY LenProperties, ElementOfSeq
<1>2. PICK n \in Nat : n = Placeholder(t) /\ n \in 1..k /\ n \in Marks(t) /\ \A j \in Marks(t) : n <= j
  BY <1>1, FirstMark
<1>3. PICK m \in Nat : m = n - 1 /\ m <= k /\ n <= k
  BY <1>2
<1>4. Halves(A, t, n) /\ Halves(A, t, m)
  BY <1>1, <1>3, InHalves
<1>5. Literal(t) = SubSeq(t, 1, m) /\ Rest(t) = Drop(t, n)
  BY <1>2, <1>3 DEF Literal, Rest
<1>6. Marks(Literal(t)) = {}
  <2>1. SUFFICES ASSUME NEW i \in Marks(Literal(t)) PROVE FALSE
    OBVIOUS
  <2>2. i \in 1..m /\ Literal(t)[i] = t[i] /\ t[i] \in Parameters
    BY <1>4, <1>5 DEF Halves, Marks
  <2>3. i \in Marks(t)
    BY <1>1, <1>3, <2>2 DEF Marks
  <2> QED BY <1>2, <1>3, <2>2, <2>3
<1>7. t[n] \in Parameters /\ t[n] \in A
  BY <1>1, <1>2 DEF Marks
<1>8. Drop(t, m) = <<t[n]>> \o Drop(t, n)
  <2>1. n \in 1..Len(t) /\ Len(t) \in n..Len(t) /\ m + 1 = n
    BY <1>1, <1>2, <1>3
  <2> QED BY <2>1, SubSeqRecursiveFirst DEF Drop
<1>9. /\ Literal(t) \in Seq(A) /\ Len(Literal(t)) = m /\ Rest(t) \in Seq(A) /\ Len(Rest(t)) = k - n
      /\ \A i \in 1..(k - n) : Rest(t)[i] = t[n + i]
  BY <1>1, <1>4, <1>5 DEF Halves
<1>10. t = Literal(t) \o (<<t[n]>> \o Rest(t))
  BY <1>4, <1>5, <1>8 DEF Halves
<1>11. Placeholder(t) = n /\ Len(t) = k /\ n - 1 = m
  BY <1>1, <1>2, <1>3
<1> HIDE DEF Literal, Rest
<1> QED BY <1>3, <1>6, <1>7, <1>9, <1>10, <1>11 DEF TemplateParts

\* Where the URI goes on.
LEMMA UriSplits ==
  ASSUME NEW A, NEW t \in Seq(A), NEW u \in Seq(A), Placeholder(t) # 0, IsPrefix(Literal(t), u)
  PROVE  Behind(t, u) \in Seq(A) /\ u = Literal(t) \o Behind(t, u)
<1>1. PICK m \in Nat : m = Placeholder(t) - 1 /\ Len(Literal(t)) = m /\ Literal(t) \in Seq(A)
  <2>1. TemplateParts(A, t)
    BY TemplateSplits
  <2> QED BY <2>1 DEF TemplateParts
<1>2. PICK l \in Seq(A) : l = Literal(t)
  BY <1>1
<1>3. SubSeq(l, 1, Len(l)) = l
  BY SubSeqFull
<1>4. m <= Len(u) /\ SubSeq(u, 1, m) = l
  BY <1>1, <1>2, <1>3 DEF IsPrefix
<1>5. Halves(A, u, m)
  BY <1>4, InHalves
<1> QED BY <1>1, <1>2, <1>4, <1>5 DEF Halves, Behind

StopParts(A, s, e) ==
  \E v, r \in Seq(A) :
    /\ v = SubSeq(s, 1, First(Finds(s, e))) /\ r = Drop(s, First(Finds(s, e)) + Len(e))
    /\ s = v \o (e \o r)

LEMMA StopIs ==
  ASSUME NEW A, NEW s \in Seq(A), NEW e \in Seq(A), Finds(s, e) # {}
  PROVE  StopParts(A, s, e)
<1>1. PICK n \in Nat, d \in Nat : n = Len(s) /\ d = Len(e)
  BY LenProperties
<1>2. PICK T \in SUBSET Nat : T = Finds(s, e)
  <2>1. Finds(s, e) = {i \in 0..(n - d) : SubSeq(s, i + 1, i + d) = e}
    BY <1>1 DEF Finds
  <2>2. Finds(s, e) \in SUBSET Nat
    BY <2>1
  <2> QED BY <2>2
<1>3. PICK m \in T : \A k \in T : m <= k
  BY <1>2, LeastOf
<1>4. PICK i \in T : i = First(Finds(s, e))
  <2> DEFINE P(x) == \A j \in T : x <= j
  <2>1. First(Finds(s, e)) = CHOOSE x \in T : P(x)
    BY <1>2 DEF First
  <2>2. P(m)
    BY <1>3
  <2> HIDE DEF P
  <2> QED BY <2>1, <2>2
<1>5. i \in Nat /\ i <= n - d /\ SubSeq(s, i + 1, i + d) = e
  <2>1. i \in {x \in 0..(n - d) : SubSeq(s, x + 1, x + d) = e}
    BY <1>1, <1>2, <1>4 DEF Finds
  <2> QED BY <2>1
<1>6. PICK j \in Nat : j = i + d /\ i <= j /\ j <= Len(s) /\ i <= Len(s)
  BY <1>1, <1>5
<1>7. Halves(A, s, i) /\ Halves(A, s, j)
  BY <1>5, <1>6, InHalves
<1>8. SubSeq(s, i + 1, j) \o SubSeq(s, j + 1, Len(s)) = SubSeq(s, i + 1, Len(s))
  <2>1. i + 1 \in 1..(Len(s) + 1) /\ j \in ((i + 1) - 1)..Len(s) /\ Len(s) \in j..Len(s)
    BY <1>1, <1>5, <1>6
  <2> QED BY <2>1, ConcatAdjacentSubSeq
<1>9. e \o Drop(s, j) = Drop(s, i)
  BY <1>5, <1>6, <1>8 DEF Drop
<1>10. SubSeq(s, 1, i) \in Seq(A) /\ Drop(s, j) \in Seq(A) /\ s = SubSeq(s, 1, i) \o (e \o Drop(s, j))
  BY <1>7, <1>9 DEF Halves
<1> QED BY <1>1, <1>4, <1>6, <1>10 DEF StopParts

\* The template and the URI around the first parameter.
Around(A, t, u, p, v, t2, u2) ==
  \E lit, e \in Seq(A) :
    /\ Marks(lit) = {} /\ Marks(e) = {}
    /\ t = lit \o (<<p>> \o (e \o t2)) /\ u = lit \o (v \o (e \o u2))
    /\ t2 = <<>> \/ Len(t2) \in Marks(t2)
FirstIs(A, t, u, f) ==
  \E v, t2, u2 \in Seq(A), p \in A :
    /\ p \in Parameters /\ f = MatchOf(p, v, t2, u2) /\ Len(t2) < Len(t)
    /\ Len(t) \in Marks(t) => Around(A, t, u, p, v, t2, u2)

LEMMA FirstSplits ==
  ASSUME NEW A, NEW t \in Seq(A), NEW u \in Seq(A), Placeholder(t) # 0,
         FirstParameter(t, u).status = "match"
  PROVE  FirstIs(A, t, u, FirstParameter(t, u))
<1>1. TemplateParts(A, t)
  BY TemplateSplits
<1>2. Behind(t, u) \in Seq(A) /\ u = Literal(t) \o Behind(t, u)
  <2>1. IsPrefix(Literal(t), u)
    BY FirstUnfolds
  <2> QED BY <2>1, UriSplits
<1>3. PICK k \in Nat : k = Len(t) /\ DOMAIN t = 1..k
  BY LenProperties
<1>4. PICK o \in Nat, p \in A, lit \in Seq(A), rest \in Seq(A), s \in Seq(A) :
        /\ o = Placeholder(t) /\ p = t[o] /\ lit = Literal(t) /\ rest = Rest(t) /\ s = Behind(t, u)
  BY <1>1, <1>2 DEF TemplateParts
<1>5. /\ 1 <= o /\ o <= k /\ p \in Parameters /\ Marks(lit) = {} /\ Len(rest) = k - o
      /\ \A i \in 1..(k - o) : rest[i] = t[o + i]
  BY <1>1, <1>3, <1>4 DEF TemplateParts
<1>6. t = lit \o (<<p>> \o rest) /\ u = lit \o s
  BY <1>1, <1>2, <1>4, Zenon DEF TemplateParts
<1>7. /\ DOMAIN rest = 1..(k - o)
      /\ Len(t) \in Marks(t) /\ k - o # 0 => k - o \in Marks(rest)
  <2>1. DOMAIN rest = 1..(k - o)
    BY <1>5, LenProperties
  <2>2. ASSUME Len(t) \in Marks(t), k - o # 0 PROVE k - o \in Marks(rest)
    <3>1. k - o \in 1..(k - o) /\ o + (k - o) = k
      BY <1>5, <2>2
    <3> QED BY <1>3, <1>5, <2>1, <2>2, <3>1 DEF Marks
  <2> QED BY <2>1, <2>2
<1>8. \A x \in Seq(A) : <<>> \o x = x /\ x \o <<>> = x
  BY ConcatEmptySeq
<1>9. <<>> \in Seq(A) /\ Marks(<<>>) = {} /\ Len(<<>>) = 0
  BY EmptySeq DEF Marks
<1>10. CASE /\ Placeholder(Rest(t)) = 0
            /\ FirstParameter(t, u) = MatchOf(t[Placeholder(t)], Behind(t, u), <<>>, <<>>)
  <2>1. FirstParameter(t, u) = MatchOf(p, s, <<>>, <<>>)
    BY <1>4, <1>10
  <2>2. Marks(rest) = {}
    BY <1>4, <1>10, FirstMark
  <2>3. ASSUME Len(t) \in Marks(t) PROVE Around(A, t, u, p, s, <<>>, <<>>)
    <3>1. rest = <<>>
      BY <1>5, <1>7, <2>2, <2>3, EmptySeq
    <3>2. rest = <<>> \o <<>> /\ s = s \o (<<>> \o <<>>)
      BY <1>8, <1>9, <3>1
    <3>3. t = lit \o (<<p>> \o (<<>> \o <<>>)) /\ u = lit \o (s \o (<<>> \o <<>>))
      BY <1>6, <3>2, Zenon
    <3> QED BY <1>5, <1>9, <3>3, Zenon DEF Around
  <2>4. Len(<<>>) < Len(t)
    BY <1>3, <1>5, <1>9
  <2> QED BY <1>5, <1>9, <2>1, <2>3, <2>4, Zenon DEF FirstIs
<1>11. CASE /\ Placeholder(Rest(t)) # 0 /\ Finds(Behind(t, u), Ending(t)) # {}
            /\ FirstParameter(t, u) =
                    MatchOf(t[Placeholder(t)], SubSeq(Behind(t, u), 1, Stop(t, u)),
                            Drop(Rest(t), Placeholder(Rest(t)) - 1),
                            Drop(Behind(t, u), Stop(t, u) + Len(Ending(t))))
  <2>1. PICK n \in Nat : n = Placeholder(rest) /\ n \in 1..(k - o)
    BY <1>4, <1>5, <1>11, FirstMark
  <2>2. TemplateParts(A, rest)
    BY <1>4, <1>11, TemplateSplits
  <2>3. PICK m \in Nat : m = n - 1 /\ m = Placeholder(rest) - 1 /\ m <= Len(rest) /\ m < k - o
    BY <1>5, <2>1
  <2>4. Halves(A, rest, m)
    BY <2>3, InHalves
  <2>5. PICK e \in Seq(A), t2 \in Seq(A) :
          /\ e = Ending(t) /\ t2 = Drop(Rest(t), Placeholder(Rest(t)) - 1)
          /\ Len(t2) = (k - o) - m /\ DOMAIN t2 = 1..((k - o) - m)
          /\ \A i \in 1..((k - o) - m) : t2[i] = rest[m + i]
    <3>1. Ending(t) = SubSeq(rest, 1, m) /\ Drop(Rest(t), Placeholder(Rest(t)) - 1) = Drop(rest, m)
      BY <1>4, <2>3, Zenon DEF Ending
    <3>2. /\ SubSeq(rest, 1, m) \in Seq(A) /\ Drop(rest, m) \in Seq(A)
          /\ Len(Drop(rest, m)) = (k - o) - m /\ DOMAIN Drop(rest, m) = 1..((k - o) - m)
          /\ \A i \in 1..((k - o) - m) : Drop(rest, m)[i] = rest[m + i]
      BY <1>5, <2>4, Zenon DEF Halves
    <3> QED BY <3>1, <3>2, Zenon
  <2>6. rest = e \o t2
    BY <1>4, <2>3, <2>4, <2>5, Zenon DEF Halves, Ending
  <2>7. Marks(e) = {}
    BY <1>4, <2>2, <2>5 DEF TemplateParts, Ending, Literal
  <2>8. PICK v \in Seq(A), u2 \in Seq(A) :
          /\ v = SubSeq(Behind(t, u), 1, Stop(t, u))
          /\ u2 = Drop(Behind(t, u), Stop(t, u) + Len(Ending(t)))
          /\ s = v \o (e \o u2)
    <3>1. Finds(s, e) # {} /\ Stop(t, u) = First(Finds(s, e))
      BY <1>4, <1>11, <2>5, Zenon DEF Stop
    <3>2. StopParts(A, s, e)
      BY <3>1, StopIs
    <3> QED BY <1>4, <2>5, <3>1, <3>2, Zenon DEF StopParts
  <2>9. FirstParameter(t, u) = MatchOf(p, v, t2, u2)
    BY <1>4, <1>11, <2>5, <2>8, Zenon
  <2>10. Len(t2) < Len(t)
    BY <1>3, <1>5, <2>3, <2>5
  <2>11. ASSUME Len(t) \in Marks(t) PROVE Len(t2) \in Marks(t2)
    <3>1. k - o \in Marks(rest)
      BY <1>5, <1>7, <2>3, <2>11
    <3>2. PICK l \in Nat : l = (k - o) - m /\ l \in 1..l /\ m + l = k - o
      BY <1>5, <2>3
    <3> QED BY <2>5, <3>1, <3>2 DEF Marks
  <2>12. t = lit \o (<<p>> \o (e \o t2)) /\ u = lit \o (v \o (e \o u2))
    BY <1>6, <2>6, <2>8, Zenon
  <2>13. Len(t) \in Marks(t) => Around(A, t, u, p, v, t2, u2)
    BY <1>5, <2>7, <2>11, <2>12, Zenon DEF Around
  <2> QED BY <1>5, <2>9, <2>10, <2>13, Zenon DEF FirstIs
<1> QED BY <1>10, <1>11, FirstUnfolds

MatchBody(M, t, u) ==
  LET first == FirstParameter(t, u)
      rest == M[first.template][first.uri]
  IN  CASE Placeholder(t) = 0 -> IF t = u THEN [status |-> "match", bound |-> <<>>] ELSE NoMatch
        [] Placeholder(t) # 0 /\ first.status # "match" -> NoMatch
        [] OTHER -> IF rest.status # "match" THEN NoMatch
                    ELSE [status |-> "match", bound |-> Extend(rest.bound, first.param, first.value)]

Solves(M, A) == M = [t \in Seq(A) |-> [u \in Seq(A) |-> MatchBody(M, t, u)]]

LEMMA MatchIsChosen == Match = CHOOSE M : Solves(M, STRING)
BY Zenon DEF Match, Solves, MatchBody

LEMMA Solved ==
  ASSUME NEW A, NEW M, Solves(M, A), NEW t \in Seq(A), NEW u \in Seq(A)
  PROVE  M[t][u] = MatchBody(M, t, u)
<1> HIDE DEF MatchBody
<1>1. M[t] = [x \in Seq(A) |-> MatchBody(M, t, x)]
  BY Zenon DEF Solves
<1> QED BY <1>1, Zenon

LEMMA SameBody ==
  ASSUME NEW A, NEW t \in Seq(A), NEW u \in Seq(A), NEW M, NEW N,
         \A x, y \in Seq(A) : Len(x) < Len(t) => M[x][y] = N[x][y]
  PROVE  MatchBody(M, t, u) = MatchBody(N, t, u)
<1>1. CASE Placeholder(t) # 0 /\ FirstParameter(t, u).status = "match"
  <2>1. FirstIs(A, t, u, FirstParameter(t, u))
    BY <1>1, FirstSplits
  <2>2. PICK v \in Seq(A), t2 \in Seq(A), u2 \in Seq(A), p \in A :
          FirstParameter(t, u) = MatchOf(p, v, t2, u2) /\ Len(t2) < Len(t)
    BY <2>1, Zenon DEF FirstIs
  <2>3. FirstParameter(t, u).template = t2 /\ FirstParameter(t, u).uri = u2
    BY <2>2 DEF MatchOf
  <2>4. M[FirstParameter(t, u).template][FirstParameter(t, u).uri] =
          N[FirstParameter(t, u).template][FirstParameter(t, u).uri]
    BY <2>2, <2>3
  <2> QED BY <2>4, Zenon DEF MatchBody
<1>2. CASE ~(Placeholder(t) # 0 /\ FirstParameter(t, u).status = "match")
  BY <1>2, Zenon DEF MatchBody
<1> QED BY <1>1, <1>2

\* Matching, as far as templates of a length go.
Reaches(M, n, A) == \A t, u \in Seq(A) : Len(t) <= n => M[t][u] = MatchBody(M, t, u)

LEMMA NoTwoMatches ==
  ASSUME NEW A, NEW M, NEW N, NEW n \in Nat, Reaches(M, n, A), Reaches(N, n, A)
  PROVE  \A t, u \in Seq(A) : Len(t) <= n => M[t][u] = N[t][u]
<1> DEFINE Differ(k) == \E t, u \in Seq(A) : Len(t) = k /\ k <= n /\ M[t][u] # N[t][u]
<1>1. PICK T \in SUBSET Nat : \A k \in Nat : k \in T <=> Differ(k)
  <2>1. {k \in Nat : Differ(k)} \in SUBSET Nat
    OBVIOUS
  <2> QED BY <2>1
<1>2. \A t \in Seq(A) : Len(t) \in Nat
  BY LenProperties
<1>3. CASE T = {}
  <2> SUFFICES ASSUME NEW t \in Seq(A), NEW u \in Seq(A), Len(t) <= n, M[t][u] # N[t][u] PROVE FALSE
    OBVIOUS
  <2>1. Differ(Len(t))
    BY Zenon
  <2> HIDE DEF Differ
  <2> QED BY <1>1, <1>2, <1>3, <2>1
<1>4. CASE T # {}
  <2>1. PICK m \in T : \A k \in T : m <= k
    BY <1>4, LeastOf
  <2>2. m \in Nat /\ Differ(m)
    BY <1>1, <2>1
  <2>3. PICK t \in Seq(A), u \in Seq(A) : Len(t) = m /\ m <= n /\ M[t][u] # N[t][u]
    BY <2>2
  <2>4. ASSUME NEW x \in Seq(A), NEW y \in Seq(A), Len(x) < Len(t) PROVE M[x][y] = N[x][y]
    <3>1. PICK l \in Nat : l = Len(x) /\ l < m /\ l <= n
      BY <1>2, <2>2, <2>3, <2>4
    <3>2. l \notin T
      BY <2>1, <2>2, <3>1
    <3>3. ~ Differ(l)
      BY <1>1, <3>2, Zenon
    <3> QED BY <3>1, <3>3, Zenon
  <2>5. MatchBody(M, t, u) = MatchBody(N, t, u)
    BY <2>4, SameBody
  <2>6. M[t][u] = MatchBody(M, t, u) /\ N[t][u] = MatchBody(N, t, u)
    BY <2>3, Zenon DEF Reaches
  <2> QED BY <2>3, <2>5, <2>6
<1> QED BY <1>3, <1>4

LEMMA MatchReaches ==
  ASSUME NEW A, NEW n \in Nat
  PROVE  \E M : Reaches(M, n, A)
<1> DEFINE Good(k) == \E M : Reaches(M, k, A)
<1>1. \A t \in Seq(A) : Len(t) \in Nat
  BY LenProperties
<1>2. Good(0)
  <2> PICK Z : TRUE
    OBVIOUS
  <2>1. PICK M : M = [t \in Seq(A) |-> [u \in Seq(A) |-> MatchBody(Z, t, u)]]
    OBVIOUS
  <2>2. ASSUME NEW t \in Seq(A), NEW u \in Seq(A), Len(t) <= 0 PROVE M[t][u] = MatchBody(M, t, u)
    <3>1. M[t][u] = MatchBody(Z, t, u)
      <4> HIDE DEF MatchBody
      <4>1. M[t] = [x \in Seq(A) |-> MatchBody(Z, t, x)]
        BY <2>1, Zenon
      <4> QED BY <4>1, Zenon
    <3>2. \A x, y \in Seq(A) : Len(x) < Len(t) => Z[x][y] = M[x][y]
      <4>1. \A x \in Seq(A) : ~(Len(x) < Len(t))
        BY <1>1, <2>2
      <4> QED BY <4>1, Zenon
    <3>3. MatchBody(Z, t, u) = MatchBody(M, t, u)
      BY <3>2, SameBody
    <3> QED BY <3>1, <3>3
  <2> QED BY <2>2, Zenon DEF Reaches
<1>3. ASSUME NEW k \in Nat, Good(k) PROVE Good(k + 1)
  <2>1. PICK M : Reaches(M, k, A)
    BY <1>3
  <2>2. PICK N : N = [t \in Seq(A) |-> [u \in Seq(A) |-> IF Len(t) <= k THEN M[t][u] ELSE MatchBody(M, t, u)]]
    OBVIOUS
  <2>3. \A t, u \in Seq(A) : N[t][u] = IF Len(t) <= k THEN M[t][u] ELSE MatchBody(M, t, u)
    <3> HIDE DEF MatchBody
    <3> TAKE t, u \in Seq(A)
    <3>1. N[t] = [x \in Seq(A) |-> IF Len(t) <= k THEN M[t][x] ELSE MatchBody(M, t, x)]
      BY <2>2, Zenon
    <3> QED BY <3>1, Zenon
  <2>4. ASSUME NEW t \in Seq(A), NEW u \in Seq(A), Len(t) <= k + 1 PROVE N[t][u] = MatchBody(N, t, u)
    <3>1. ASSUME NEW x \in Seq(A), NEW y \in Seq(A), Len(x) < Len(t) PROVE N[x][y] = M[x][y]
      <4>1. Len(x) <= k
        BY <1>1, <2>4, <3>1
      <4> QED BY <2>3, <4>1, Zenon
    <3>2. MatchBody(N, t, u) = MatchBody(M, t, u)
      BY <3>1, SameBody
    <3>3. Len(t) <= k => M[t][u] = MatchBody(M, t, u)
      BY <2>1, Zenon DEF Reaches
    <3>4. N[t][u] = IF Len(t) <= k THEN M[t][u] ELSE MatchBody(M, t, u)
      BY <2>3, Zenon
    <3> QED BY <3>2, <3>3, <3>4, Zenon
  <2> QED BY <2>4, Zenon DEF Reaches
<1> HIDE DEF Good
<1>4. PICK T : T = {k \in Nat : Good(k)}
  OBVIOUS
<1>5. Nat \subseteq T
  <2>1. 0 \in T /\ \A k \in Nat : k \in T => k + 1 \in T
    BY <1>2, <1>3, <1>4
  <2> QED BY <2>1, NatSet
<1> QED BY <1>4, <1>5 DEF Good

\* Matching is what its recursive definition says.
LEMMA MatchIs ==
  \A t, u \in Seq(STRING) : Match[t][u] = MatchBody(Match, t, u)
<1>1. PICK A : A = STRING
  OBVIOUS
<1>2. \E M : Solves(M, A)
  <2> DEFINE Best(n) == CHOOSE M : Reaches(M, n, A)
  <2>1. \A n \in Nat : Reaches(Best(n), n, A)
    BY MatchReaches, Zenon
  <2> HIDE DEF Best
  <2>2. PICK G : G = [t \in Seq(A) |-> [u \in Seq(A) |-> Best(Len(t))[t][u]]]
    OBVIOUS
  <2>3. \A t, u \in Seq(A) : G[t][u] = Best(Len(t))[t][u]
    <3> TAKE t, u \in Seq(A)
    <3>1. G[t] = [x \in Seq(A) |-> Best(Len(t))[t][x]]
      BY <2>2, Zenon
    <3> QED BY <3>1, Zenon
  <2>4. ASSUME NEW t \in Seq(A), NEW u \in Seq(A) PROVE G[t][u] = MatchBody(G, t, u)
    <3>1. PICK n \in Nat : n = Len(t)
      BY LenProperties
    <3>2. ASSUME NEW x \in Seq(A), NEW y \in Seq(A), Len(x) < Len(t) PROVE G[x][y] = Best(n)[x][y]
      <4>1. PICK l \in Nat : l = Len(x) /\ l <= n /\ l <= l
        BY <3>1, <3>2, LenProperties
      <4>2. Reaches(Best(n), l, A)
        <5>1. \A z \in Seq(A) : Len(z) \in Nat
          BY LenProperties
        <5>2. \A z \in Seq(A) : Len(z) <= l => Len(z) <= n
          BY <4>1, <5>1
        <5>3. Reaches(Best(n), n, A)
          BY <2>1
        <5> QED BY <5>2, <5>3, Zenon DEF Reaches
      <4>3. Reaches(Best(l), l, A)
        BY <2>1
      <4>4. \A v, w \in Seq(A) : Len(v) <= l => Best(l)[v][w] = Best(n)[v][w]
        BY <4>2, <4>3, NoTwoMatches
      <4>5. Best(l)[x][y] = Best(n)[x][y]
        BY <4>1, <4>4, Zenon
      <4> QED BY <2>3, <4>1, <4>5, Zenon
    <3>3. MatchBody(G, t, u) = MatchBody(Best(n), t, u)
      BY <3>2, SameBody
    <3>4. Best(n)[t][u] = MatchBody(Best(n), t, u)
      <4>1. n <= n /\ Reaches(Best(n), n, A)
        BY <2>1
      <4> QED BY <3>1, <4>1, Zenon DEF Reaches
    <3> QED BY <2>3, <3>1, <3>3, <3>4, Zenon
  <2>5. G = [t \in Seq(A) |-> [u \in Seq(A) |-> MatchBody(G, t, u)]]
    <3> HIDE DEF MatchBody
    <3>1. \A t \in Seq(A) : [u \in Seq(A) |-> Best(Len(t))[t][u]] = [u \in Seq(A) |-> MatchBody(G, t, u)]
      BY <2>3, <2>4, Zenon
    <3> QED BY <2>2, <3>1, Zenon
  <2> QED BY <2>5, Zenon DEF Solves
<1>3. Solves(Match, A)
  BY <1>1, <1>2, MatchIsChosen, Zenon
<1>4. \A t, u \in Seq(A) : Match[t][u] = MatchBody(Match, t, u)
  BY <1>3, Solved
<1> QED BY <1>1, <1>4, Zenon

\* No parameter occurs twice.
Distinct(t) == \A i, j \in Marks(t) : t[i] = t[j] => i = j

ConcatMarks(s, t) ==
  /\ UsedIn(s \o t) = UsedIn(s) \cup UsedIn(t)
  /\ Distinct(s \o t) => Distinct(s) /\ Distinct(t) /\ UsedIn(s) \cap UsedIn(t) = {}

LEMMA MarksConcat == \A A : \A s, t \in Seq(A) : ConcatMarks(s, t)
<1> SUFFICES ASSUME NEW A, NEW s \in Seq(A), NEW t \in Seq(A) PROVE ConcatMarks(s, t)
  OBVIOUS
<1>1. PICK x \in Seq(A) : x = s \o t
  BY ConcatProperties
<1>2. PICK k \in Nat, n \in Nat :
        /\ k = Len(s) /\ n = Len(t) /\ DOMAIN s = 1..k /\ DOMAIN t = 1..n /\ DOMAIN x = 1..(k + n)
        /\ \A i \in 1..k : x[i] = s[i]
        /\ \A i \in 1..n : x[k + i] = t[i]
  <2>1. Len(s) \in Nat /\ Len(t) \in Nat /\ DOMAIN s = 1..Len(s) /\ DOMAIN t = 1..Len(t)
        /\ DOMAIN x = 1..Len(x)
    BY LenProperties
  <2>2. /\ Len(x) = Len(s) + Len(t) /\ \A i \in 1..Len(s) : x[i] = s[i]
        /\ \A i \in 1..Len(t) : x[Len(s) + i] = t[i]
    BY <1>1, <2>1, ConcatProperties
  <2> QED BY <2>1, <2>2
<1>3. ASSUME NEW i \in Marks(s) PROVE i \in Marks(x) /\ x[i] = s[i] /\ i \in 1..k
  BY <1>2 DEF Marks
<1>4. ASSUME NEW i \in Marks(t) PROVE k + i \in Marks(x) /\ x[k + i] = t[i] /\ i \in 1..n
  <2>1. i \in 1..n /\ t[i] \in Parameters
    BY <1>2 DEF Marks
  <2>2. x[k + i] = t[i]
    BY <1>2, <2>1, Zenon
  <2>3. k + i \in 1..(k + n)
    BY <1>2, <2>1
  <2> QED BY <1>2, <2>1, <2>2, <2>3 DEF Marks
<1>5. ASSUME NEW i \in Marks(x) PROVE x[i] \in UsedIn(s) \cup UsedIn(t)
  <2>1. i \in 1..(k + n) /\ x[i] \in Parameters
    BY <1>2 DEF Marks
  <2>2. CASE i \in 1..k
    BY <1>2, <2>1, <2>2 DEF UsedIn, Marks
  <2>3. CASE i \notin 1..k
    <3>1. PICK j \in 1..n : k + j = i
      <4>1. i - k \in 1..n /\ k + (i - k) = i
        BY <1>2, <2>1, <2>3
      <4> QED BY <4>1
    <3>2. x[i] = t[j]
      BY <1>2, <3>1
    <3> QED BY <1>2, <2>1, <3>1, <3>2 DEF UsedIn, Marks
  <2> QED BY <2>2, <2>3
<1>6. UsedIn(x) = UsedIn(s) \cup UsedIn(t)
  <2>1. UsedIn(x) \subseteq UsedIn(s) \cup UsedIn(t)
    BY <1>5, Zenon DEF UsedIn
  <2>2. UsedIn(s) \subseteq UsedIn(x)
    BY <1>3 DEF UsedIn
  <2>3. UsedIn(t) \subseteq UsedIn(x)
    BY <1>4 DEF UsedIn
  <2> QED BY <2>1, <2>2, <2>3
<1>7. ASSUME Distinct(x) PROVE Distinct(s) /\ Distinct(t) /\ UsedIn(s) \cap UsedIn(t) = {}
  <2>1. Distinct(s)
    BY <1>3, <1>7 DEF Distinct
  <2>2. ASSUME NEW i \in Marks(t), NEW j \in Marks(t), t[i] = t[j] PROVE i = j
    <3>1. k + i = k + j
      BY <1>4, <1>7, <2>2 DEF Distinct
    <3>2. i \in 1..n /\ j \in 1..n
      BY <1>4
    <3> QED BY <1>2, <3>1, <3>2
  <2>3. ASSUME NEW i \in Marks(s), NEW j \in Marks(t), s[i] = t[j] PROVE FALSE
    <3>1. i = k + j
      BY <1>3, <1>4, <1>7, <2>3 DEF Distinct
    <3>2. i \in 1..k /\ j \in 1..n
      BY <1>3, <1>4
    <3> QED BY <1>2, <3>1, <3>2
  <2> QED BY <2>1, <2>2, <2>3 DEF Distinct, UsedIn
<1> QED BY <1>1, <1>6, <1>7 DEF ConcatMarks

LEMMA OneMark ==
  ASSUME NEW A, NEW p \in A, p \in Parameters, NEW b, b[p] \in Seq(A)
  PROVE  /\ <<p>> \in Seq(A) /\ UsedIn(<<p>>) = {p}
         /\ Substituted(<<p>>, b) = b[p]
<1>1. <<p>> \in Seq(A) /\ DOMAIN <<p>> = {1} /\ <<p>>[1] = p
  OBVIOUS
<1>2. Marks(<<p>>) = {1}
  BY <1>1 DEF Marks
<1>3. UsedIn(<<p>>) = {p}
  BY <1>1, <1>2 DEF UsedIn
<1>4. Pieces(<<p>>, b) = <<b[p]>>
  BY DEF Pieces
<1>5. FlattenSeq(<<b[p]>>) = b[p]
  BY FlattenOne
<1> QED BY <1>1, <1>3, <1>4, <1>5 DEF Substituted, Pieces

SubstitutesBoth(s, t, b, A) ==
  Binds(b, s \o t, A) => Substituted(s \o t, b) = Substituted(s, b) \o Substituted(t, b)
LEMMA BothSubstituted == \A A, b : \A s, t \in Seq(A) : SubstitutesBoth(s, t, b, A)
BY SubstitutedConcat DEF SubstitutesBoth

\* A parameter behind one literal and before another.
Framed(t, lit, p, e, t2) ==
  p \in Parameters /\ Marks(lit) = {} /\ Marks(e) = {} /\ t = lit \o (<<p>> \o (e \o t2))

LEMMA AroundUsed ==
  ASSUME NEW A, NEW lit \in Seq(A), NEW e \in Seq(A), NEW t2 \in Seq(A), NEW p \in A,
         NEW t, Framed(t, lit, p, e, t2)
  PROVE  /\ UsedIn(t) = {p} \cup UsedIn(t2)
         /\ Distinct(t) => Distinct(t2) /\ p \notin UsedIn(t2)
<1>1. PICK x \in Seq(A), y \in Seq(A), w \in Seq(A) : x = e \o t2 /\ w = <<p>> /\ y = w \o x /\ t = lit \o y
  <2>1. PICK w \in Seq(A) : w = <<p>>
    <3>1. <<p>> \in Seq(A)
      OBVIOUS
    <3> QED BY <3>1, Zenon
  <2>2. PICK x \in Seq(A) : x = e \o t2
    BY ConcatProperties
  <2>3. PICK y \in Seq(A) : y = w \o x
    BY ConcatProperties
  <2> QED BY <2>1, <2>2, <2>3, Zenon DEF Framed
<1>2. ConcatMarks(e, t2) /\ ConcatMarks(w, x) /\ ConcatMarks(lit, y)
  BY MarksConcat
<1>3. UsedIn(w) = {p}
  <2>1. DOMAIN <<p>> = {1} /\ <<p>>[1] = p
    OBVIOUS
  <2>2. Marks(<<p>>) = {1}
    <3>1. p \in Parameters
      BY DEF Framed
    <3> HIDE DEF Framed
    <3> QED BY <2>1, <3>1 DEF Marks
  <2>3. UsedIn(<<p>>) = {p}
    BY <2>1, <2>2 DEF UsedIn
  <2> QED BY <1>1, <2>3, Zenon
<1>4. UsedIn(lit) = {} /\ UsedIn(e) = {}
  BY DEF UsedIn, Framed
<1>5. UsedIn(x) = UsedIn(t2) /\ (Distinct(x) => Distinct(t2))
  BY <1>1, <1>2, <1>4, Zenon DEF ConcatMarks
<1>6. UsedIn(y) = {p} \cup UsedIn(x) /\ (Distinct(y) => Distinct(x) /\ {p} \cap UsedIn(x) = {})
  BY <1>1, <1>2, <1>3, Zenon DEF ConcatMarks
<1>7. UsedIn(t) = UsedIn(y) /\ (Distinct(t) => Distinct(y))
  BY <1>1, <1>2, <1>4, Zenon DEF ConcatMarks
<1> QED BY <1>5, <1>6, <1>7, Zenon

PutTogether(t, b, lit, p, e, t2) == Substituted(t, b) = lit \o (b[p] \o (e \o Substituted(t2, b)))

LEMMA AroundSubstituted ==
  ASSUME NEW A, NEW lit \in Seq(A), NEW e \in Seq(A), NEW t2 \in Seq(A), NEW p \in A,
         NEW t, Framed(t, lit, p, e, t2), NEW b, Binds(b, t, A)
  PROVE  PutTogether(t, b, lit, p, e, t2)
<1>1. PICK x \in Seq(A), y \in Seq(A), w \in Seq(A) : x = e \o t2 /\ w = <<p>> /\ y = w \o x /\ t = lit \o y
  <2>1. PICK w \in Seq(A) : w = <<p>>
    <3>1. <<p>> \in Seq(A)
      OBVIOUS
    <3> QED BY <3>1, Zenon
  <2>2. PICK x \in Seq(A) : x = e \o t2
    BY ConcatProperties
  <2>3. PICK y \in Seq(A) : y = w \o x
    BY ConcatProperties
  <2> QED BY <2>1, <2>2, <2>3, Zenon DEF Framed
<1>2. ConcatMarks(e, t2) /\ ConcatMarks(w, x) /\ ConcatMarks(lit, y)
  BY MarksConcat
<1>3. Binds(b, t, A) /\ Binds(b, y, A) /\ Binds(b, x, A)
  BY <1>1, <1>2, Zenon DEF ConcatMarks, Binds
<1>4. SubstitutesBoth(lit, y, b, A) /\ SubstitutesBoth(w, x, b, A) /\ SubstitutesBoth(e, t2, b, A)
  BY BothSubstituted
<1>5. /\ Substituted(t, b) = Substituted(lit, b) \o Substituted(y, b)
      /\ Substituted(y, b) = Substituted(w, b) \o Substituted(x, b)
      /\ Substituted(x, b) = Substituted(e, b) \o Substituted(t2, b)
  BY <1>1, <1>3, <1>4, Zenon DEF SubstitutesBoth
<1>6. Substituted(lit, b) = lit /\ Substituted(e, b) = e
  BY PlainStays DEF Framed
<1>7. p \in UsedIn(t)
  BY AroundUsed
<1>8. b[p] \in Seq(A)
  BY <1>7, Zenon DEF Binds
<1>9. Substituted(w, b) = b[p]
  <2>1. p \in Parameters
    BY DEF Framed
  <2>2. Substituted(<<p>>, b) = b[p]
    BY <1>8, <2>1, OneMark
  <2> QED BY <1>1, <2>2, Zenon
<1> QED BY <1>5, <1>6, <1>9, Zenon DEF PutTogether

\* The bindings are those of the parameters, and the template with them is the URI.
BoundAs(A, t, u, c) == Binds(c, t, A) /\ DOMAIN c = UsedIn(t) /\ Substituted(t, c) = u
EndsInMark(t) == t = <<>> \/ Len(t) \in Marks(t)
Answers(A, t, u, m) ==
  m.status = "match" /\ Distinct(t) /\ EndsInMark(t) => BoundAs(A, t, u, m.bound)

LEMMA MoreBound ==
  ASSUME NEW A, NEW t \in Seq(A), NEW u, NEW p \in A, NEW v \in Seq(A), NEW t2 \in Seq(A), NEW u2 \in Seq(A),
         NEW c, Around(A, t, u, p, v, t2, u2), p \in Parameters, Distinct(t), BoundAs(A, t2, u2, c)
  PROVE  BoundAs(A, t, u, Extend(c, p, v))
<1>1. PICK lit \in Seq(A), e \in Seq(A) :
        /\ Marks(lit) = {} /\ Marks(e) = {}
        /\ t = lit \o (<<p>> \o (e \o t2)) /\ u = lit \o (v \o (e \o u2))
  BY Zenon DEF Around
<1>2. Framed(t, lit, p, e, t2)
  BY <1>1, Zenon DEF Framed
<1>3. UsedIn(t) = {p} \cup UsedIn(t2) /\ p \notin UsedIn(t2)
  BY <1>2, AroundUsed
<1>4. PICK b : b = Extend(c, p, v)
  OBVIOUS
<1>5. DOMAIN c = UsedIn(t2)
  BY DEF BoundAs
<1>6. DOMAIN b = UsedIn(t) /\ b[p] = v /\ \A q \in UsedIn(t2) : b[q] = c[q]
  BY <1>3, <1>4, <1>5 DEF Extend
<1>7. Binds(b, t, A)
  BY <1>3, <1>6 DEF Binds, BoundAs
<1>8. Substituted(t2, b) = u2
  <2>1. Substituted(t2, b) = Substituted(t2, c)
    BY <1>6, SameBindings
  <2> QED BY <2>1 DEF BoundAs
<1>9. Substituted(t, b) = lit \o (b[p] \o (e \o Substituted(t2, b)))
  <2>1. PutTogether(t, b, lit, p, e, t2)
    BY <1>2, <1>7, AroundSubstituted
  <2> QED BY <2>1, Zenon DEF PutTogether
<1>10. Substituted(t, b) = u
  BY <1>1, <1>6, <1>8, <1>9, Zenon
<1> QED BY <1>4, <1>6, <1>7, <1>10, Zenon DEF BoundAs

LEMMA PlainMatch ==
  ASSUME NEW A, NEW t \in Seq(A), Placeholder(t) = 0
  PROVE  BoundAs(A, t, t, <<>>)
<1>1. Marks(t) = {}
  BY FirstMark
<1>2. UsedIn(t) = {}
  BY <1>1 DEF UsedIn
<1>3. Substituted(t, <<>>) = t
  BY <1>1, PlainStays
<1> QED BY <1>2, <1>3 DEF BoundAs, Binds

LEMMA NextBound ==
  ASSUME NEW A, NEW M, NEW t \in Seq(A), NEW u \in Seq(A),
         \A x, y \in Seq(A) : Len(x) < Len(t) => Answers(A, x, y, M[x][y])
  PROVE  Answers(A, t, u, MatchBody(M, t, u))
<1> SUFFICES ASSUME MatchBody(M, t, u).status = "match", Distinct(t), EndsInMark(t)
             PROVE  BoundAs(A, t, u, MatchBody(M, t, u).bound)
  BY Zenon DEF Answers
<1>1. NoMatch.status # "match"
  BY DEF NoMatch
<1>2. CASE Placeholder(t) = 0
  <2>1. MatchBody(M, t, u) = IF t = u THEN [status |-> "match", bound |-> <<>>] ELSE NoMatch
    BY <1>2, Zenon DEF MatchBody
  <2>2. t = u /\ MatchBody(M, t, u).bound = <<>>
    BY <1>1, <2>1
  <2> QED BY <1>2, <2>2, PlainMatch, Zenon
<1>3. CASE Placeholder(t) # 0
  <2>1. FirstParameter(t, u).status = "match"
    BY <1>1, <1>3, Zenon DEF MatchBody
  <2>2. FirstIs(A, t, u, FirstParameter(t, u))
    BY <1>3, <2>1, FirstSplits
  <2>3. PICK v \in Seq(A), t2 \in Seq(A), u2 \in Seq(A), p \in A :
          /\ p \in Parameters /\ FirstParameter(t, u) = MatchOf(p, v, t2, u2) /\ Len(t2) < Len(t)
          /\ Len(t) \in Marks(t) => Around(A, t, u, p, v, t2, u2)
    BY <2>2, Zenon DEF FirstIs
  <2>4. /\ FirstParameter(t, u).template = t2 /\ FirstParameter(t, u).uri = u2
        /\ FirstParameter(t, u).param = p /\ FirstParameter(t, u).value = v
    BY <2>3 DEF MatchOf
  <2>5. MatchBody(M, t, u) = IF M[t2][u2].status # "match" THEN NoMatch
                        ELSE [status |-> "match", bound |-> Extend(M[t2][u2].bound, p, v)]
    BY <1>3, <2>1, <2>4, Zenon DEF MatchBody
  <2>6. M[t2][u2].status = "match"
    BY <1>1, <2>5
  <2>7. MatchBody(M, t, u).bound = Extend(M[t2][u2].bound, p, v)
    <3> DEFINE more == Extend(M[t2][u2].bound, p, v)
    <3>1. MatchBody(M, t, u) = [status |-> "match", bound |-> more]
      BY <2>5, <2>6
    <3> HIDE DEF more
    <3>2. MatchBody(M, t, u).bound = more
      BY <3>1
    <3> QED BY <3>2 DEF more
  <2>8. Len(t) \in Marks(t)
    <3>1. CASE t = <<>>
      <4>1. Marks(<<>>) = {} /\ <<>> \in Seq(A)
        BY DEF Marks
      <4>2. Placeholder(t) = 0
        BY <3>1, <4>1, FirstMark
      <4> QED BY <1>3, <4>2
    <3> QED BY <3>1 DEF EndsInMark
  <2>9. PICK lit \in Seq(A), e \in Seq(A) :
          /\ Marks(lit) = {} /\ Marks(e) = {} /\ t = lit \o (<<p>> \o (e \o t2))
          /\ t2 = <<>> \/ Len(t2) \in Marks(t2)
    BY <2>3, <2>8, Zenon DEF Around
  <2>10. Framed(t, lit, p, e, t2)
    BY <2>3, <2>9, Zenon DEF Framed
  <2>11. Distinct(t2) /\ EndsInMark(t2)
    <3>1. Distinct(t2)
      BY <2>10, AroundUsed
    <3> QED BY <2>9, <3>1, Zenon DEF EndsInMark
  <2>12. BoundAs(A, t2, u2, M[t2][u2].bound)
    BY <2>3, <2>6, <2>11, Zenon DEF Answers
  <2>13. BoundAs(A, t, u, Extend(M[t2][u2].bound, p, v))
    BY <2>3, <2>8, <2>12, MoreBound
  <2> QED BY <2>7, <2>13, Zenon
<1> QED BY <1>2, <1>3

\* Whatever matches is the substitution of its bindings.
LEMMA MatchesAreBound ==
  \A t, u \in Seq(STRING) : Answers(STRING, t, u, Match[t][u])
<1>1. PICK A : A = STRING
  OBVIOUS
<1> DEFINE Good(n) == \A t, u \in Seq(A) : Len(t) = n => Answers(A, t, u, Match[t][u])
<1>2. PICK T \in SUBSET Nat : \A n \in Nat : n \in T <=> ~ Good(n)
  <2>1. {n \in Nat : ~ Good(n)} \in SUBSET Nat
    OBVIOUS
  <2> QED BY <2>1
<1>3. \A t \in Seq(A) : Len(t) \in Nat
  BY LenProperties
<1>4. CASE T # {}
  <2>1. PICK m \in T : \A k \in T : m <= k
    BY <1>4, LeastOf
  <2>2. m \in Nat /\ ~ Good(m)
    BY <1>2, <2>1
  <2>3. PICK t \in Seq(A), u \in Seq(A) : Len(t) = m /\ ~ Answers(A, t, u, Match[t][u])
    BY <2>2
  <2>4. ASSUME NEW x \in Seq(A), NEW y \in Seq(A), Len(x) < Len(t) PROVE Answers(A, x, y, Match[x][y])
    <3>1. PICK l \in Nat : l = Len(x) /\ l < m
      BY <1>3, <2>2, <2>3, <2>4
    <3>2. l \notin T
      BY <2>1, <2>2, <3>1
    <3>3. Good(l)
      BY <1>2, <3>2, Zenon
    <3> QED BY <3>1, <3>3, Zenon
  <2>5. Answers(A, t, u, MatchBody(Match, t, u))
    BY <2>4, NextBound
  <2>6. Match[t][u] = MatchBody(Match, t, u)
    BY <1>1, MatchIs, Zenon
  <2> QED BY <2>3, <2>5, <2>6, Zenon
<1>5. CASE T = {}
  <2>1. \A n \in Nat : Good(n)
    BY <1>2, <1>5, Zenon
  <2>2. ASSUME NEW t \in Seq(A), NEW u \in Seq(A) PROVE Answers(A, t, u, Match[t][u])
    <3>1. Good(Len(t))
      BY <1>3, <2>1, Zenon
    <3> QED BY <3>1, Zenon
  <2> QED BY <1>1, <2>2, Zenon
<1> QED BY <1>4, <1>5

\* What was chosen for a read is a template that matches the URI, with its bindings.
Chosen(call, choice) ==
  call.method = "read" /\ choice # NoChoice =>
    /\ call.key \in Seq(STRING) /\ choice.key \in Seq(STRING)
    /\ Match[choice.key][call.key].status = "match"
    /\ choice.bound = Match[choice.key][call.key].bound
KeysAreTexts == \A e \in entries : e.key \in Seq(STRING)
ReadInv == KeysAreTexts /\ Chosen(asked, chosen)

LEMMA ReadsMatch ==
  ASSUME NEW call, NEW es, call.method = "read", NEW r \in Replies(call, es), r.status = "render"
  PROVE  \E e \in es : /\ Match[e.key][call.key].status = "match"
                       /\ r.entry = e /\ r.bound = Match[e.key][call.key].bound
<1>1. \A status : status # "render" => Refuse(status).status # "render"
  BY DEF Refuse
<1>2. r \in ReadResource(call, es)
  <2>1. "read" \in Handlers /\ "read" \notin DOMAIN ListKind
    BY DEF Handlers, ListKind
  <2>2. CASE ~Authorized(call, es)
    <3>1. r = Refuse("unauthorized")
      BY <2>1, <2>2 DEF Replies
    <3> QED BY <1>1, <3>1
  <2>3. CASE Authorized(call, es)
    BY <2>1, <2>3 DEF Replies
  <2> QED BY <2>2, <2>3
<1> DEFINE templates == {e \in Of(Visible(call, es), "template") :
                           MatchUriTemplate(e.key, call.key).status = "match"}
<1>3. PICK e \in templates : r = Rendering(e, MatchUriTemplate(e.key, call.key).bound)
  <2>1. CASE Named(es, "resource", call.key) # {}
    <3>1. PICK e : r = IF Satisfies(call, e) THEN [status |-> "text", entry |-> e.key, text |-> e.text]
                       ELSE Refuse("unknown")
      BY <1>2, <2>1, Zenon DEF ReadResource
    <3> QED BY <1>1, <3>1
  <2>2. CASE Named(es, "resource", call.key) = {} /\ templates = {}
    <3>1. r \in {Refuse("unknown")}
      BY <1>2, <2>2, Zenon DEF ReadResource
    <3> QED BY <1>1, <3>1
  <2>3. CASE Named(es, "resource", call.key) = {} /\ templates # {}
    BY <1>2, <2>3, Zenon DEF ReadResource
  <2> QED BY <2>1, <2>2, <2>3
<1>4. e \in es /\ Match[e.key][call.key].status = "match"
  BY DEF Of, Visible, MatchUriTemplate
<1>5. r = Rendering(e, Match[e.key][call.key].bound)
  BY <1>3, Zenon DEF MatchUriTemplate
<1>6. r.entry = e /\ r.bound = Match[e.key][call.key].bound
  <2>1. PICK b : b = Match[e.key][call.key].bound
    OBVIOUS
  <2>2. r = [status |-> "render", entry |-> e, bound |-> b]
    BY <1>5, <2>1, Zenon DEF Rendering
  <2>3. r.entry = e /\ r.bound = b
    BY <2>2
  <2> QED BY <2>1, <2>3
<1> QED BY <1>4, <1>6

\* A parameter for every place: none occurs twice.
LEMMA CountedApart ==
  ASSUME NEW A, NEW t \in Seq(A), Cardinality(UsedIn(t)) = Cardinality(Marks(t))
  PROVE  Distinct(t)
<1>1. IsFiniteSet(Marks(t))
  <2>1. Len(t) \in Nat /\ DOMAIN t = 1..Len(t)
    BY LenProperties
  <2>2. IsFiniteSet(1..Len(t)) /\ Marks(t) \subseteq 1..Len(t)
    BY <2>1, FS_Interval DEF Marks
  <2> QED BY <2>2, FS_Subset
<1>2. PICK f : f = [i \in Marks(t) |-> t[i]]
  OBVIOUS
<1>3. f \in Surjection(Marks(t), UsedIn(t))
  BY <1>2 DEF Surjection, UsedIn
<1>4. f \in Injection(Marks(t), UsedIn(t))
  BY <1>1, <1>3, FS_SurjSameCardinalityImpliesInj
<1> QED BY <1>2, <1>4 DEF Injection, IsInjective, Distinct

LEMMA ChosenSubstitutes == Chosen(asked, chosen) => MatchIsSubstitution
<1> SUFFICES ASSUME Chosen(asked, chosen), asked.method = "read" /\ chosen # NoChoice,
                    Cardinality(UsedIn(chosen.key)) = Cardinality(Marks(chosen.key)),
                    Len(chosen.key) \in Marks(chosen.key)
             PROVE  Substituted(chosen.key, chosen.bound) = asked.key
  BY Zenon DEF MatchIsSubstitution, UsedIn, Marks
<1>1. PICK A : A = STRING
  OBVIOUS
<1>2. PICK t \in Seq(A), u \in Seq(A) :
        /\ t = chosen.key /\ u = asked.key
        /\ Match[t][u].status = "match" /\ chosen.bound = Match[t][u].bound
  BY <1>1, Zenon DEF Chosen
<1>3. Distinct(t) /\ EndsInMark(t)
  BY <1>2, CountedApart DEF EndsInMark
<1>4. Answers(A, t, u, Match[t][u])
  BY <1>1, <1>2, MatchesAreBound, Zenon
<1>5. BoundAs(A, t, u, Match[t][u].bound)
  BY <1>2, <1>3, <1>4, Zenon DEF Answers
<1> QED BY <1>2, <1>5, Zenon DEF BoundAs

LEMMA ReadNext == ReadInv /\ [CatalogNext]_catalogVars => ReadInv'
<1> SUFFICES ASSUME ReadInv, [CatalogNext]_catalogVars PROVE ReadInv'
  OBVIOUS
<1>1. CASE UNCHANGED <<entries, asked, chosen>>
  BY <1>1 DEF ReadInv, KeysAreTexts, Chosen
<1>2. ASSUME NEW o \in Offers, NEW text, RegisterEntry(o, text) PROVE ReadInv'
  <2>1. Extend(o, "text", text).key = o.key /\ o.key \in Seq(STRING)
    <3>1. "key" \in DOMAIN o /\ o.key \in Seq(STRING)
      BY OffersAssumption
    <3> QED BY <3>1 DEF Extend
  <2>2. \A e \in entries' : e \in entries \/ e = Extend(o, "text", text)
    BY <1>2 DEF RegisterEntry
  <2>3. KeysAreTexts'
    BY <2>1, <2>2, Zenon DEF ReadInv, KeysAreTexts
  <2> QED BY <1>2, <2>3 DEF RegisterEntry, ReadInv, Chosen
<1>3. ASSUME NEW o \in Offers, RegisterTool(o) \/ RegisterPrompt(o) \/ RegisterResource(o) PROVE ReadInv'
  BY <1>2, <1>3 DEF RegisterTool, RegisterPrompt, RegisterResource
<1>4. ASSUME NEW f, DeregisterFlow(f) PROVE ReadInv'
  BY <1>4 DEF DeregisterFlow, ReadInv, KeysAreTexts, Chosen
<1>5. ASSUME NEW state, ReplaceFile(state) PROVE ReadInv'
  BY <1>1, <1>5 DEF ReplaceFile
<1>6. ASSUME NEW call \in Calls, AskServer(call) PROVE ReadInv'
  <2>1. KeysAreTexts'
    BY <1>6 DEF AskServer, ReadInv, KeysAreTexts
  <2>2. PICK r \in Replies(call, entries) :
          IF r.status = "render"
          THEN chosen' = [key |-> r.entry.key, bound |-> r.bound, source |-> r.entry.source]
          ELSE chosen' = NoChoice
    BY <1>6, Zenon DEF AskServer
  <2>3. ASSUME call.method = "read", chosen' # NoChoice
        PROVE  /\ call.key \in Seq(STRING) /\ chosen'.key \in Seq(STRING)
               /\ Match[chosen'.key][call.key].status = "match"
               /\ chosen'.bound = Match[chosen'.key][call.key].bound
    <3>1. r.status = "render"
      BY <2>2, <2>3
    <3>2. PICK e \in entries : /\ Match[e.key][call.key].status = "match"
                               /\ r.entry = e /\ r.bound = Match[e.key][call.key].bound
      BY <2>3, <3>1, ReadsMatch
    <3>3. chosen'.key = e.key /\ chosen'.bound = r.bound
      BY <2>2, <3>1, <3>2
    <3>4. call.key \in Seq(STRING) /\ e.key \in Seq(STRING)
      BY CallsAssumption DEF ReadInv, KeysAreTexts
    <3> QED BY <3>2, <3>3, <3>4, Zenon
  <2>4. asked' = call
    BY <1>6 DEF AskServer
  <2>5. Chosen(asked, chosen)'
    BY <2>3, <2>4, Zenon DEF Chosen
  <2> QED BY <2>1, <2>5 DEF ReadInv
<1>7. CASE RenderInline \/ LoadFile \/ LoadCopy
  BY <1>1, <1>7 DEF RenderInline, LoadFile, LoadCopy, Render
<1>8. CASE TakeReply
  BY <1>8 DEF TakeReply, ReadInv, KeysAreTexts, Chosen
<1>9. CASE UNCHANGED catalogVars
  BY <1>1, <1>9 DEF catalogVars
<1> QED BY <1>3, <1>4, <1>5, <1>6, <1>7, <1>8, <1>9 DEF CatalogNext

\* A URI is answered by a template that becomes this URI when every parameter is
\* replaced by what it was bound to, whatever texts are registered and asked for
\* (match_uri_template in handle_resources_read).
THEOREM MatchesSubstitute == CatalogSteps => []MatchIsSubstitution
<1>1. CatalogInit => ReadInv
  BY DEF CatalogInit, ReadInv, KeysAreTexts, Chosen, NoCall
<1>2. ReadInv => MatchIsSubstitution
  BY ChosenSubstitutes DEF ReadInv
<1> QED BY <1>1, <1>2, ReadNext, PTL DEF CatalogSteps

-----------------------------------------------------------------------------
(* Clients: one login until a key is removed.                               *)

CallerPcs == {"get", "guard", "lock", "check", "init", "insert", "unguard", "setup", "use", "remove", "remove_guard"}

ClientTypes ==
  /\ caller \in [Callers -> [pc : CallerPcs, client : Nat, guard : Nat]]
  /\ made \in [clients : Nat, guards : Nat]
  /\ clients \in Nat /\ guards \in Nat /\ removes \in Nat

\* Where a caller holds its guard and has not put a client under the key yet.
Making(c) == caller[c].pc \in {"check", "init", "insert"}

\* Before there is a client: one guard, which whoever makes the client holds alone.
Unmade ==
  clients = 0 =>
    /\ guards = made.guards /\ made.guards \in {0, 1}
    /\ \A c \in Callers :
         /\ caller[c].pc \notin {"unguard", "setup", "use", "remove"}
         /\ Making(c) \/ CallerAt(c, "lock") => caller[c].guard = 1 /\ made.guards = 1
         /\ Making(c) => 1 \in locked /\ \A d \in Callers : Making(d) => d = c
         /\ CallerAt(c, "insert") => made.clients = 1 /\ caller[c].client = 1
    /\ (\A c \in Callers : ~CallerAt(c, "insert")) => made.clients = 0

\* Once there is one, nobody makes another, whatever guards they wait for.
Made ==
  clients # 0 =>
    /\ clients = 1 /\ made.clients = 1
    /\ \A c \in Callers :
         /\ caller[c].pc \notin {"init", "insert"}
         /\ caller[c].pc \in {"unguard", "setup", "use", "remove"} => caller[c].client = 1

FirstLogin == removes = 0 => Unmade /\ Made /\ \A c \in Callers : ~CallerAt(c, "remove_guard")

ClientInv == ClientTypes /\ FirstLogin

LEMMA ClientTypesKept ==
  ASSUME ClientTypes, [ClientsNext]_clientVars
  PROVE  ClientTypes'
<1> USE DEF ClientTypes, CallerPcs
<1>1. ASSUME NEW c \in Callers, Lookup(c) \/ Check(c) PROVE ClientTypes'
  <2>1. CASE Has(c, clients)
    BY <1>1, <2>1 DEF Has, Lookup, Check
  <2>2. CASE CallerGoes(c, "guard") \/ CallerGoes(c, "init")
    BY <1>1, <2>2 DEF Lookup, Check, CallerGoes
  <2> QED BY <1>1, <2>1, <2>2 DEF Lookup, Check
<1>2. ASSUME NEW c \in Callers, TakeGuard(c) PROVE ClientTypes'
  <2>1. guards' \in Nat /\ made' \in [clients : Nat, guards : Nat]
    BY <1>2 DEF TakeGuard
  <2>2. caller' \in [Callers -> [pc : CallerPcs, client : Nat, guard : Nat]]
    <3>1. PICK r \in [pc : CallerPcs, client : Nat, guard : Nat] : caller' = [caller EXCEPT ![c] = r]
      <4>1. caller[c] \in [pc : CallerPcs, client : Nat, guard : Nat]
        OBVIOUS
      <4> QED BY <1>2, <2>1, <4>1 DEF TakeGuard
    <3> QED BY <3>1
  <2> QED BY <1>2, <2>1, <2>2 DEF TakeGuard
<1>3. ASSUME NEW c \in Callers, Lock(c) \/ LoginFails(c) \/ Lost(c) \/ RemoveClient(c) \/ RemoveGuard(c)
      PROVE ClientTypes'
  BY <1>3 DEF Lock, LoginFails, Lost, RemoveClient, RemoveGuard, CallerGoes
<1>4. ASSUME NEW c \in Callers, Login(c) \/ Insert(c) PROVE ClientTypes'
  BY <1>4 DEF Login, Insert, CallerGoes
<1>5. ASSUME NEW c \in Callers, Unguard(c) PROVE ClientTypes'
  BY <1>5 DEF Unguard, Has
<1>6. ASSUME NEW c \in Callers, Setup(c) PROVE ClientTypes'
  BY <1>6 DEF Setup, CallerGoes
<1>7. ASSUME NEW client, Dies(client) PROVE ClientTypes'
  BY <1>7 DEF Dies
<1>8. CASE UNCHANGED clientVars
  BY <1>8 DEF clientVars
<1> QED BY <1>1, <1>2, <1>3, <1>4, <1>5, <1>6, <1>7, <1>8 DEF ClientsNext, CallerStep

LEMMA FirstLoginKept ==
  ASSUME ClientTypes, FirstLogin, [ClientsNext]_clientVars
  PROVE  FirstLogin'
<1> SUFFICES ASSUME removes' = 0 PROVE Unmade' /\ Made' /\ \A c \in Callers : ~CallerAt(c, "remove_guard")'
  BY DEF FirstLogin
<1> USE DEF ClientTypes, CallerPcs, CallerAt
<1>1. ASSUME NEW c \in Callers, CallerStep(c) \/ UNCHANGED removes PROVE removes = 0
  BY <1>1 DEF CallerStep, Lookup, TakeGuard, Lock, Check, Login, LoginFails, Insert, Unguard, Setup, Lost,
              RemoveClient, RemoveGuard
<1> DEFINE Goal == Unmade' /\ Made' /\ \A c \in Callers : ~CallerAt(c, "remove_guard")'
<1>2. ASSUME removes = 0 PROVE Unmade /\ Made /\ \A c \in Callers : ~CallerAt(c, "remove_guard")
  BY <1>2 DEF FirstLogin
<1>3. ASSUME NEW c \in Callers, Lookup(c) PROVE Goal
  <2> USE <1>3, <1>1, <1>2 DEF Lookup, Has, CallerGoes
  <2>1. removes = 0 /\ Unmade /\ Made
    BY DEF CallerStep
  <2>2. CASE clients = 0
    BY <2>1, <2>2 DEF Unmade, Made, Making
  <2>3. CASE clients # 0
    <3>1. caller' = [caller EXCEPT ![c] = [pc |-> "setup", client |-> clients, guard |-> 0]]
      BY <2>3 DEF Has
    <3> QED BY <2>1, <2>3, <3>1 DEF Unmade, Made, Making
  <2> QED BY <2>2, <2>3
<1>4. ASSUME NEW c \in Callers, TakeGuard(c) PROVE Goal
  <2>1. removes = 0 /\ Unmade /\ Made /\ \A d \in Callers : ~CallerAt(d, "remove_guard")
    BY <1>4, <1>2 DEF TakeGuard
  <2>2. (guards' = 1 /\ made'.guards = 1) \/ clients # 0
    BY <1>4, <2>1 DEF TakeGuard, Unmade
  <2>3. /\ made'.clients = made.clients /\ clients' = clients /\ locked' = locked
        /\ caller'[c].pc = "lock" /\ caller'[c].guard = guards' /\ caller[c].pc = "guard"
        /\ \A d \in Callers \ {c} : caller'[d] = caller[d]
    BY <1>4 DEF TakeGuard
  <2>4. Unmade'
    BY <2>1, <2>2, <2>3 DEF Unmade, Making
  <2>5. Made'
    BY <2>1, <2>3 DEF Made
  <2> QED BY <2>1, <2>3, <2>4, <2>5
<1>5. ASSUME NEW c \in Callers, Lock(c) PROVE Goal
  <2>1. removes = 0 /\ Unmade /\ Made /\ \A d \in Callers : ~CallerAt(d, "remove_guard")
    BY <1>5, <1>2 DEF Lock
  <2>2. /\ UNCHANGED <<clients, guards, made>> /\ locked' = locked \cup {caller[c].guard}
        /\ caller[c].pc = "lock" /\ caller[c].guard \notin locked
        /\ caller'[c].pc = "check" /\ caller'[c].guard = caller[c].guard
        /\ \A d \in Callers \ {c} : caller'[d] = caller[d]
    BY <1>5 DEF Lock, CallerGoes
  <2>3. clients = 0 => \A d \in Callers : ~Making(d)
    BY <2>1, <2>2 DEF Unmade
  <2>4. Unmade'
    BY <2>1, <2>2, <2>3 DEF Unmade, Making
  <2>5. Made'
    BY <2>1, <2>2 DEF Made
  <2> QED BY <2>1, <2>2, <2>4, <2>5
<1>6. ASSUME NEW c \in Callers, Check(c) PROVE Goal
  <2>1. removes = 0 /\ Unmade /\ Made /\ \A d \in Callers : ~CallerAt(d, "remove_guard")
    BY <1>6, <1>2 DEF Check
  <2>2. UNCHANGED <<clients, guards, made>> /\ caller[c].pc = "check" /\ \A d \in Callers \ {c} : caller'[d] = caller[d]
    BY <1>6 DEF Check, Has, CallerGoes
  <2>3. CASE clients = 0
    <3>1. caller'[c].pc = "init" /\ caller'[c].guard = caller[c].guard /\ locked' = locked
      BY <1>6, <2>3 DEF Check, CallerGoes
    <3> QED BY <2>1, <2>2, <2>3, <3>1 DEF Unmade, Made, Making
  <2>4. CASE clients # 0
    <3>1. caller'[c].pc = "setup" /\ caller'[c].client = clients
      BY <1>6, <2>4 DEF Has, Check
    <3> QED BY <2>1, <2>2, <2>4, <3>1 DEF Unmade, Made
  <2> QED BY <2>3, <2>4
<1>7. ASSUME NEW c \in Callers, Login(c) PROVE Goal
  <2>1. removes = 0 /\ Unmade /\ Made /\ \A d \in Callers : ~CallerAt(d, "remove_guard")
    BY <1>7, <1>2 DEF Login
  <2>2. /\ UNCHANGED <<clients, guards, locked>> /\ caller[c].pc = "init"
        /\ made'.guards = made.guards /\ made'.clients = made.clients + 1
        /\ caller'[c].pc = "insert" /\ caller'[c].guard = caller[c].guard /\ caller'[c].client = made.clients + 1
        /\ \A d \in Callers \ {c} : caller'[d] = caller[d]
    BY <1>7 DEF Login
  <2>3. clients = 0 /\ \A d \in Callers : ~CallerAt(d, "insert")
    BY <2>1, <2>2 DEF Unmade, Made, Making
  <2>4. made.clients = 0
    BY <2>1, <2>3 DEF Unmade
  <2>5. Unmade'
    BY <2>1, <2>2, <2>3, <2>4 DEF Unmade, Making
  <2> QED BY <2>1, <2>2, <2>3, <2>5 DEF Made
<1>8. ASSUME NEW c \in Callers, LoginFails(c) PROVE Goal
  <2>1. removes = 0 /\ Unmade /\ Made /\ \A d \in Callers : ~CallerAt(d, "remove_guard")
    BY <1>8, <1>2 DEF LoginFails
  <2>2. /\ UNCHANGED <<clients, guards, made>> /\ caller[c].pc = "init"
        /\ caller'[c].pc = "get" /\ \A d \in Callers \ {c} : caller'[d] = caller[d]
    BY <1>8 DEF LoginFails, CallerGoes
  <2>3. clients = 0 /\ \A d \in Callers \ {c} : ~Making(d)
    BY <2>1, <2>2 DEF Unmade, Made, Making
  <2>4. Unmade'
    BY <2>1, <2>2, <2>3 DEF Unmade, Making
  <2> QED BY <2>1, <2>2, <2>3, <2>4 DEF Made
<1>9. ASSUME NEW c \in Callers, Insert(c) PROVE Goal
  <2>1. removes = 0 /\ Unmade /\ Made /\ \A d \in Callers : ~CallerAt(d, "remove_guard")
    BY <1>9, <1>2 DEF Insert
  <2>2. /\ UNCHANGED <<guards, locked, made>> /\ caller[c].pc = "insert" /\ clients' = caller[c].client
        /\ caller'[c].pc = "unguard" /\ caller'[c].client = caller[c].client
        /\ \A d \in Callers \ {c} : caller'[d] = caller[d]
    BY <1>9 DEF Insert, CallerGoes
  <2>3. clients = 0 /\ caller[c].client = 1 /\ made.clients = 1
    BY <2>1, <2>2 DEF Unmade, Made
  <2>4. \A d \in Callers \ {c} : ~Making(d) /\ caller[d].pc \notin {"unguard", "setup", "use", "remove"}
    BY <2>1, <2>2, <2>3 DEF Unmade, Making
  <2>5. Made'
    BY <2>2, <2>3, <2>4 DEF Made, Making
  <2> QED BY <2>1, <2>2, <2>3, <2>5 DEF Unmade
<1>10. ASSUME NEW c \in Callers, Unguard(c) PROVE Goal
  <2>1. removes = 0 /\ Unmade /\ Made /\ \A d \in Callers : ~CallerAt(d, "remove_guard")
    BY <1>10, <1>2 DEF Unguard
  <2>2. /\ UNCHANGED <<clients, made>> /\ caller[c].pc = "unguard"
        /\ caller'[c].pc = "setup" /\ caller'[c].client = caller[c].client
        /\ \A d \in Callers \ {c} : caller'[d] = caller[d]
    BY <1>10 DEF Unguard, Has
  <2>3. clients # 0
    BY <2>1, <2>2 DEF Unmade
  <2> QED BY <2>1, <2>2, <2>3 DEF Unmade, Made
<1>11. ASSUME NEW c \in Callers, Setup(c) PROVE Goal
  <2>1. removes = 0 /\ Unmade /\ Made /\ \A d \in Callers : ~CallerAt(d, "remove_guard")
    BY <1>11, <1>2 DEF Setup
  <2>2. /\ UNCHANGED <<clients, made>> /\ caller[c].pc = "setup"
        /\ caller'[c].pc \in {"get", "use"} /\ caller'[c].client = caller[c].client
        /\ \A d \in Callers \ {c} : caller'[d] = caller[d]
    BY <1>11 DEF Setup, CallerGoes
  <2>3. clients # 0
    BY <2>1, <2>2 DEF Unmade
  <2> QED BY <2>1, <2>2, <2>3 DEF Unmade, Made
<1>12. ASSUME NEW c \in Callers, Lost(c) PROVE Goal
  <2>1. removes = 0 /\ Unmade /\ Made /\ \A d \in Callers : ~CallerAt(d, "remove_guard")
    BY <1>12, <1>2 DEF Lost
  <2>2. /\ UNCHANGED <<clients, made>> /\ caller[c].pc = "use"
        /\ caller'[c].pc = "remove" /\ caller'[c].client = caller[c].client
        /\ \A d \in Callers \ {c} : caller'[d] = caller[d]
    BY <1>12 DEF Lost, CallerGoes
  <2>3. clients # 0
    BY <2>1, <2>2 DEF Unmade
  <2> QED BY <2>1, <2>2, <2>3 DEF Unmade, Made
<1>13. ASSUME NEW c \in Callers PROVE ~RemoveClient(c) /\ ~RemoveGuard(c)
  <2>1. ~RemoveClient(c)
    BY DEF RemoveClient
  <2>2. RemoveGuard(c) => removes = 0
    BY DEF RemoveGuard
  <2> QED BY <2>1, <2>2, <1>2 DEF RemoveGuard
<1>14. CASE UNCHANGED <<clients, guards, locked, made, caller, removes>>
  BY <1>2, <1>14 DEF Unmade, Made, Making
<1>15. ASSUME NEW client, Dies(client) PROVE Goal
  BY <1>14, <1>15 DEF Dies
<1>16. CASE UNCHANGED clientVars
  BY <1>14, <1>16 DEF clientVars
<1> QED BY <1>3, <1>4, <1>5, <1>6, <1>7, <1>8, <1>9, <1>10, <1>11, <1>12, <1>13, <1>15, <1>16
       DEF ClientsNext, CallerStep

\* Until a key is removed its client is made once and everybody has that one, for any
\* number of tasks, whatever logins fail and whoever waits for which guard (get_or_init).
THEOREM LoginsAreShared == ClientsInit /\ [][ClientsNext]_clientVars => []OneLogin
<1>1. ClientsInit => ClientInv
  <2> SUFFICES ASSUME ClientsInit PROVE ClientInv
    OBVIOUS
  <2>1. \A c \in Callers : caller[c] = [pc |-> "get", client |-> 0, guard |-> 0]
    BY DEF ClientsInit, NewCaller
  <2>2. ClientTypes
    BY DEF ClientsInit, NewCaller, ClientTypes, CallerPcs
  <2>3. FirstLogin
    BY <2>1 DEF ClientsInit, FirstLogin, Unmade, Made, Making, CallerAt
  <2> QED BY <2>2, <2>3 DEF ClientInv
<1>2. ClientInv /\ [ClientsNext]_clientVars => ClientInv'
  BY ClientTypesKept, FirstLoginKept DEF ClientInv
<1>3. ClientInv => OneLogin
  <2> SUFFICES ASSUME ClientInv, removes = 0
               PROVE  /\ made.clients + Cardinality({c \in Callers : CallerAt(c, "init")}) <= 1
                      /\ \A c \in Callers : CallerAt(c, "use") => caller[c].client = clients
    BY DEF OneLogin
  <2>1. Unmade /\ Made /\ ClientTypes
    BY DEF ClientInv, FirstLogin
  <2>2. CASE \E c \in Callers : CallerAt(c, "init")
    <3>1. PICK c \in Callers : CallerAt(c, "init")
      BY <2>2
    <3>2. clients = 0
      BY <2>1, <3>1 DEF Made, CallerAt
    <3>3. {d \in Callers : CallerAt(d, "init")} = {c} /\ \A d \in Callers : ~CallerAt(d, "insert")
      BY <2>1, <3>1, <3>2 DEF Unmade, Making, CallerAt
    <3>4. made.clients = 0
      BY <2>1, <3>2, <3>3 DEF Unmade
    <3>5. Cardinality({d \in Callers : CallerAt(d, "init")}) = 1
      BY <3>3, FS_Singleton
    <3>6. \A d \in Callers : ~CallerAt(d, "use")
      BY <2>1, <3>2 DEF Unmade, CallerAt
    <3> QED BY <3>4, <3>5, <3>6
  <2>3. CASE ~\E c \in Callers : CallerAt(c, "init")
    <3>1. {d \in Callers : CallerAt(d, "init")} = {}
      BY <2>3
    <3>2. Cardinality({d \in Callers : CallerAt(d, "init")}) = 0
      BY <3>1, FS_EmptySet
    <3>3. made.clients \in {0, 1}
      BY <2>1 DEF Unmade, Made
    <3>4. \A d \in Callers : CallerAt(d, "use") => caller[d].client = clients
      BY <2>1 DEF Unmade, Made, CallerAt
    <3> QED BY <3>2, <3>3, <3>4
  <2> QED BY <2>2, <2>3
<1> QED BY <1>1, <1>2, <1>3, PTL

-----------------------------------------------------------------------------
(* Gateway: a conversation is translated message by message.  Joining and   *)
(* mapping sequences commute, so what the model is given is what is kept of  *)
(* each message, joined; a user's message is scanned block by block.        *)

\* Sequences to which a function is applied are joined.
Images(f, s) == [i \in DOMAIN s |-> f[s[i]]]
Mapped(f, s) == FlattenSeq(Images(f, s))

MapTyped(f, s, B) ==
  Images(f, s) \in Seq(Seq(B)) /\ Len(Images(f, s)) = Len(s) /\ Mapped(f, s) \in Seq(B)

LEMMA MappedTypes == \A S, B : \A f \in [S -> Seq(B)] : \A s \in Seq(S) : MapTyped(f, s, B)
<1> SUFFICES ASSUME NEW S, NEW B, NEW f \in [S -> Seq(B)], NEW s \in Seq(S)
             PROVE  MapTyped(f, s, B)
  OBVIOUS
<1>1. PICK n \in Nat : n = Len(s) /\ DOMAIN s = 1..n /\ \A i \in 1..n : s[i] \in S
  BY LenProperties, ElementOfSeq
<1>2. PICK g : g = Images(f, s)
  OBVIOUS
<1>3. g \in [1..n -> Seq(B)]
  BY <1>1, <1>2 DEF Images
<1>4. g \in Seq(Seq(B))
  BY <1>3, SeqDef
<1>5. Len(g) = n
  BY <1>1, <1>3, <1>4, LenProperties
<1>6. FlattenSeq(g) \in Seq(B)
  BY <1>4, FlattenIsSeq
<1> QED BY <1>1, <1>2, <1>4, <1>5, <1>6, Zenon DEF Mapped, MapTyped

MapsBoth(f, s, t) == Mapped(f, s \o t) = Mapped(f, s) \o Mapped(f, t)

LEMMA MappedConcat ==
  \A S, B : \A f \in [S -> Seq(B)] : \A s, t \in Seq(S) : MapsBoth(f, s, t)
<1> SUFFICES ASSUME NEW S, NEW B, NEW f \in [S -> Seq(B)], NEW s \in Seq(S), NEW t \in Seq(S)
             PROVE  MapsBoth(f, s, t)
  OBVIOUS
<1>1. PICK x \in Seq(S) : x = s \o t
  BY ConcatProperties
<1>2. PICK k \in Nat, n \in Nat :
        /\ k = Len(s) /\ n = Len(t) /\ DOMAIN s = 1..k /\ DOMAIN t = 1..n /\ DOMAIN x = 1..(k + n)
        /\ Len(x) = k + n
        /\ \A i \in 1..k : x[i] = s[i]
        /\ \A i \in 1..n : x[k + i] = t[i]
  <2>1. Len(s) \in Nat /\ Len(t) \in Nat /\ DOMAIN s = 1..Len(s) /\ DOMAIN t = 1..Len(t)
        /\ DOMAIN x = 1..Len(x)
    BY LenProperties
  <2>2. /\ Len(x) = Len(s) + Len(t) /\ \A i \in 1..Len(s) : x[i] = s[i]
        /\ \A i \in 1..Len(t) : x[Len(s) + i] = t[i]
    BY <1>1, <2>1, ConcatProperties
  <2> QED BY <2>1, <2>2
<1>3. PICK a \in Seq(Seq(B)), c \in Seq(Seq(B)), d \in Seq(Seq(B)) :
        /\ a = Images(f, s) /\ c = Images(f, t) /\ d = Images(f, x)
        /\ Len(a) = k /\ Len(c) = n /\ Len(d) = k + n
  <2>1. MapTyped(f, s, B) /\ MapTyped(f, t, B) /\ MapTyped(f, x, B)
    BY MappedTypes
  <2> QED BY <1>2, <2>1, Zenon DEF MapTyped
<1>4. ASSUME NEW i \in 1..(k + n) PROVE d[i] = IF i <= k THEN a[i] ELSE c[i - k]
  <2>1. d[i] = f[x[i]]
    BY <1>2, <1>3 DEF Images
  <2>2. CASE i <= k
    <3>1. i \in 1..k
      BY <1>2, <2>2
    <3>2. x[i] = s[i] /\ a[i] = f[s[i]]
      BY <1>2, <1>3, <3>1 DEF Images
    <3> QED BY <2>1, <2>2, <3>2
  <2>3. CASE ~(i <= k)
    <3>1. PICK j \in 1..n : j = i - k /\ k + j = i
      <4>1. i - k \in 1..n /\ k + (i - k) = i
        BY <1>2, <2>3
      <4> QED BY <4>1
    <3>2. x[i] = t[j] /\ c[j] = f[t[j]]
      BY <1>2, <1>3, <3>1 DEF Images
    <3> QED BY <2>1, <2>3, <3>1, <3>2
  <2> QED BY <2>2, <2>3
<1>5. d = a \o c
  <2>1. ASSUME NEW y \in Seq(Seq(B)), NEW z \in Seq(Seq(B))
        PROVE  /\ y \o z \in Seq(Seq(B)) /\ Len(y \o z) = Len(y) + Len(z)
               /\ \A i \in 1..(Len(y) + Len(z)) : (y \o z)[i] = IF i <= Len(y) THEN y[i] ELSE z[i - Len(y)]
    BY ConcatProperties
  <2>2. /\ a \o c \in Seq(Seq(B)) /\ Len(a \o c) = k + n
        /\ \A i \in 1..(k + n) : (a \o c)[i] = IF i <= k THEN a[i] ELSE c[i - k]
    <3>1. /\ a \o c \in Seq(Seq(B)) /\ Len(a \o c) = Len(a) + Len(c)
          /\ \A i \in 1..(Len(a) + Len(c)) : (a \o c)[i] = IF i <= Len(a) THEN a[i] ELSE c[i - Len(a)]
      BY <2>1, Zenon
    <3>2. Len(a) = k /\ Len(c) = n
      BY <1>3
    <3> QED BY <3>1, <3>2, Zenon
  <2>3. PICK y \in Seq(Seq(B)) :
          /\ y = a \o c /\ Len(y) = k + n
          /\ \A i \in 1..(k + n) : y[i] = IF i <= k THEN a[i] ELSE c[i - k]
    BY <2>2, Zenon
  <2>4. d = y
    <3>1. \A i \in 1..(k + n) : d[i] = y[i]
      BY <1>4, <2>3, Zenon
    <3>2. Len(d) = Len(y) /\ \A i \in 1..Len(d) : d[i] = y[i]
      BY <1>3, <2>3, <3>1, Zenon
    <3> QED BY <3>2, SeqEqual
  <2> QED BY <2>3, <2>4
<1>6. FlattenSeq(a \o c) = FlattenSeq(a) \o FlattenSeq(c)
  BY FlattenConcat
<1> QED BY <1>1, <1>3, <1>5, <1>6, Zenon DEF MapsBoth, Mapped

LEMMA MappedOne ==
  ASSUME NEW S, NEW B, NEW f \in [S -> Seq(B)], NEW x \in S
  PROVE  Mapped(f, <<x>>) = f[x] /\ Mapped(f, <<>>) = <<>>
<1>1. Images(f, <<x>>) = <<f[x]>>
  BY DEF Images
<1>2. PICK y \in Seq(B) : y = f[x]
  OBVIOUS
<1>3. FlattenSeq(<<y>>) = y
  BY FlattenOne
<1>4. Mapped(f, <<x>>) = f[x]
  BY <1>1, <1>2, <1>3, Zenon DEF Mapped
<1>5. Mapped(f, <<>>) = <<>>
  BY DEF Mapped, Images, FlattenSeq
<1> QED BY <1>4, <1>5

\* What is joined first and mapped then is mapped first and joined then.
JoinsMapped(f, ss) == Mapped(f, FlattenSeq(ss)) = FlattenSeq([m \in DOMAIN ss |-> Mapped(f, ss[m])])

LEMMA MappedFlatten ==
  ASSUME NEW S, NEW B, NEW f \in [S -> Seq(B)], NEW ss \in Seq(Seq(S))
  PROVE  JoinsMapped(f, ss)
<1> DEFINE Good(n) == \A tt \in Seq(Seq(S)) : Len(tt) = n => JoinsMapped(f, tt)
<1>1. Good(0)
  <2> SUFFICES ASSUME NEW tt \in Seq(Seq(S)), Len(tt) = 0 PROVE JoinsMapped(f, tt)
    OBVIOUS
  <2>1. tt = <<>>
    BY EmptySeq
  <2>2. FlattenSeq(<<>>) = <<>> /\ Mapped(f, <<>>) = <<>>
    BY DEF Mapped, Images, FlattenSeq
  <2>3. [m \in DOMAIN <<>> |-> Mapped(f, <<>>[m])] = <<>>
    OBVIOUS
  <2> QED BY <2>1, <2>2, <2>3, Zenon DEF JoinsMapped
<1>2. ASSUME NEW n \in Nat, Good(n) PROVE Good(n + 1)
  <2> SUFFICES ASSUME NEW tt \in Seq(Seq(S)), Len(tt) = n + 1 PROVE JoinsMapped(f, tt)
    OBVIOUS
  <2>1. PICK rr \in Seq(Seq(S)), e \in Seq(S) :
          /\ tt = Append(rr, e) /\ Len(rr) = n
          /\ DOMAIN tt = 1..(n + 1) /\ DOMAIN rr = 1..n /\ tt[n + 1] = e
          /\ \A i \in 1..n : tt[i] = rr[i]
    <3>1. LastOff(Seq(S), tt, n)
      BY LastApart
    <3> QED BY <3>1 DEF LastOff
  <2>2. JoinsMapped(f, rr)
    BY <1>2, <2>1
  <2> HIDE DEF Good
  <2>3. PICK w \in Seq(S) : w = FlattenSeq(rr) /\ FlattenSeq(tt) = w \o e
    <3>1. FlattenSeq(rr) \in Seq(S)
      BY FlattenIsSeq
    <3>2. FlattenSeq(Append(rr, e)) = FlattenSeq(rr) \o e
      BY FlattenAppend
    <3> QED BY <2>1, <3>1, <3>2, Zenon
  <2>4. Mapped(f, FlattenSeq(tt)) = Mapped(f, w) \o Mapped(f, e)
    <3>1. MapsBoth(f, w, e)
      BY MappedConcat
    <3> QED BY <2>3, <3>1, Zenon DEF MapsBoth
  <2>5. PICK g \in Seq(Seq(B)) : g = [m \in DOMAIN rr |-> Mapped(f, rr[m])]
    <3>1. \A m \in 1..n : Mapped(f, rr[m]) \in Seq(B)
      <4>1. \A m \in 1..n : rr[m] \in Seq(S)
        BY <2>1, ElementOfSeq
      <4>2. \A m \in 1..n : MapTyped(f, rr[m], B)
        BY <4>1, MappedTypes
      <4> QED BY <4>2, Zenon DEF MapTyped
    <3>2. [m \in DOMAIN rr |-> Mapped(f, rr[m])] \in [1..n -> Seq(B)]
      BY <2>1, <3>1
    <3>3. PICK g \in [1..n -> Seq(B)] : g = [m \in DOMAIN rr |-> Mapped(f, rr[m])]
      BY <3>2
    <3>4. g \in Seq(Seq(B))
      BY SeqDef
    <3> QED BY <3>3, <3>4
  <2>6. PICK v \in Seq(B) : v = Mapped(f, e)
    <3>1. MapTyped(f, e, B)
      BY MappedTypes
    <3> QED BY <3>1, Zenon DEF MapTyped
  <2>7. [m \in DOMAIN tt |-> Mapped(f, tt[m])] = Append(g, v)
    <3>1. DOMAIN g = 1..n /\ Len(g) = n
      BY <2>1, <2>5, LenProperties
    <3>2. /\ Append(g, v) \in Seq(Seq(B)) /\ Len(Append(g, v)) = n + 1
          /\ \A i \in 1..n : Append(g, v)[i] = g[i]
          /\ Append(g, v)[n + 1] = v
      BY <3>1, AppendProperties
    <3>3. DOMAIN Append(g, v) = 1..(n + 1)
      BY <3>2, LenProperties
    <3>4. ASSUME NEW m \in 1..(n + 1) PROVE Append(g, v)[m] = Mapped(f, tt[m])
      <4>1. CASE m = n + 1
        BY <2>1, <2>6, <3>2, <4>1
      <4>2. CASE m # n + 1
        <5>1. m \in 1..n
          BY <4>2
        <5> QED BY <2>1, <2>5, <3>2, <5>1
      <4> QED BY <4>1, <4>2
    <3>5. PICK h \in Seq(Seq(B)) : h = Append(g, v)
      BY <3>2
    <3>6. DOMAIN h = 1..(n + 1) /\ h \in [1..Len(h) -> Seq(B)]
      BY <3>3, <3>5, LenProperties
    <3>7. h = [i \in 1..(n + 1) |-> h[i]]
      BY <3>6
    <3> QED BY <2>1, <3>4, <3>5, <3>7
  <2>8. FlattenSeq(Append(g, v)) = FlattenSeq(g) \o v
    BY FlattenAppend
  <2> QED BY <2>2, <2>3, <2>4, <2>5, <2>6, <2>7, <2>8, Zenon DEF JoinsMapped
<1> HIDE DEF Good
<1>3. PICK T : T = {n \in Nat : Good(n)}
  OBVIOUS
<1>4. Nat \subseteq T
  <2>1. 0 \in T /\ \A n \in Nat : n \in T => n + 1 \in T
    BY <1>1, <1>2, <1>3
  <2> QED BY <2>1, NatSet
<1>5. Len(ss) \in Nat
  BY LenProperties
<1>6. Good(Len(ss))
  BY <1>3, <1>4, <1>5
<1> QED BY <1>6 DEF Good

LEMMA FurtherOn == \A k, l \in Nat : \A i \in 1..l : k + i \in 1..(k + l)
OBVIOUS

\* Everything that is joined is there.
HasAll(S, ss) ==
  \A m \in DOMAIN ss : \A i \in DOMAIN ss[m] :
    \E j \in DOMAIN FlattenSeq(ss) : FlattenSeq(ss)[j] = ss[m][i]

LEMMA FlattenHasAll ==
  ASSUME NEW S, NEW ss \in Seq(Seq(S))
  PROVE  HasAll(S, ss)
<1> DEFINE Good(n) == \A tt \in Seq(Seq(S)) : Len(tt) = n => HasAll(S, tt)
<1>1. Good(0)
  <2> SUFFICES ASSUME NEW tt \in Seq(Seq(S)), Len(tt) = 0 PROVE HasAll(S, tt)
    OBVIOUS
  <2>1. DOMAIN tt = {}
    BY LenProperties
  <2> QED BY <2>1 DEF HasAll
<1>2. ASSUME NEW n \in Nat, Good(n) PROVE Good(n + 1)
  <2> SUFFICES ASSUME NEW tt \in Seq(Seq(S)), Len(tt) = n + 1 PROVE HasAll(S, tt)
    OBVIOUS
  <2>1. PICK rr \in Seq(Seq(S)), e \in Seq(S) :
          /\ tt = Append(rr, e) /\ Len(rr) = n
          /\ DOMAIN tt = 1..(n + 1) /\ DOMAIN rr = 1..n /\ tt[n + 1] = e
          /\ \A i \in 1..n : tt[i] = rr[i]
    <3>1. LastOff(Seq(S), tt, n)
      BY LastApart
    <3> QED BY <3>1 DEF LastOff
  <2>2. HasAll(S, rr)
    BY <1>2, <2>1
  <2> HIDE DEF Good
  <2>3. PICK w \in Seq(S) : w = FlattenSeq(rr) /\ FlattenSeq(tt) = w \o e
    <3>1. FlattenSeq(rr) \in Seq(S)
      BY FlattenIsSeq
    <3>2. FlattenSeq(Append(rr, e)) = FlattenSeq(rr) \o e
      BY FlattenAppend
    <3> QED BY <2>1, <3>1, <3>2, Zenon
  <2>4. PICK k \in Nat, l \in Nat, x \in Seq(S) :
          /\ x = w \o e /\ DOMAIN w = 1..k /\ DOMAIN e = 1..l /\ DOMAIN x = 1..(k + l)
          /\ \A i \in 1..k : x[i] = w[i]
          /\ \A i \in 1..l : x[k + i] = e[i]
    <3>1. Len(w) \in Nat /\ Len(e) \in Nat /\ DOMAIN w = 1..Len(w) /\ DOMAIN e = 1..Len(e)
      BY LenProperties
    <3>2. /\ w \o e \in Seq(S) /\ Len(w \o e) = Len(w) + Len(e)
          /\ \A i \in 1..Len(w) : (w \o e)[i] = w[i]
          /\ \A i \in 1..Len(e) : (w \o e)[Len(w) + i] = e[i]
      BY <3>1, ConcatProperties
    <3>3. DOMAIN (w \o e) = 1..Len(w \o e)
      BY <3>2, LenProperties
    <3> QED BY <3>1, <3>2, <3>3
  <2>5. ASSUME NEW m \in DOMAIN tt, NEW i \in DOMAIN tt[m] PROVE \E j \in DOMAIN x : x[j] = tt[m][i]
    <3>1. CASE m = n + 1
      <4>1. tt[m] = e /\ i \in 1..l
        BY <2>1, <2>4, <2>5, <3>1
      <4>2. PICK j \in 1..(k + l) : j = k + i
        <5>1. k + i \in 1..(k + l)
          BY <4>1, FurtherOn, Zenon
        <5> QED BY <5>1, Zenon
      <4>3. x[j] = e[i]
        BY <2>4, <4>1, <4>2, Zenon
      <4> QED BY <2>4, <4>1, <4>3, Zenon
    <3>2. CASE m # n + 1
      <4>1. m \in DOMAIN rr /\ tt[m] = rr[m]
        BY <2>1, <3>2
      <4>2. PICK j \in DOMAIN w : w[j] = tt[m][i]
        BY <2>2, <2>3, <2>5, <4>1 DEF HasAll
      <4>3. j \in 1..(k + l) /\ j \in 1..k
        BY <2>4
      <4> QED BY <2>4, <4>2, <4>3
    <3> QED BY <3>1, <3>2
  <2>6. FlattenSeq(tt) = x
    BY <2>3, <2>4, Zenon
  <2> QED BY <2>5, <2>6, Zenon DEF HasAll
<1> HIDE DEF Good
<1>3. PICK T : T = {n \in Nat : Good(n)}
  OBVIOUS
<1>4. Nat \subseteq T
  <2>1. 0 \in T /\ \A n \in Nat : n \in T => n + 1 \in T
    BY <1>1, <1>2, <1>3
  <2> QED BY <2>1, NatSet
<1>5. Len(ss) \in Nat
  BY LenProperties
<1>6. Good(Len(ss))
  BY <1>3, <1>4, <1>5
<1> QED BY <1>6 DEF Good

\* Nothing joined is nothing.
LEMMA FlattenNothing ==
  ASSUME NEW ss \in Seq(Seq({}))
  PROVE  FlattenSeq(ss) = <<>>
<1>1. PICK w \in Seq({}) : w = FlattenSeq(ss)
  BY FlattenIsSeq
<1>2. Len(w) \in Nat /\ \A i \in 1..Len(w) : w[i] \in {}
  BY LenProperties, ElementOfSeq
<1>3. Len(w) = 0
  BY <1>2
<1> QED BY <1>1, <1>3, EmptySeq

-----------------------------------------------------------------------------
BlockKinds == {"text", "use", "result"}
Blocks == (Nat \X Nat) \cup {<<>>}
Typed == request.talk \in Seq([role : STRING, kinds : Seq(BlockKinds)])

\* The block alone, if it is of these kinds.
Alone(m, b) == << <<m, b>> >>
Piece(m, b, kinds) == IF request.talk[m].kinds[b] \in kinds THEN Alone(m, b) ELSE <<>>
FirstPieces(m, kinds, n) == [b \in 1..n |-> Piece(m, b, kinds)]
Prefix(m, kinds, n) == FlattenSeq(FirstPieces(m, kinds, n))

LEMMA TalkTypes ==
  ASSUME Typed, NEW m \in DOMAIN request.talk
  PROVE  /\ m \in Nat /\ request.talk[m].kinds \in Seq(BlockKinds)
         /\ Len(request.talk[m].kinds) \in Nat
         /\ DOMAIN request.talk[m].kinds = 1..Len(request.talk[m].kinds)
         /\ \A b \in 1..Len(request.talk[m].kinds) : request.talk[m].kinds[b] \in BlockKinds
<1>1. PICK R : R = [role : STRING, kinds : Seq(BlockKinds)]
  OBVIOUS
<1>2. PICK t \in Seq(R) : t = request.talk
  BY <1>1 DEF Typed
<1>3. m \in Nat /\ t[m] \in R
  BY <1>2, LenProperties, ElementOfSeq
<1>4. PICK k \in Seq(BlockKinds) : k = request.talk[m].kinds
  BY <1>1, <1>2, <1>3
<1>5. Len(k) \in Nat /\ DOMAIN k = 1..Len(k) /\ \A b \in 1..Len(k) : k[b] \in BlockKinds
  BY LenProperties, ElementOfSeq
<1> QED BY <1>3, <1>4, <1>5

LEMMA FrontTypes ==
  ASSUME NEW m \in Nat, NEW kinds, NEW n \in Nat
  PROVE  FirstPieces(m, kinds, n) \in Seq(Seq(Blocks)) /\ Prefix(m, kinds, n) \in Seq(Blocks)
<1>1. ASSUME NEW b \in 1..n PROVE Piece(m, b, kinds) \in Seq(Blocks)
  <2>1. <<m, b>> \in Blocks
    BY DEF Blocks
  <2>2. PICK x \in Blocks : x = <<m, b>>
    BY <2>1, Zenon
  <2>3. <<x>> \in Seq(Blocks) /\ <<>> \in Seq(Blocks)
    OBVIOUS
  <2>4. Alone(m, b) \in Seq(Blocks)
    BY <2>2, <2>3, Zenon DEF Alone
  <2> QED BY <2>3, <2>4, Zenon DEF Piece
<1>2. PICK g \in [1..n -> Seq(Blocks)] : g = FirstPieces(m, kinds, n)
  BY <1>1 DEF FirstPieces
<1>3. g \in Seq(Seq(Blocks))
  BY SeqDef
<1>4. FlattenSeq(g) \in Seq(Blocks)
  BY <1>3, FlattenIsSeq
<1> QED BY <1>2, <1>3, <1>4, Zenon DEF Prefix

LEMMA FrontNext ==
  ASSUME NEW m \in Nat, NEW kinds, NEW n \in Nat
  PROVE  /\ Prefix(m, kinds, n + 1) = Prefix(m, kinds, n) \o Piece(m, n + 1, kinds)
         /\ Piece(m, n + 1, kinds) \in Seq(Blocks)
<1>1. PICK g \in Seq(Seq(Blocks)), h \in Seq(Seq(Blocks)) :
        g = FirstPieces(m, kinds, n) /\ h = FirstPieces(m, kinds, n + 1)
  <2>1. n + 1 \in Nat
    OBVIOUS
  <2> QED BY <2>1, FrontTypes
<1>2. /\ DOMAIN g = 1..n /\ DOMAIN h = 1..(n + 1)
      /\ \A i \in 1..n : g[i] = Piece(m, i, kinds)
      /\ \A i \in 1..(n + 1) : h[i] = Piece(m, i, kinds)
  BY <1>1 DEF FirstPieces
<1>3. Len(g) = n /\ Len(h) = n + 1 /\ \A i \in 1..(n + 1) : h[i] \in Seq(Blocks)
  BY <1>2, LenProperties, ElementOfSeq
<1>4. PICK p \in Seq(Blocks) : p = Piece(m, n + 1, kinds)
  <2>1. n + 1 \in 1..(n + 1)
    OBVIOUS
  <2>2. h[n + 1] \in Seq(Blocks) /\ h[n + 1] = Piece(m, n + 1, kinds)
    BY <1>2, <1>3, <2>1
  <2> QED BY <2>2, Zenon
<1>5. PICK a \in Seq(Seq(Blocks)) :
        /\ a = Append(g, p) /\ Len(a) = n + 1 /\ a[n + 1] = p
        /\ \A i \in 1..n : a[i] = g[i]
  <2>1. PICK a : a = Append(g, p)
    OBVIOUS
  <2>2. /\ a \in Seq(Seq(Blocks)) /\ Len(a) = n + 1 /\ a[n + 1] = p
        /\ \A i \in 1..n : a[i] = g[i]
    BY <1>3, <2>1, AppendProperties
  <2> QED BY <2>1, <2>2
<1>6. h = a
  <2>1. ASSUME NEW i \in 1..(n + 1) PROVE h[i] = a[i]
    <3>1. CASE i = n + 1
      BY <1>2, <1>4, <1>5, <3>1
    <3>2. CASE i # n + 1
      <4>1. i \in 1..n
        BY <3>2
      <4> QED BY <1>2, <1>5, <4>1
    <3> QED BY <3>1, <3>2
  <2>2. Len(h) = Len(a) /\ \A i \in 1..Len(h) : h[i] = a[i]
    BY <1>3, <1>5, <2>1
  <2> QED BY <2>2, SeqEqual
<1>7. FlattenSeq(Append(g, p)) = FlattenSeq(g) \o p
  BY FlattenAppend
<1> QED BY <1>1, <1>4, <1>5, <1>6, <1>7, Zenon DEF Prefix

LEMMA GatheredIs ==
  ASSUME Typed, NEW m \in DOMAIN request.talk, NEW kinds
  PROVE  /\ Gathered(m, kinds) = Prefix(m, kinds, Len(request.talk[m].kinds))
         /\ Gathered(m, kinds) \in Seq(Blocks)
<1>1. PICK n \in Nat : n = Len(request.talk[m].kinds) /\ DOMAIN request.talk[m].kinds = 1..n /\ m \in Nat
  BY TalkTypes
<1>2. Gathered(m, kinds) = Prefix(m, kinds, n)
  BY <1>1, Zenon DEF Gathered, Prefix, FirstPieces, Piece, Alone
<1>3. Prefix(m, kinds, n) \in Seq(Blocks)
  BY <1>1, FrontTypes
<1> QED BY <1>1, <1>2, <1>3

\* No block is of these kinds.
LEMMA GatheredNone ==
  ASSUME Typed, NEW m \in DOMAIN request.talk, NEW kinds,
         \A b \in DOMAIN request.talk[m].kinds : request.talk[m].kinds[b] \notin kinds
  PROVE  Gathered(m, kinds) = <<>>
<1>1. PICK n \in Nat : n = Len(request.talk[m].kinds) /\ DOMAIN request.talk[m].kinds = 1..n
  BY TalkTypes
<1>2. Gathered(m, kinds) = FlattenSeq(FirstPieces(m, kinds, n))
  BY <1>1, GatheredIs, Zenon DEF Prefix
<1>3. PICK g : g = FirstPieces(m, kinds, n)
  OBVIOUS
<1>4. \A b \in 1..n : Piece(m, b, kinds) = <<>>
  BY <1>1, Zenon DEF Piece
<1>5. g = [b \in 1..n |-> <<>>]
  BY <1>3, <1>4 DEF FirstPieces
<1>6. g \in [1..n -> Seq({})]
  BY <1>5
<1>7. g \in Seq(Seq({}))
  BY <1>6, SeqDef
<1> QED BY <1>2, <1>3, <1>7, FlattenNothing, Zenon

\* Kinds between which the blocks do not tell a difference.
LEMMA GatheredSame ==
  ASSUME NEW m, NEW kinds, NEW others,
         \A b \in DOMAIN request.talk[m].kinds :
            request.talk[m].kinds[b] \in kinds <=> request.talk[m].kinds[b] \in others
  PROVE  Gathered(m, kinds) = Gathered(m, others)
BY DEF Gathered

\* A scan is a function: its first value and its steps give every value.
Scans(A, first, n, g) ==
  \E F \in [0..n -> A] : F[0] = first /\ \A i \in 1..n : F[i] = g[i][F[i - 1]]

LEMMA ScansExist ==
  ASSUME NEW A, NEW first \in A, NEW n \in Nat, NEW g \in [1..n -> [A -> A]]
  PROVE  Scans(A, first, n, g)
<1> DEFINE Good(k) == k <= n => \E F \in [0..k -> A] : F[0] = first /\ \A i \in 1..k : F[i] = g[i][F[i - 1]]
<1>1. Good(0)
  <2>1. PICK F \in [0..0 -> A] : F = [i \in 0..0 |-> first]
    OBVIOUS
  <2>2. F[0] = first /\ \A i \in 1..0 : F[i] = g[i][F[i - 1]]
    BY <2>1
  <2> QED BY <2>2
<1>2. ASSUME NEW k \in Nat, Good(k) PROVE Good(k + 1)
  <2> SUFFICES ASSUME k + 1 <= n
               PROVE  \E F \in [0..(k + 1) -> A] :
                        F[0] = first /\ \A i \in 1..(k + 1) : F[i] = g[i][F[i - 1]]
    OBVIOUS
  <2>1. PICK F \in [0..k -> A] : F[0] = first /\ \A i \in 1..k : F[i] = g[i][F[i - 1]]
    BY <1>2
  <2>2. PICK e \in A : e = g[k + 1][F[k]]
    <3>1. k + 1 \in 1..n /\ F[k] \in A
      OBVIOUS
    <3>2. g[k + 1] \in [A -> A]
      BY <3>1
    <3> QED BY <3>1, <3>2
  <2>3. PICK G : G = [i \in 0..(k + 1) |-> IF i = k + 1 THEN e ELSE F[i]]
    OBVIOUS
  <2>4. G \in [0..(k + 1) -> A]
    <3>1. \A i \in 0..(k + 1) : i # k + 1 => F[i] \in A
      OBVIOUS
    <3> QED BY <2>3, <3>1
  <2>5. G[0] = first
    BY <2>1, <2>3
  <2>6. ASSUME NEW i \in 1..(k + 1) PROVE G[i] = g[i][G[i - 1]]
    <3>1. i - 1 \in 0..(k + 1) /\ i - 1 # k + 1 /\ G[i - 1] = F[i - 1] /\ i \in 0..(k + 1)
      BY <2>3
    <3>2. CASE i = k + 1
      <4>1. G[i] = e /\ i - 1 = k
        BY <2>3, <3>1, <3>2
      <4> QED BY <2>2, <3>1, <3>2, <4>1
    <3>3. CASE i # k + 1
      <4>1. i \in 1..k /\ G[i] = F[i]
        BY <2>3, <3>1, <3>3
      <4> QED BY <2>1, <3>1, <4>1
    <3> QED BY <3>2, <3>3
  <2> QED BY <2>4, <2>5, <2>6
<1> HIDE DEF Good
<1>3. PICK T : T = {k \in Nat : Good(k)}
  OBVIOUS
<1>4. Nat \subseteq T
  <2>1. 0 \in T /\ \A k \in Nat : k \in T => k + 1 \in T
    BY <1>1, <1>2, <1>3
  <2> QED BY <2>1, NatSet
<1>5. Good(n)
  BY <1>3, <1>4
<1> QED BY <1>5 DEF Good, Scans

-----------------------------------------------------------------------------
Roles == STRING \cup {"user", "tool", "assistant"}
Msg == [role : Roles, texts : Seq(Blocks), calls : Seq(Blocks), answers : Blocks]

\* What the model is given of a message.
RigOf == [x \in Msg |-> IF x.role = "system" THEN <<>> ELSE Rig(x)]

LEMMA RigTypes == RigOf \in [Msg -> Seq(Blocks)]
<1>1. ASSUME NEW x \in Msg PROVE Rig(x) \in Seq(Blocks)
  <2>1. PICK t \in Seq(Blocks), c \in Seq(Blocks), e \in Blocks :
          t = x.texts /\ c = x.calls /\ e = x.answers
    BY DEF Msg
  <2>2. t \o c \in Seq(Blocks)
    BY ConcatProperties
  <2>3. <<e>> \in Seq(Blocks)
    OBVIOUS
  <2> QED BY <2>1, <2>2, <2>3, Zenon DEF Rig
<1>2. <<>> \in Seq(Blocks)
  OBVIOUS
<1> QED BY <1>1, <1>2 DEF RigOf

LEMMA MsgTypes ==
  ASSUME NEW role \in Roles, NEW t \in Seq(Blocks), NEW c \in Seq(Blocks), NEW e \in Blocks
  PROVE  Shaped(role, t, c, e) \in Msg
<1>1. PICK R, S, U : R = Roles /\ S = Seq(Blocks) /\ U = Blocks
  OBVIOUS
<1>2. role \in R /\ t \in S /\ c \in S /\ e \in U
  BY <1>1
<1>3. [role |-> role, texts |-> t, calls |-> c, answers |-> e] \in [role : R, texts : S, calls : S, answers : U]
  BY <1>2
<1> QED BY <1>1, <1>3, Zenon DEF Msg, Shaped

LEMMA BlockIs ==
  ASSUME NEW m \in Nat, NEW b \in Nat
  PROVE  \E x \in Blocks : x = <<m, b>> /\ Alone(m, b) = <<x>>
<1>1. <<m, b>> \in Blocks
  BY DEF Blocks
<1>2. PICK x \in Blocks : x = <<m, b>>
  BY <1>1, Zenon
<1> QED BY <1>2, Zenon DEF Alone

\* The three messages a user's message is made of.
LEMMA FlushTypes ==
  ASSUME NEW u \in Seq(Blocks)
  PROVE  Flush(u) \in Seq(Msg) /\ Mapped(RigOf, Flush(u)) = u
<1>1. PICK x \in Msg : x = Shaped("user", u, <<>>, <<>>)
  <2>1. <<>> \in Seq(Blocks) /\ <<>> \in Blocks
    BY DEF Blocks
  <2>2. PICK z \in Seq(Blocks), e \in Blocks : z = <<>> /\ e = <<>>
    BY <2>1, Zenon
  <2>3. PICK r \in Roles : r = "user"
    <3>1. "user" \in Roles
      BY Zenon DEF Roles
    <3> QED BY <3>1, Zenon
  <2>4. Shaped(r, u, z, e) \in Msg
    BY MsgTypes
  <2> QED BY <2>2, <2>3, <2>4, Zenon
<1>2. RigOf[x] = u
  <2>1. RigOf[x] = u \o <<>>
    BY <1>1 DEF RigOf, Rig, Shaped
  <2> QED BY <2>1, ConcatEmptySeq
<1>3. Mapped(RigOf, <<x>>) = u /\ Mapped(RigOf, <<>>) = <<>>
  BY <1>2, RigTypes, MappedOne
<1>4. <<x>> \in Seq(Msg) /\ <<>> \in Seq(Msg)
  OBVIOUS
<1> QED BY <1>1, <1>3, <1>4, Zenon DEF Flush

ToolMessage(m, b) == <<Shaped("tool", <<>>, <<>>, <<m, b>>)>>

LEMMA ToolMessageTypes ==
  ASSUME NEW m \in Nat, NEW b \in Nat
  PROVE  ToolMessage(m, b) \in Seq(Msg) /\ Mapped(RigOf, ToolMessage(m, b)) = Alone(m, b)
<1>1. PICK e \in Blocks : e = <<m, b>> /\ Alone(m, b) = <<e>>
  BY BlockIs
<1>2. PICK x \in Msg : x = Shaped("tool", <<>>, <<>>, e)
  <2>1. <<>> \in Seq(Blocks)
    OBVIOUS
  <2>2. PICK z \in Seq(Blocks) : z = <<>>
    BY <2>1, Zenon
  <2>3. PICK r \in Roles : r = "tool"
    <3>1. "tool" \in Roles
      BY Zenon DEF Roles
    <3> QED BY <3>1, Zenon
  <2>4. Shaped(r, z, z, e) \in Msg
    BY MsgTypes
  <2> QED BY <2>2, <2>3, <2>4, Zenon
<1>3. RigOf[x] = <<e>>
  BY <1>2 DEF RigOf, Rig, Shaped
<1>4. Mapped(RigOf, <<x>>) = <<e>>
  BY <1>3, RigTypes, MappedOne
<1>5. <<x>> \in Seq(Msg)
  OBVIOUS
<1>6. ToolMessage(m, b) = <<x>>
  BY <1>1, <1>2, Zenon DEF ToolMessage
<1> QED BY <1>1, <1>4, <1>5, <1>6, Zenon

-----------------------------------------------------------------------------
Acc == [buffer : Seq(Blocks), out : Seq(Msg)]
\* The kinds a user's message is made of.
UserKinds == {"text", "result"}
Reached(m, b, acc) == Mapped(RigOf, acc.out) \o acc.buffer = Prefix(m, UserKinds, b)

LEMMA ScanTypes ==
  ASSUME NEW m \in Nat, NEW b \in Nat, NEW acc \in Acc, request.talk[m].kinds[b] \in BlockKinds
  PROVE  Scan(m, b, acc) \in Acc
<1>1. PICK u \in Seq(Blocks), o \in Seq(Msg) : u = acc.buffer /\ o = acc.out
  BY DEF Acc
<1>2. CASE request.talk[m].kinds[b] = "text"
  <2>1. PICK x \in Blocks : x = <<m, b>>
    BY BlockIs
  <2>2. Append(u, x) \in Seq(Blocks)
    BY AppendProperties
  <2>3. Scan(m, b, acc) = [buffer |-> Append(acc.buffer, <<m, b>>), out |-> acc.out]
    BY <1>2 DEF Scan
  <2>4. PICK v \in Seq(Blocks) : v = Append(acc.buffer, <<m, b>>)
    BY <1>1, <2>1, <2>2, Zenon
  <2> QED BY <1>1, <2>3, <2>4 DEF Acc
<1>3. CASE request.talk[m].kinds[b] = "result"
  <2>1. PICK w \in Seq(Msg), t \in Seq(Msg) : w = Flush(acc.buffer) /\ t = ToolMessage(m, b)
    BY <1>1, FlushTypes, ToolMessageTypes, Zenon
  <2>2. (o \o w) \o t \in Seq(Msg)
    BY ConcatProperties
  <2>3. Scan(m, b, acc) = [buffer |-> <<>>, out |-> (acc.out \o Flush(acc.buffer)) \o ToolMessage(m, b)]
    BY <1>3 DEF Scan, ToolMessage
  <2>4. PICK v \in Seq(Msg) : v = (acc.out \o Flush(acc.buffer)) \o ToolMessage(m, b)
    BY <1>1, <2>1, <2>2, Zenon
  <2>5. <<>> \in Seq(Blocks)
    OBVIOUS
  <2> QED BY <2>3, <2>4, <2>5 DEF Acc
<1>4. CASE request.talk[m].kinds[b] = "use"
  BY <1>4 DEF Scan
<1> QED BY <1>2, <1>3, <1>4 DEF BlockKinds

LEMMA ScanReaches ==
  ASSUME NEW m \in Nat, NEW b \in Nat, NEW acc \in Acc, request.talk[m].kinds[b + 1] \in BlockKinds,
         Reached(m, b, acc)
  PROVE  Reached(m, b + 1, Scan(m, b + 1, acc))
<1>1. PICK u \in Seq(Blocks), o \in Seq(Msg) : u = acc.buffer /\ o = acc.out
  BY DEF Acc
<1>2. PICK v \in Seq(Blocks) : v = Mapped(RigOf, o)
  <2>1. MapTyped(RigOf, o, Blocks)
    BY RigTypes, MappedTypes
  <2> QED BY <2>1, Zenon DEF MapTyped
<1>3. PICK p \in Seq(Blocks) : p = Prefix(m, UserKinds, b)
  BY FrontTypes
<1>4. v \o u = p
  BY <1>1, <1>2, <1>3, Zenon DEF Reached
<1>5. b + 1 \in Nat
  OBVIOUS
<1>6. PICK x \in Blocks : x = <<m, b + 1>> /\ Alone(m, b + 1) = <<x>>
  BY <1>5, BlockIs
<1>7. PICK a \in Seq(Blocks) : a = Alone(m, b + 1) /\ a = <<x>>
  <2>1. <<x>> \in Seq(Blocks)
    OBVIOUS
  <2> QED BY <1>6, <2>1, Zenon
<1>8. Prefix(m, UserKinds, b + 1) = p \o Piece(m, b + 1, UserKinds)
  BY <1>3, FrontNext
<1>9. CASE request.talk[m].kinds[b + 1] = "text"
  <2>1. PICK s : s = Scan(m, b + 1, acc)
    OBVIOUS
  <2>2. s.out = acc.out /\ s.buffer = Append(acc.buffer, <<m, b + 1>>)
    BY <1>9, <2>1 DEF Scan
  <2>3. Append(u, x) = u \o <<x>>
    BY AppendIsConcat
  <2>4. s.buffer = u \o a
    BY <1>1, <1>6, <1>7, <2>2, <2>3, Zenon
  <2>5. (v \o u) \o a = v \o (u \o a)
    <3>1. Associate(v, u, a)
      BY Assoc
    <3> QED BY <3>1 DEF Associate
  <2>6. Piece(m, b + 1, UserKinds) = a
    BY <1>7, <1>9 DEF Piece, UserKinds
  <2> QED BY <1>1, <1>2, <1>4, <1>8, <2>1, <2>2, <2>4, <2>5, <2>6, Zenon DEF Reached
<1>10. CASE request.talk[m].kinds[b + 1] = "result"
  <2>1. PICK s : s = Scan(m, b + 1, acc)
    OBVIOUS
  <2>2. s.out = (acc.out \o Flush(acc.buffer)) \o ToolMessage(m, b + 1) /\ s.buffer = <<>>
    BY <1>10, <2>1 DEF Scan, ToolMessage
  <2>3. PICK w \in Seq(Msg), t \in Seq(Msg) :
          w = Flush(u) /\ t = ToolMessage(m, b + 1) /\ Mapped(RigOf, w) = u /\ Mapped(RigOf, t) = a
    <3>1. Flush(u) \in Seq(Msg) /\ Mapped(RigOf, Flush(u)) = u
      BY FlushTypes
    <3>2. ToolMessage(m, b + 1) \in Seq(Msg) /\ Mapped(RigOf, ToolMessage(m, b + 1)) = Alone(m, b + 1)
      BY <1>5, ToolMessageTypes
    <3> QED BY <1>7, <3>1, <3>2, Zenon
  <2>4. PICK z \in Seq(Msg) : z = o \o w
    BY ConcatProperties
  <2>5. Mapped(RigOf, z) = v \o u
    <3>1. MapsBoth(RigOf, o, w)
      BY RigTypes, MappedConcat
    <3> QED BY <1>2, <2>3, <2>4, <3>1, Zenon DEF MapsBoth
  <2>6. Mapped(RigOf, z \o t) = (v \o u) \o a
    <3>1. MapsBoth(RigOf, z, t)
      BY RigTypes, MappedConcat
    <3> QED BY <2>3, <2>5, <3>1, Zenon DEF MapsBoth
  <2>7. s.out = z \o t
    BY <1>1, <2>2, <2>3, <2>4, Zenon
  <2>8. PICK r \in Seq(Blocks) : r = p \o a
    BY ConcatProperties
  <2>9. r \o <<>> = r
    BY ConcatEmptySeq
  <2>10. Mapped(RigOf, s.out) \o s.buffer = r
    BY <1>4, <2>2, <2>6, <2>7, <2>8, <2>9, Zenon
  <2>11. Piece(m, b + 1, UserKinds) = a
    BY <1>7, <1>10 DEF Piece, UserKinds
  <2> QED BY <1>8, <2>1, <2>8, <2>10, <2>11, Zenon DEF Reached
<1>11. CASE request.talk[m].kinds[b + 1] = "use"
  <2>1. Scan(m, b + 1, acc) = acc
    BY <1>11 DEF Scan
  <2>2. Piece(m, b + 1, UserKinds) = <<>>
    BY <1>11 DEF Piece, UserKinds
  <2>3. p \o <<>> = p
    BY ConcatEmptySeq
  <2> QED BY <1>3, <1>8, <2>1, <2>2, <2>3, Zenon DEF Reached
<1> QED BY <1>9, <1>10, <1>11 DEF BlockKinds

\* The scan of a user's message, by its own equation.
ScanOf(m, f) ==
  [b \in 0..Len(request.talk[m].kinds) |->
    IF b = 0 THEN [buffer |-> <<>>, out |-> <<>>] ELSE Scan(m, b, f[b - 1])]
Scanned(m) == CHOOSE f : f = ScanOf(m, f)

WellTold(m, s) == s \in Seq(Msg) /\ Mapped(RigOf, s) = Gathered(m, UserKinds)

LEMMA UserFits ==
  ASSUME Typed, NEW m \in DOMAIN request.talk
  PROVE  WellTold(m, UserMessages(m))
<1>1. PICK n \in Nat :
        /\ n = Len(request.talk[m].kinds) /\ m \in Nat
        /\ \A b \in 1..n : request.talk[m].kinds[b] \in BlockKinds
  BY TalkTypes
<1>2. PICK first \in Acc : first = [buffer |-> <<>>, out |-> <<>>]
  <2>1. PICK z \in Seq(Blocks), o \in Seq(Msg) : z = <<>> /\ o = <<>>
    <3>1. <<>> \in Seq(Blocks) /\ <<>> \in Seq(Msg)
      OBVIOUS
    <3> QED BY <3>1, Zenon
  <2>2. [buffer |-> z, out |-> o] \in Acc
    BY DEF Acc
  <2> QED BY <2>1, <2>2, Zenon
<1>3. \A b \in 1..n : \A acc \in Acc : Scan(m, b, acc) \in Acc
  BY <1>1, ScanTypes
<1>4. PICK g \in [1..n -> [Acc -> Acc]] : g = [b \in 1..n |-> [acc \in Acc |-> Scan(m, b, acc)]]
  BY <1>3
<1>5. PICK F \in [0..n -> Acc] : F[0] = first /\ \A i \in 1..n : F[i] = g[i][F[i - 1]]
  <2>1. Scans(Acc, first, n, g)
    BY ScansExist
  <2> QED BY <2>1 DEF Scans
<1>6. ASSUME NEW i \in 1..n PROVE i - 1 \in 0..n /\ F[i - 1] \in Acc /\ F[i] = Scan(m, i, F[i - 1])
  <2>1. i - 1 \in 0..n
    OBVIOUS
  <2>2. F[i - 1] \in Acc
    BY <2>1
  <2> QED BY <1>4, <1>5, <2>1, <2>2
<1>7. F = ScanOf(m, F)
  <2>1. ASSUME NEW b \in 0..n PROVE F[b] = IF b = 0 THEN first ELSE Scan(m, b, F[b - 1])
    <3>1. b # 0 => b \in 1..n
      OBVIOUS
    <3> QED BY <1>5, <1>6, <3>1
  <2>2. F = [b \in 0..n |-> IF b = 0 THEN first ELSE Scan(m, b, F[b - 1])]
    BY <2>1
  <2> QED BY <1>1, <1>2, <2>2, Zenon DEF ScanOf
<1>8. Scanned(m) = ScanOf(m, Scanned(m))
  BY <1>7, Zenon DEF Scanned
<1>9. PICK f : f = Scanned(m) /\ f = [b \in 0..n |-> IF b = 0 THEN first ELSE Scan(m, b, f[b - 1])]
  BY <1>1, <1>2, <1>8, Zenon DEF ScanOf
<1>10. f[0] = first /\ \A i \in 0..n : i + 1 \in 0..n => f[i + 1] = Scan(m, i + 1, f[i])
  <2>1. 0 \in 0..n
    BY <1>1
  <2>2. f[0] = first
    BY <1>9, <2>1
  <2>3. ASSUME NEW i \in 0..n, i + 1 \in 0..n PROVE f[i + 1] = Scan(m, i + 1, f[i])
    <3>1. i + 1 # 0 /\ (i + 1) - 1 = i
      OBVIOUS
    <3> QED BY <1>9, <2>3, <3>1
  <2> QED BY <2>2, <2>3
<1> DEFINE Good(b) == b <= n => f[b] \in Acc /\ Reached(m, b, f[b])
<1>11. Good(0)
  <2>1. first.out = <<>> /\ first.buffer = <<>>
    BY <1>2
  <2>2. Mapped(RigOf, <<>>) = <<>>
    BY DEF Mapped, Images, FlattenSeq
  <2>3. Prefix(m, UserKinds, 0) = <<>>
    BY DEF Prefix, FirstPieces, FlattenSeq
  <2>4. <<>> \o <<>> = <<>>
    OBVIOUS
  <2>5. Reached(m, 0, first)
    BY <2>1, <2>2, <2>3, <2>4, Zenon DEF Reached
  <2> QED BY <1>10, <2>5
<1>12. ASSUME NEW b \in Nat, Good(b) PROVE Good(b + 1)
  <2> SUFFICES ASSUME b + 1 <= n PROVE f[b + 1] \in Acc /\ Reached(m, b + 1, f[b + 1])
    OBVIOUS
  <2>1. b \in 0..n /\ b + 1 \in 0..n /\ b + 1 \in 1..n /\ b + 1 \in Nat
    OBVIOUS
  <2>2. f[b] \in Acc /\ Reached(m, b, f[b])
    BY <1>12, <2>1
  <2>3. f[b + 1] = Scan(m, b + 1, f[b])
    BY <1>10, <2>1
  <2>4. request.talk[m].kinds[b + 1] \in BlockKinds
    BY <1>1, <2>1
  <2>5. Scan(m, b + 1, f[b]) \in Acc
    BY <1>1, <2>1, <2>2, <2>4, ScanTypes
  <2>6. Reached(m, b + 1, Scan(m, b + 1, f[b]))
    BY <1>1, <2>2, <2>4, ScanReaches
  <2> QED BY <2>3, <2>5, <2>6
<1> HIDE DEF Good
<1>13. PICK T : T = {b \in Nat : Good(b)}
  OBVIOUS
<1>14. Nat \subseteq T
  <2>1. 0 \in T /\ \A b \in Nat : b \in T => b + 1 \in T
    BY <1>11, <1>12, <1>13
  <2> QED BY <2>1, NatSet
<1>15. Good(n)
  BY <1>13, <1>14
<1>16. PICK acc \in Acc : acc = f[n] /\ Reached(m, n, acc)
  BY <1>15 DEF Good
<1>17. PICK u \in Seq(Blocks), o \in Seq(Msg) : u = acc.buffer /\ o = acc.out
  BY DEF Acc
<1>18. UserMessages(m) = o \o Flush(u)
  <2>1. UserMessages(m) =
          Scanned(m)[Len(request.talk[m].kinds)].out \o Flush(Scanned(m)[Len(request.talk[m].kinds)].buffer)
    BY Zenon DEF UserMessages, Scanned, ScanOf
  <2> QED BY <1>1, <1>9, <1>16, <1>17, <2>1, Zenon
<1>19. PICK w \in Seq(Msg) : w = Flush(u) /\ Mapped(RigOf, w) = u
  BY FlushTypes
<1>20. PICK x \in Seq(Msg) : x = o \o w
  BY ConcatProperties
<1>21. Mapped(RigOf, x) = Mapped(RigOf, o) \o u
  <2>1. MapsBoth(RigOf, o, w)
    BY RigTypes, MappedConcat
  <2> QED BY <1>19, <1>20, <2>1, Zenon DEF MapsBoth
<1>22. Mapped(RigOf, o) \o u = Prefix(m, UserKinds, n)
  BY <1>16, <1>17, Zenon DEF Reached
<1>23. Gathered(m, UserKinds) = Prefix(m, UserKinds, n)
  BY <1>1, GatheredIs
<1> QED BY <1>18, <1>19, <1>20, <1>21, <1>22, <1>23, Zenon DEF WellTold

-----------------------------------------------------------------------------
\* A message of one part.
Sole(role, t, c, e) == <<Shaped(role, t, c, e)>>

LEMMA SoleIs ==
  ASSUME NEW role \in Roles, NEW t \in Seq(Blocks), NEW c \in Seq(Blocks), NEW e \in Blocks
  PROVE  /\ Sole(role, t, c, e) \in Seq(Msg)
         /\ Mapped(RigOf, Sole(role, t, c, e)) =
              IF role = "system" THEN <<>> ELSE IF role = "tool" THEN <<e>> ELSE t \o c
<1>1. PICK x \in Msg : x = Shaped(role, t, c, e)
  BY MsgTypes
<1>2. RigOf[x] = IF role = "system" THEN <<>> ELSE IF role = "tool" THEN <<e>> ELSE t \o c
  <2>1. x.role = role /\ x.texts = t /\ x.calls = c /\ x.answers = e
    BY <1>1 DEF Shaped
  <2>2. RigOf[x] = IF x.role = "system" THEN <<>> ELSE Rig(x)
    BY DEF RigOf
  <2>3. Rig(x) = IF x.role = "tool" THEN <<x.answers>> ELSE x.texts \o x.calls
    BY DEF Rig
  <2> QED BY <2>1, <2>2, <2>3, Zenon
<1>3. Mapped(RigOf, <<x>>) = RigOf[x]
  BY RigTypes, MappedOne
<1>4. <<x>> \in Seq(Msg)
  OBVIOUS
<1> QED BY <1>1, <1>2, <1>3, <1>4, Zenon DEF Sole

\* No message of the model is refused among these.
Taken(s) == \A i \in DOMAIN s : s[i].role # "system" => Accepted(s[i])
Passed(m) == /\ MessagesOf(m) \in Seq(Msg)
             /\ Taken(MessagesOf(m)) => Mapped(RigOf, MessagesOf(m)) = KeptOf(m)

LEMMA OtherRefused ==
  ASSUME NEW role, NEW t, NEW c, NEW e, role \notin {"system", "user", "assistant", "tool"}
  PROVE  ~ Taken(Sole(role, t, c, e))
<1>1. 1 \in DOMAIN Sole(role, t, c, e) /\ Sole(role, t, c, e)[1].role = role
  BY DEF Sole, Shaped
<1>2. ~ Accepted(Sole(role, t, c, e)[1])
  BY <1>1 DEF Accepted
<1> QED BY <1>1, <1>2 DEF Taken

LEMMA EachPasses ==
  ASSUME Typed, request.protocol \in {"openai", "anthropic"}, Expressible(request.protocol, request.talk),
         NEW m \in DOMAIN request.talk
  PROVE  Passed(m)
<1>1. PICK role \in Roles : role = request.talk[m].role
  <2>1. request.talk[m].role \in STRING
    <3>1. PICK R : R = [role : STRING, kinds : Seq(BlockKinds)]
      OBVIOUS
    <3>2. PICK t \in Seq(R) : t = request.talk
      BY <3>1 DEF Typed
    <3>3. t[m] \in R
      BY <3>2, LenProperties, ElementOfSeq
    <3> QED BY <3>1, <3>2, <3>3
  <2> QED BY <2>1, Zenon DEF Roles
<1>2. PICK t \in Seq(Blocks), c \in Seq(Blocks), z \in Seq(Blocks), e \in Blocks :
        t = Places(m, "text") /\ c = Places(m, "use") /\ z = <<>> /\ e = <<>>
  <2>1. Gathered(m, {"text"}) \in Seq(Blocks) /\ Gathered(m, {"use"}) \in Seq(Blocks)
    BY GatheredIs
  <2>2. <<>> \in Seq(Blocks) /\ <<>> \in Blocks
    BY DEF Blocks
  <2> QED BY <2>1, <2>2, Zenon DEF Places
<1>3. t \o z = t
  BY <1>2, ConcatEmptySeq
<1>4. CASE request.protocol = "openai" /\ role = "tool"
  <2>1. m \in Nat
    BY TalkTypes
  <2>2. PICK x \in Blocks : x = <<m, 1>> /\ Alone(m, 1) = <<x>>
    <3>1. 1 \in Nat
      OBVIOUS
    <3> QED BY <2>1, <3>1, BlockIs
  <2>3. MessagesOf(m) = Sole(role, z, z, x)
    BY <1>1, <1>2, <1>4, <2>2, Zenon DEF MessagesOf, OpenAiMessage, Sole
  <2>4. MessagesOf(m) \in Seq(Msg) /\ Mapped(RigOf, MessagesOf(m)) = <<x>>
    BY <1>4, <2>3, SoleIs
  <2>5. request.talk[m].kinds = <<"result">>
    BY <1>1, <1>4 DEF Expressible
  <2>6. Gathered(m, UserKinds) = Alone(m, 1)
    <3>1. Gathered(m, UserKinds) = Prefix(m, UserKinds, Len(request.talk[m].kinds))
      BY GatheredIs
    <3>2. Len(request.talk[m].kinds) = 1 /\ request.talk[m].kinds[1] = "result"
      BY <2>5
    <3>3. Prefix(m, UserKinds, 0) = <<>>
      BY DEF Prefix, FirstPieces, FlattenSeq
    <3>4. Prefix(m, UserKinds, 1) = Prefix(m, UserKinds, 0) \o Piece(m, 1, UserKinds)
      <4>1. 0 \in Nat /\ 0 + 1 = 1
        OBVIOUS
      <4> QED BY <2>1, <4>1, FrontNext
    <3>5. Piece(m, 1, UserKinds) = Alone(m, 1)
      BY <3>2 DEF Piece, UserKinds
    <3>6. PICK a \in Seq(Blocks) : a = Alone(m, 1)
      <4>1. <<x>> \in Seq(Blocks)
        OBVIOUS
      <4> QED BY <2>2, <4>1, Zenon
    <3>7. <<>> \o a = a
      BY ConcatEmptySeq
    <3> QED BY <3>1, <3>2, <3>3, <3>4, <3>5, <3>6, <3>7, Zenon
  <2>7. KeptOf(m) = Gathered(m, UserKinds)
    BY <1>1, <1>4 DEF KeptOf, UserKinds
  <2> QED BY <2>2, <2>4, <2>6, <2>7, Zenon DEF Passed
<1>5. CASE request.protocol = "openai" /\ role # "tool"
  <2>1. MessagesOf(m) = Sole(role, t, c, e)
    BY <1>1, <1>2, <1>5, Zenon DEF MessagesOf, OpenAiMessage, Sole
  <2>2. /\ MessagesOf(m) \in Seq(Msg)
        /\ Mapped(RigOf, MessagesOf(m)) = IF role = "system" THEN <<>> ELSE t \o c
    <3>1. /\ Sole(role, t, c, e) \in Seq(Msg)
          /\ Mapped(RigOf, Sole(role, t, c, e)) =
               IF role = "system" THEN <<>> ELSE IF role = "tool" THEN <<e>> ELSE t \o c
      BY SoleIs
    <3> QED BY <1>5, <2>1, <3>1, Zenon
  <2>3. CASE role = "user"
    <3>1. \A b \in DOMAIN request.talk[m].kinds : request.talk[m].kinds[b] = "text"
      BY <1>1, <1>5, <2>3 DEF Expressible
    <3>2. Gathered(m, UserKinds) = Gathered(m, {"text"})
      <4>1. \A b \in DOMAIN request.talk[m].kinds :
              request.talk[m].kinds[b] \in UserKinds <=> request.talk[m].kinds[b] \in {"text"}
        BY <3>1 DEF UserKinds
      <4> QED BY <4>1, GatheredSame
    <3>3. Gathered(m, {"use"}) = <<>>
      <4>1. \A b \in DOMAIN request.talk[m].kinds : request.talk[m].kinds[b] \notin {"use"}
        BY <3>1
      <4> QED BY <4>1, GatheredNone
    <3>4. KeptOf(m) = Gathered(m, UserKinds)
      BY <1>1, <2>3 DEF KeptOf, UserKinds
    <3>5. t \o c = t
      BY <1>2, <1>3, <3>3, Zenon DEF Places
    <3>6. role # "system"
      BY <2>3
    <3> QED BY <1>2, <2>2, <3>2, <3>4, <3>5, <3>6, Zenon DEF Passed, Places
  <2>4. CASE role = "assistant"
    <3>1. KeptOf(m) = t \o c
      BY <1>1, <1>2, <2>4 DEF KeptOf
    <3>2. role # "system"
      BY <2>4
    <3> QED BY <2>2, <3>1, <3>2, Zenon DEF Passed
  <2>5. CASE role = "system"
    <3>1. KeptOf(m) = <<>>
      BY <1>1, <2>5 DEF KeptOf
    <3> QED BY <2>2, <2>5, <3>1, Zenon DEF Passed
  <2>6. CASE role \notin {"system", "user", "assistant", "tool"}
    <3>1. ~ Taken(Sole(role, t, c, e))
      BY <2>6, OtherRefused
    <3> QED BY <2>1, <2>2, <3>1, Zenon DEF Passed
  <2> QED BY <1>5, <2>3, <2>4, <2>5, <2>6
<1>6. CASE request.protocol = "anthropic" /\ role = "user"
  <2>1. request.protocol # "openai"
    BY <1>6
  <2>2. MessagesOf(m) = UserMessages(m)
    BY <1>1, <1>6, <2>1 DEF MessagesOf
  <2>3. KeptOf(m) = Gathered(m, UserKinds)
    BY <1>1, <1>6 DEF KeptOf, UserKinds
  <2>4. WellTold(m, UserMessages(m))
    BY UserFits
  <2> QED BY <2>2, <2>3, <2>4, Zenon DEF Passed, WellTold
<1>7. CASE request.protocol = "anthropic" /\ role = "assistant"
  <2>1. request.protocol # "openai" /\ role # "system" /\ role # "tool"
    BY <1>7
  <2>2. MessagesOf(m) = AssistantMessage(m)
    BY <1>1, <1>7, <2>1 DEF MessagesOf
  <2>3. AssistantMessage(m) = Sole(role, t, c, e)
    BY <1>2, <1>7, Zenon DEF AssistantMessage, Sole
  <2>4. KeptOf(m) = t \o c
    BY <1>1, <1>2, <1>7 DEF KeptOf
  <2>5. Sole(role, t, c, e) \in Seq(Msg) /\ Mapped(RigOf, Sole(role, t, c, e)) = t \o c
    BY <2>1, SoleIs
  <2> QED BY <2>2, <2>3, <2>4, <2>5, Zenon DEF Passed
<1>8. CASE request.protocol = "anthropic" /\ role \notin {"user", "assistant"}
  <2>1. request.protocol # "openai"
    BY <1>8
  <2>2. MessagesOf(m) = OtherMessage(m)
    BY <1>1, <1>8, <2>1 DEF MessagesOf
  <2>3. OtherMessage(m) = Sole(role, t, z, e)
    BY <1>1, <1>2, Zenon DEF OtherMessage, Sole
  <2>4. role # "tool"
    BY <1>1, <1>8 DEF Expressible
  <2>5. /\ Sole(role, t, z, e) \in Seq(Msg)
        /\ Mapped(RigOf, Sole(role, t, z, e)) = IF role = "system" THEN <<>> ELSE t \o z
    BY <2>4, SoleIs
  <2>6. CASE role = "system"
    <3>1. KeptOf(m) = <<>>
      BY <1>1, <2>6 DEF KeptOf
    <3> QED BY <2>2, <2>3, <2>5, <2>6, <3>1, Zenon DEF Passed
  <2>7. CASE role # "system"
    <3>1. ~ Taken(Sole(role, t, z, e))
      BY <1>8, <2>4, <2>7, OtherRefused
    <3> QED BY <2>2, <2>3, <2>5, <3>1, Zenon DEF Passed
  <2> QED BY <2>6, <2>7
<1> QED BY <1>4, <1>5, <1>6, <1>7, <1>8

-----------------------------------------------------------------------------
LEMMA RequestIsKept ==
  ASSUME Typed, request.protocol \in {"openai", "anthropic"}, Expressible(request.protocol, request.talk),
         BuildRequest.sent
  PROVE  BuildRequest.blocks = KeptBlocks
<1>1. PICK n \in Nat : DOMAIN request.talk = 1..n
  <2>1. PICK R : R = [role : STRING, kinds : Seq(BlockKinds)]
    OBVIOUS
  <2>2. PICK t \in Seq(R) : t = request.talk
    BY <2>1 DEF Typed
  <2>3. Len(t) \in Nat /\ DOMAIN t = 1..Len(t)
    BY LenProperties
  <2> QED BY <2>2, <2>3
<1>2. \A m \in 1..n : Passed(m)
  BY <1>1, EachPasses
<1>3. PICK ss \in Seq(Seq(Msg)) :
        /\ ss = [m \in DOMAIN request.talk |-> MessagesOf(m)]
        /\ DOMAIN ss = 1..n /\ \A m \in 1..n : ss[m] = MessagesOf(m)
  <2>1. \A m \in 1..n : MessagesOf(m) \in Seq(Msg)
    BY <1>2, Zenon DEF Passed
  <2>2. PICK ss \in [1..n -> Seq(Msg)] : ss = [m \in DOMAIN request.talk |-> MessagesOf(m)]
    BY <1>1, <2>1
  <2>3. ss \in Seq(Seq(Msg))
    BY SeqDef
  <2> QED BY <1>1, <2>2, <2>3
<1>4. PICK w \in Seq(Msg) : w = FlattenSeq(ss) /\ w = Messages
  <2>1. FlattenSeq(ss) \in Seq(Msg)
    BY FlattenIsSeq
  <2> QED BY <1>3, <2>1, Zenon DEF Messages
<1>5. /\ \A i \in DOMAIN w : w[i].role # "system" => Accepted(w[i])
      /\ BuildRequest.blocks = FlattenSeq([i \in DOMAIN w |-> IF w[i].role # "system" THEN Rig(w[i]) ELSE <<>>])
  <2>1. PICK h : h = {i \in DOMAIN w : w[i].role # "system"}
    OBVIOUS
  <2>2. BuildRequest = IF h = {} \/ \E i \in h : ~ Accepted(w[i]) THEN Refused
                       ELSE Sent(FlattenSeq([i \in DOMAIN w |-> IF i \in h THEN Rig(w[i]) ELSE <<>>]))
    BY <1>4, <2>1, Zenon DEF BuildRequest
  <2>3. Refused.sent = FALSE
    BY DEF Refused
  <2>4. ~ (h = {} \/ \E i \in h : ~ Accepted(w[i]))
    BY <2>2, <2>3, Zenon
  <2>5. PICK v : v = FlattenSeq([i \in DOMAIN w |-> IF i \in h THEN Rig(w[i]) ELSE <<>>])
    OBVIOUS
  <2>6. BuildRequest = Sent(v)
    BY <2>2, <2>4, <2>5, Zenon
  <2>7. BuildRequest.blocks = v
    BY <2>6 DEF Sent
  <2>8. [i \in DOMAIN w |-> IF i \in h THEN Rig(w[i]) ELSE <<>>]
          = [i \in DOMAIN w |-> IF w[i].role # "system" THEN Rig(w[i]) ELSE <<>>]
    BY <2>1
  <2>9. \A i \in DOMAIN w : w[i].role # "system" => Accepted(w[i])
    BY <2>1, <2>4
  <2> QED BY <2>5, <2>7, <2>8, <2>9, Zenon
<1>6. BuildRequest.blocks = Mapped(RigOf, w)
  <2>1. \A i \in DOMAIN w : w[i] \in Msg
    BY LenProperties, ElementOfSeq
  <2>2. \A i \in DOMAIN w : RigOf[w[i]] = IF w[i].role # "system" THEN Rig(w[i]) ELSE <<>>
    BY <2>1, Zenon DEF RigOf
  <2>3. [i \in DOMAIN w |-> IF w[i].role # "system" THEN Rig(w[i]) ELSE <<>>] = Images(RigOf, w)
    BY <2>2 DEF Images
  <2> QED BY <1>5, <2>3, Zenon DEF Mapped
<1>7. ASSUME NEW m \in 1..n PROVE Mapped(RigOf, ss[m]) = KeptOf(m)
  <2>1. HasAll(Msg, ss)
    BY FlattenHasAll
  <2>2. \A i \in DOMAIN ss[m] : \E j \in DOMAIN w : w[j] = ss[m][i]
    <3>1. m \in DOMAIN ss
      BY <1>3
    <3>2. \A i \in DOMAIN ss[m] : \E j \in DOMAIN FlattenSeq(ss) : FlattenSeq(ss)[j] = ss[m][i]
      BY <2>1, <3>1 DEF HasAll
    <3>3. FlattenSeq(ss) = w
      BY <1>4
    <3> QED BY <3>2, <3>3, Zenon
  <2>3. Taken(ss[m])
    BY <1>5, <2>2 DEF Taken
  <2>4. Passed(m)
    BY <1>2
  <2> QED BY <1>3, <2>3, <2>4, Zenon DEF Passed
<1>8. JoinsMapped(RigOf, ss)
  BY RigTypes, MappedFlatten
<1>9. [m \in DOMAIN ss |-> Mapped(RigOf, ss[m])] = [m \in DOMAIN request.talk |-> KeptOf(m)]
  BY <1>1, <1>3, <1>7
<1> QED BY <1>4, <1>6, <1>8, <1>9, Zenon DEF JoinsMapped, KeptBlocks

LEMMA GivenStays ==
  ASSUME request' = request
  PROVE  Given' = Given
BY SMT DEF Given, Passthrough, BuildRequest, PromptTexts, Messages, MessagesOf, OpenAiMessage,
           UserMessages, AssistantMessage, OtherMessage, Scan, Places, Gathered

TranscriptInv ==
  /\ request \in [protocol : {"openai", "anthropic"}, talk : Talks, tools : BOOLEAN, optin : BOOLEAN,
                  stream : BOOLEAN, usage : BOOLEAN]
  /\ Expressible(request.protocol, request.talk)
  /\ given = Unsent \/ given = Given

\* A conversation with tools reaches the model without loss, whatever its messages,
\* their number and their blocks are: every text, tool use and tool result once, in its
\* place, whichever protocol the client speaks (translate_user_message,
\* translate_assistant_message, oai_message_to_rig, build_request).
THEOREM TranscriptsAreKept ==
  GatewayInit /\ [][GatewayNext]_gatewayVars => []TranscriptIsKept
<1>1. GatewayInit => TranscriptInv
  BY DEF GatewayInit, TranscriptInv
<1>2. TranscriptInv /\ [GatewayNext]_gatewayVars => TranscriptInv'
  <2> SUFFICES ASSUME TranscriptInv, [GatewayNext]_gatewayVars PROVE TranscriptInv'
    OBVIOUS
  <2>1. request' = request /\ (given' = given \/ given' = Given)
    BY DEF GatewayNext, gatewayVars, Dispatch, Progress, Step, Retry, Complete, Reply, Finish
  <2>2. Expressible(request.protocol, request.talk)' /\ Given' = Given
    BY <2>1, GivenStays, Zenon DEF TranscriptInv, Expressible
  <2> QED BY <2>1, <2>2, Zenon DEF TranscriptInv, Unsent
<1>3. TranscriptInv => TranscriptIsKept
  <2> SUFFICES ASSUME TranscriptInv, Passthrough, given.sent PROVE given.blocks = KeptBlocks
    BY Zenon DEF TranscriptIsKept
  <2>1. Typed
    <3>1. request.talk \in Talks
      BY DEF TranscriptInv
    <3> QED BY <3>1, TalksAssumption, Zenon DEF Typed, BlockKinds
  <2>2. given # Unsent
    BY DEF Unsent
  <2>3. given = BuildRequest
    BY <2>2, Zenon DEF TranscriptInv, Given
  <2>4. request.protocol \in {"openai", "anthropic"}
    BY DEF TranscriptInv
  <2>5. Expressible(request.protocol, request.talk)
    BY DEF TranscriptInv
  <2>6. BuildRequest.sent
    BY <2>3
  <2>7. BuildRequest.blocks = KeptBlocks
    BY <2>1, <2>4, <2>5, <2>6, RequestIsKept
  <2> QED BY <2>3, <2>7, Zenon
<1> QED BY <1>1, <1>2, <1>3, PTL

-----------------------------------------------------------------------------
(* Counts of flows on their way to the pod that shows them, and the token. *)

\* What the view holds of a peer after an item.
PartOf(item) == IF item = Gone THEN 0 ELSE item

\* Once the channel is drained the view holds v of peer q.
EndsWith(q, v) ==
  \/ \E i \in 1..Len(chan) : /\ chan[i].peer = q /\ PartOf(chan[i].item) = v
                             /\ \A j \in 1..Len(chan) : i < j => chan[j].peer # q
  \/ (\A i \in 1..Len(chan) : chan[i].peer # q) /\ bySource[q] = v

\* The newest value of q that is on its way is its count.
LatestComes(q) ==
  IF conn[q].pending # Nothing THEN conn[q].pending = count[q]
  ELSE IF conn[q].out # <<>> THEN conn[q].out[Len(conn[q].out)] = count[q]
       ELSE EndsWith(q, count[q])

\* A thread has yet to broadcast the count as it is.
Unsaid(p) == count[p] \in sending[p]

CountsAreTold ==
  \A p \in Pods :
    /\ sent[p] <= count[p]
    /\ \A v \in sending[p] : v <= count[p]
    /\ ~misordered => Unsaid(p) \/ sent[p] = count[p]

OwnArrives ==
  ~misordered /\ ~Unsaid(Viewer) /\ Viewer \notin lagged =>
    IF local # <<>> THEN local[Len(local)] = count[Viewer] ELSE bySource[Viewer] = count[Viewer]

\* An update that came before the snapshot may be older than it only while a newer
\* one is still to come; nothing is said of a stream that has lost the last one.
StreamAgrees(q) ==
  ~misordered /\ ~straggled /\ conn[q].sub /\ ~Unsaid(q) =>
    /\ follower[q] = "opening" => conn[q].pending \in {Nothing, count[q]}
    /\ follower[q] = "streaming" /\ q \notin lagged => LatestComes(q)

\* Nothing follows the Gone of a peer.
LeftPeer(q) == ~straggled /\ follower[q] = "none" => EndsWith(q, 0)

PeerInv(q) == StreamAgrees(q) /\ LeftPeer(q)

Streams == [sub : BOOLEAN, pending : Nat \cup {Nothing}, out : Seq(Nat)]
PeerLines == [peer : Peers, item : Nat \cup {Gone}]

CountTypes ==
  /\ count \in [Pods -> Nat] /\ sending \in [Pods -> SUBSET Nat] /\ sent \in [Pods -> Nat]
  /\ misordered \in BOOLEAN /\ straggled \in BOOLEAN

StreamTypes ==
  /\ local \in Seq(Nat)
  /\ follower \in [Peers -> {"none", "connecting", "opening", "streaming"}]
  /\ conn \in [Peers -> Streams]
  /\ late \in [Peers -> Nat \cup {Nothing}]
  /\ chan \in Seq(PeerLines)
  /\ bySource \in [Pods -> Nat]

CurrentInv ==
  /\ CountTypes /\ StreamTypes /\ CountsAreTold /\ OwnArrives
  /\ \A q \in Peers : PeerInv(q)

LEMMA PodsAre == Viewer \in Pods /\ Peers \subseteq Pods /\ (\A q \in Peers : q # Viewer) /\ WatchCapacity \in Nat \ {0}
                 /\ (\A p \in Pods : p # Viewer => p \in Peers)
                 /\ Nothing \notin Nat /\ Gone \notin Nat
BY ConstantsAssumption DEF Pods, Nothing, Gone

LEMMA Beheaded ==
  ASSUME NEW S, NEW s \in Seq(S), s # <<>>
  PROVE  /\ Head(s) \in S /\ Tail(s) \in Seq(S) /\ Len(s) \in Nat \ {0} /\ Head(s) = s[1]
         /\ Len(Tail(s)) = Len(s) - 1
         /\ \A i \in 1..(Len(s) - 1) : Tail(s)[i] = s[i + 1]
<1>1. Len(s) \in Nat /\ Len(s) # 0
  BY EmptySeq, LenProperties
<1> QED BY <1>1, HeadTailProperties

\* EndsWith, of the state after a step.
EndsNext(q, v) ==
  \/ \E i \in 1..Len(chan') : /\ chan'[i].peer = q /\ PartOf(chan'[i].item) = v
                              /\ \A j \in 1..Len(chan') : i < j => chan'[j].peer # q
  \/ (\A i \in 1..Len(chan') : chan'[i].peer # q) /\ bySource'[q] = v

EndsStay(q) == \A v \in Nat : EndsWith(q, v) => EndsNext(q, v)

LEMMA EndsSame ==
  ASSUME NEW q, chan' = chan, bySource'[q] = bySource[q]
  PROVE  EndsStay(q)
BY DEF EndsStay, EndsWith, EndsNext

\* A new item is the last of its peer, and nothing to the others.
LEMMA EndsAppended ==
  ASSUME chan \in Seq(PeerLines), NEW r \in Peers, NEW x \in Nat \cup {Gone},
         chan' = Append(chan, [peer |-> r, item |-> x])
  PROVE  /\ EndsNext(r, PartOf(x))
         /\ bySource' = bySource => \A q \in Peers : q # r => EndsStay(q)
<1> DEFINE e == [peer |-> r, item |-> x]
<1>1. e \in PeerLines /\ e.peer = r /\ e.item = x
  BY DEF PeerLines
<1>2. /\ Len(chan) \in Nat /\ Len(chan') = Len(chan) + 1
      /\ \A i \in 1..Len(chan) : chan'[i] = chan[i]
      /\ chan'[Len(chan) + 1] = e
  BY <1>1, AppendProperties
<1> HIDE DEF e
<1>3. EndsNext(r, PartOf(x))
  <2>1. Len(chan) + 1 \in 1..Len(chan') /\ \A j \in 1..Len(chan') : ~(Len(chan) + 1 < j)
    BY <1>2
  <2>2. chan'[Len(chan) + 1].peer = r /\ PartOf(chan'[Len(chan) + 1].item) = PartOf(x)
    BY <1>1, <1>2
  <2> QED BY <2>1, <2>2 DEF EndsNext
<1>4. ASSUME bySource' = bySource, NEW q \in Peers, q # r, NEW v \in Nat, EndsWith(q, v) PROVE EndsNext(q, v)
  <2>1. CASE \E i \in 1..Len(chan) : /\ chan[i].peer = q /\ PartOf(chan[i].item) = v
                                     /\ \A j \in 1..Len(chan) : i < j => chan[j].peer # q
    <3>1. PICK i \in 1..Len(chan) : /\ chan[i].peer = q /\ PartOf(chan[i].item) = v
                                    /\ \A j \in 1..Len(chan) : i < j => chan[j].peer # q
      BY <2>1
    <3>2. i \in 1..Len(chan') /\ chan'[i] = chan[i]
      BY <1>2
    <3>3. ASSUME NEW j \in 1..Len(chan'), i < j PROVE chan'[j].peer # q
      BY <1>1, <1>2, <1>4, <3>1, <3>3
    <3> QED BY <3>1, <3>2, <3>3 DEF EndsNext
  <2>2. CASE (\A i \in 1..Len(chan) : chan[i].peer # q) /\ bySource[q] = v
    <3>1. ASSUME NEW j \in 1..Len(chan') PROVE chan'[j].peer # q
      BY <1>1, <1>2, <1>4, <2>2
    <3> QED BY <1>4, <2>2, <3>1 DEF EndsNext
  <2> QED BY <1>4, <2>1, <2>2 DEF EndsWith
<1> QED BY <1>3, <1>4 DEF EndsStay

\* Taking an item from the channel brings no surprise.
LEMMA EndsTaken ==
  ASSUME StreamTypes, TakeRemote
  PROVE  \A q \in Peers : EndsStay(q)
<1> SUFFICES ASSUME NEW q \in Peers, NEW v \in Nat, EndsWith(q, v) PROVE EndsNext(q, v)
  BY DEF EndsStay
<1> DEFINE e == Head(chan)
<1>1. /\ e \in PeerLines /\ Len(chan) \in Nat \ {0} /\ e = chan[1]
      /\ Len(chan') = Len(chan) - 1
      /\ \A i \in 1..(Len(chan) - 1) : chan'[i] = chan[i + 1]
  BY Beheaded DEF TakeRemote, StreamTypes
<1>2. bySource' = [bySource EXCEPT ![e.peer] = PartOf(e.item)]
  BY DEF TakeRemote, PartOf
<1> HIDE DEF e
<1>3. bySource'[q] = IF e.peer = q THEN PartOf(e.item) ELSE bySource[q]
  BY <1>1, <1>2, PodsAre DEF StreamTypes, PeerLines
<1>4. CASE \E i \in 1..Len(chan) : /\ chan[i].peer = q /\ PartOf(chan[i].item) = v
                                   /\ \A j \in 1..Len(chan) : i < j => chan[j].peer # q
  <2>1. PICK i \in 1..Len(chan) : /\ chan[i].peer = q /\ PartOf(chan[i].item) = v
                                  /\ \A j \in 1..Len(chan) : i < j => chan[j].peer # q
    BY <1>4
  <2>2. CASE i = 1
    <3>1. ASSUME NEW j \in 1..Len(chan') PROVE chan'[j].peer # q
      <4>1. chan'[j] = chan[j + 1] /\ j + 1 \in 1..Len(chan) /\ 1 < j + 1
        BY <1>1
      <4> QED BY <2>1, <2>2, <4>1
    <3> QED BY <1>1, <1>3, <2>1, <2>2, <3>1 DEF EndsNext
  <2>3. CASE i # 1
    <3>1. i - 1 \in 1..Len(chan') /\ chan'[i - 1] = chan[i]
      BY <1>1, <2>3
    <3>2. ASSUME NEW j \in 1..Len(chan'), i - 1 < j PROVE chan'[j].peer # q
      <4>1. chan'[j] = chan[j + 1] /\ j + 1 \in 1..Len(chan) /\ i < j + 1
        BY <1>1, <3>2
      <4> QED BY <2>1, <4>1
    <3> QED BY <2>1, <3>1, <3>2 DEF EndsNext
  <2> QED BY <2>2, <2>3
<1>5. CASE (\A i \in 1..Len(chan) : chan[i].peer # q) /\ bySource[q] = v
  <2>1. e.peer # q
    BY <1>1, <1>5
  <2>2. ASSUME NEW j \in 1..Len(chan') PROVE chan'[j].peer # q
    <3>1. chan'[j] = chan[j + 1] /\ j + 1 \in 1..Len(chan)
      BY <1>1
    <3> QED BY <1>5, <3>1
  <2> QED BY <1>3, <1>5, <2>1, <2>2 DEF EndsNext
<1> QED BY <1>4, <1>5 DEF EndsWith

LEMMA MaxOfTwo ==
  ASSUME NEW a \in Nat, NEW b \in Nat
  PROVE  Max({a, b}) = IF a < b THEN b ELSE a
<1>1. \E x \in {a, b} : \A y \in {a, b} : x >= y
  OBVIOUS
<1>2. Max({a, b}) \in {a, b} /\ \A y \in {a, b} : Max({a, b}) >= y
  BY <1>1 DEF Max
<1> QED BY <1>2

LEMMA QueuedIs ==
  ASSUME NEW s \in Seq(Nat), NEW v \in Nat
  PROVE  Queued(s, v) \in Seq(Nat) /\ Queued(s, v) # <<>> /\ Queued(s, v)[Len(Queued(s, v))] = v
<1>1. ASSUME NEW r \in Seq(Nat)
      PROVE  Append(r, v) \in Seq(Nat) /\ Append(r, v) # <<>> /\ Append(r, v)[Len(Append(r, v))] = v
  <2>1. Len(r) \in Nat /\ Append(r, v) \in Seq(Nat) /\ Len(Append(r, v)) = Len(r) + 1
    BY AppendProperties, LenProperties
  <2>2. Append(r, v)[Len(r) + 1] = v
    BY AppendProperties
  <2>3. Append(r, v) # <<>>
    BY <2>1, EmptySeq
  <2> QED BY <2>1, <2>2, <2>3
<1>2. CASE Len(s) < WatchCapacity
  BY <1>1, <1>2 DEF Queued
<1>3. CASE ~(Len(s) < WatchCapacity)
  <2>1. s # <<>>
    BY <1>3, PodsAre, EmptySeq
  <2>2. Tail(s) \in Seq(Nat)
    BY <2>1, Beheaded
  <2> QED BY <1>1, <1>3, <2>2 DEF Queued
<1> QED BY <1>2, <1>3

LEMMA CountTypesKept ==
  ASSUME CountTypes, [Next]_vars
  PROVE  CountTypes'
<1> USE PodsAre DEF CountTypes
<1>1. ASSUME NEW p \in Pods, Record(p) PROVE CountTypes'
  BY <1>1 DEF Record, streamVars
<1>2. ASSUME NEW p \in Pods, NEW v \in sending[p], Publish(p, v) PROVE CountTypes'
  <2>1. sent' = [sent EXCEPT ![p] = Max({sent[p], v})] /\ Max({sent[p], v}) \in Nat
    BY <1>2, MaxOfTwo DEF Publish
  <2>2. sending' \in [Pods -> SUBSET Nat] /\ count' = count /\ misordered' \in BOOLEAN /\ straggled' = straggled
    BY <1>2 DEF Publish
  <2> QED BY <2>1, <2>2
<1>3. ASSUME NEW q \in Peers, Vanish(q) PROVE CountTypes'
  BY <1>3 DEF Vanish
<1>4. ASSUME NEW q \in Peers, SendLate(q) PROVE CountTypes'
  BY <1>4 DEF SendLate, countVars
<1>5. ASSUME UNCHANGED countVars, straggled' = straggled PROVE CountTypes'
  BY <1>5 DEF countVars
<1>6. ASSUME NEW p \in Pods, AgeToken(p) \/ LoadToken(p) \/ CreateToken(p) \/ Regenerate(p)
      PROVE  UNCHANGED countVars /\ straggled' = straggled
  BY <1>6 DEF AgeToken, LoadToken, CreateToken, Regenerate, streamVars
<1>7. ASSUME NEW q \in Peers, Appear(q) \/ Unlist(q) \/ FollowNew(q) \/ GiveUp(q)
      PROVE  UNCHANGED countVars /\ straggled' = straggled
  BY <1>7 DEF Appear, Unlist, FollowNew, GiveUp, streamVars
<1>8. ASSUME NEW q \in Peers, ConnectPeer(q) \/ Snapshot(q) \/ FlushUpdate(q) \/ Forward(q) \/ StreamEnds(q)
      PROVE  UNCHANGED countVars /\ straggled' = straggled
  BY <1>8 DEF ConnectPeer, Snapshot, FlushUpdate, Forward, StreamEnds
<1>9. ASSUME TakeLocal \/ LagLocal \/ TakeRemote PROVE UNCHANGED countVars /\ straggled' = straggled
  BY <1>9 DEF TakeLocal, LagLocal, TakeRemote
<1>10. ASSUME UNCHANGED vars PROVE UNCHANGED countVars /\ straggled' = straggled
  BY <1>10 DEF vars, countVars
<1> QED BY <1>1, <1>2, <1>3, <1>4, <1>5, <1>6, <1>7, <1>8, <1>9, <1>10, Zenon DEF Next

LEMMA CountsTold ==
  ASSUME CountTypes, CountsAreTold, [Next]_vars
  PROVE  CountsAreTold'
<1> USE PodsAre DEF CountTypes
<1>1. ASSUME NEW p \in Pods, Record(p) PROVE CountsAreTold'
  <2>1. /\ count' = [count EXCEPT ![p] = count[p] + 1]
        /\ sending' = [sending EXCEPT ![p] = sending[p] \cup {count[p] + 1}]
        /\ sent' = sent /\ misordered' = misordered
    BY <1>1 DEF Record
  <2>2. ASSUME NEW r \in Pods, r # p
        PROVE  count'[r] = count[r] /\ sending'[r] = sending[r] /\ sent'[r] = sent[r]
    BY <2>1, <2>2
  <2>3. count'[p] = count[p] + 1 /\ sending'[p] = sending[p] \cup {count[p] + 1} /\ sent'[p] = sent[p]
    BY <2>1
  <2> QED BY <2>1, <2>2, <2>3 DEF CountsAreTold, Unsaid
<1>2. ASSUME NEW p \in Pods, NEW v \in sending[p], Publish(p, v) PROVE CountsAreTold'
  <2>1. /\ count' = count /\ sending' = [sending EXCEPT ![p] = sending[p] \ {v}]
        /\ sent' = [sent EXCEPT ![p] = Max({sent[p], v})]
        /\ misordered' = (misordered \/ v < sent[p])
    BY <1>2 DEF Publish
  <2>2. ASSUME NEW r \in Pods, r # p
        PROVE  count'[r] = count[r] /\ sending'[r] = sending[r] /\ sent'[r] = sent[r]
    BY <2>1, <2>2
  <2>3. v \in Nat /\ v <= count[p] /\ sent[p] <= count[p]
    BY DEF CountsAreTold
  <2>4. /\ count'[p] = count[p] /\ sending'[p] = sending[p] \ {v}
        /\ sent'[p] = IF sent[p] < v THEN v ELSE sent[p]
    BY <2>1, <2>3, MaxOfTwo
  <2>5. ASSUME ~misordered' PROVE Unsaid(p)' \/ sent'[p] = count'[p]
    <3>1. ~misordered /\ ~(v < sent[p])
      BY <2>1, <2>5
    <3>2. Unsaid(p) \/ sent[p] = count[p]
      BY <3>1 DEF CountsAreTold
    <3> QED BY <2>3, <2>4, <3>1, <3>2 DEF Unsaid
  <2>6. sent'[p] <= count'[p] /\ \A w \in sending'[p] : w <= count'[p]
    BY <2>3, <2>4 DEF CountsAreTold
  <2> QED BY <2>1, <2>2, <2>5, <2>6 DEF CountsAreTold, Unsaid
<1>3. ASSUME NEW q \in Peers, Vanish(q) PROVE CountsAreTold'
  <2>1. /\ count' = [count EXCEPT ![q] = 0] /\ sending' = [sending EXCEPT ![q] = {}]
        /\ sent' = [sent EXCEPT ![q] = 0] /\ misordered' = misordered
    BY <1>3 DEF Vanish
  <2>2. ASSUME NEW r \in Pods, r # q
        PROVE  count'[r] = count[r] /\ sending'[r] = sending[r] /\ sent'[r] = sent[r]
    BY <2>1, <2>2
  <2>3. count'[q] = 0 /\ sending'[q] = {} /\ sent'[q] = 0
    BY <2>1
  <2> QED BY <2>1, <2>2, <2>3 DEF CountsAreTold, Unsaid
<1>4. ASSUME UNCHANGED countVars PROVE CountsAreTold'
  BY <1>4 DEF countVars, CountsAreTold, Unsaid
<1>5. ASSUME NEW p \in Pods, AgeToken(p) \/ LoadToken(p) \/ CreateToken(p) \/ Regenerate(p)
      PROVE  UNCHANGED countVars
  BY <1>5 DEF AgeToken, LoadToken, CreateToken, Regenerate
<1>6. ASSUME NEW q \in Peers, Appear(q) \/ Unlist(q) \/ FollowNew(q) \/ GiveUp(q) \/ SendLate(q)
      PROVE  UNCHANGED countVars
  BY <1>6 DEF Appear, Unlist, FollowNew, GiveUp, SendLate
<1>7. ASSUME NEW q \in Peers, ConnectPeer(q) \/ Snapshot(q) \/ FlushUpdate(q) \/ Forward(q) \/ StreamEnds(q)
      PROVE  UNCHANGED countVars
  BY <1>7 DEF ConnectPeer, Snapshot, FlushUpdate, Forward, StreamEnds
<1>8. ASSUME TakeLocal \/ LagLocal \/ TakeRemote PROVE UNCHANGED countVars
  BY <1>8 DEF TakeLocal, LagLocal, TakeRemote
<1>9. ASSUME UNCHANGED vars PROVE UNCHANGED countVars
  BY <1>9 DEF vars, countVars
<1> QED BY <1>1, <1>2, <1>3, <1>4, <1>5, <1>6, <1>7, <1>8, <1>9, Zenon DEF Next

LEMMA StreamTypesKept ==
  ASSUME CountTypes, StreamTypes, [Next]_vars
  PROVE  StreamTypes'
<1> USE PodsAre DEF StreamTypes
<1>1. ASSUME NEW p \in Pods, Record(p) PROVE UNCHANGED streamVars
  BY <1>1 DEF Record
<1>2. ASSUME NEW p \in Pods, NEW v \in sending[p], Publish(p, v) PROVE StreamTypes'
  <2>1. v \in Nat
    BY DEF CountTypes
  <2>2. UNCHANGED <<follower, late, chan, bySource>>
    BY <1>2 DEF Publish
  <2>3. CASE p = Viewer
    BY <1>2, <2>1, <2>2, <2>3, QueuedIs DEF Publish
  <2>4. CASE p # Viewer
    <3>1. /\ local' = local
          /\ \/ \E x \in {v, Nothing, conn[p].pending} : conn' = [conn EXCEPT ![p].pending = x]
             \/ conn' = conn
      BY <1>2, <2>4 DEF Publish
    <3>2. conn' \in [Peers -> Streams]
      <4>1. ASSUME NEW x \in {v, Nothing, conn[p].pending}, conn' = [conn EXCEPT ![p].pending = x]
            PROVE  conn' \in [Peers -> Streams]
        <5>1. p \in Peers /\ conn[p].pending \in Nat \cup {Nothing}
          BY <2>4 DEF Streams
        <5>2. x \in Nat \cup {Nothing}
          BY <2>1, <5>1
        <5> QED BY <4>1, <5>1, <5>2 DEF Streams
      <4> QED BY <3>1, <4>1
    <3> QED BY <2>2, <3>1, <3>2
  <2> QED BY <2>3, <2>4
<1>3. ASSUME NEW q \in Peers, Vanish(q) PROVE StreamTypes'
  <2>1. conn' = [conn EXCEPT ![q].sub = FALSE, ![q].pending = Nothing] /\ UNCHANGED <<local, follower, late, chan, bySource>>
    BY <1>3 DEF Vanish
  <2> QED BY <2>1 DEF Streams
<1>4. ASSUME NEW q \in Peers, FollowNew(q) PROVE StreamTypes'
  BY <1>4 DEF FollowNew
<1>5. ASSUME NEW q \in Peers, GiveUp(q) PROVE StreamTypes'
  <2>1. /\ UNCHANGED <<local, bySource>> /\ follower' = [follower EXCEPT ![q] = "none"]
        /\ conn' = [conn EXCEPT ![q] = Idle] /\ chan' = Append(chan, [peer |-> q, item |-> Gone])
        /\ (conn[q].out # <<>> /\ late' = [late EXCEPT ![q] = Head(conn[q].out)]) \/ late' = late
    BY <1>5 DEF GiveUp
  <2>2. Idle \in Streams
    BY EmptySeq DEF Idle, Streams
  <2>3. [peer |-> q, item |-> Gone] \in PeerLines
    BY DEF PeerLines
  <2>4. chan' \in Seq(PeerLines)
    BY <2>1, <2>3, AppendProperties
  <2>5. conn[q].out # <<>> => Head(conn[q].out) \in Nat
    BY Beheaded DEF Streams
  <2>6. late' \in [Peers -> Nat \cup {Nothing}]
    BY <2>1, <2>5
  <2> QED BY <2>1, <2>2, <2>4, <2>6
<1>6. ASSUME NEW q \in Peers, SendLate(q) PROVE StreamTypes'
  <2>1. /\ UNCHANGED <<local, follower, conn, bySource>> /\ late' = [late EXCEPT ![q] = Nothing]
        /\ chan' = Append(chan, [peer |-> q, item |-> late[q]]) /\ late[q] # Nothing
    BY <1>6 DEF SendLate
  <2>2. [peer |-> q, item |-> late[q]] \in PeerLines
    BY <2>1 DEF PeerLines
  <2>3. chan' \in Seq(PeerLines)
    BY <2>1, <2>2, AppendProperties
  <2> QED BY <2>1, <2>3
<1>7. ASSUME NEW q \in Peers, ConnectPeer(q) PROVE StreamTypes'
  <2>1. /\ UNCHANGED <<local, late, chan, bySource>>
        /\ \/ UNCHANGED <<follower, conn>>
           \/ follower' = [follower EXCEPT ![q] = "opening"] /\ conn' = [conn EXCEPT ![q] = [Idle EXCEPT !.sub = TRUE]]
    BY <1>7 DEF ConnectPeer
  <2>2. [Idle EXCEPT !.sub = TRUE] \in Streams
    BY EmptySeq DEF Idle, Streams
  <2> QED BY <2>1, <2>2
<1>8. ASSUME NEW q \in Peers, Snapshot(q) PROVE StreamTypes'
  <2>1. /\ UNCHANGED <<local, late, chan, bySource>>
        /\ follower' = [follower EXCEPT ![q] = "streaming"] /\ conn' = [conn EXCEPT ![q].out = <<count[q]>>]
    BY <1>8 DEF Snapshot
  <2>2. <<count[q]>> \in Seq(Nat)
    BY DEF CountTypes
  <2> QED BY <2>1, <2>2 DEF Streams
<1>9. ASSUME NEW q \in Peers, FlushUpdate(q) PROVE StreamTypes'
  <2>1. /\ UNCHANGED <<local, follower, late, chan, bySource>> /\ conn[q].pending # Nothing
        /\ conn' = [conn EXCEPT ![q].out = Append(conn[q].out, conn[q].pending), ![q].pending = Nothing]
    BY <1>9 DEF FlushUpdate
  <2>2. Append(conn[q].out, conn[q].pending) \in Seq(Nat)
    BY <2>1, AppendProperties DEF Streams
  <2> QED BY <2>1, <2>2 DEF Streams
<1>10. ASSUME NEW q \in Peers, Forward(q) PROVE StreamTypes'
  <2>1. /\ UNCHANGED <<local, follower, late, bySource>> /\ conn[q].out # <<>>
        /\ conn' = [conn EXCEPT ![q].out = Tail(conn[q].out)]
        /\ chan' = Append(chan, [peer |-> q, item |-> Head(conn[q].out)])
    BY <1>10 DEF Forward
  <2>2. Head(conn[q].out) \in Nat /\ Tail(conn[q].out) \in Seq(Nat)
    BY <2>1, Beheaded DEF Streams
  <2>3. [peer |-> q, item |-> Head(conn[q].out)] \in PeerLines
    BY <2>2 DEF PeerLines
  <2>4. chan' \in Seq(PeerLines)
    BY <2>1, <2>3, AppendProperties
  <2> QED BY <2>1, <2>2, <2>4 DEF Streams
<1>11. ASSUME NEW q \in Peers, StreamEnds(q) PROVE StreamTypes'
  <2>1. /\ UNCHANGED <<local, late, chan, bySource>> /\ follower' = [follower EXCEPT ![q] = "connecting"]
        /\ conn' = [conn EXCEPT ![q] = Idle]
    BY <1>11 DEF StreamEnds
  <2>2. Idle \in Streams
    BY EmptySeq DEF Idle, Streams
  <2> QED BY <2>1, <2>2
<1>12. ASSUME TakeLocal PROVE StreamTypes'
  <2>1. Head(local) \in Nat /\ Tail(local) \in Seq(Nat)
    BY <1>12, Beheaded DEF TakeLocal
  <2> QED BY <1>12, <2>1 DEF TakeLocal
<1>18. ASSUME LagLocal PROVE StreamTypes'
  <2>1. Tail(local) \in Seq(Nat)
    BY <1>18, Beheaded DEF LagLocal
  <2> QED BY <1>18, <2>1 DEF LagLocal
<1>13. ASSUME TakeRemote PROVE StreamTypes'
  <2>1. Head(chan) \in PeerLines /\ Tail(chan) \in Seq(PeerLines)
    BY <1>13, Beheaded DEF TakeRemote
  <2>2. /\ UNCHANGED <<local, follower, conn, late>> /\ chan' = Tail(chan)
        /\ bySource' = [bySource EXCEPT ![Head(chan).peer] = IF Head(chan).item = Gone THEN 0 ELSE Head(chan).item]
    BY <1>13 DEF TakeRemote
  <2>3. bySource' \in [Pods -> Nat]
    BY <2>1, <2>2 DEF PeerLines
  <2> QED BY <2>1, <2>2, <2>3
<1>14. ASSUME NEW p \in Pods, AgeToken(p) \/ LoadToken(p) \/ CreateToken(p) \/ Regenerate(p)
       PROVE  UNCHANGED streamVars
  BY <1>14 DEF AgeToken, LoadToken, CreateToken, Regenerate
<1>15. ASSUME NEW q \in Peers, Appear(q) \/ Unlist(q) PROVE UNCHANGED streamVars
  BY <1>15 DEF Appear, Unlist
<1>16. ASSUME UNCHANGED vars PROVE UNCHANGED streamVars
  BY <1>16 DEF vars, streamVars
<1>17. ASSUME UNCHANGED streamVars PROVE StreamTypes'
  BY <1>17 DEF streamVars
<1> QED BY <1>1, <1>2, <1>3, <1>4, <1>5, <1>6, <1>7, <1>8, <1>9, <1>10, <1>11, <1>12, <1>13, <1>14, <1>15, <1>16,
           <1>17, <1>18, Zenon DEF Next

\* A count is broadcast last, or an older one overtakes it.
LEMMA PublishLast ==
  ASSUME CountTypes, CountsAreTold, NEW p \in Pods, NEW v \in sending[p], Publish(p, v), ~misordered', ~Unsaid(p)'
  PROVE  v = count[p]
<1>1. /\ count' = count /\ sending' = [sending EXCEPT ![p] = sending[p] \ {v}]
      /\ misordered' = (misordered \/ v < sent[p])
  BY DEF Publish
<1>2. sending'[p] = sending[p] \ {v} /\ v \in Nat /\ v <= count[p] /\ count[p] \in Nat /\ sent[p] \in Nat
  BY <1>1 DEF CountTypes, CountsAreTold
<1>3. ~misordered /\ ~(v < sent[p])
  BY <1>1
<1>4. CASE count[p] \in sending[p]
  BY <1>1, <1>2, <1>4 DEF Unsaid
<1>5. CASE sent[p] = count[p]
  BY <1>2, <1>3, <1>5
<1> QED BY <1>3, <1>4, <1>5 DEF CountsAreTold, Unsaid

LEMMA OwnStays ==
  ASSUME CountTypes, StreamTypes, CountsAreTold, OwnArrives, [Next]_vars
  PROVE  OwnArrives'
<1> USE PodsAre
<1>1. ASSUME NEW p \in Pods, Record(p) PROVE OwnArrives'
  <2>1. /\ count' = [count EXCEPT ![p] = count[p] + 1]
        /\ sending' = [sending EXCEPT ![p] = sending[p] \cup {count[p] + 1}]
        /\ UNCHANGED <<misordered, local, bySource, lagged>>
    BY <1>1 DEF Record, streamVars
  <2>2. CASE p = Viewer
    <3>1. Unsaid(Viewer)'
      BY <2>1, <2>2 DEF CountTypes, Unsaid
    <3> QED BY <3>1 DEF OwnArrives
  <2>3. CASE p # Viewer
    <3>1. count'[Viewer] = count[Viewer] /\ sending'[Viewer] = sending[Viewer]
      BY <2>1, <2>3 DEF CountTypes
    <3> QED BY <2>1, <3>1 DEF OwnArrives, Unsaid
  <2> QED BY <2>2, <2>3
<1>2. ASSUME NEW p \in Pods, NEW v \in sending[p], Publish(p, v) PROVE OwnArrives'
  <2>1. CASE p = Viewer
    <3> SUFFICES ASSUME ~misordered', ~Unsaid(Viewer)'
                 PROVE  IF local' # <<>> THEN local'[Len(local')] = count'[Viewer] ELSE bySource'[Viewer] = count'[Viewer]
      BY DEF OwnArrives
    <3>1. v = count[Viewer] /\ v \in Nat
      BY <1>2, <2>1, PublishLast DEF CountTypes
    <3>2. local' = Queued(local, v) /\ count' = count
      BY <1>2, <2>1 DEF Publish
    <3> QED BY <3>1, <3>2, QueuedIs DEF StreamTypes
  <2>2. CASE p # Viewer
    <3>1. /\ count' = count /\ sending' = [sending EXCEPT ![p] = sending[p] \ {v}]
          /\ UNCHANGED <<local, bySource>> /\ (misordered => misordered')
          /\ (Viewer \in lagged => Viewer \in lagged')
      BY <1>2, <2>2 DEF Publish
    <3>2. sending'[Viewer] = sending[Viewer]
      BY <2>2, <3>1 DEF CountTypes
    <3> QED BY <3>1, <3>2 DEF OwnArrives, Unsaid
  <2> QED BY <2>1, <2>2
<1>3. ASSUME NEW q \in Peers, Vanish(q) PROVE OwnArrives'
  <2>1. /\ count' = [count EXCEPT ![q] = 0] /\ sending' = [sending EXCEPT ![q] = {}]
        /\ UNCHANGED <<misordered, local, bySource, lagged>>
    BY <1>3 DEF Vanish
  <2>2. count'[Viewer] = count[Viewer] /\ sending'[Viewer] = sending[Viewer]
    BY <2>1 DEF CountTypes
  <2> QED BY <2>1, <2>2 DEF OwnArrives, Unsaid
<1>4. ASSUME TakeLocal PROVE OwnArrives'
  <2>1. /\ local # <<>> /\ local' = Tail(local) /\ bySource' = [bySource EXCEPT ![Viewer] = Head(local)]
        /\ UNCHANGED <<count, sending, misordered, lagged>>
    BY <1>4 DEF TakeLocal, countVars
  <2>2. /\ Len(local) \in Nat \ {0} /\ Head(local) = local[1] /\ local' \in Seq(Nat) /\ Len(local') = Len(local) - 1
        /\ \A i \in 1..(Len(local) - 1) : local'[i] = local[i + 1]
    BY <2>1, Beheaded DEF StreamTypes
  <2>3. bySource'[Viewer] = local[1]
    BY <2>1, <2>2 DEF StreamTypes
  <2>4. CASE Len(local) = 1
    <3>1. local' = <<>>
      BY <2>2, <2>4, EmptySeq
    <3> QED BY <2>1, <2>3, <2>4, <3>1 DEF OwnArrives, Unsaid
  <2>5. CASE Len(local) # 1
    <3>1. local' # <<>> /\ local'[Len(local')] = local[Len(local)]
      BY <2>2, <2>5, EmptySeq
    <3> QED BY <2>1, <3>1 DEF OwnArrives, Unsaid
  <2> QED BY <2>4, <2>5
<1>5. ASSUME TakeRemote PROVE OwnArrives'
  <2>1. /\ bySource' = [bySource EXCEPT ![Head(chan).peer] = IF Head(chan).item = Gone THEN 0 ELSE Head(chan).item]
        /\ UNCHANGED <<count, sending, misordered, local, lagged>> /\ chan # <<>>
    BY <1>5 DEF TakeRemote, countVars
  <2>2. Head(chan).peer # Viewer
    <3>1. Head(chan) \in PeerLines
      BY <2>1, Beheaded DEF StreamTypes
    <3> QED BY <3>1 DEF PeerLines
  <2>3. bySource'[Viewer] = bySource[Viewer]
    BY <2>1, <2>2 DEF StreamTypes
  <2> QED BY <2>1, <2>3 DEF OwnArrives, Unsaid
<1>11. ASSUME LagLocal PROVE OwnArrives'
  <2>1. /\ local # <<>> /\ local' = Tail(local)
        /\ lagged' = IF Len(local) = 1 THEN lagged \cup {Viewer} ELSE lagged
        /\ UNCHANGED <<count, sending, misordered, bySource>>
    BY <1>11 DEF LagLocal, countVars
  <2>2. /\ Len(local) \in Nat \ {0} /\ local' \in Seq(Nat) /\ Len(local') = Len(local) - 1
        /\ \A i \in 1..(Len(local) - 1) : local'[i] = local[i + 1]
    BY <2>1, Beheaded DEF StreamTypes
  <2>3. CASE Len(local) = 1
    BY <2>1, <2>3 DEF OwnArrives
  <2>4. CASE Len(local) # 1
    <3>1. local' # <<>> /\ local'[Len(local')] = local[Len(local)]
      BY <2>2, <2>4, EmptySeq
    <3> QED BY <2>1, <2>4, <3>1 DEF OwnArrives, Unsaid
  <2> QED BY <2>3, <2>4
<1>6. ASSUME UNCHANGED <<count, sending, misordered, local, bySource>>, Viewer \in lagged => Viewer \in lagged'
      PROVE  OwnArrives'
  BY <1>6 DEF OwnArrives, Unsaid
<1>7. ASSUME NEW p \in Pods, AgeToken(p) \/ LoadToken(p) \/ CreateToken(p) \/ Regenerate(p)
      PROVE  UNCHANGED <<count, sending, misordered, local, bySource>> /\ (Viewer \in lagged => Viewer \in lagged')
  BY <1>7 DEF AgeToken, LoadToken, CreateToken, Regenerate, countVars, streamVars
<1>8. ASSUME NEW q \in Peers, Appear(q) \/ Unlist(q) \/ FollowNew(q) \/ GiveUp(q) \/ SendLate(q)
      PROVE  UNCHANGED <<count, sending, misordered, local, bySource>> /\ (Viewer \in lagged => Viewer \in lagged')
  BY <1>8 DEF Appear, Unlist, FollowNew, GiveUp, SendLate, countVars, streamVars
<1>9. ASSUME NEW q \in Peers, ConnectPeer(q) \/ Snapshot(q) \/ FlushUpdate(q) \/ Forward(q) \/ StreamEnds(q)
      PROVE  UNCHANGED <<count, sending, misordered, local, bySource>> /\ (Viewer \in lagged => Viewer \in lagged')
  BY <1>9 DEF ConnectPeer, Snapshot, FlushUpdate, Forward, StreamEnds, countVars
<1>10. ASSUME UNCHANGED vars PROVE UNCHANGED <<count, sending, misordered, local, bySource>> /\ (Viewer \in lagged => Viewer \in lagged')
  BY <1>10 DEF vars
<1> QED BY <1>1, <1>2, <1>3, <1>4, <1>5, <1>6, <1>7, <1>8, <1>9, <1>10, <1>11, Zenon DEF Next

\* A step that leaves what is known of a peer alone.
LEMMA PeerSame ==
  ASSUME NEW q \in Peers, PeerInv(q), count \in [Pods -> Nat], EndsStay(q),
         conn'[q] = conn[q], follower'[q] = follower[q], count'[q] = count[q], sending'[q] = sending[q],
         misordered => misordered', straggled => straggled', q \in lagged => q \in lagged'
  PROVE  PeerInv(q)'
<1>1. count[q] \in Nat
  BY PodsAre
<1>2. EndsWith(q, count[q]) => EndsWith(q, count[q])'
  BY <1>1 DEF EndsStay, EndsNext, EndsWith
<1>3. EndsWith(q, 0) => EndsWith(q, 0)'
  BY DEF EndsStay, EndsNext, EndsWith
<1>4. Unsaid(q)' = Unsaid(q)
  BY DEF Unsaid
<1>5. LatestComes(q) => LatestComes(q)'
  BY <1>1 DEF LatestComes, EndsStay, EndsNext, EndsWith
<1>6. StreamAgrees(q)'
  BY <1>4, <1>5 DEF PeerInv, StreamAgrees
<1>7. LeftPeer(q)'
  BY <1>3 DEF PeerInv, LeftPeer
<1> QED BY <1>6, <1>7 DEF PeerInv

\* A peer that the step is not about.
LEMMA PeerOther ==
  ASSUME NEW q \in Peers, NEW r, q # r, CurrentInv, EndsStay(q),
         \A p \in Peers : p # r => conn'[p] = conn[p] /\ follower'[p] = follower[p]
                                   /\ count'[p] = count[p] /\ sending'[p] = sending[p],
         misordered => misordered', straggled => straggled',
         \A p \in Peers : p # r /\ p \in lagged => p \in lagged'
  PROVE  PeerInv(q)'
<1>1. PeerInv(q) /\ count \in [Pods -> Nat]
  BY DEF CurrentInv, CountTypes
<1>2. conn'[q] = conn[q] /\ follower'[q] = follower[q] /\ count'[q] = count[q] /\ sending'[q] = sending[q]
  OBVIOUS
<1> QED BY <1>1, <1>2, PeerSame

LEMMA PeerPublish ==
  ASSUME CurrentInv, NEW p \in Pods, NEW v \in sending[p], Publish(p, v), NEW q \in Peers
  PROVE  PeerInv(q)'
<1> USE PodsAre
<1>1. /\ count' = count /\ sending' = [sending EXCEPT ![p] = sending[p] \ {v}]
      /\ UNCHANGED <<follower, chan, bySource, straggled>> /\ (misordered => misordered')
      /\ \A r \in Peers : r # p /\ r \in lagged => r \in lagged'
      /\ p = Viewer => conn' = conn
      /\ p # Viewer => \/ conn[p].sub /\ conn' = [conn EXCEPT ![p].pending = v]
                       \/ /\ conn[p].sub /\ p \in lagged'
                          /\ conn' = [conn EXCEPT ![p].pending = IF follower[p] = "opening" THEN Nothing ELSE @]
                       \/ ~conn[p].sub /\ conn' = conn
  BY DEF Publish
<1>2. EndsStay(q)
  BY <1>1, EndsSame
<1>3. \A r \in Peers : r # p => conn'[r] = conn[r] /\ sending'[r] = sending[r]
  BY <1>1 DEF CurrentInv, CountTypes, StreamTypes
<1>4. CASE q # p
  BY <1>1, <1>2, <1>3, <1>4, PeerOther
<1>5. CASE q = p
  <2>1. LeftPeer(q)'
    BY <1>1, <1>2 DEF CurrentInv, PeerInv, LeftPeer, EndsStay, EndsWith, EndsNext
  <2>2. StreamAgrees(q)'
    <3> SUFFICES ASSUME ~misordered', ~straggled', conn'[q].sub, ~Unsaid(q)'
                 PROVE  /\ follower'[q] = "opening" => conn'[q].pending \in {Nothing, count'[q]}
                        /\ follower'[q] = "streaming" /\ q \notin lagged' => LatestComes(q)'
      BY DEF StreamAgrees
    <3>1. v = count[q] /\ v \in Nat
      BY <1>5, PublishLast DEF CurrentInv, CountTypes
    <3>2. CASE conn' = [conn EXCEPT ![q].pending = v]
      <4>1. conn'[q].pending = v
        BY <3>2 DEF CurrentInv, StreamTypes, Streams
      <4> QED BY <1>1, <3>1, <4>1 DEF LatestComes
    <3>3. CASE /\ q \in lagged'
               /\ conn' = [conn EXCEPT ![q].pending = IF follower[q] = "opening" THEN Nothing ELSE @]
      <4>1. follower[q] = "opening" => conn'[q].pending = Nothing
        BY <3>3 DEF CurrentInv, StreamTypes, Streams
      <4> QED BY <1>1, <3>3, <4>1
    <3> QED BY <1>1, <1>5, <3>2, <3>3
  <2> QED BY <2>1, <2>2 DEF PeerInv
<1> QED BY <1>4, <1>5

LEMMA PeerCounts ==
  ASSUME CurrentInv, NEW p \in Pods, Record(p) \/ Vanish(p), p = Viewer => Record(p), NEW q \in Peers
  PROVE  PeerInv(q)'
<1> USE PodsAre
<1>1. UNCHANGED <<follower, chan, bySource, straggled, misordered, lagged>>
  BY DEF Record, Vanish, streamVars
<1>2. EndsStay(q)
  BY <1>1, EndsSame
<1>3. \A r \in Peers : r # p => conn'[r] = conn[r] /\ sending'[r] = sending[r] /\ count'[r] = count[r]
  BY DEF Record, Vanish, streamVars, CurrentInv, CountTypes, StreamTypes
<1>4. CASE q # p
  BY <1>1, <1>2, <1>3, <1>4, PeerOther
<1>5. CASE q = p
  <2>1. LeftPeer(q)'
    BY <1>1, <1>2 DEF CurrentInv, PeerInv, LeftPeer, EndsStay, EndsWith, EndsNext
  <2>2. CASE Record(p)
    <3>1. count' = [count EXCEPT ![p] = count[p] + 1] /\ sending' = [sending EXCEPT ![p] = sending[p] \cup {count[p] + 1}]
      BY <2>2 DEF Record
    <3>2. Unsaid(q)'
      BY <1>5, <3>1 DEF CurrentInv, CountTypes, Unsaid
    <3> QED BY <2>1, <3>2 DEF PeerInv, StreamAgrees
  <2>3. CASE Vanish(p)
    <3>1. conn' = [conn EXCEPT ![p].sub = FALSE, ![p].pending = Nothing]
      BY <2>3 DEF Vanish
    <3>2. ~conn'[q].sub
      BY <1>5, <3>1 DEF CurrentInv, StreamTypes, Streams
    <3> QED BY <2>1, <3>2 DEF PeerInv, StreamAgrees
  <2> QED BY <2>2, <2>3
<1> QED BY <1>4, <1>5

LEMMA PeerGone ==
  ASSUME CurrentInv, NEW r \in Peers, GiveUp(r), NEW q \in Peers
  PROVE  PeerInv(q)'
<1> USE PodsAre
<1>1. /\ UNCHANGED <<count, sending, misordered, straggled, bySource>>
      /\ follower' = [follower EXCEPT ![r] = "none"] /\ conn' = [conn EXCEPT ![r] = Idle]
      /\ chan' = Append(chan, [peer |-> r, item |-> Gone]) /\ lagged' = lagged \ {r}
  BY DEF GiveUp, countVars
<1>2. EndsNext(r, PartOf(Gone)) /\ (q # r => EndsStay(q))
  BY <1>1, EndsAppended DEF CurrentInv, StreamTypes
<1>3. \A p \in Peers : p # r => conn'[p] = conn[p] /\ follower'[p] = follower[p]
  BY <1>1 DEF CurrentInv, StreamTypes
<1>4. CASE q # r
  BY <1>1, <1>2, <1>3, <1>4, PeerOther
<1>5. CASE q = r
  <2>1. follower'[q] = "none"
    BY <1>1, <1>5 DEF CurrentInv, StreamTypes
  <2>2. EndsNext(q, 0)
    BY <1>2, <1>5 DEF PartOf
  <2> QED BY <2>1, <2>2 DEF PeerInv, StreamAgrees, LeftPeer, EndsWith, EndsNext
<1> QED BY <1>4, <1>5

LEMMA PeerConnects ==
  ASSUME CurrentInv, NEW r \in Peers, FollowNew(r) \/ ConnectPeer(r) \/ Snapshot(r) \/ StreamEnds(r), NEW q \in Peers
  PROVE  PeerInv(q)'
<1> USE PodsAre
<1>1. UNCHANGED <<count, sending, misordered, straggled, chan, bySource>>
  BY DEF FollowNew, ConnectPeer, Snapshot, StreamEnds, countVars
<1>2. EndsStay(q)
  BY <1>1, EndsSame
<1>3. \A p \in Peers : p # r => conn'[p] = conn[p] /\ follower'[p] = follower[p]
  BY DEF FollowNew, ConnectPeer, Snapshot, StreamEnds, CurrentInv, StreamTypes
<1>8. (\A p \in Peers : p # r /\ p \in lagged => p \in lagged') /\ (~Snapshot(r) => lagged' = lagged)
  BY DEF FollowNew, ConnectPeer, Snapshot, StreamEnds
<1>4. CASE q # r \/ (UNCHANGED <<follower, conn>> /\ ~Snapshot(r))
  BY <1>1, <1>2, <1>3, <1>4, <1>8, PeerOther, PeerSame DEF CurrentInv, CountTypes
<1>5. CASE q = r /\ (FollowNew(r) \/ StreamEnds(r))
  <2>1. follower'[q] = "connecting"
    BY <1>5 DEF FollowNew, StreamEnds, CurrentInv, StreamTypes
  <2> QED BY <2>1 DEF PeerInv, StreamAgrees, LeftPeer
<1>6. CASE q = r /\ ConnectPeer(r) /\ ~UNCHANGED <<follower, conn>>
  <2>1. follower' = [follower EXCEPT ![r] = "opening"] /\ conn' = [conn EXCEPT ![r] = [Idle EXCEPT !.sub = TRUE]]
    BY <1>6 DEF ConnectPeer
  <2>2. follower'[q] = "opening" /\ conn'[q].pending = Nothing
    BY <1>6, <2>1 DEF CurrentInv, StreamTypes, Idle
  <2> QED BY <2>2 DEF PeerInv, StreamAgrees, LeftPeer
<1>7. CASE q = r /\ Snapshot(r)
  <2>1. /\ follower[r] = "opening" /\ conn[r].sub
        /\ follower' = [follower EXCEPT ![r] = "streaming"] /\ conn' = [conn EXCEPT ![r].out = <<count[r]>>]
    BY <1>7 DEF Snapshot
  <2>2. /\ follower'[q] = "streaming" /\ conn'[q].pending = conn[q].pending
        /\ conn'[q].out = <<count[q]>>
    BY <1>7, <2>1 DEF CurrentInv, StreamTypes, Streams
  <2>3. conn'[q].out # <<>> /\ Len(conn'[q].out) = 1 /\ conn'[q].out[1] = count[q]
    BY <2>2
  <2>4. ASSUME ~misordered', ~straggled', ~Unsaid(q)' PROVE LatestComes(q)'
    <3>1. conn[q].pending \in {Nothing, count[q]}
      BY <1>1, <1>7, <2>1, <2>4 DEF CurrentInv, PeerInv, StreamAgrees, Unsaid
    <3> QED BY <1>1, <2>2, <2>3, <3>1 DEF LatestComes
  <2> QED BY <2>2, <2>4 DEF PeerInv, StreamAgrees, LeftPeer
<1> QED BY <1>4, <1>5, <1>6, <1>7

LEMMA PeerFlushes ==
  ASSUME CurrentInv, NEW r \in Peers, FlushUpdate(r), NEW q \in Peers
  PROVE  PeerInv(q)'
<1> USE PodsAre
<1>1. /\ UNCHANGED <<count, sending, misordered, straggled, chan, bySource, follower, lagged>>
      /\ follower[r] = "streaming" /\ conn[r].pending # Nothing
      /\ conn' = [conn EXCEPT ![r].out = Append(conn[r].out, conn[r].pending), ![r].pending = Nothing]
  BY DEF FlushUpdate, countVars
<1>2. EndsStay(q)
  BY <1>1, EndsSame
<1>3. /\ \A p \in Peers : p # r => conn'[p] = conn[p] /\ follower'[p] = follower[p]
                                   /\ count'[p] = count[p] /\ sending'[p] = sending[p]
      /\ (misordered => misordered') /\ (straggled => straggled')
      /\ \A p \in Peers : p # r /\ p \in lagged => p \in lagged'
  BY <1>1 DEF CurrentInv, StreamTypes
<1>4. CASE q # r
  BY <1>2, <1>3, <1>4, PeerOther
<1>5. CASE q = r
  <2>1. /\ conn'[q].sub = conn[q].sub /\ conn'[q].pending = Nothing
        /\ conn'[q].out = Append(conn[q].out, conn[q].pending)
    BY <1>1, <1>5 DEF CurrentInv, StreamTypes, Streams
  <2>2. conn[q].out \in Seq(Nat) /\ conn[q].pending \in Nat
    BY <1>1, <1>5 DEF CurrentInv, StreamTypes, Streams
  <2>3. Len(conn'[q].out) = Len(conn[q].out) + 1 /\ Len(conn[q].out) \in Nat
    BY <2>1, <2>2, AppendProperties, LenProperties
  <2>4. conn'[q].out # <<>>
    BY <2>3, EmptySeq
  <2>5. conn'[q].out[Len(conn'[q].out)] = conn[q].pending
    BY <2>1, <2>2, <2>3, AppendProperties
  <2>6. ASSUME ~misordered', ~straggled', conn'[q].sub, ~Unsaid(q)', q \notin lagged' PROVE LatestComes(q)'
    <3>1. LatestComes(q)
      BY <1>1, <1>5, <2>1, <2>6 DEF CurrentInv, PeerInv, StreamAgrees, Unsaid
    <3>2. conn[q].pending = count[q]
      BY <1>1, <1>5, <3>1 DEF LatestComes
    <3> QED BY <1>1, <2>1, <2>4, <2>5, <3>2 DEF LatestComes
  <2>7. follower'[q] = "streaming"
    BY <1>1, <1>5
  <2> QED BY <2>6, <2>7 DEF PeerInv, StreamAgrees, LeftPeer
<1> QED BY <1>4, <1>5

LEMMA PeerForwards ==
  ASSUME CurrentInv, NEW r \in Peers, Forward(r), NEW q \in Peers
  PROVE  PeerInv(q)'
<1> USE PodsAre
<1>1. /\ UNCHANGED <<count, sending, misordered, straggled, bySource, follower, lagged>>
      /\ follower[r] = "streaming" /\ conn[r].out # <<>>
      /\ conn' = [conn EXCEPT ![r].out = Tail(conn[r].out)]
      /\ chan' = Append(chan, [peer |-> r, item |-> Head(conn[r].out)])
  BY DEF Forward, countVars
<1>2. conn[r].out \in Seq(Nat)
  BY DEF CurrentInv, StreamTypes, Streams
<1>3. /\ Head(conn[r].out) \in Nat /\ Len(conn[r].out) \in Nat \ {0} /\ Head(conn[r].out) = conn[r].out[1]
      /\ Tail(conn[r].out) \in Seq(Nat) /\ Len(Tail(conn[r].out)) = Len(conn[r].out) - 1
      /\ \A i \in 1..(Len(conn[r].out) - 1) : Tail(conn[r].out)[i] = conn[r].out[i + 1]
  BY <1>1, <1>2, Beheaded
<1>4. EndsNext(r, Head(conn[r].out)) /\ (q # r => EndsStay(q))
  <2>1. EndsNext(r, PartOf(Head(conn[r].out))) /\ (q # r => EndsStay(q))
    BY <1>1, <1>3, EndsAppended DEF CurrentInv, StreamTypes
  <2>2. PartOf(Head(conn[r].out)) = Head(conn[r].out)
    BY <1>3 DEF PartOf
  <2> QED BY <2>1, <2>2
<1>5. /\ \A p \in Peers : p # r => conn'[p] = conn[p] /\ follower'[p] = follower[p]
                                   /\ count'[p] = count[p] /\ sending'[p] = sending[p]
      /\ (misordered => misordered') /\ (straggled => straggled')
      /\ \A p \in Peers : p # r /\ p \in lagged => p \in lagged'
  BY <1>1 DEF CurrentInv, StreamTypes
<1>6. CASE q # r
  BY <1>4, <1>5, <1>6, PeerOther
<1>7. CASE q = r
  <2>1. /\ conn'[q].sub = conn[q].sub /\ conn'[q].pending = conn[q].pending
        /\ conn'[q].out = Tail(conn[q].out)
    BY <1>1, <1>7 DEF CurrentInv, StreamTypes, Streams
  <2>4. /\ conn'[q].out \in Seq(Nat) /\ Len(conn'[q].out) = Len(conn[q].out) - 1 /\ Len(conn[q].out) \in Nat \ {0}
        /\ \A i \in 1..(Len(conn[q].out) - 1) : conn'[q].out[i] = conn[q].out[i + 1]
    BY <1>3, <1>7, <2>1, Zenon
  <2>2. ASSUME ~misordered', ~straggled', conn'[q].sub, ~Unsaid(q)', q \notin lagged' PROVE LatestComes(q)'
    <3>1. LatestComes(q)
      BY <1>1, <1>7, <2>1, <2>2 DEF CurrentInv, PeerInv, StreamAgrees, Unsaid
    <3>2. CASE conn[q].pending # Nothing
      BY <1>1, <2>1, <3>1, <3>2 DEF LatestComes
    <3>3. CASE conn[q].pending = Nothing
      <4>1. conn[q].out[Len(conn[q].out)] = count[q]
        BY <1>1, <1>7, <3>1, <3>3 DEF LatestComes
      <4>2. CASE Len(conn[q].out) = 1
        <5>1. conn'[q].out = <<>>
          BY <2>4, <4>2, EmptySeq
        <5>2. Head(conn[q].out) = count[q]
          BY <1>3, <1>7, <4>1, <4>2
        <5>3. EndsNext(q, count[q])
          BY <1>4, <1>7, <5>2
        <5> QED BY <1>1, <2>1, <3>3, <5>1, <5>3 DEF LatestComes, EndsNext, EndsWith
      <4>3. CASE Len(conn[q].out) # 1
        <5>3. PICK o \in Seq(Nat) : o = conn'[q].out
          BY <2>4
        <5>4. PICK s \in Seq(Nat) : s = conn[q].out
          BY <1>2, <1>7
        <5>5. /\ Len(s) \in Nat \ {0} /\ Len(s) # 1 /\ Len(o) = Len(s) - 1 /\ s[Len(s)] = count[q]
              /\ \A i \in 1..(Len(s) - 1) : o[i] = s[i + 1]
          BY <2>4, <4>1, <4>3, <5>3, <5>4, Zenon
        <5>1. conn'[q].out # <<>>
          <6>1. o # <<>>
            BY <5>5
          <6> QED BY <5>3, <6>1
        <5>2. conn'[q].out[Len(conn'[q].out)] = count[q]
          <6>1. Len(s) - 1 \in 1..(Len(s) - 1) /\ (Len(s) - 1) + 1 = Len(s)
            BY <5>5
          <6>2. o[Len(o)] = count[q]
            BY <5>5, <6>1
          <6> QED BY <5>3, <6>2
        <5> QED BY <1>1, <2>1, <3>3, <5>1, <5>2 DEF LatestComes
      <4> QED BY <4>2, <4>3
    <3> QED BY <3>2, <3>3
  <2>3. follower'[q] = "streaming"
    BY <1>1, <1>7
  <2> QED BY <2>2, <2>3 DEF PeerInv, StreamAgrees, LeftPeer
<1> QED BY <1>6, <1>7

\* What the view takes says nothing new of a peer, and a late line is excepted.
LEMMA PeerElsewhere ==
  ASSUME CurrentInv, NEW q \in Peers,
         \/ TakeLocal \/ LagLocal \/ TakeRemote \/ UNCHANGED <<streamVars, count, sending, misordered>>
         \/ \E r \in Peers : SendLate(r)
  PROVE  PeerInv(q)'
<1> USE PodsAre
<1>1. CASE \E r \in Peers : SendLate(r)
  BY <1>1 DEF SendLate, PeerInv, StreamAgrees, LeftPeer
<1>2. CASE TakeLocal
  <2>1. UNCHANGED <<count, sending, misordered, straggled, chan, conn, follower, lagged>>
    BY <1>2 DEF TakeLocal, countVars
  <2>2. bySource'[q] = bySource[q]
    BY <1>2 DEF TakeLocal, CurrentInv, StreamTypes
  <2>3. EndsStay(q)
    BY <2>1, <2>2, EndsSame
  <2> QED BY <2>1, <2>3, PeerSame DEF CurrentInv, CountTypes
<1>5. CASE LagLocal
  <2>1. UNCHANGED <<count, sending, misordered, straggled, chan, conn, follower, bySource>>
    BY <1>5 DEF LagLocal, countVars
  <2>2. q \in lagged => q \in lagged'
    BY <1>5 DEF LagLocal
  <2>3. EndsStay(q)
    BY <2>1, EndsSame
  <2> QED BY <2>1, <2>2, <2>3, PeerSame DEF CurrentInv, CountTypes
<1>3. CASE TakeRemote
  <2>1. UNCHANGED <<count, sending, misordered, straggled, conn, follower, lagged>>
    BY <1>3 DEF TakeRemote, countVars
  <2>2. EndsStay(q)
    BY <1>3, EndsTaken DEF CurrentInv
  <2> QED BY <2>1, <2>2, PeerSame DEF CurrentInv, CountTypes
<1>4. CASE UNCHANGED <<streamVars, count, sending, misordered>>
  <2>1. EndsStay(q)
    BY <1>4, EndsSame DEF streamVars
  <2> QED BY <1>4, <2>1, PeerSame DEF CurrentInv, CountTypes, streamVars
<1> QED BY <1>1, <1>2, <1>3, <1>4, <1>5

LEMMA PeersKept ==
  ASSUME CurrentInv, [Next]_vars, NEW q \in Peers
  PROVE  PeerInv(q)'
<1>1. ASSUME NEW p \in Pods, Record(p) PROVE PeerInv(q)'
  BY <1>1, PeerCounts
<1>2. ASSUME NEW p \in Pods, NEW v \in sending[p], Publish(p, v) PROVE PeerInv(q)'
  BY <1>2, PeerPublish
<1>3. ASSUME NEW p \in Pods, AgeToken(p) \/ LoadToken(p) \/ CreateToken(p) \/ Regenerate(p)
      PROVE  UNCHANGED <<streamVars, count, sending, misordered>>
  BY <1>3 DEF AgeToken, LoadToken, CreateToken, Regenerate, countVars
<1>4. ASSUME NEW r \in Peers, Appear(r) \/ Unlist(r) PROVE UNCHANGED <<streamVars, count, sending, misordered>>
  BY <1>4 DEF Appear, Unlist, countVars
<1>5. ASSUME NEW r \in Peers, Vanish(r) PROVE PeerInv(q)'
  BY <1>5, PeerCounts, PodsAre
<1>6. ASSUME NEW r \in Peers, GiveUp(r) PROVE PeerInv(q)'
  BY <1>6, PeerGone
<1>7. ASSUME NEW r \in Peers, FollowNew(r) \/ ConnectPeer(r) \/ Snapshot(r) \/ StreamEnds(r) PROVE PeerInv(q)'
  BY <1>7, PeerConnects
<1>8. ASSUME NEW r \in Peers, FlushUpdate(r) PROVE PeerInv(q)'
  BY <1>8, PeerFlushes
<1>9. ASSUME NEW r \in Peers, Forward(r) PROVE PeerInv(q)'
  BY <1>9, PeerForwards
<1>10. ASSUME TakeLocal \/ LagLocal \/ TakeRemote \/ \E r \in Peers : SendLate(r) PROVE PeerInv(q)'
  BY <1>10, PeerElsewhere
<1>11. ASSUME UNCHANGED vars PROVE UNCHANGED <<streamVars, count, sending, misordered>>
  BY <1>11 DEF vars, streamVars
<1>12. ASSUME UNCHANGED <<streamVars, count, sending, misordered>> PROVE PeerInv(q)'
  BY <1>12, PeerElsewhere
<1> QED BY <1>1, <1>2, <1>3, <1>4, <1>5, <1>6, <1>7, <1>8, <1>9, <1>10, <1>11, <1>12, Zenon DEF Next

\* OtlpMetricsStore::record, serve_metrics_stream, follow_peer and ClusterMetricsStore::watch_all:
\* the counter is subscribed to before it is read, an update replaces the one before it, and
\* Gone comes behind a peer's lines: what nothing follows any more is right.
THEOREM ViewsAreCurrent == Spec => []ViewIsCurrent
<1>1. Init => CurrentInv
  <2> SUFFICES ASSUME Init PROVE CurrentInv
    OBVIOUS
  <2>1. CountTypes /\ CountsAreTold
    <3>1. CountTypes
      BY DEF Init, CountTypes
    <3>2. \A p \in Pods : sent[p] = 0 /\ count[p] = 0 /\ sending[p] = {}
      BY DEF Init
    <3> QED BY <3>1, <3>2 DEF CountsAreTold
  <2>2. Idle \in Streams /\ <<>> \in Seq(Nat) /\ <<>> \in Seq(PeerLines)
    BY EmptySeq DEF Idle, Streams
  <2>3. StreamTypes
    BY <2>2 DEF Init, StreamTypes
  <2>4. OwnArrives
    BY PodsAre DEF Init, OwnArrives
  <2>5. ASSUME NEW q \in Peers PROVE PeerInv(q)
    <3>1. follower[q] = "none" /\ bySource[q] = 0 /\ Len(chan) = 0
      BY PodsAre DEF Init
    <3> QED BY <3>1 DEF PeerInv, StreamAgrees, LeftPeer, EndsWith
  <2> QED BY <2>1, <2>3, <2>4, <2>5 DEF CurrentInv
<1>2. CurrentInv /\ [Next]_vars => CurrentInv'
  <2> SUFFICES ASSUME CurrentInv, [Next]_vars PROVE CurrentInv'
    OBVIOUS
  <2>1. CountTypes' /\ StreamTypes' /\ CountsAreTold' /\ OwnArrives'
    BY CountTypesKept, StreamTypesKept, CountsTold, OwnStays DEF CurrentInv
  <2>2. \A q \in Peers : PeerInv(q)'
    BY PeersKept
  <2> QED BY <2>1, <2>2 DEF CurrentInv
<1>3. CurrentInv => ViewIsCurrent
  <2> SUFFICES ASSUME CurrentInv, ~misordered, ~straggled, NEW p \in Pods, p \notin lagged, Quiet(p)
               PROVE  /\ p = Viewer \/ (follower[p] = "streaming" /\ conn[p].sub) => bySource[p] = count[p]
                      /\ p # Viewer /\ follower[p] = "none" => bySource[p] = 0
    BY DEF ViewIsCurrent
  <2>1. ~Unsaid(p)
    BY DEF Quiet, Unsaid
  <2>2. CASE p = Viewer
    BY <2>1, <2>2 DEF CurrentInv, OwnArrives, Quiet
  <2>3. CASE p # Viewer
    <3>1. PeerInv(p) /\ conn[p].pending = Nothing /\ conn[p].out = <<>>
      BY <2>3, PodsAre DEF CurrentInv, Quiet
    <3>2. \A i \in 1..Len(chan) : chan[i].peer # p
      <4>1. DOMAIN chan = 1..Len(chan)
        BY LenProperties DEF CurrentInv, StreamTypes
      <4> QED BY <2>3, <4>1 DEF Quiet
    <3>3. \A v \in Nat : EndsWith(p, v) => bySource[p] = v
      BY <3>2 DEF EndsWith
    <3>4. count[p] \in Nat
      BY DEF CurrentInv, CountTypes
    <3> QED BY <2>1, <2>3, <3>1, <3>3, <3>4 DEF PeerInv, StreamAgrees, LeftPeer, LatestComes
  <2> QED BY <2>2, <2>3
<1> QED BY <1>1, <1>2, <1>3, PTL DEF Spec

\* Until a user replaces the token there is one, and nobody keeps another.
TokenInv ==
  /\ kept \in [Pods -> [token : Nat, fresh : BOOLEAN]] /\ sharedToken \in Nat
  /\ ~regenerated => sharedToken \in {0, 1} /\ \A p \in Pods : kept[p].token \in {0, sharedToken}

LEMMA TokenAged ==
  ASSUME TokenInv, NEW p \in Pods, AgeToken(p) \/ LoadToken(p)
  PROVE  TokenInv'
<1>1. UNCHANGED <<sharedToken, regenerated>>
  BY DEF AgeToken, LoadToken
<1>2. CASE kept' = kept \/ kept' = [kept EXCEPT ![p].fresh = FALSE]
  BY <1>1, <1>2 DEF TokenInv
<1>3. CASE kept' = [kept EXCEPT ![p] = [token |-> sharedToken, fresh |-> TRUE]]
  BY <1>1, <1>3 DEF TokenInv
<1>4. CASE kept' = [kept EXCEPT ![p] = [token |-> kept[p].token, fresh |-> TRUE]]
  BY <1>1, <1>4 DEF TokenInv
<1> QED BY <1>2, <1>3, <1>4 DEF AgeToken, LoadToken, Keep

LEMMA TokenMade ==
  ASSUME TokenInv, NEW p \in Pods, CreateToken(p) \/ Regenerate(p)
  PROVE  TokenInv'
<1>1. sharedToken' \in Nat /\ kept' = [kept EXCEPT ![p] = [token |-> sharedToken', fresh |-> TRUE]]
  BY DEF CreateToken, Regenerate, Keep, TokenInv
<1>2. kept' \in [Pods -> [token : Nat, fresh : BOOLEAN]]
  BY <1>1 DEF TokenInv
<1>3. CASE Regenerate(p)
  BY <1>1, <1>2, <1>3 DEF Regenerate, TokenInv
<1>4. CASE CreateToken(p)
  <2>1. regenerated' = regenerated /\ sharedToken' = IF sharedToken = 0 THEN 1 ELSE sharedToken
    BY <1>4 DEF CreateToken
  <2>2. ASSUME ~regenerated, NEW r \in Pods PROVE kept'[r].token \in {0, sharedToken'}
    BY <1>1, <2>1, <2>2 DEF TokenInv
  <2> QED BY <1>1, <1>2, <2>1, <2>2 DEF TokenInv
<1> QED BY <1>3, <1>4

LEMMA TokenElsewhere ==
  ASSUME TokenInv, NEW q \in Peers, Vanish(q) \/ ConnectPeer(q)
  PROVE  TokenInv'
<1> USE PodsAre
<1>1. UNCHANGED <<sharedToken, regenerated>>
  BY DEF Vanish, ConnectPeer
<1>2. CASE Vanish(q)
  <2>1. kept' = [kept EXCEPT ![q] = [token |-> 0, fresh |-> FALSE]]
    BY <1>2 DEF Vanish, NoToken
  <2> QED BY <1>1, <2>1 DEF TokenInv
<1>3. CASE ConnectPeer(q)
  <2>1. ASSUME NEW p \in Pods
        PROVE  /\ Reread(p) \in [token : Nat, fresh : BOOLEAN]
               /\ ~regenerated => Reread(p).token \in {0, sharedToken}
    BY DEF Reread, TokenInv
  <2>2. \/ kept' = kept
        \/ kept' = [kept EXCEPT ![q] = Reread(q), ![Viewer] = kept[Viewer]]
        \/ kept' = [kept EXCEPT ![q] = Reread(q), ![Viewer] = Reread(Viewer)]
    BY <1>3 DEF ConnectPeer
  <2>3. kept' \in [Pods -> [token : Nat, fresh : BOOLEAN]]
    BY <2>1, <2>2 DEF TokenInv
  <2>4. ASSUME ~regenerated, NEW p \in Pods PROVE kept'[p].token \in {0, sharedToken}
    <3>1. kept'[p] = kept[p] \/ kept'[p] = Reread(p)
      BY <2>2 DEF TokenInv
    <3> QED BY <2>1, <2>4, <3>1 DEF TokenInv
  <2> QED BY <1>1, <2>3, <2>4 DEF TokenInv
<1> QED BY <1>2, <1>3

\* ClusterToken::load_or_create and recheck: of pods that create at once all but one read
\* what that one wrote, and only regenerate replaces it.
THEOREM PodsShareToken == Spec => []OneToken
<1>1. Init => TokenInv
  BY DEF Init, TokenInv, NoToken
<1>2. TokenInv /\ [Next]_vars => TokenInv'
  <2> SUFFICES ASSUME TokenInv, [Next]_vars PROVE TokenInv'
    OBVIOUS
  <2>1. ASSUME NEW p \in Pods, AgeToken(p) \/ LoadToken(p) \/ CreateToken(p) \/ Regenerate(p) PROVE TokenInv'
    BY <2>1, TokenAged, TokenMade
  <2>2. ASSUME NEW q \in Peers, Vanish(q) \/ ConnectPeer(q) PROVE TokenInv'
    BY <2>2, TokenElsewhere
  <2>3. ASSUME UNCHANGED tokenVars PROVE TokenInv'
    BY <2>3 DEF TokenInv, tokenVars
  <2>4. ASSUME NEW p \in Pods, Record(p) \/ \E v \in sending[p] : Publish(p, v) PROVE UNCHANGED tokenVars
    BY <2>4 DEF Record, Publish
  <2>5. ASSUME NEW q \in Peers, Appear(q) \/ Unlist(q) \/ FollowNew(q) \/ GiveUp(q) \/ SendLate(q)
        PROVE  UNCHANGED tokenVars
    BY <2>5 DEF Appear, Unlist, FollowNew, GiveUp, SendLate
  <2>6. ASSUME NEW q \in Peers, Snapshot(q) \/ FlushUpdate(q) \/ Forward(q) \/ StreamEnds(q) PROVE UNCHANGED tokenVars
    BY <2>6 DEF Snapshot, FlushUpdate, Forward, StreamEnds
  <2>7. ASSUME TakeLocal \/ LagLocal \/ TakeRemote \/ UNCHANGED vars PROVE UNCHANGED tokenVars
    BY <2>7 DEF TakeLocal, LagLocal, TakeRemote, vars, tokenVars
  <2> QED BY <2>1, <2>2, <2>3, <2>4, <2>5, <2>6, <2>7, Zenon DEF Next
<1>3. TokenInv => OneToken
  BY DEF TokenInv, OneToken
<1> QED BY <1>1, <1>2, <1>3, PTL DEF Spec

=============================================================================
