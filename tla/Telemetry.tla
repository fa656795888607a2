------------------------------ MODULE Telemetry ------------------------------
(***************************************************************************)
(* Cluster-wide flow metrics as one pod shows them: the counters every pod *)
(* keeps (core/src/flow/activity.rs), the internal endpoint that streams   *)
(* them, the followers that read the streams of all peers, the merged view *)
(* and the token pods show each other (core/src/telemetry/cluster.rs).     *)
(*                                                                         *)
(* One flow and one counter stand for all of them: counters of flows and   *)
(* levels never meet.  A snapshot is the counter's value.  The viewer      *)
(* follows from the start; peers appear, crash, restart and leave.         *)
(***************************************************************************)
EXTENDS Integers, Sequences, FiniteSets, FiniteSetsExt

CONSTANTS Viewer,        \* the pod that shows the merged view
          Peers,         \* the other pods
          ChanCapacity,  \* STREAM_CHANNEL_CAPACITY
          WatchCapacity, \* WATCH_CHANNEL_CAPACITY
          MaxRecords,    \* bound: events counted, over all pods
          MaxOutages     \* bound: crashes, departures, broken streams, cache failures

Pods == Peers \cup {Viewer}

ASSUME ConstantsAssumption ==
  /\ Viewer \notin Peers
  /\ ChanCapacity \in Nat \ {0}
  /\ WatchCapacity \in Nat \ {0}
  /\ MaxRecords \in Nat
  /\ MaxOutages \in Nat

VARIABLES count,      \* FlowMetrics of each pod
          sending,    \* snapshots `record` has taken and not broadcast yet
          sent,       \* history: the highest snapshot each pod has broadcast
          listed,     \* peers the registry lists with an address
          alive,      \* peers whose process runs
          local,      \* the viewer's subscription to its own counters
          follower,   \* follow_peer of each peer: "none", "connecting", "opening", "streaming"
          conn,       \* the stream of a peer: subscription, coalesced update, lines
          late,       \* lines a follower was sending when it was aborted
          chan,       \* PeerUpdates on their way to the view
          bySource,       \* by_source
          sharedToken, \* the token in the cache, 0 before there is one
          kept,       \* the token each pod has read, and how long ago
          creating,   \* pods that found no token and are about to create one
          misordered, \* history: a pod broadcast an older snapshot after a newer
          straggled,  \* history: an item followed its peer's Gone
          lagged,     \* history: pods whose last frame was lost on the way to the view
          records, regenerated, outages

countVars == <<count, sending, sent, misordered, records>>
streamVars == <<local, follower, conn, late, chan, bySource, straggled, lagged>>
tokenVars == <<sharedToken, kept, creating, regenerated>>
vars == <<count, sending, sent, listed, alive, local, follower, conn, late, chan, bySource,
          sharedToken, kept, creating, misordered, straggled, lagged, records, regenerated, outages>>

-----------------------------------------------------------------------------

Nothing == -1
Gone == -2

Outage == outages < MaxOutages /\ outages' = outages + 1

\* A stream that is not served.
Idle == [sub |-> FALSE, pending |-> Nothing, out |-> <<>>]

NoToken == [token |-> 0, fresh |-> FALSE]

\* A subscriber that lags behind the frames of this flow loses the oldest.
Queued(s, v) == IF Len(s) < WatchCapacity THEN Append(s, v) ELSE Append(Tail(s), v)

Init ==
  /\ count = [p \in Pods |-> 0]
  /\ sending = [p \in Pods |-> {}]
  /\ sent = [p \in Pods |-> 0]
  /\ listed = {}
  /\ alive = {}
  /\ local = <<>>
  /\ follower = [q \in Peers |-> "none"]
  /\ conn = [q \in Peers |-> Idle]
  /\ late = [q \in Peers |-> Nothing]
  /\ chan = <<>>
  /\ bySource = [p \in Pods |-> 0]
  /\ sharedToken = 0
  /\ kept = [p \in Pods |-> NoToken]
  /\ creating = {}
  /\ misordered = FALSE
  /\ straggled = FALSE
  /\ lagged = {}
  /\ records = 0
  /\ regenerated = FALSE
  /\ outages = 0

(***************************************************************************)
(* Counting.  Two threads of a pod may record at once: the snapshot is     *)
(* taken by one step and broadcast by another.                             *)
(***************************************************************************)

\* FlowActivityLayer::on_event, OtlpMetricsStore::record up to the snapshot.
Record(p) ==
  /\ p = Viewer \/ p \in alive
  /\ records < MaxRecords
  /\ records' = records + 1
  /\ count' = [count EXCEPT ![p] = @ + 1]
  /\ sending' = [sending EXCEPT ![p] = @ \cup {count[p] + 1}]
  /\ UNCHANGED <<sent, misordered, listed, alive, streamVars, tokenVars, outages>>

\* tx.send: the viewer's own subscription, or the stream the viewer follows.
\* coalesce keeps the last update of a flow until the next flush.  All flows of a pod
\* share one channel of WATCH_CHANNEL_CAPACITY frames: those of other flows may push a
\* frame out before the stream reads it, and filter_map drops the Lagged error.  While
\* the stream is opened nothing is read, and the older frames go first.
Publish(p, v) ==
  /\ v \in sending[p]
  /\ sending' = [sending EXCEPT ![p] = @ \ {v}]
  /\ sent' = [sent EXCEPT ![p] = Max({@, v})]
  /\ misordered' = (misordered \/ v < sent[p])
  /\ \/ /\ p = Viewer
        /\ local' = Queued(local, v) /\ lagged' = lagged \ {p} /\ UNCHANGED conn
     \/ /\ p # Viewer /\ conn[p].sub
        /\ conn' = [conn EXCEPT ![p].pending = v] /\ lagged' = lagged \ {p} /\ UNCHANGED local
     \/ /\ p # Viewer /\ conn[p].sub
        /\ conn' = [conn EXCEPT ![p].pending = IF follower[p] = "opening" THEN Nothing ELSE @]
        /\ lagged' = lagged \cup {p} /\ UNCHANGED local
     \/ p # Viewer /\ ~conn[p].sub /\ UNCHANGED <<local, conn, lagged>>
  /\ UNCHANGED <<count, records, listed, alive, follower, late, chan, bySource, straggled,
                 tokenVars, outages>>

\* Frames of other flows push the oldest out of the viewer's own subscription.
LagLocal ==
  /\ local # <<>>
  /\ local' = Tail(local)
  /\ lagged' = IF Len(local) = 1 THEN lagged \cup {Viewer} ELSE lagged
  /\ UNCHANGED <<countVars, listed, alive, follower, conn, late, chan, bySource, straggled,
                 tokenVars, outages>>

(***************************************************************************)
(* The cluster token.                                                      *)
(***************************************************************************)

\* TOKEN_RECHECK_INTERVAL has passed since the token was read.
AgeToken(p) ==
  /\ kept[p].fresh
  /\ kept' = [kept EXCEPT ![p].fresh = FALSE]
  /\ UNCHANGED <<countVars, listed, alive, streamVars, sharedToken, creating, regenerated, outages>>

Keep(p, t) == kept' = [kept EXCEPT ![p] = [token |-> t, fresh |-> TRUE]]

Up(p) == p = Viewer \/ p \in alive

\* ClusterToken::read and load, at first and every TOKEN_REFRESH_INTERVAL: the
\* token of the cache, the previous one when the cache fails, none yet when
\* there is none.
LoadToken(p) ==
  /\ Up(p) /\ p \notin creating
  /\ ~kept[p].fresh
  /\ \/ /\ sharedToken # 0
        /\ Keep(p, sharedToken)
        /\ UNCHANGED <<creating, outages>>
     \/ /\ sharedToken = 0
        /\ creating' = creating \cup {p}
        /\ UNCHANGED <<kept, outages>>
     \/ /\ kept[p].token # 0
        /\ Outage
        /\ Keep(p, kept[p].token)
        /\ UNCHANGED creating
  /\ UNCHANGED <<countVars, listed, alive, streamVars, sharedToken, regenerated>>

\* load_or_create: create fails when another pod was first, whose token is then read.
CreateToken(p) ==
  /\ p \in creating
  /\ creating' = creating \ {p}
  /\ sharedToken' = IF sharedToken = 0 THEN 1 ELSE sharedToken
  /\ Keep(p, sharedToken')
  /\ UNCHANGED <<countVars, listed, alive, streamVars, regenerated, outages>>

\* regenerate, on the request of a user; once.
Regenerate(p) ==
  /\ Up(p)
  /\ ~regenerated
  /\ sharedToken' = sharedToken + 1
  /\ regenerated' = TRUE
  /\ Keep(p, sharedToken')
  /\ UNCHANGED <<countVars, listed, alive, streamVars, creating, outages>>

\* What `recheck` returns: the cache's token, unless the pod has just read it.
Rechecked(p) == IF kept[p].fresh THEN kept[p].token ELSE sharedToken

\* require_token on peer q: the token it keeps, then the one of the cache.
Accepts(q, t) == kept[q].token = t \/ Rechecked(q) = t

\* ClusterPeers::send: a rejected token is sent again when it has changed.
Authorised(q) == Accepts(q, kept[Viewer].token) \/ Accepts(q, Rechecked(Viewer))

\* A pod that was refused has read the cache's token again.
Reread(p) == IF kept[p].fresh THEN kept[p] ELSE [token |-> sharedToken, fresh |-> TRUE]

(***************************************************************************)
(* Peers come, crash, come back and leave.                                 *)
(***************************************************************************)

\* A process starts, its counters at zero, and registers; or the renewals of a
\* running one work again.
Appear(q) ==
  /\ q \notin alive \cap listed
  /\ alive' = alive \cup {q}
  /\ listed' = listed \cup {q}
  /\ UNCHANGED <<countVars, streamVars, tokenVars, outages>>

\* A process ends and its counters with it.  Lines it has sent are read still.
Vanish(q) ==
  /\ q \in alive
  /\ Outage
  /\ alive' = alive \ {q}
  /\ count' = [count EXCEPT ![q] = 0]
  /\ sending' = [sending EXCEPT ![q] = {}]
  /\ sent' = [sent EXCEPT ![q] = 0]
  /\ kept' = [kept EXCEPT ![q] = NoToken]
  /\ creating' = creating \ {q}
  /\ conn' = [conn EXCEPT ![q].sub = FALSE, ![q].pending = Nothing]
  /\ UNCHANGED <<misordered, records, listed, local, follower, late, chan, bySource, straggled, lagged,
                 sharedToken, regenerated>>

\* The registration is deleted or ages: of a process that is gone, or of one
\* whose renewals fail.
Unlist(q) ==
  /\ q \in listed
  /\ IF q \in alive THEN Outage ELSE UNCHANGED outages
  /\ listed' = listed \ {q}
  /\ UNCHANGED <<countVars, alive, streamVars, tokenVars>>

(***************************************************************************)
(* The followers: follow_peers and follow_peer.                            *)
(***************************************************************************)

\* A refresh finds a new peer.
FollowNew(q) ==
  /\ q \in listed
  /\ follower[q] = "none"
  /\ follower' = [follower EXCEPT ![q] = "connecting"]
  /\ UNCHANGED <<countVars, listed, alive, local, conn, late, chan, bySource, straggled, lagged, tokenVars, outages>>

\* A refresh misses a peer: its follower is aborted, its Gone sent.  abort does
\* not wait: a follower that is sending a line may send it still.
GiveUp(q) ==
  /\ q \notin listed
  /\ follower[q] # "none"
  /\ Len(chan) < ChanCapacity
  /\ follower' = [follower EXCEPT ![q] = "none"]
  /\ chan' = Append(chan, [peer |-> q, item |-> Gone])
  /\ \/ conn[q].out # <<>> /\ late' = [late EXCEPT ![q] = Head(conn[q].out)]
     \/ UNCHANGED late
  /\ conn' = [conn EXCEPT ![q] = Idle]
  /\ lagged' = lagged \ {q}
  /\ UNCHANGED <<countVars, listed, alive, local, bySource, straggled, tokenVars, outages>>

SendLate(q) ==
  /\ late[q] # Nothing
  /\ Len(chan) < ChanCapacity
  /\ late' = [late EXCEPT ![q] = Nothing]
  /\ chan' = Append(chan, [peer |-> q, item |-> late[q]])
  /\ straggled' = TRUE
  /\ UNCHANGED <<countVars, listed, alive, local, follower, conn, bySource, lagged, tokenVars, outages>>

\* The peer answers a request whose token it accepts, and subscribes to its
\* counters.
ConnectPeer(q) ==
  /\ follower[q] = "connecting"
  /\ q \in alive
  /\ kept[Viewer].token # 0 /\ kept[q].token # 0
  /\ IF Authorised(q)
     THEN /\ follower' = [follower EXCEPT ![q] = "opening"]
          /\ conn' = [conn EXCEPT ![q] = [Idle EXCEPT !.sub = TRUE]]
     ELSE UNCHANGED <<follower, conn>>
  /\ kept' = IF Accepts(q, kept[Viewer].token) /\ kept[q].token = kept[Viewer].token
             THEN kept
             ELSE [kept EXCEPT ![q] = Reread(q), ![Viewer] = IF Accepts(q, kept[Viewer].token)
                                                             THEN @ ELSE Reread(Viewer)]
  /\ UNCHANGED <<countVars, listed, alive, local, late, chan, bySource, straggled, lagged,
                 sharedToken, creating, regenerated, outages>>

\* serve_metrics_stream: the counters as they are, in front of the updates.
Snapshot(q) ==
  /\ follower[q] = "opening"
  /\ conn[q].sub
  /\ follower' = [follower EXCEPT ![q] = "streaming"]
  /\ conn' = [conn EXCEPT ![q].out = <<count[q]>>]
  /\ lagged' = lagged \ {q}
  /\ UNCHANGED <<countVars, listed, alive, local, late, chan, bySource, straggled, tokenVars, outages>>

\* coalesce flushes the last update.
FlushUpdate(q) ==
  /\ follower[q] = "streaming"
  /\ conn[q].pending # Nothing
  /\ Len(conn[q].out) < ChanCapacity
  /\ conn' = [conn EXCEPT ![q].out = Append(@, conn[q].pending), ![q].pending = Nothing]
  /\ UNCHANGED <<countVars, listed, alive, local, follower, late, chan, bySource, straggled, lagged, tokenVars, outages>>

\* forward: one line becomes one update.
Forward(q) ==
  /\ follower[q] = "streaming"
  /\ conn[q].out # <<>>
  /\ Len(chan) < ChanCapacity
  /\ chan' = Append(chan, [peer |-> q, item |-> Head(conn[q].out)])
  /\ conn' = [conn EXCEPT ![q].out = Tail(@)]
  /\ UNCHANGED <<countVars, listed, alive, local, follower, late, bySource, straggled, lagged, tokenVars, outages>>

\* The peer is gone, or the connection breaks; the follower connects again.
StreamEnds(q) ==
  /\ follower[q] \in {"opening", "streaming"}
  /\ \/ ~conn[q].sub /\ conn[q].out = <<>> /\ UNCHANGED outages
     \/ conn[q].sub /\ Outage
  /\ follower' = [follower EXCEPT ![q] = "connecting"]
  /\ conn' = [conn EXCEPT ![q] = Idle]
  /\ UNCHANGED <<countVars, listed, alive, local, late, chan, bySource, straggled, lagged, tokenVars>>

(***************************************************************************)
(* The merged view: ClusterMetricsStore::watch_all.                        *)
(***************************************************************************)

TakeLocal ==
  /\ local # <<>>
  /\ local' = Tail(local)
  /\ bySource' = [bySource EXCEPT ![Viewer] = Head(local)]
  /\ UNCHANGED <<countVars, listed, alive, follower, conn, late, chan, straggled, lagged, tokenVars, outages>>

\* Mutant of TakeRemote: what a departed peer had counted stays.
TakeRemoteKeeps ==
  /\ chan # <<>>
  /\ chan' = Tail(chan)
  /\ bySource' = IF Head(chan).item = Gone THEN bySource ELSE [bySource EXCEPT ![Head(chan).peer] = Head(chan).item]
  /\ UNCHANGED <<countVars, listed, alive, local, follower, conn, late, straggled, lagged, tokenVars, outages>>

\* An item replaces the peer's part, Gone removes it.
TakeRemote ==
  /\ chan # <<>>
  /\ chan' = Tail(chan)
  /\ bySource' = [bySource EXCEPT ![Head(chan).peer] = IF Head(chan).item = Gone THEN 0 ELSE Head(chan).item]
  /\ UNCHANGED <<countVars, listed, alive, local, follower, conn, late, straggled, lagged, tokenVars, outages>>

\* merge_by_flow: the counters of all sources added up.
Shown == MapThenSumSet(LAMBDA p : bySource[p], Pods)

-----------------------------------------------------------------------------

Next ==
  \/ \E p \in Pods : Record(p)
  \/ \E p \in Pods : \E v \in sending[p] : Publish(p, v)
  \/ \E p \in Pods : AgeToken(p) \/ LoadToken(p) \/ CreateToken(p) \/ Regenerate(p)
  \/ \E q \in Peers : Appear(q) \/ Vanish(q) \/ Unlist(q)
  \/ \E q \in Peers : FollowNew(q) \/ GiveUp(q) \/ SendLate(q)
  \/ \E q \in Peers : ConnectPeer(q) \/ Snapshot(q) \/ FlushUpdate(q) \/ Forward(q) \/ StreamEnds(q)
  \/ TakeLocal \/ LagLocal
  \/ TakeRemote

Spec == Init /\ [][Next]_vars

\* Threads, timers and followers go on; tokens age; a dead process is noticed.
\* Nothing is assumed of records, starts, failures and regenerations.
Fairness ==
  /\ \A p \in Pods : /\ WF_vars(\E v \in sending[p] : Publish(p, v))
                     /\ WF_vars(AgeToken(p)) /\ WF_vars(LoadToken(p)) /\ WF_vars(CreateToken(p))
  /\ \A q \in Peers : /\ WF_vars(q \notin alive /\ Unlist(q))
                      /\ WF_vars(FollowNew(q)) /\ WF_vars(GiveUp(q)) /\ WF_vars(SendLate(q))
                      /\ SF_vars(ConnectPeer(q)) /\ WF_vars(Snapshot(q))
                      /\ WF_vars(FlushUpdate(q)) /\ WF_vars(Forward(q)) /\ WF_vars(~conn[q].sub /\ StreamEnds(q))
  /\ WF_vars(TakeLocal) /\ WF_vars(TakeRemote)

FairSpec == Spec /\ Fairness

-----------------------------------------------------------------------------

TypeOK ==
  /\ count \in [Pods -> 0..MaxRecords]
  /\ sending \in [Pods -> SUBSET (1..MaxRecords)]
  /\ sent \in [Pods -> 0..MaxRecords]
  /\ listed \subseteq Peers /\ alive \subseteq Peers
  /\ local \in Seq(1..MaxRecords)
  /\ follower \in [Peers -> {"none", "connecting", "opening", "streaming"}]
  /\ \A q \in Peers : /\ conn[q].sub \in BOOLEAN
                      /\ conn[q].pending \in {Nothing} \cup (1..MaxRecords)
                      /\ conn[q].out \in Seq(0..MaxRecords)
  /\ late \in [Peers -> {Nothing} \cup (0..MaxRecords)]
  /\ chan \in Seq([peer : Peers, item : {Gone} \cup (0..MaxRecords)])
  /\ bySource \in [Pods -> 0..MaxRecords]
  /\ sharedToken \in 0..2
  /\ kept \in [Pods -> [token : 0..2, fresh : BOOLEAN]]
  /\ creating \subseteq Pods
  /\ misordered \in BOOLEAN /\ straggled \in BOOLEAN /\ lagged \subseteq Pods /\ regenerated \in BOOLEAN
  /\ records \in 0..MaxRecords /\ outages \in 0..MaxOutages

\* What the pods have counted that the viewer is to show.
Due(p) == IF p = Viewer \/ p \in listed THEN count[p] ELSE 0

\* What the viewer shows in the end is what the listed pods have counted:
\* no update falls between subscription and snapshot, broken streams come
\* back, a new token is accepted, a departed pod's part goes.  Excepted are
\* three ways of the code to be wrong until the flow counts again or the stream
\* is opened anew: two records of a pod broadcast in the wrong order, a line sent
\* after the Gone of its peer, and a last frame that the frames of other flows
\* pushed out of the one bounded channel of its pod, which stays out of the
\* view, for ever when its flow is quiet.
ViewConverges ==
  <>[](\/ misordered
       \/ straggled
       \/ Shown = MapThenSumSet(LAMBDA p : IF p \in lagged THEN bySource[p] ELSE Due(p), Pods))

\* Nothing that pod p has counted is on its way to the view.
Quiet(p) ==
  /\ sending[p] = {}
  /\ p = Viewer => local = <<>>
  /\ p # Viewer => /\ conn[p].pending = Nothing /\ conn[p].out = <<>>
                   /\ \A i \in DOMAIN chan : chan[i].peer # p

\* The safety half of it: when nothing of a pod is on its way any more, the view
\* shows the pod's own count while it follows the pod, and nothing of a pod it
\* does not follow; however its streams broke and it came and went.  A pod whose
\* last frame was lost to the frames of other flows is excepted until the next one.
ViewIsCurrent ==
  ~misordered /\ ~straggled =>
    \A p \in Pods \ lagged : Quiet(p) =>
      /\ p = Viewer \/ (follower[p] = "streaming" /\ conn[p].sub) => bySource[p] = count[p]
      /\ p # Viewer /\ follower[p] = "none" => bySource[p] = 0

\* Pods that start together agree on one token: until a user has it replaced,
\* no two pods keep different ones.
OneToken ==
  ~regenerated => \A p, q \in Pods : kept[p].token # 0 /\ kept[q].token # 0 => kept[p].token = kept[q].token

=============================================================================
