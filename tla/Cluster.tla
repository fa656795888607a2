------------------------------- MODULE Cluster -------------------------------
(***************************************************************************)
(* The pods of a cluster: start and shutdown of a process (app/src/app.rs, *)
(* App::start), its registration among its peers and the informer that     *)
(* follows the registrations (core/src/peer.rs), and the hand-over of      *)
(* leases to the pod that rendezvous hashing prefers.                      *)
(*                                                                         *)
(* The lease itself is one holder per flow here; LeaderElection has its    *)
(* protocol.  Time is relative: a registration is either within the TTL or *)
(* `old`, a membership is settled once it has not changed for a TTL.       *)
(* Renewal times are stamps that only compare records of one pod; they     *)
(* saturate at MaxStamp, where records tie, which the code accepts too.    *)
(***************************************************************************)
EXTENDS Integers, Sequences, FiniteSets, FiniteSetsExt

CONSTANTS Peers,        \* pod identities
          Flows,       \* leader-elected flows
          Score,       \* rendezvous_score: [Flows -> [Peers -> Nat]], ties broken already
          Unsteady,    \* pods that start, stop and crash; the others are up all along
          Watching,    \* pods whose cache can watch; the others read the cache
          Percent,     \* REBALANCE_LIMIT_PERCENT
          MaxStamp,    \* saturation point of the renewal times
          MaxFeed,     \* bound: watch events an informer has not taken yet
          MaxFaults    \* bound: crashes, signals, failed calls of a pod that runs, broken watches

ASSUME ClusterAssumption ==
  /\ Score \in [Flows -> [Peers -> Nat]]
  /\ \A f \in Flows : \A p, q \in Peers : Score[f][p] = Score[f][q] => p = q
  /\ Unsteady \subseteq Peers
  /\ Watching \subseteq Peers
  /\ Percent \in 1..100
  /\ MaxStamp \in Nat \ {0}
  /\ MaxFeed \in Nat \ {0}
  /\ MaxFaults \in Nat

None == "none"

VARIABLES phase,     \* where App::start is on each pod
          ready,     \* PeerRegistry.ready
          stamp,     \* renewed_at_ms of the last record the pod built
          renewal,   \* record the renewal task has built and not written yet
          cache,     \* the keys peers.{identity}
          watch,     \* the informer: "closed", "open", "reading", "synced"
          feed,      \* events of its watch, not taken yet
          unread,    \* keys read_records has listed and not read yet
          found,     \* what it has read
          informed,  \* PeerRegistry.informer; meaningful when synced
          members,   \* Rebalance.membership, empty before the first look
          settled,   \* the membership has not changed for one TTL
          handed,    \* Rebalance.handed_over
          inRound,   \* Rebalance.handed_over_in_round
          lease,     \* holder of each flow's lease
          faults

regVars == <<stamp, renewal, cache>>
infVars == <<watch, feed, unread, found, informed>>
balVars == <<members, settled, handed, inRound>>
clusterVars == <<phase, ready, stamp, renewal, cache, watch, feed, unread, found, informed,
          members, settled, handed, inRound, lease, faults>>

-----------------------------------------------------------------------------

\* PeerRecord: the time of the renewal, `ready`, and whether the TTL has passed since.
Records == [stamp : 0..MaxStamp, ready : BOOLEAN, old : BOOLEAN]

\* No record under the key: a record's stamp is positive.
NoRecord == [stamp |-> 0, ready |-> FALSE, old |-> TRUE]

Phases == {"off", "starting", "up", "halting", "leaving"}

\* The process exists and its flows run.
Running == {"starting", "up"}

Fault == faults < MaxFaults /\ faults' = faults + 1

Nobody == [q \in Peers |-> NoRecord]

\* renew_internal builds a record from the clock and the ready flag.
NextStamp(p) == IF stamp[p] < MaxStamp THEN stamp[p] + 1 ELSE MaxStamp

Built(p, isReady) == [stamp |-> NextStamp(p), ready |-> isReady, old |-> FALSE]

\* inform: a record replaces an older one, a deletion always counts.
Inform(recs, q, r) ==
  IF r # NoRecord /\ r.stamp < recs[q].stamp
  THEN recs
  ELSE [recs EXCEPT ![q] = r]

\* The informer's task runs and its watch is open.
Follows(p) == watch[p] # "closed" /\ phase[p] \in Running

\* The cache tells every watch of the prefix; what a synced pod wrote itself it
\* knows already, so that these events change nothing.
Hears(p, q) == Follows(p) /\ (p = q => watch[p] # "synced")

Broadcast(q, r) ==
  feed' = [p \in Peers |-> IF Hears(p, q) THEN Append(feed[p], [pod |-> q, rec |-> r]) ELSE feed[p]]

Roomy(q) == \A p \in Peers : Hears(p, q) => Len(feed[p]) < MaxFeed

\* put, then inform on the pod itself.
Put(p, r) ==
  /\ Roomy(p)
  /\ cache' = [cache EXCEPT ![p] = r]
  /\ Broadcast(p, r)
  /\ informed' = IF watch[p] = "synced" THEN [informed EXCEPT ![p] = Inform(@, p, r)] ELSE informed
  /\ UNCHANGED <<watch, unread, found>>

\* read_live: the informer's records once it has synced, the cache's before;
\* only those renewed within the TTL count.
View(p) == IF watch[p] = "synced" THEN informed[p] ELSE cache

\* Mutant of Live: the age of a record is not looked at.
LiveAtAnyAge(p) == {q \in Peers : View(p)[q] # NoRecord}

Live(p) == {q \in Peers : ~View(p)[q].old}

\* preferred_peer: the highest score among the peers.
Preferred(f, peers) == CHOOSE p \in peers : \A q \in peers : Score[f][q] <= Score[f][p]

-----------------------------------------------------------------------------

ClusterInit ==
  /\ phase = [p \in Peers |-> IF p \in Unsteady THEN "off" ELSE "up"]
  /\ ready = [p \in Peers |-> p \notin Unsteady]
  /\ stamp = [p \in Peers |-> IF p \in Unsteady THEN 0 ELSE MaxStamp]
  /\ renewal = [p \in Peers |-> NoRecord]
  /\ cache = [p \in Peers |-> IF p \in Unsteady THEN NoRecord
                              ELSE [stamp |-> MaxStamp, ready |-> TRUE, old |-> FALSE]]
  /\ watch = [p \in Peers |-> "closed"]
  /\ feed = [p \in Peers |-> <<>>]
  /\ unread = [p \in Peers |-> {}]
  /\ found = [p \in Peers |-> Nobody]
  /\ informed = [p \in Peers |-> Nobody]
  /\ members = [p \in Peers |-> {}]
  /\ settled = [p \in Peers |-> FALSE]
  /\ handed = [p \in Peers |-> {}]
  /\ inRound = [p \in Peers |-> 0]
  /\ lease = [f \in Flows |-> None]
  /\ faults = 0

(***************************************************************************)
(* Start.                                                                  *)
(***************************************************************************)

\* register: the pod is known before it starts its flows.  A failure is only
\* logged; the renewal task writes the record later.
Start(p) ==
  /\ phase[p] = "off"
  /\ phase' = [phase EXCEPT ![p] = "starting"]
  /\ stamp' = [stamp EXCEPT ![p] = NextStamp(p)]
  /\ \/ Put(p, Built(p, FALSE)) /\ UNCHANGED faults
     \/ Fault /\ UNCHANGED <<cache, infVars>>
  /\ UNCHANGED <<ready, renewal, balVars, lease>>

\* mark_ready, once every flow runs.
MarkReady(p) ==
  /\ phase[p] = "starting"
  /\ phase' = [phase EXCEPT ![p] = "up"]
  /\ ready' = [ready EXCEPT ![p] = TRUE]
  /\ stamp' = [stamp EXCEPT ![p] = NextStamp(p)]
  /\ \/ Put(p, Built(p, TRUE)) /\ UNCHANGED faults
     \/ Fault /\ UNCHANGED <<cache, infVars>>
  /\ UNCHANGED <<renewal, balVars, lease>>

(***************************************************************************)
(* The renewal task: a record is built, and written by a call of its own,  *)
(* so that mark_ready may come between the two.  Afterwards nobody else    *)
(* writes the pod's record and the two are one step.                       *)
(***************************************************************************)

BuildRenewal(p) ==
  /\ phase[p] = "starting"
  /\ renewal[p] = NoRecord
  /\ stamp' = [stamp EXCEPT ![p] = NextStamp(p)]
  /\ renewal' = [renewal EXCEPT ![p] = Built(p, ready[p])]
  /\ UNCHANGED <<phase, ready, cache, infVars, balVars, lease, faults>>

WriteRenewal(p) ==
  /\ renewal[p] # NoRecord
  /\ renewal' = [renewal EXCEPT ![p] = NoRecord]
  /\ \/ Put(p, renewal[p]) /\ UNCHANGED faults
     \/ Fault /\ UNCHANGED <<cache, infVars>>
  /\ UNCHANGED <<phase, ready, stamp, balVars, lease>>

RenewRecord(p) ==
  /\ phase[p] = "up"
  /\ renewal[p] = NoRecord
  /\ stamp' = [stamp EXCEPT ![p] = NextStamp(p)]
  /\ Put(p, Built(p, ready[p]))
  /\ UNCHANGED <<phase, ready, renewal, balVars, lease, faults>>

\* Thirty seconds without a new record: every copy of the last one is old.  A
\* pod that runs renews three times as often, unless its writes fail.
Age(q) ==
  LET Aged(r) == [r EXCEPT !.old = TRUE]
      Copies == {cache[q], renewal[q]} \cup {informed[p][q] : p \in Peers} \cup {found[p][q] : p \in Peers}
  IN  /\ \E r \in Copies : ~r.old
      /\ IF phase[q] \in Running THEN Fault ELSE UNCHANGED faults
      /\ cache' = [cache EXCEPT ![q] = Aged(@)]
      /\ renewal' = [renewal EXCEPT ![q] = Aged(@)]
      /\ informed' = [p \in Peers |-> [informed[p] EXCEPT ![q] = Aged(@)]]
      /\ found' = [p \in Peers |-> [found[p] EXCEPT ![q] = Aged(@)]]
      /\ feed' = [p \in Peers |-> [i \in DOMAIN feed[p] |->
                   IF feed[p][i].pod = q THEN [feed[p][i] EXCEPT !.rec = Aged(@)] ELSE feed[p][i]]]
      /\ UNCHANGED <<phase, ready, stamp, watch, unread, balVars, lease>>

(***************************************************************************)
(* The informer: spawn_informer and follow_registrations.                  *)
(***************************************************************************)

\* cache.watch: events are kept from here on.
OpenWatch(p) ==
  /\ p \in Watching /\ phase[p] \in Running
  /\ watch[p] = "closed"
  /\ watch' = [watch EXCEPT ![p] = "open"]
  /\ UNCHANGED <<phase, ready, regVars, feed, unread, found, informed, balVars, lease, faults>>

\* read_records lists the keys, ...
ListKeys(p) ==
  /\ watch[p] = "open"
  /\ watch' = [watch EXCEPT ![p] = "reading"]
  /\ unread' = [unread EXCEPT ![p] = {q \in Peers : cache[q] # NoRecord}]
  /\ UNCHANGED <<phase, ready, regVars, feed, found, informed, balVars, lease, faults>>

\* ... reads each, skipping one that is gone by then, ...
ReadKey(p, q) ==
  /\ watch[p] = "reading"
  /\ q \in unread[p]
  /\ unread' = [unread EXCEPT ![p] = @ \ {q}]
  /\ found' = [found EXCEPT ![p][q] = cache[q]]
  /\ UNCHANGED <<phase, ready, regVars, watch, feed, informed, balVars, lease, faults>>

\* ... and set_informed publishes them: reads are served from memory.
Sync(p) ==
  /\ watch[p] = "reading"
  /\ unread[p] = {}
  /\ watch' = [watch EXCEPT ![p] = "synced"]
  /\ informed' = [informed EXCEPT ![p] = found[p]]
  /\ found' = [found EXCEPT ![p] = Nobody]
  /\ UNCHANGED <<phase, ready, regVars, feed, unread, balVars, lease, faults>>

TakeEvent(p) ==
  /\ watch[p] = "synced" /\ phase[p] \in Running
  /\ feed[p] # <<>>
  /\ feed' = [feed EXCEPT ![p] = Tail(@)]
  /\ informed' = [informed EXCEPT ![p] = Inform(@, Head(feed[p]).pod, Head(feed[p]).rec)]
  /\ UNCHANGED <<phase, ready, regVars, watch, unread, found, balVars, lease, faults>>

\* The informer of pod p forgets its watch, what it was reading and what it knew.
CloseWatch(p) ==
  /\ watch' = [watch EXCEPT ![p] = "closed"]
  /\ feed' = [feed EXCEPT ![p] = <<>>]
  /\ unread' = [unread EXCEPT ![p] = {}]
  /\ found' = [found EXCEPT ![p] = Nobody]
  /\ informed' = [informed EXCEPT ![p] = Nobody]

\* The watch ends or a read fails: reads go to the cache until it is back.
WatchBreaks(p) ==
  /\ watch[p] # "closed" /\ phase[p] \in Running
  /\ Fault
  /\ CloseWatch(p)
  /\ UNCHANGED <<phase, ready, regVars, balVars, lease>>

(***************************************************************************)
(* Rebalancing.                                                            *)
(***************************************************************************)

\* Mutant of Observe: what was handed over is forgotten at every look.
ObserveForgets(p) ==
  /\ members' = [members EXCEPT ![p] = Live(p)]
  /\ settled' = IF members[p] = Live(p) THEN settled ELSE [settled EXCEPT ![p] = FALSE]
  /\ handed' = [handed EXCEPT ![p] = {}]

\* observe_membership: every look at the peers notices a change.
Observe(p) ==
  IF members[p] = Live(p)
  THEN UNCHANGED <<members, settled, handed>>
  ELSE /\ members' = [members EXCEPT ![p] = Live(p)]
       /\ settled' = [settled EXCEPT ![p] = FALSE]
       /\ handed' = [handed EXCEPT ![p] = {}]

\* A look that hands nothing over: is_preferred_owner before an acquisition,
\* should_hand_over of a flow that stays, the lists of the telemetry.
Look(p) ==
  /\ phase[p] \in Running
  /\ Observe(p)
  /\ UNCHANGED <<phase, ready, regVars, infVars, inRound, lease, faults>>

\* The membership has not changed for one TTL.
Settle(p) ==
  /\ phase[p] \in Running
  /\ members[p] # {}
  /\ ~settled[p]
  /\ settled' = [settled EXCEPT ![p] = TRUE]
  /\ UNCHANGED <<phase, ready, regVars, infVars, members, handed, inRound, lease, faults>>

\* A round is over after one renewal interval.
NewRound(p) ==
  /\ inRound[p] > 0
  /\ inRound' = [inRound EXCEPT ![p] = 0]
  /\ UNCHANGED <<phase, ready, regVars, infVars, members, settled, handed, lease, faults>>

LeasesOf(p) == {f \in Flows : lease[f] = p}

\* The leases a pod may hand over per round.
RoundLimit(p) == Max({1, (Cardinality(LeasesOf(p)) * Percent) \div 100})

\* should_hand_over.
ShouldHandOver(p, f) ==
  LET peers == Live(p)
      to == Preferred(f, peers)
  IN  /\ Cardinality(peers) >= 2
      /\ to # p /\ View(p)[to].ready
      /\ members[p] = peers /\ settled[p]
      /\ f \notin handed[p]
      /\ inRound[p] < RoundLimit(p)

\* LeaseTask::hand_over: the lease is released, and acquired again after a
\* while if nobody has taken it.  A failed release leaves it to the same task.
HandLeaseOver(p, f) ==
  /\ phase[p] \in Running
  /\ lease[f] = p
  /\ ShouldHandOver(p, f)
  /\ handed' = [handed EXCEPT ![p] = @ \cup {f}]
  /\ inRound' = [inRound EXCEPT ![p] = @ + 1]
  /\ \/ lease' = [lease EXCEPT ![f] = None] /\ UNCHANGED faults
     \/ Fault /\ UNCHANGED lease
  /\ UNCHANGED <<phase, ready, regVars, infVars, members, settled>>

\* Whoever tries takes a free lease: deferring to the preferred pod only delays.
Acquire(p, f) ==
  /\ phase[p] \in Running
  /\ lease[f] = None
  /\ lease' = [lease EXCEPT ![f] = p]
  /\ UNCHANGED <<phase, ready, regVars, infVars, balVars, faults>>

\* The lease of a pod that is gone runs out.
Lapse(f) ==
  /\ lease[f] # None
  /\ phase[lease[f]] = "off"
  /\ lease' = [lease EXCEPT ![f] = None]
  /\ UNCHANGED <<phase, ready, regVars, infVars, balVars, faults>>

(***************************************************************************)
(* Shutdown and crash.                                                     *)
(***************************************************************************)

\* The shutdown signal: watcher, reconciler, servers, renewal and informer are
\* aborted and joined; what the informer knew stays.
Signal(p) ==
  /\ p \in Unsteady /\ phase[p] \in Running
  /\ Fault
  /\ phase' = [phase EXCEPT ![p] = "halting"]
  /\ renewal' = [renewal EXCEPT ![p] = NoRecord]
  /\ watch' = [watch EXCEPT ![p] = IF @ = "synced" THEN @ ELSE "closed"]
  /\ feed' = [feed EXCEPT ![p] = <<>>]
  /\ unread' = [unread EXCEPT ![p] = {}]
  /\ found' = [found EXCEPT ![p] = Nobody]
  /\ UNCHANGED <<ready, stamp, cache, informed, balVars, lease>>

\* stop_flows is done, in time or not: the task managers collected at boot
\* release their leases.  One that fails, or that a reload brought, lapses.
ReleaseLeases(p) ==
  /\ phase[p] = "halting"
  /\ phase' = [phase EXCEPT ![p] = "leaving"]
  /\ \E kept \in SUBSET LeasesOf(p) :
       lease' = [f \in Flows |-> IF lease[f] = p /\ f \notin kept THEN None ELSE lease[f]]
  /\ UNCHANGED <<ready, regVars, infVars, balVars, faults>>

\* The process is over, and everything it kept in memory.
Forget(p) ==
  /\ phase' = [phase EXCEPT ![p] = "off"]
  /\ ready' = [ready EXCEPT ![p] = FALSE]
  /\ members' = [members EXCEPT ![p] = {}]
  /\ settled' = [settled EXCEPT ![p] = FALSE]
  /\ handed' = [handed EXCEPT ![p] = {}]
  /\ inRound' = [inRound EXCEPT ![p] = 0]

\* deregister, the last thing a pod does.  A failure is logged, and the record
\* ages out.
Deregister(p) ==
  /\ phase[p] = "leaving"
  /\ Forget(p)
  /\ watch' = [watch EXCEPT ![p] = "closed"]
  /\ unread' = [unread EXCEPT ![p] = {}]
  /\ found' = [found EXCEPT ![p] = Nobody]
  /\ informed' = [informed EXCEPT ![p] = Nobody]
  /\ \/ /\ Roomy(p)
        /\ cache' = [cache EXCEPT ![p] = NoRecord]
        /\ Broadcast(p, NoRecord)
     \/ UNCHANGED <<cache, feed>>
  /\ UNCHANGED <<stamp, renewal, lease, faults>>

PodCrash(p) ==
  /\ p \in Unsteady /\ phase[p] # "off"
  /\ Fault
  /\ Forget(p)
  /\ renewal' = [renewal EXCEPT ![p] = NoRecord]
  /\ CloseWatch(p)
  /\ UNCHANGED <<stamp, cache, lease>>

-----------------------------------------------------------------------------

Informer(p) == OpenWatch(p) \/ ListKeys(p) \/ (\E q \in Peers : ReadKey(p, q)) \/ Sync(p) \/ TakeEvent(p)

ClusterNext ==
  \/ \E p \in Peers : Start(p) \/ MarkReady(p) \/ BuildRenewal(p) \/ WriteRenewal(p) \/ RenewRecord(p) \/ Age(p)
  \/ \E p \in Peers : OpenWatch(p) \/ ListKeys(p) \/ Sync(p) \/ TakeEvent(p) \/ WatchBreaks(p)
  \/ \E p, q \in Peers : ReadKey(p, q)
  \/ \E p \in Peers : Look(p) \/ Settle(p) \/ NewRound(p)
  \/ \E p \in Peers : \E f \in Flows : HandLeaseOver(p, f) \/ Acquire(p, f)
  \/ \E f \in Flows : Lapse(f)
  \/ \E p \in Peers : Signal(p) \/ ReleaseLeases(p) \/ Deregister(p) \/ PodCrash(p)

ClusterSpec == ClusterInit /\ [][ClusterNext]_clusterVars

\* Every task of a pod goes on, every timer fires, what has run out is noticed.
\* Nothing is assumed of starts, crashes and failures.
ClusterFairness ==
  /\ \A p \in Peers :
       /\ WF_clusterVars(MarkReady(p))
       /\ WF_clusterVars(WriteRenewal(p)) /\ WF_clusterVars(RenewRecord(p))
       /\ WF_clusterVars(Informer(p))
       /\ WF_clusterVars(phase[p] \notin Running /\ Age(p))
       /\ WF_clusterVars(Look(p)) /\ WF_clusterVars(Settle(p)) /\ WF_clusterVars(NewRound(p))
       /\ WF_clusterVars(ReleaseLeases(p)) /\ WF_clusterVars(Deregister(p))
       /\ \A f \in Flows : WF_clusterVars(HandLeaseOver(p, f))
  /\ \A f \in Flows : WF_clusterVars(\E p \in Peers : Acquire(p, f)) /\ WF_clusterVars(Lapse(f))

ClusterFairSpec == ClusterSpec /\ ClusterFairness

-----------------------------------------------------------------------------

ClusterTypeOK ==
  /\ phase \in [Peers -> Phases]
  /\ ready \in [Peers -> BOOLEAN]
  /\ stamp \in [Peers -> 0..MaxStamp]
  /\ renewal \in [Peers -> Records]
  /\ cache \in [Peers -> Records]
  /\ watch \in [Peers -> {"closed", "open", "reading", "synced"}]
  /\ \A p \in Peers : feed[p] \in Seq([pod : Peers, rec : Records])
  /\ unread \in [Peers -> SUBSET Peers]
  /\ found \in [Peers -> [Peers -> Records]]
  /\ informed \in [Peers -> [Peers -> Records]]
  /\ members \in [Peers -> SUBSET Peers]
  /\ settled \in [Peers -> BOOLEAN]
  /\ handed \in [Peers -> SUBSET Flows]
  /\ inRound \in [Peers -> 0..Cardinality(Flows)]
  /\ lease \in [Flows -> Peers \cup {None}]
  /\ faults \in 0..MaxFaults

\* An informer that has taken every event knows each registration at least as
\* new as the cache has it, and none that was deleted: nothing falls between
\* the reading of the records and the watch, and an old renewal written after
\* a newer one does not set the informer back.
InformedIsCurrent ==
  \A p \in Peers :
    watch[p] = "synced" /\ phase[p] \in Running /\ feed[p] = <<>> =>
      \A q \in Peers : IF cache[q] = NoRecord THEN informed[p][q] = NoRecord
                      ELSE informed[p][q] # NoRecord /\ informed[p][q].stamp >= cache[q].stamp

\* Once pods come and go no more, every pod that stays counts exactly the pods
\* that run as its peers: a crashed pod ages out, a stopped one does not come
\* back through a late renewal.
MembershipConverges ==
  \A p, q \in Peers :
    /\ <>[](phase[p] \in Running /\ phase[q] \in Running) => <>[](q \in Live(p))
    /\ <>[](phase[p] \in Running /\ phase[q] = "off") => <>[](q \notin Live(p))

\* Leases are not passed back and forth: with finitely many changes of the
\* membership the hand-overs end.
HandOversCease ==
  <>[][\A f \in Flows : lease[f] # None /\ phase[lease[f]] \in Running => lease'[f] = lease[f]]_lease

\* When all pods stay up, every lease ends with the preferred pod, or with one
\* that has handed it over and got it back because the preferred did not try.
Rebalanced ==
  <>[](\A p \in Peers : phase[p] = "up") =>
    \A f \in Flows :
      <>[](lease[f] = Preferred(f, Peers) \/ (lease[f] # None /\ f \in handed[lease[f]]))

=============================================================================
