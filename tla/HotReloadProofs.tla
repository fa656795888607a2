---------------------------- MODULE HotReloadProofs ----------------------------
(***************************************************************************)
(* Proofs about HotReload for any flows, definitions and numbers of starts *)
(* and writes.                                                             *)
(***************************************************************************)
EXTENDS HotReload, FiniteSetTheorems, WellFoundedInduction, SequenceTheorems, TLAPS

\* Instances are born in order, and an instance that was not started has no
\* lease task.
Born ==
  \A i \in Ids :
    /\ tasks[i] = "unborn" <=> i > starts
    /\ lease[i] # "none" => i <= starts /\ config[i] \in Elected

\* A handle belongs to its flow; while the reconciler replaces a flow, none is
\* in the registry, and what it stops or starts is an instance of that flow.
Handles ==
  /\ \A f \in Flows : registry[f] # 0 => flowOf[registry[f]] = f
  /\ pc \in {"stop", "start", "insert"} => registry[cur] = 0 /\ cur \notin Files
  /\ pc = "stop" => flowOf[old] = cur
  /\ pc = "insert" => flowOf[starts] = cur /\ config[starts] = want
  /\ pc = "aborted" <=> phase # "up"

\* Whatever lives can be found.
Found ==
  phase = "up" =>
    \A i \in 1..starts : Done(i) \/ abandoned[i] \/ registry[flowOf[i]] = i \/ InHand(i)

\* An instance that has a younger one is done or was given up.
Superseded ==
  \A i, j \in 1..starts : i < j /\ flowOf[i] = flowOf[j] => Done(i) \/ abandoned[i]

\* What the shutdown waits for, and what it has left behind.
Drained ==
  \A i \in 1..starts :
    /\ phase = "stopping" => Done(i) \/ abandoned[i] \/ i \in dropped \/ i \in waits
    /\ phase \in {"releasing", "leaving"} => Done(i) \/ abandoned[i] \/ i \in dropped

\* A lease task belongs to the registered instance or to the one being stopped.
Leases ==
  /\ phase = "up" =>
       \A i \in Ids : lease[i] # "none" => registry[flowOf[i]] = i \/ (pc = "stop" /\ old = i)
  /\ OneLeaseTask

\* The inductive invariant.
IInv ==
  TypeOK /\ Born /\ Handles /\ Found /\ Superseded /\ Drained /\ Leases /\ FilesystemWins

\* The endpoints of a flow that is being replaced are gone, those of its new
\* instance are registered before its handle.
Routes ==
  /\ RoutesFollowRegistry
  /\ pc \in {"stop", "start"} => route[cur] = 0
  /\ pc = "insert" => route[cur] = IF want \in Elected THEN 0 ELSE starts

-----------------------------------------------------------------------------
(* Types. *)

\* A set of natural numbers has a least one.
LEMMA LeastOf ==
  ASSUME NEW T \in SUBSET Nat, T # {}
  PROVE  \E m \in T : \A k \in T : m <= k
<1> DEFINE R == {ss \in Nat \X Nat : ss[1] < ss[2]}
<1>1. IsWellFoundedOn(R, Nat)
  BY NatLessThanWellFounded DEF OpToRel
<1>2. \E m \in T : \A k \in T : ~ (<<k, m>> \in R)
  <2> HIDE DEF R
  <2> QED BY <1>1, WFMin
<1>3. PICK m \in T : \A k \in T : ~ (<<k, m>> \in R)
  BY <1>2
<1>4. ASSUME NEW k \in T PROVE m <= k
  <2>1. k \in Nat /\ m \in Nat /\ ~ (k < m)
    BY <1>3
  <2> QED BY <2>1
<1> QED BY <1>4

\* A set of positions has a last one.
LEMMA LastOf ==
  ASSUME NEW n \in Nat, NEW S \in SUBSET (1..n), S # {}
  PROVE  Max(S) \in S
<1> DEFINE T == {k \in Nat : n - k \in S}
<1>1. T \in SUBSET Nat
  OBVIOUS
<1>2. T # {}
  <2>1. PICK x \in S : TRUE
    OBVIOUS
  <2>2. x \in 1..n
    BY <2>1
  <2>3. n - x \in Nat /\ n - (n - x) = x
    BY <2>2
  <2>4. n - x \in T
    BY <2>1, <2>3
  <2> QED BY <2>4
<1>3. PICK m \in T : \A k \in T : m <= k
  <2> HIDE DEF T
  <2> QED BY <1>1, <1>2, LeastOf
<1>4. n - m \in S
  BY <1>3
<1>5. ASSUME NEW y \in S PROVE y <= n - m
  <2>1. y \in 1..n /\ m \in Nat
    BY <1>3
  <2>2. n - y \in Nat /\ n - (n - y) = y
    BY <2>1
  <2>3. n - y \in T
    BY <2>2
  <2>4. m <= n - y
    BY <1>3, <2>3
  <2> QED BY <2>1, <2>4
<1>6. \E x \in S : \A y \in S : y <= x
  BY <1>4, <1>5
<1> QED BY <1>6 DEF Max

\* Deduplication of a batch keeps definitions that were in it.
LEMMA LastEventsType ==
  ASSUME NEW events \in Seq([flow : Flows, config : Configs \cup {Deleted}])
  PROVE  LastEvents(events) \in [Flows -> Configs \cup {Deleted, NoEvent}]
<1> SUFFICES ASSUME NEW f \in Flows
             PROVE  LET at == {i \in 1..Len(events) : events[i].flow = f}
                    IN (IF at = {} THEN NoEvent ELSE events[Max(at)].config)
                          \in Configs \cup {Deleted, NoEvent}
  BY DEF LastEvents
<1> DEFINE at == {i \in 1..Len(events) : events[i].flow = f}
<1>1. CASE at = {}
  BY <1>1
<1>2. CASE at # {}
  <2>1. Len(events) \in Nat /\ at \in SUBSET (1..Len(events))
    OBVIOUS
  <2>2. Max(at) \in at
    BY <1>2, <2>1, LastOf
  <2>3. Max(at) \in 1..Len(events)
    <3> HIDE DEF at
    <3> QED BY <2>1, <2>2
  <2>4. events[Max(at)] \in [flow : Flows, config : Configs \cup {Deleted}]
    BY <2>3, ElementOfSeq
  <2> QED BY <1>2, <2>4
<1> QED BY <1>1, <1>2

\* What the reconciler and the shutdown do keeps the type of the queue.
LEMMA FeedType ==
  ASSUME TypeOK, NEW f \in Flows, NEW c \in Configs \cup {Deleted},
         feed' = IF watching THEN Append(feed, [flow |-> f, config |-> c]) ELSE feed
  PROVE  feed' \in Seq([flow : Flows, config : Configs \cup {Deleted}])
<1> DEFINE Events == [flow : Flows, config : Configs \cup {Deleted}]
<1>1. feed \in Seq(Events) /\ [flow |-> f, config |-> c] \in Events
  BY DEF TypeOK
<1>2. Append(feed, [flow |-> f, config |-> c]) \in Seq(Events)
  <2> HIDE DEF Events
  <2> QED BY <1>1, AppendProperties
<1> QED BY <1>1, <1>2

\* A part of the queue is a queue.
LEMMA FeedPart ==
  ASSUME TypeOK, NEW m \in 1..(Len(feed) + 1), NEW k \in 0..Len(feed)
  PROVE  SubSeq(feed, m, k) \in Seq([flow : Flows, config : Configs \cup {Deleted}])
<1> DEFINE Events == [flow : Flows, config : Configs \cup {Deleted}]
<1>1. feed \in Seq(Events)
  BY DEF TypeOK
<1> HIDE DEF Events
<1>2. m \in Int /\ k \in Int /\ \A i \in m..k : feed[i] \in Events
  BY <1>1
<1>3. SubSeq(feed, m, k) \in Seq(Events)
  BY <1>1, <1>2, SubSeqProperties
<1> QED BY <1>3 DEF Events

LEMMA SpawnedType == \A c : Spawned(c) \in {"idle", "running", "done"}
BY DEF Spawned

LEMMA NextType == TypeOK /\ [Next]_vars => TypeOK'
<1> SUFFICES ASSUME TypeOK, [Next]_vars PROVE TypeOK'
  OBVIOUS
<1> USE ConstantsAssumption DEF envVars, instVars, recVars, appVars
<1>1. ASSUME NEW f \in Flows, NEW c \in Configs \cup {Deleted}, Write(f, c) PROVE TypeOK'
  <2>1. feed' \in Seq([flow : Flows, config : Configs \cup {Deleted}])
    BY <1>1, FeedType DEF Write
  <2> QED BY <1>1, <2>1 DEF Write, TypeOK
<1>2. CASE Subscribe \/ WatchBreaks
  <2>1. CASE Subscribe
    BY <2>1 DEF Subscribe, TypeOK
  <2>2. CASE WatchBreaks
    <3>1. breaks \in 0..MaxBreaks
      BY DEF TypeOK
    <3>2. breaks' = breaks + 1 /\ breaks < MaxBreaks
      BY <2>2 DEF WatchBreaks
    <3>3. breaks' \in 0..MaxBreaks
      BY <3>1, <3>2
    <3>4. PICK n \in 0..Len(feed) : feed' = SubSeq(feed, 1, n) /\ missed' = missed \cup CutOff(n)
      BY <2>2 DEF WatchBreaks
    <3>5. feed' \in Seq([flow : Flows, config : Configs \cup {Deleted}])
      <4>1. Len(feed) \in Nat
        BY DEF TypeOK
      <4>2. 1 \in 1..(Len(feed) + 1)
        BY <4>1
      <4> QED BY <3>4, <4>2, FeedPart
    <3>6. missed' \subseteq Flows
      BY <3>4 DEF CutOff, TypeOK
    <3> QED BY <2>2, <3>3, <3>5, <3>6 DEF WatchBreaks, TypeOK
  <2> QED BY <1>2, <2>1, <2>2
<1>3. CASE ListStale
  BY <1>3 DEF ListStale, TypeOK
<1>4. ASSUME NEW f \in Flows, DeleteStale(f) PROVE TypeOK'
  <2>1. feed' \in Seq([flow : Flows, config : Configs \cup {Deleted}])
    BY <1>4, FeedType DEF DeleteStale, TypeOK
  <2>2. stored' \in [Flows -> Configs \cup {Deleted}]
    BY <1>4 DEF DeleteStale, TypeOK
  <2> QED BY <1>4, <2>1, <2>2 DEF DeleteStale, TypeOK
<1>5. CASE CollectBatch
  <2> DEFINE Events == [flow : Flows, config : Configs \cup {Deleted}]
  <2>1. PICK n \in 1..Len(feed) : /\ batch' = LastEvents(SubSeq(feed, 1, n))
                                  /\ feed' = SubSeq(feed, n + 1, Len(feed))
    BY <1>5 DEF CollectBatch
  <2>2. feed \in Seq(Events) /\ Len(feed) \in Nat
    BY DEF TypeOK
  <2>3. SubSeq(feed, 1, n) \in Seq(Events) /\ SubSeq(feed, n + 1, Len(feed)) \in Seq(Events)
    <3>1. \A m \in 1..(Len(feed) + 1), k \in 0..Len(feed) : SubSeq(feed, m, k) \in Seq(Events)
      BY FeedPart
    <3>2. 1 \in 1..(Len(feed) + 1) /\ n + 1 \in 1..(Len(feed) + 1) /\ n \in 0..Len(feed)
      BY <2>1, <2>2
    <3> QED BY <2>2, <3>1, <3>2
  <2>4. batch' \in [Flows -> Configs \cup {Deleted, NoEvent}]
    BY <2>1, <2>3, LastEventsType
  <2> QED BY <1>5, <2>1, <2>3, <2>4 DEF CollectBatch, TypeOK
<1>6. ASSUME NEW f \in Flows, Reconcile(f) PROVE TypeOK'
  <2>1. /\ pc' \in {"next", "start", "stop"} /\ old' \in 0..starts
        /\ pc' = "stop" => old' # 0
        /\ registry' \in [Flows -> 0..starts] /\ route' \in [Flows -> 0..starts]
        /\ cancelled' \in [Ids -> BOOLEAN]
    <3>1. CASE Ignored(f, batch[f])
      BY <1>6, <3>1 DEF Reconcile, TypeOK
    <3>2. CASE ~Ignored(f, batch[f]) /\ registry[f] = 0
      BY <1>6, <3>2 DEF Reconcile, StopOld, TypeOK
    <3>3. CASE ~Ignored(f, batch[f]) /\ registry[f] # 0
      <4>1. /\ pc' = "stop" /\ old' = registry[f]
            /\ registry' = [registry EXCEPT ![f] = 0]
            /\ cancelled' = [cancelled EXCEPT ![registry[f]] = TRUE]
            /\ route' = [route EXCEPT ![f] = 0]
        BY <1>6, <3>3 DEF Reconcile, StopOld
      <4>2. registry[f] \in 0..starts /\ starts \in Nat
        BY DEF TypeOK
      <4>3. registry' \in [Flows -> 0..starts] /\ route' \in [Flows -> 0..starts]
        BY <4>1, <4>2 DEF TypeOK
      <4>4. cancelled' \in [Ids -> BOOLEAN]
        BY <4>1 DEF TypeOK
      <4> QED BY <3>3, <4>1, <4>2, <4>3, <4>4
    <3> QED BY <3>1, <3>2, <3>3
  <2>2. want' \in Configs \cup {Deleted} /\ batch' \in [Flows -> Configs \cup {Deleted, NoEvent}]
    BY <1>6 DEF Reconcile, TypeOK
  <2> QED BY <1>6, <2>1, <2>2 DEF Reconcile, TypeOK
<1>7. CASE BatchDone
  BY <1>7 DEF BatchDone, TypeOK
<1>8. CASE OldStopped \/ StopTimeout
  <2>1. lease' \in [Ids -> {"none", "seeking", "held"}]
    BY <1>8 DEF OldStopped, StopTimeout, Unregister, TypeOK
  <2>2. abandoned' \in [Ids -> BOOLEAN]
    <3>1. UNCHANGED abandoned \/ abandoned' = [abandoned EXCEPT ![old] = TRUE]
      BY <1>8 DEF OldStopped, StopTimeout
    <3> QED BY <3>1 DEF TypeOK
  <2>3. /\ pc' = "start"
        /\ UNCHANGED <<batch, cur, want, old, envVars, feed, registry, route, flowOf, config, tasks,
                       cancelled, starts, appVars>>
    BY <1>8 DEF OldStopped, StopTimeout
  <2> QED BY <2>1, <2>2, <2>3 DEF TypeOK
<1>9. CASE StartNothing
  BY <1>9 DEF StartNothing, TypeOK
<1>10. CASE StartNew
  <2>1. want \in Configs /\ starts + 1 \in 1..MaxStarts /\ starts' = starts + 1
    BY <1>10 DEF StartNew, Startable, TypeOK
  <2>2. tasks' \in [Ids -> {"unborn", "idle", "running", "done"}]
    BY <1>10, SpawnedType DEF StartNew, TypeOK
  <2>3. registry' \in [Flows -> 0..starts'] /\ old' \in 0..starts'
    BY <1>10, <2>1 DEF StartNew, TypeOK
  <2>4. route' \in [Flows -> 0..starts']
    BY <1>10, <2>1 DEF StartNew, StartRoute, TypeOK
  <2> QED BY <1>10, <2>1, <2>2, <2>3, <2>4, SMTT(30) DEF StartNew, TypeOK
<1>11. CASE InsertNew
  <2>1. registry' \in [Flows -> 0..starts]
    BY <1>11 DEF InsertNew, TypeOK
  <2> QED BY <1>11, <2>1 DEF InsertNew, TypeOK
<1>12. ASSUME NEW i \in Ids, Acquire(i) \/ LoseLease(i) \/ Finish(i) \/ Drain(i) PROVE TypeOK'
  <2>1. tasks' \in [Ids -> {"unborn", "idle", "running", "done"}]
    <3>1. \E t \in {"idle", "running", "done"} : tasks' = [tasks EXCEPT ![i] = t]
      BY <1>12 DEF Acquire, LoseLease, Finish, Drain
    <3> QED BY <3>1 DEF TypeOK
  <2>2. lease' \in [Ids -> {"none", "seeking", "held"}]
    <3>1. UNCHANGED lease \/ \E l \in {"none", "seeking", "held"} : lease' = [lease EXCEPT ![i] = l]
      BY <1>12 DEF Acquire, LoseLease, Finish, Drain
    <3> QED BY <3>1 DEF TypeOK
  <2>3. UNCHANGED <<envVars, feed, registry, route, flowOf, config, cancelled, abandoned,
                    starts, recVars, appVars>>
    BY <1>12 DEF Acquire, LoseLease, Finish, Drain
  <2> QED BY <2>1, <2>2, <2>3 DEF TypeOK
<1>13. CASE Shutdown
  <2>1. /\ waits' \subseteq Ids /\ dropped' \subseteq Ids
        /\ cancelled' \in [Ids -> BOOLEAN]
        /\ route' \in [Flows -> 0..starts] /\ registry' \in [Flows -> 0..starts]
    <3>1. waits' \subseteq Ids /\ dropped' \subseteq Ids
      BY <1>13 DEF Shutdown
    <3>2. cancelled' \in [Ids -> BOOLEAN]
      BY <1>13 DEF Shutdown, TypeOK
    <3>3. route' \in [Flows -> 0..starts] /\ registry' \in [Flows -> 0..starts]
      BY <1>13 DEF Shutdown, TypeOK
    <3> QED BY <3>1, <3>2, <3>3
  <2> QED BY <1>13, <2>1 DEF Shutdown, TypeOK
<1>14. CASE FlowsStopped \/ StopFlowsTimeout \/ ReleaseBooted
  <2>1. abandoned' \in [Ids -> BOOLEAN] /\ lease' \in [Ids -> {"none", "seeking", "held"}]
    <3>1. CASE FlowsStopped
      BY <3>1 DEF FlowsStopped, instVars, TypeOK
    <3>2. CASE StopFlowsTimeout
      <4>1. UNCHANGED lease
        BY <3>2 DEF StopFlowsTimeout
      <4>2. abandoned' \in [Ids -> BOOLEAN]
        BY <3>2 DEF StopFlowsTimeout, TypeOK
      <4> QED BY <4>1, <4>2 DEF TypeOK
    <3>3. CASE ReleaseBooted
      BY <3>3 DEF ReleaseBooted, TypeOK
    <3> QED BY <1>14, <3>1, <3>2, <3>3
  <2>2. /\ phase' \in {"releasing", "leaving"}
        /\ UNCHANGED <<envVars, feed, registry, route, flowOf, config, tasks, cancelled, starts,
                       recVars, booted, waits, dropped>>
    BY <1>14 DEF FlowsStopped, StopFlowsTimeout, ReleaseBooted, instVars
  <2> QED BY <2>1, <2>2 DEF TypeOK
<1>15. CASE Exit
  BY <1>15 DEF Exit, TypeOK
<1>16. CASE UNCHANGED vars
  BY <1>16 DEF vars, TypeOK
<1> QED
  BY <1>1, <1>2, <1>3, <1>4, <1>5, <1>6, <1>7, <1>8, <1>9, <1>10, <1>11, <1>12, <1>13,
     <1>14, <1>15, <1>16 DEF Next

-----------------------------------------------------------------------------
(* The parts of the invariant beside the types. *)

Rest == Born /\ Handles /\ Found /\ Superseded /\ Drained /\ Leases /\ FilesystemWins

\* A step of an instance: it stays what it is, ends if it had ended, and gets
\* no lease task that it did not have.
GoesOn(i) ==
  /\ tasks'[i] = "unborn" <=> tasks[i] = "unborn"
  /\ tasks[i] = "done" => tasks'[i] = "done"
  /\ lease'[i] # "none" => lease[i] # "none"
  /\ abandoned[i] => abandoned'[i]

\* The instances go on, and neither registry nor reconciler nor shutdown moves.
LEMMA InstancesGoOn ==
  ASSUME IInv, \A i \in Ids : GoesOn(i),
         UNCHANGED <<registry, flowOf, config, cancelled, starts, recVars, appVars>>
  PROVE  Rest'
<1> USE DEF IInv, GoesOn, recVars, appVars
<1>1. 1..starts \subseteq Ids
  BY ConstantsAssumption DEF TypeOK, Ids
<1>2. Born' /\ Handles' /\ FilesystemWins'
  BY DEF Born, Handles, FilesystemWins
<1>3. Found' /\ Superseded' /\ Drained'
  BY <1>1 DEF Found, Superseded, Drained, InHand, Done
<1>4. Leases'
  BY DEF Leases, OneLeaseTask
<1> QED BY <1>2, <1>3, <1>4 DEF Rest

\* The reconciler goes on, with no flow in its hands.
LEMMA ReconcilerGoesOn ==
  ASSUME IInv, UNCHANGED <<registry, instVars, cur, appVars>>,
         pc' = pc \/ ({pc, pc'} \cap {"stop", "start", "insert", "aborted"} = {}),
         pc' = pc => UNCHANGED <<old, want>>
  PROVE  Rest'
<1> USE DEF IInv, instVars, appVars
<1>1. Born' /\ Handles' /\ FilesystemWins'
  BY DEF Born, Handles, FilesystemWins
<1>2. Found' /\ Superseded' /\ Drained'
  BY DEF Found, Superseded, Drained, InHand, Done
<1>3. Leases'
  BY DEF Leases, OneLeaseTask
<1> QED BY <1>1, <1>2, <1>3 DEF Rest

\* The handle of a flow to be replaced goes from the registry into the hands
\* of the reconciler.
LEMMA ReconcileRest ==
  ASSUME IInv, TypeOK', NEW f \in Flows, Reconcile(f)
  PROVE  Rest'
<1> USE DEF appVars, instVars, recVars
<1>0. /\ pc = "next" /\ phase = "up"
      /\ UNCHANGED <<flowOf, config, tasks, lease, abandoned, starts, booted, phase, waits, dropped>>
      /\ cur' = f
  BY DEF Reconcile, IInv, Handles, TypeOK
<1>1. CASE Ignored(f, batch[f])
  <2>1. UNCHANGED <<pc, old, registry, cancelled, route>>
    BY <1>1 DEF Reconcile
  <2>2. Born' /\ Handles' /\ FilesystemWins'
    BY <1>0, <2>1 DEF IInv, Born, Handles, FilesystemWins
  <2>3. Found' /\ Superseded' /\ Drained'
    BY <1>0, <2>1 DEF IInv, Found, Superseded, Drained, InHand, Done
  <2>4. Leases'
    BY <1>0, <2>1 DEF IInv, Leases, OneLeaseTask
  <2> QED BY <2>2, <2>3, <2>4 DEF Rest
<1>2. CASE ~Ignored(f, batch[f]) /\ registry[f] = 0
  <2>1. UNCHANGED <<registry, cancelled, route>> /\ old' = 0 /\ pc' = "start"
    BY <1>2 DEF Reconcile, StopOld
  <2>2. Born' /\ Handles' /\ FilesystemWins'
    BY <1>0, <1>2, <2>1 DEF IInv, Born, Handles, FilesystemWins, Ignored
  <2>3. Found' /\ Superseded' /\ Drained'
    BY <1>0, <2>1 DEF IInv, Found, Superseded, Drained, InHand, Done
  <2>4. Leases'
    BY <1>0, <2>1 DEF IInv, Leases, OneLeaseTask
  <2> QED BY <2>2, <2>3, <2>4 DEF Rest
<1>3. CASE ~Ignored(f, batch[f]) /\ registry[f] # 0
  <2>1. /\ pc' = "stop" /\ old' = registry[f]
        /\ registry' = [registry EXCEPT ![f] = 0]
        /\ cancelled' = [cancelled EXCEPT ![registry[f]] = TRUE]
    BY <1>3 DEF Reconcile, StopOld
  <2>2. /\ registry'[f] = 0 /\ \A g \in Flows \ {f} : registry'[g] = registry[g]
        /\ flowOf[registry[f]] = f /\ registry[f] \in Ids
        /\ \A i \in Ids : flowOf[i] \in Flows
        /\ \A i \in Ids \ {registry[f]} : cancelled'[i] = cancelled[i]
    <3>1. registry \in [Flows -> 0..starts] /\ starts \in 0..MaxStarts /\ flowOf \in [Ids -> Flows]
          /\ cancelled \in [Ids -> BOOLEAN]
      BY DEF IInv, TypeOK
    <3>2. registry[f] \in Ids
      BY <1>3, <3>1, ConstantsAssumption DEF Ids
    <3>3. flowOf[registry[f]] = f
      BY <1>3 DEF IInv, Handles
    <3>4. \A i \in Ids \ {registry[f]} : cancelled'[i] = cancelled[i]
      BY <2>1, <3>1, <3>2
    <3> QED BY <2>1, <3>1, <3>2, <3>3, <3>4
  <2>3. Born'
    BY <1>0 DEF IInv, Born
  <2>4. f \notin Files
    BY <1>3 DEF Ignored
  <2>5. Handles'
    BY <1>0, <2>1, <2>2, <2>4 DEF IInv, Handles
  <2>6. FilesystemWins'
    <3>1. ASSUME NEW g \in Files
          PROVE  registry[g] # registry[f] /\ registry'[g] = registry[g] /\ registry[g] \in Ids
      <4>1. g \in Flows \ {f} /\ registry[g] \in booted /\ booted \subseteq Ids
        BY <1>0, <2>4, ConstantsAssumption DEF IInv, FilesystemWins, TypeOK
      <4>2. registry[g] # 0
        BY <4>1 DEF Ids
      <4>3. flowOf[registry[g]] = g
        BY <4>1, <4>2 DEF IInv, Handles
      <4> QED BY <2>2, <4>1, <4>3
    <3> QED BY <1>0, <2>2, <3>1 DEF IInv, FilesystemWins
  <2>7. 1..starts \subseteq Ids
    BY ConstantsAssumption DEF IInv, TypeOK, Ids
  <2>8. Found'
    <3>1. ASSUME NEW i \in 1..starts, ~Done(i), ~abandoned[i]
          PROVE  registry'[flowOf[i]] = i \/ (pc' = "stop" /\ old' = i)
      <4>1. registry[flowOf[i]] = i
        BY <1>0, <3>1 DEF IInv, Found, InHand
      <4>2. CASE flowOf[i] = f
        BY <2>1, <4>1, <4>2
      <4>3. CASE flowOf[i] # f
        BY <2>2, <2>7, <4>1, <4>3
      <4> QED BY <4>2, <4>3
    <3> QED BY <1>0, <3>1 DEF Found, InHand, Done
  <2>9. Superseded' /\ Drained'
    BY <1>0 DEF IInv, Superseded, Drained, Done
  <2>10. Leases'
    <3>1. ASSUME NEW i \in Ids, lease[i] # "none"
          PROVE  registry'[flowOf[i]] = i \/ (pc' = "stop" /\ old' = i)
      <4>1. registry[flowOf[i]] = i
        BY <1>0, <3>1 DEF IInv, Leases
      <4>2. CASE flowOf[i] = f
        BY <2>1, <4>1, <4>2
      <4>3. CASE flowOf[i] # f
        BY <2>2, <4>1, <4>3
      <4> QED BY <4>2, <4>3
    <3>2. OneLeaseTask'
      BY <1>0 DEF IInv, Leases, OneLeaseTask
    <3> QED BY <1>0, <3>1, <3>2 DEF Leases
  <2> QED BY <2>3, <2>5, <2>6, <2>8, <2>9, <2>10 DEF Rest
<1> QED BY <1>1, <1>2, <1>3

\* The old flow has stopped or is given up; its lease task is aborted.
LEMMA OldGoneRest ==
  ASSUME IInv, TypeOK', OldStopped \/ StopTimeout
  PROVE  Rest'
<1> USE DEF appVars, instVars, recVars
<1>1. /\ pc = "stop" /\ pc' = "start" /\ old \in Ids
      /\ UNCHANGED <<cur, want, old, registry, flowOf, config, tasks, cancelled, starts,
                     booted, phase, waits, dropped>>
      /\ lease' = [lease EXCEPT ![old] = "none"]
      /\ Done(old) \/ abandoned'[old]
      /\ \A i \in Ids : abandoned[i] => abandoned'[i]
  <2>1. old \in Ids
    BY ConstantsAssumption DEF OldStopped, StopTimeout, IInv, TypeOK, Ids
  <2> QED BY <2>1 DEF OldStopped, StopTimeout, Unregister, IInv, TypeOK
<1>2. \A i \in Ids : lease'[i] # "none" => i # old /\ lease[i] # "none" /\ lease'[i] = lease[i]
  BY <1>1 DEF IInv, TypeOK
<1>3. 1..starts \subseteq Ids
  BY ConstantsAssumption DEF IInv, TypeOK, Ids
<1>4. Born' /\ Handles' /\ FilesystemWins'
  BY <1>1, <1>2 DEF IInv, Born, Handles, FilesystemWins
<1>5. Found'
  BY <1>1, <1>3 DEF IInv, Found, InHand, Done
<1>6. Superseded' /\ Drained'
  BY <1>1, <1>3 DEF IInv, Superseded, Drained, Done
<1>7. Leases'
  BY <1>1, <1>2 DEF IInv, Leases, OneLeaseTask
<1> QED BY <1>4, <1>5, <1>6, <1>7 DEF Rest

\* The new instance is younger than every other one of its flow, and these are
\* done or were given up: none is in the registry and none in hand.
LEMMA StartNewRest ==
  ASSUME IInv, TypeOK', StartNew
  PROVE  Rest'
<1> USE DEF appVars, instVars, recVars
<1> DEFINE new == starts + 1
<1>1. /\ pc = "start" /\ pc' = "insert" /\ phase = "up" /\ want \in Startable
      /\ starts \in Nat /\ new \in Ids /\ starts' = new
      /\ UNCHANGED <<cur, want, old, registry, lease, cancelled, abandoned,
                     booted, phase, waits, dropped>>
  BY ConstantsAssumption DEF StartNew, IInv, TypeOK, Handles, Ids
<1>2. /\ flowOf'[new] = cur /\ config'[new] = want /\ tasks'[new] \in {"idle", "running"}
      /\ \A i \in Ids \ {new} :
           flowOf'[i] = flowOf[i] /\ config'[i] = config[i] /\ tasks'[i] = tasks[i]
  <2>1. Spawned(want) \in {"idle", "running"}
    BY <1>1 DEF Spawned, Startable
  <2> QED BY <1>1, <2>1 DEF StartNew, IInv, TypeOK
<1>3. registry[cur] = 0 /\ cur \notin Files /\ cur \in Flows
  BY <1>1 DEF IInv, Handles, TypeOK
<1>4. /\ 1..starts \subseteq Ids \ {new} /\ 1..new = (1..starts) \cup {new}
      /\ \A f \in Flows : registry[f] \in 0..starts
  <2>1. 1..starts \subseteq Ids \ {new} /\ 1..new = (1..starts) \cup {new}
    BY <1>1, ConstantsAssumption DEF Ids
  <2>2. \A f \in Flows : registry[f] \in 0..starts
    BY DEF IInv, TypeOK
  <2> QED BY <2>1, <2>2
<1>5. ASSUME NEW i \in 1..starts, flowOf[i] = cur PROVE Done(i) \/ abandoned[i]
  <2>1. ~InHand(i) /\ registry[flowOf[i]] # i
    BY <1>1, <1>3, <1>5 DEF InHand
  <2> QED BY <1>1, <2>1 DEF IInv, Found
<1>6. lease[new] = "none"
  BY <1>1 DEF IInv, Born
<1>7. Born'
  <2>1. ASSUME NEW i \in Ids PROVE tasks'[i] = "unborn" <=> i > starts'
    <3>1. CASE i = new
      BY <1>1, <1>2, <3>1
    <3>2. CASE i # new
      BY <1>1, <1>2, <3>2 DEF IInv, Born, Ids
    <3> QED BY <3>1, <3>2
  <2>2. ASSUME NEW i \in Ids, lease'[i] # "none" PROVE i <= starts' /\ config'[i] \in Elected
    BY <1>1, <1>2, <1>6, <2>2 DEF IInv, Born, Ids
  <2> QED BY <2>1, <2>2 DEF Born
<1>8. Handles'
  <2>1. ASSUME NEW f \in Flows, registry[f] # 0 PROVE flowOf'[registry[f]] = f
    BY <1>2, <1>4, <2>1 DEF IInv, Handles
  <2> QED BY <1>1, <1>2, <1>3, <2>1 DEF Handles
<1>9. Found'
  <2>1. ASSUME NEW i \in 1..new
        PROVE  Done(i)' \/ abandoned'[i] \/ registry'[flowOf'[i]] = i \/ InHand(i)'
    <3>1. CASE i = new
      BY <1>1, <3>1 DEF InHand
    <3>2. CASE i \in 1..starts
      BY <1>1, <1>2, <1>4, <3>2 DEF IInv, Found, InHand, Done
    <3> QED BY <1>4, <3>1, <3>2
  <2> QED BY <1>1, <2>1 DEF Found
<1>10. Superseded'
  <2>1. ASSUME NEW i \in 1..new, NEW j \in 1..new, i < j, flowOf'[i] = flowOf'[j]
        PROVE  Done(i)' \/ abandoned'[i]
    <3>1. i \in 1..starts /\ (j = new \/ j \in 1..starts)
      BY <1>1, <1>4, <2>1
    <3>2. CASE j = new
      BY <1>1, <1>2, <1>4, <1>5, <2>1, <3>1, <3>2 DEF Done
    <3>3. CASE j \in 1..starts
      BY <1>1, <1>2, <1>4, <2>1, <3>1, <3>3 DEF IInv, Superseded, Done
    <3> QED BY <3>1, <3>2, <3>3
  <2> QED BY <1>1, <2>1 DEF Superseded
<1>11. Drained'
  BY <1>1 DEF Drained
<1>12. Leases'
  <2>1. ASSUME NEW i \in Ids, lease'[i] # "none" PROVE i # new /\ registry'[flowOf'[i]] = i
    BY <1>1, <1>2, <1>6, <2>1 DEF IInv, Leases
  <2>2. OneLeaseTask'
    BY <2>1 DEF OneLeaseTask
  <2> QED BY <2>1, <2>2 DEF Leases
<1>13. FilesystemWins'
  BY <1>1 DEF IInv, FilesystemWins
<1> QED BY <1>7, <1>8, <1>9, <1>10, <1>11, <1>12, <1>13 DEF Rest

\* The handle of the new instance goes where no handle was.
LEMMA InsertNewRest ==
  ASSUME IInv, TypeOK', InsertNew
  PROVE  Rest'
<1> USE DEF appVars, instVars, recVars
<1>1. /\ pc = "insert" /\ pc' = "next" /\ phase = "up" /\ starts \in Ids
      /\ registry[cur] = 0 /\ cur \notin Files /\ cur \in Flows /\ flowOf[starts] = cur
      /\ UNCHANGED <<cur, want, old, flowOf, config, tasks, cancelled, abandoned, starts,
                     booted, phase, waits, dropped>>
  BY ConstantsAssumption DEF InsertNew, IInv, TypeOK, Handles, Ids
<1>2. /\ registry'[cur] = starts /\ \A f \in Flows \ {cur} : registry'[f] = registry[f]
      /\ \A i \in Ids \ {starts} : lease'[i] = lease[i]
      /\ lease'[starts] # "none" => want \in Elected
      /\ \A i \in Ids : flowOf[i] \in Flows
  BY <1>1 DEF InsertNew, IInv, TypeOK
<1>3. 1..starts \subseteq Ids
  BY ConstantsAssumption DEF IInv, TypeOK, Ids
<1>4. Handles'
  BY <1>1, <1>2 DEF IInv, Handles
<1>5. FilesystemWins'
  BY <1>1, <1>2, ConstantsAssumption DEF IInv, FilesystemWins
<1>6. Found'
  <2>1. ASSUME NEW i \in 1..starts, ~Done(i), ~abandoned[i] PROVE registry'[flowOf[i]] = i
    <3>1. i = starts \/ registry[flowOf[i]] = i
      BY <1>1, <2>1 DEF IInv, Found, InHand
    <3>2. CASE i = starts
      BY <1>1, <1>2, <3>2
    <3>3. CASE i # starts
      <4>1. i \in Ids /\ i # 0
        BY <1>3 DEF Ids
      <4>2. flowOf[i] # cur
        BY <1>1, <3>1, <3>3, <4>1
      <4> QED BY <1>2, <3>1, <3>3, <4>1, <4>2
    <3> QED BY <3>2, <3>3
  <2> QED BY <1>1, <2>1 DEF Found, Done
<1>7. Superseded' /\ Drained'
  BY <1>1 DEF IInv, Superseded, Drained, Done
<1>8. Leases'
  <2>1. ASSUME NEW i \in Ids, lease'[i] # "none" PROVE registry'[flowOf[i]] = i
    <3>1. CASE i = starts
      BY <1>1, <1>2, <3>1
    <3>2. CASE i # starts
      <4>1. registry[flowOf[i]] = i /\ i # 0
        BY <1>1, <1>2, <2>1, <3>2 DEF IInv, Leases, Ids
      <4> QED BY <1>1, <1>2, <4>1
    <3> QED BY <3>1, <3>2
  <2>2. OneLeaseTask'
    BY <1>1, <2>1 DEF OneLeaseTask
  <2> QED BY <1>1, <2>1, <2>2 DEF Leases
<1>9. Born'
  <2>1. ASSUME NEW i \in Ids, lease'[i] # "none" PROVE i <= starts /\ config[i] \in Elected
    <3>1. CASE i = starts
      BY <1>1, <1>2, <2>1, <3>1, ConstantsAssumption DEF IInv, Handles, Ids
    <3>2. CASE i # starts
      BY <1>2, <2>1, <3>2 DEF IInv, Born
    <3> QED BY <3>1, <3>2
  <2> QED BY <1>1, <2>1 DEF IInv, Born
<1> QED BY <1>4, <1>5, <1>6, <1>7, <1>8, <1>9 DEF Rest

\* The handles leave the registry for stop_flows, and what the reconciler had
\* in hand is dropped with it.
LEMMA ShutdownRest ==
  ASSUME IInv, TypeOK', Shutdown
  PROVE  Rest'
<1>1. /\ phase = "up" /\ phase' = "stopping" /\ pc' = "aborted"
      /\ UNCHANGED <<flowOf, config, tasks, lease, abandoned, starts, booted>>
      /\ \A i \in Ids : \A f \in Flows : registry[f] = i => i \in waits'
      /\ \A i \in Ids : InHand(i) => i \in dropped'
      /\ \A f \in Flows : registry'[f] = 0
  BY DEF Shutdown
<1>2. 1..starts \subseteq Ids /\ \A i \in Ids : flowOf[i] \in Flows
  <2>1. 1..starts \subseteq Ids
    BY ConstantsAssumption DEF IInv, TypeOK, Ids
  <2>2. \A i \in Ids : flowOf[i] \in Flows
    BY DEF IInv, TypeOK
  <2> QED BY <2>1, <2>2
<1>3. Born' /\ Handles' /\ FilesystemWins' /\ Found'
  BY <1>1 DEF IInv, Born, Handles, FilesystemWins, Found
<1>4. Superseded'
  BY <1>1 DEF IInv, Superseded, Done
<1>5. Drained'
  BY <1>1, <1>2 DEF IInv, Found, Drained, Done
<1>6. Leases'
  BY <1>1 DEF IInv, Leases, OneLeaseTask
<1> QED BY <1>3, <1>4, <1>5, <1>6 DEF Rest

\* The flows have stopped or are given up; then the leases are released.
LEMMA LeavingRest ==
  ASSUME IInv, TypeOK', FlowsStopped \/ StopFlowsTimeout \/ ReleaseBooted
  PROVE  Rest'
<1> USE DEF instVars, recVars
<1>1. /\ phase # "up" /\ phase' \in {"releasing", "leaving"}
      /\ UNCHANGED <<flowOf, config, tasks, starts, registry, cancelled, booted, pc, cur, want,
                     old, waits, dropped>>
      /\ \A i \in Ids : abandoned[i] => abandoned'[i]
      /\ \A i \in Ids : lease'[i] # "none" => lease[i] # "none"
  BY DEF FlowsStopped, StopFlowsTimeout, ReleaseBooted, IInv, TypeOK
<1>2. 1..starts \subseteq Ids
  BY ConstantsAssumption DEF IInv, TypeOK, Ids
<1>3. Born' /\ Handles' /\ FilesystemWins' /\ Found'
  BY <1>1 DEF IInv, Born, Handles, FilesystemWins, Found
<1>4. Superseded'
  BY <1>1, <1>2 DEF IInv, Superseded, Done
<1>5. Drained'
  <2>1. CASE FlowsStopped
    BY <1>1, <1>2, <2>1 DEF FlowsStopped, IInv, Drained, Done
  <2>2. CASE StopFlowsTimeout
    BY <1>1, <1>2, <2>2 DEF StopFlowsTimeout, IInv, Drained, Done
  <2>3. CASE ReleaseBooted
    BY <1>1, <1>2, <2>3 DEF ReleaseBooted, IInv, Drained, Done
  <2> QED BY <2>1, <2>2, <2>3
<1>6. Leases'
  BY <1>1 DEF IInv, Leases, OneLeaseTask
<1> QED BY <1>3, <1>4, <1>5, <1>6 DEF Rest

LEMMA ExitRest ==
  ASSUME IInv, TypeOK', Exit
  PROVE  Rest'
<1> USE DEF instVars, recVars
<1>1. /\ phase = "leaving" /\ phase' = "exited"
      /\ UNCHANGED <<flowOf, config, starts, registry, cancelled, abandoned, booted, pc, cur, want,
                     old, waits, dropped>>
      /\ \A i \in Ids : lease'[i] = "none"
      /\ \A i \in Ids : tasks'[i] = IF tasks[i] = "unborn" THEN "unborn" ELSE "done"
  BY DEF Exit
<1>2. 1..starts \subseteq Ids
  BY ConstantsAssumption DEF IInv, TypeOK, Ids
<1>3. Born' /\ Handles' /\ FilesystemWins' /\ Found'
  BY <1>1 DEF IInv, Born, Handles, FilesystemWins, Found
<1>4. Superseded' /\ Drained'
  BY <1>1, <1>2 DEF IInv, Superseded, Drained, Done
<1>5. Leases'
  BY <1>1 DEF Leases, OneLeaseTask
<1> QED BY <1>3, <1>4, <1>5 DEF Rest

\* The lease task of an instance wins or loses the lease, its tasks end by
\* themselves or drain.
LEMMA InstanceRest ==
  ASSUME IInv, TypeOK', NEW i \in Ids, Acquire(i) \/ LoseLease(i) \/ Finish(i) \/ Drain(i)
  PROVE  Rest'
<1>1. /\ UNCHANGED <<registry, flowOf, config, cancelled, abandoned, starts, recVars, appVars>>
      /\ \E t \in {"idle", "running", "done"} : tasks' = [tasks EXCEPT ![i] = t]
      /\ UNCHANGED lease \/ (lease[i] # "none" /\ \E l : lease' = [lease EXCEPT ![i] = l])
      /\ tasks[i] = "done" => tasks'[i] = "done"
      /\ tasks[i] # "unborn"
  <2>1. (tasks[i] # "unborn" /\ tasks'[i] = "done") \/ lease[i] # "none" \/ tasks[i] \in {"idle", "running"}
    BY DEF Acquire, LoseLease, Finish, Drain
  <2>2. lease[i] # "none" => tasks[i] # "unborn"
    BY ConstantsAssumption DEF IInv, Born, TypeOK, Ids
  <2>3. tasks[i] = "done" => tasks'[i] = "done"
    BY DEF Acquire, LoseLease, Finish, Drain, Done, IInv, TypeOK
  <2>4. tasks[i] # "unborn"
    BY <2>1, <2>2
  <2> QED BY <2>3, <2>4 DEF Acquire, LoseLease, Finish, Drain
<1>2. ASSUME NEW k \in Ids PROVE GoesOn(k)
  BY <1>1 DEF GoesOn, IInv, TypeOK
<1> QED BY <1>1, <1>2, InstancesGoOn

LEMMA NextRest ==
  ASSUME IInv, TypeOK', [Next]_vars
  PROVE  Rest'
<1> USE DEF envVars, instVars, recVars, appVars
<1>0. phase = "up" <=> pc # "aborted"
  BY DEF IInv, Handles
<1>1. ASSUME NEW f \in Flows, NEW c \in Configs \cup {Deleted}, Write(f, c) PROVE Rest'
  BY <1>1, ReconcilerGoesOn DEF Write
<1>2. CASE Subscribe \/ WatchBreaks
  BY <1>2, ReconcilerGoesOn DEF Subscribe, WatchBreaks
<1>3. CASE ListStale \/ CollectBatch \/ BatchDone
  BY <1>3, ReconcilerGoesOn DEF ListStale, CollectBatch, BatchDone
<1>4. ASSUME NEW f \in Flows, DeleteStale(f) PROVE Rest'
  BY <1>4, ReconcilerGoesOn DEF DeleteStale
<1>5. ASSUME NEW f \in Flows, Reconcile(f) PROVE Rest'
  BY <1>5, ReconcileRest
<1>6. CASE OldStopped \/ StopTimeout
  BY <1>6, OldGoneRest
<1>7. CASE StartNothing
  <2>1. /\ pc = "start" /\ pc' = "next" /\ UNCHANGED <<cur, registry, flowOf, config, tasks, lease,
             cancelled, abandoned, starts, booted, phase, waits, dropped>>
    BY <1>7 DEF StartNothing
  <2>2. Born' /\ Handles' /\ FilesystemWins'
    BY <2>1 DEF IInv, Born, Handles, FilesystemWins
  <2>3. Found' /\ Superseded' /\ Drained'
    BY <2>1 DEF IInv, Found, Superseded, Drained, InHand, Done
  <2>4. Leases'
    BY <2>1 DEF IInv, Leases, OneLeaseTask
  <2> QED BY <2>2, <2>3, <2>4 DEF Rest
<1>8. CASE StartNew
  BY <1>8, StartNewRest
<1>9. CASE InsertNew
  BY <1>9, InsertNewRest
<1>10. ASSUME NEW i \in Ids, Acquire(i) \/ LoseLease(i) \/ Finish(i) \/ Drain(i) PROVE Rest'
  BY <1>10, InstanceRest
<1>11. CASE Shutdown
  BY <1>11, ShutdownRest
<1>12. CASE FlowsStopped \/ StopFlowsTimeout \/ ReleaseBooted
  BY <1>12, LeavingRest
<1>13. CASE Exit
  BY <1>13, ExitRest
<1>14. CASE UNCHANGED vars
  BY <1>14, ReconcilerGoesOn DEF vars
<1> QED
  BY <1>1, <1>2, <1>3, <1>4, <1>5, <1>6, <1>7, <1>8, <1>9, <1>10, <1>11, <1>12, <1>13, <1>14
  DEF Next

LEMMA NextInv == IInv /\ [Next]_vars => IInv'
<1> SUFFICES ASSUME IInv, [Next]_vars PROVE IInv'
  OBVIOUS
<1>1. TypeOK'
  BY NextType DEF IInv
<1>2. Rest'
  BY <1>1, NextRest
<1> QED BY <1>1, <1>2 DEF IInv, Rest

-----------------------------------------------------------------------------
(* The initial states. *)

\* The flows App::start runs can be numbered, each once.
LEMMA Numbered ==
  ASSUME NEW runs \in SUBSET Flows
  PROVE  /\ Cardinality(runs) \in 0..Cardinality(Flows)
         /\ \E s \in [1..Cardinality(runs) -> runs] :
              \A f \in runs : \E i \in 1..Cardinality(runs) :
                s[i] = f /\ \A k \in 1..Cardinality(runs) : s[k] = f => k = i
<1>1. IsFiniteSet(runs) /\ Cardinality(runs) <= Cardinality(Flows)
  BY ConstantsAssumption, FS_Subset
<1>2. Cardinality(runs) \in Nat /\ Cardinality(Flows) \in Nat
  BY <1>1, ConstantsAssumption, FS_CardinalityType
<1>3. PICK n \in Nat : ExistsBijection(1..n, runs)
  BY <1>1, FS_NatBijection
<1>4. Cardinality(runs) = n
  BY <1>3, FS_CountingElements
<1>5. PICK s \in [1..n -> runs] : /\ \A i, k \in 1..n : s[i] = s[k] => i = k
                                  /\ \A f \in runs : \E i \in 1..n : s[i] = f
  BY <1>3 DEF ExistsBijection, Bijection, Injection, Surjection, IsInjective
<1> QED BY <1>1, <1>2, <1>4, <1>5

LEMMA InitInv == Init => IInv
<1> SUFFICES ASSUME Init PROVE IInv
  OBVIOUS
<1> USE ConstantsAssumption
<1> DEFINE runs == {f \in Flows : BootConfig(f) \notin Broken \cup {Deleted}}
           order == 1..Cardinality(runs)
           Lists(s) == \A f \in runs : \E i \in order :
                         s[i] = f /\ \A k \in order : s[k] = f => k = i
           first == CHOOSE s \in [order -> runs] : Lists(s)
           boot == [f \in Flows |-> IF f \in runs THEN CHOOSE i \in order : first[i] = f ELSE 0]
<1>1. /\ starts = Cardinality(runs)
      /\ registry = boot
      /\ flowOf = [i \in Ids |-> IF i <= starts THEN first[i] ELSE CHOOSE f \in Flows : TRUE]
      /\ config = [i \in Ids |-> IF i <= starts THEN BootConfig(first[i]) ELSE FileConfig]
      /\ tasks = [i \in Ids |-> IF i <= starts THEN Spawned(config[i]) ELSE "unborn"]
      /\ lease = [i \in Ids |-> IF i <= starts /\ config[i] \in Elected THEN "seeking" ELSE "none"]
      /\ route = [f \in Flows |-> IF f \in runs /\ tasks[boot[f]] = "running" THEN boot[f] ELSE 0]
      /\ booted = 1..starts
  BY DEF Init
<1>2. /\ stored \in [Flows -> Configs \cup {Deleted}] /\ watching = FALSE /\ feed = <<>>
      /\ cancelled = [i \in Ids |-> FALSE] /\ abandoned = [i \in Ids |-> FALSE]
      /\ pc = "list" /\ batch = [f \in Flows |-> NoEvent]
      /\ cur = CHOOSE f \in Flows : TRUE
      /\ want = Deleted /\ old = 0 /\ phase = "up" /\ waits = {} /\ dropped = {} /\ missed = {}
      /\ writes = 0 /\ breaks = 0
  BY DEF Init
<1>3. first \in [order -> runs] /\ Lists(first) /\ starts \in 0..Cardinality(Flows)
  <2>1. runs \in SUBSET Flows
    OBVIOUS
  <2>2. \E s \in [order -> runs] : Lists(s)
    BY <2>1, Numbered
  <2>3. starts \in 0..Cardinality(Flows)
    BY <1>1, <2>1, Numbered
  <2> QED BY <2>2, <2>3
<1>4. starts \in 0..MaxStarts /\ order = 1..starts /\ order \subseteq Ids
  <2>1. Cardinality(Flows) \in Nat
    BY FS_CardinalityType
  <2>2. starts \in 0..MaxStarts
    BY <1>3, <2>1
  <2>3. order = 1..starts
    BY <1>1
  <2>4. order \subseteq Ids
    <3> HIDE DEF order
    <3> QED BY <2>2, <2>3 DEF Ids
  <2> QED BY <2>2, <2>3, <2>4
<1>5. \A f \in runs : BootConfig(f) \in Configs
  BY <1>2 DEF BootConfig, FilesystemFlow, CacheFlow
<1>6. (CHOOSE f \in Flows : TRUE) \in Flows
  OBVIOUS
<1>7. \A f \in runs : boot[f] \in order /\ first[boot[f]] = f
  BY <1>3
<1> HIDE DEF runs, order, Lists, first, boot
<1>8. TypeOK
  <2>1. flowOf \in [Ids -> Flows]
    <3>1. \A i \in Ids : i <= starts => first[i] \in Flows
      BY <1>3, <1>4 DEF runs, Ids
    <3> QED BY <1>1, <1>6, <3>1
  <2>2. config \in [Ids -> Configs]
    <3>1. \A i \in Ids : i <= starts => BootConfig(first[i]) \in Configs
      BY <1>3, <1>4, <1>5 DEF Ids
    <3> QED BY <1>1, <3>1
  <2>3. /\ tasks \in [Ids -> {"unborn", "idle", "running", "done"}]
        /\ lease \in [Ids -> {"none", "seeking", "held"}]
    BY <1>1, SpawnedType
  <2>4. registry \in [Flows -> 0..starts] /\ route \in [Flows -> 0..starts]
    <3>1. \A f \in Flows : boot[f] \in 0..starts
      <4> SUFFICES ASSUME NEW f \in Flows PROVE boot[f] \in 0..starts
        OBVIOUS
      <4>1. CASE f \in runs
        BY <1>4, <1>7, <4>1
      <4>2. CASE f \notin runs
        <5>1. boot[f] = 0
          BY <4>2 DEF boot
        <5> QED BY <1>4, <5>1
      <4> QED BY <4>1, <4>2
    <3>2. boot \in [Flows -> 0..starts]
      BY <3>1 DEF boot
    <3>3. route \in [Flows -> 0..starts]
      BY <1>1, <1>4, <3>1
    <3> QED BY <1>1, <3>2, <3>3
  <2>5. booted \subseteq Ids
    BY <1>1, <1>4
  <2>6. feed \in Seq([flow : Flows, config : Configs \cup {Deleted}])
    BY <1>2
  <2>7. /\ cancelled \in [Ids -> BOOLEAN] /\ abandoned \in [Ids -> BOOLEAN]
        /\ batch \in [Flows -> Configs \cup {Deleted, NoEvent}]
        /\ writes \in 0..MaxWrites /\ breaks \in 0..MaxBreaks /\ old \in 0..starts
    BY <1>2, <1>4
  <2>8. cur \in Flows /\ want \in Configs \cup {Deleted} /\ watching \in BOOLEAN
    BY <1>2, <1>6
  <2> QED BY <1>2, <1>4, <2>1, <2>2, <2>3, <2>4, <2>5, <2>6, <2>7, <2>8 DEF TypeOK
<1>9. \A f \in Flows : registry[f] # 0 => f \in runs
  BY <1>1 DEF boot
<1>10. \A i \in order : flowOf[i] = first[i] /\ first[i] \in runs
  BY <1>1, <1>3, <1>4
<1>11. \A i \in order : registry[flowOf[i]] = i
  <2>1. ASSUME NEW i \in order PROVE boot[first[i]] = i
    <3>1. first[i] \in runs /\ boot[first[i]] \in order /\ first[boot[first[i]]] = first[i]
      BY <1>3, <1>7
    <3> QED BY <1>3, <3>1 DEF Lists
  <2> QED BY <1>1, <1>10, <2>1
<1>12. Born
  <2>1. \A c : Spawned(c) # "unborn"
    BY DEF Spawned
  <2> QED BY <1>1, <1>4, <2>1 DEF Born, Ids
<1>13. Handles
  <2>1. ASSUME NEW f \in Flows, registry[f] # 0 PROVE flowOf[registry[f]] = f
    BY <1>1, <1>4, <1>7, <1>9, <1>10, <2>1
  <2> QED BY <1>2, <2>1 DEF Handles
<1>14. Found
  BY <1>4, <1>11 DEF Found
<1>15. Superseded /\ Drained
  <2>1. Superseded
    BY <1>4, <1>11 DEF Superseded
  <2> QED BY <1>2, <2>1 DEF Drained
<1>16. Leases
  <2>1. ASSUME NEW i \in Ids, lease[i] # "none" PROVE registry[flowOf[i]] = i
    <3>1. i \in order
      BY <1>1, <1>4, <2>1 DEF Ids
    <3> QED BY <1>11, <3>1
  <2> QED BY <2>1 DEF Leases, OneLeaseTask
<1>17. FilesystemWins
  <2>1. ASSUME NEW f \in Files PROVE registry[f] \in booted
    <3>1. FileConfig \notin Broken \cup {Deleted}
      OBVIOUS
    <3>2. f \in runs
      BY <3>1 DEF runs, BootConfig, FilesystemFlow
    <3> QED BY <1>1, <1>4, <1>7, <3>2
  <2>2. booted \subseteq Ids
    BY <1>1, <1>4
  <2> QED BY <1>2, <2>1, <2>2 DEF FilesystemWins
<1> QED BY <1>8, <1>12, <1>13, <1>14, <1>15, <1>16, <1>17 DEF IInv

-----------------------------------------------------------------------------
(* The theorems. *)

\* The invariant holds of every behaviour of watcher, reconciler and shutdown
\* (watcher.rs, reconciler.rs, App::start).
THEOREM Invariance == Spec => []IInv
<1>1. Init => IInv
  BY InitInv
<1>2. IInv /\ [Next]_vars => IInv'
  BY NextInv
<1> QED BY <1>1, <1>2, PTL DEF Spec

\* Watcher, registry, reconciler and instances keep their types, for any flows
\* and definitions.
THEOREM TypeCorrect == Spec => []TypeOK
<1>1. IInv => TypeOK
  BY DEF IInv
<1> QED BY <1>1, Invariance, PTL

\* A flow that is replaced never runs twice, however its definitions are
\* batched and whenever leases come and go, unless its old instance was given up
\* after FLOW_STOP_TIMEOUT.
THEOREM NoSecondCopy == Spec => []OneCopyUnlessAbandoned
<1>1. IInv => OneCopyUnlessAbandoned
  <2> SUFFICES ASSUME IInv, NEW i \in Ids, NEW j \in Ids, i < j, flowOf[i] = flowOf[j],
                      tasks[i] = "running", tasks[j] = "running"
               PROVE  abandoned[i]
    BY DEF OneCopyUnlessAbandoned
  <2>1. i \in 1..starts /\ j \in 1..starts
    <3>1. starts \in Nat /\ i \in Nat /\ j \in Nat /\ i >= 1 /\ j >= 1
      BY ConstantsAssumption DEF IInv, TypeOK, Ids
    <3>2. ~(i > starts) /\ ~(j > starts)
      BY DEF IInv, Born
    <3> QED BY <3>1, <3>2
  <2> QED BY <2>1 DEF IInv, Superseded, Done
<1> QED BY <1>1, Invariance, PTL

\* After the leases of a shutdown are released nothing runs that the shutdown
\* could have waited for.
THEOREM ShutdownDrains == Spec => []ReleasedIsStopped
<1>1. IInv => ReleasedIsStopped
  <2> SUFFICES ASSUME IInv, phase = "leaving", NEW i \in Ids, tasks[i] = "running"
               PROVE  abandoned[i] \/ i \in dropped
    BY DEF ReleasedIsStopped
  <2>1. i \in 1..starts
    <3>1. starts \in Nat /\ i \in Nat /\ i >= 1
      BY ConstantsAssumption DEF IInv, TypeOK, Ids
    <3>2. ~(i > starts)
      BY DEF IInv, Born
    <3> QED BY <3>1, <3>2
  <2> QED BY <2>1 DEF IInv, Drained, Done
<1> QED BY <1>1, Invariance, PTL

\* No running instance of a pod that is up is out of reach of a stop: it is in
\* the registry, in the reconciler's hands or was given up.
THEOREM NothingIsLost == Spec => []NoLostInstance
<1>1. IInv => NoLostInstance
  <2> SUFFICES ASSUME IInv, phase = "up", NEW i \in Ids, tasks[i] = "running"
               PROVE  registry[flowOf[i]] = i \/ InHand(i) \/ abandoned[i]
    BY DEF NoLostInstance
  <2>1. i \in 1..starts
    <3>1. starts \in Nat /\ i \in Nat /\ i >= 1
      BY ConstantsAssumption DEF IInv, TypeOK, Ids
    <3>2. ~(i > starts)
      BY DEF IInv, Born
    <3> QED BY <3>1, <3>2
  <2> QED BY <2>1 DEF IInv, Found, Done
<1> QED BY <1>1, Invariance, PTL

\* Two lease tasks of one flow never work against each other on a pod, and a
\* flow of the filesystem keeps the instance it was started with.
THEOREM LeasesAndFiles == Spec => [](OneLeaseTask /\ FilesystemWins)
<1>1. IInv => OneLeaseTask /\ FilesystemWins
  BY DEF IInv, Leases
<1> QED BY <1>1, Invariance, PTL

-----------------------------------------------------------------------------
(* The endpoints. *)

\* Neither the endpoints nor the registry nor the reconciler's flow moves, and
\* only an instance with a lease task starts to run.
LEMMA RoutesStay ==
  ASSUME IInv, Routes, UNCHANGED <<registry, route, config, starts, cur, want>>,
         phase' = phase,
         pc' = pc \/ pc' \notin {"stop", "start", "insert"}, pc = "insert" => pc' = "insert",
         \A i \in Ids : tasks'[i] = "running" => tasks[i] = "running" \/ config[i] \in Elected
  PROVE  Routes'
<1>1. \A f \in Flows : registry[f] # 0 => registry[f] \in Ids
  <2>1. registry \in [Flows -> 0..starts] /\ starts \in 0..MaxStarts
    BY DEF IInv, TypeOK
  <2> QED BY <2>1, ConstantsAssumption DEF Ids
<1> QED BY <1>1 DEF Routes, RoutesFollowRegistry

LEMMA ReconcileRoutes ==
  ASSUME IInv, Routes, NEW f \in Flows, Reconcile(f)
  PROVE  Routes'
<1>1. /\ pc = "next" /\ phase = "up" /\ phase' = phase /\ cur' = f
      /\ UNCHANGED <<config, tasks, starts>>
  BY DEF Reconcile, IInv, Handles, appVars
<1>2. \A g \in Flows : route[g] # 0 => route[g] = registry[g]
  BY <1>1 DEF Routes, RoutesFollowRegistry
<1>3. CASE Ignored(f, batch[f])
  BY <1>1, <1>3 DEF Reconcile, Routes, RoutesFollowRegistry
<1>4. CASE ~Ignored(f, batch[f]) /\ registry[f] = 0
  BY <1>1, <1>2, <1>4 DEF Reconcile, StopOld, Routes, RoutesFollowRegistry
<1>5. CASE ~Ignored(f, batch[f]) /\ registry[f] # 0
  <2>1. pc' = "stop" /\ registry' = [registry EXCEPT ![f] = 0] /\ route' = [route EXCEPT ![f] = 0]
    BY <1>5 DEF Reconcile, StopOld
  <2>2. /\ registry'[f] = 0 /\ route'[f] = 0
        /\ \A g \in Flows \ {f} : registry'[g] = registry[g] /\ route'[g] = route[g]
    BY <2>1 DEF IInv, TypeOK
  <2> QED BY <1>1, <1>2, <2>1, <2>2 DEF Routes, RoutesFollowRegistry
<1> QED BY <1>3, <1>4, <1>5

LEMMA StartNewRoutes ==
  ASSUME IInv, Routes, StartNew
  PROVE  Routes'
<1> DEFINE new == starts + 1
<1>1. /\ pc = "start" /\ pc' = "insert" /\ phase' = phase /\ new \in Ids /\ starts' = new
      /\ UNCHANGED <<cur, want, registry>> /\ cur \in Flows
      /\ registry[cur] = 0 /\ route[cur] = 0
  BY ConstantsAssumption DEF StartNew, IInv, TypeOK, Handles, Routes, Ids, appVars
<1>2. \A i \in Ids \ {new} : config'[i] = config[i] /\ tasks'[i] = tasks[i]
  BY <1>1 DEF StartNew, IInv, TypeOK
<1>3. /\ route'[cur] = IF want \in Elected THEN 0 ELSE new
      /\ \A f \in Flows \ {cur} : route'[f] = route[f]
  BY <1>1 DEF StartNew, StartRoute, IInv, TypeOK
<1>4. \A f \in Flows : registry[f] # 0 => registry[f] \in Ids \ {new}
  <2>1. registry \in [Flows -> 0..starts] /\ starts \in 0..MaxStarts
    BY DEF IInv, TypeOK
  <2> QED BY <2>1, ConstantsAssumption DEF Ids
<1> QED BY <1>1, <1>2, <1>3, <1>4 DEF Routes, RoutesFollowRegistry

LEMMA InsertNewRoutes ==
  ASSUME IInv, Routes, InsertNew
  PROVE  Routes'
<1>1. /\ pc = "insert" /\ pc' = "next" /\ phase = "up" /\ phase' = phase /\ starts # 0
      /\ UNCHANGED <<cur, want, route, tasks, config, starts>> /\ cur \in Flows
      /\ config[starts] = want /\ registry[cur] = 0
  BY DEF InsertNew, IInv, TypeOK, Handles, appVars
<1>2. /\ registry'[cur] = starts
      /\ \A f \in Flows \ {cur} : registry'[f] = registry[f]
  BY <1>1 DEF InsertNew, IInv, TypeOK
<1>3. route[cur] = IF want \in Elected THEN 0 ELSE starts
  BY <1>1 DEF Routes
<1>4. ASSUME NEW f \in Flows
      PROVE  /\ route[f] # 0 => route[f] = registry'[f]
             /\ registry'[f] # 0 /\ tasks[registry'[f]] = "running" /\ config[registry'[f]] \notin Elected
                  => route[f] = registry'[f]
  <2>1. CASE f = cur
    BY <1>1, <1>2, <1>3, <2>1
  <2>2. CASE f # cur
    BY <1>1, <1>2, <2>2 DEF Routes, RoutesFollowRegistry
  <2> QED BY <2>1, <2>2
<1> QED BY <1>1, <1>4 DEF Routes, RoutesFollowRegistry

LEMMA RoutesStep == IInv /\ Routes /\ [Next]_vars => Routes'
<1> SUFFICES ASSUME IInv, Routes, [Next]_vars PROVE Routes'
  OBVIOUS
<1> USE DEF envVars, instVars, recVars, appVars
<1>1. ASSUME NEW f \in Flows, NEW c \in Configs \cup {Deleted}, Write(f, c) PROVE Routes'
  BY <1>1, RoutesStay DEF Write
<1>2. CASE Subscribe \/ WatchBreaks \/ ListStale \/ CollectBatch \/ BatchDone \/ StartNothing
  BY <1>2, RoutesStay
     DEF Subscribe, WatchBreaks, ListStale, CollectBatch, BatchDone, StartNothing
<1>3. ASSUME NEW f \in Flows, DeleteStale(f) PROVE Routes'
  BY <1>3, RoutesStay DEF DeleteStale
<1>4. ASSUME NEW f \in Flows, Reconcile(f) PROVE Routes'
  BY <1>4, ReconcileRoutes
<1>5. CASE OldStopped \/ StopTimeout
  <2>1. /\ pc = "stop" /\ pc' = "start"
        /\ UNCHANGED <<registry, route, config, starts, cur, want, phase, tasks>>
    BY <1>5 DEF OldStopped, StopTimeout
  <2> QED BY <2>1 DEF Routes, RoutesFollowRegistry
<1>6. CASE StartNew
  BY <1>6, StartNewRoutes
<1>7. CASE InsertNew
  BY <1>7, InsertNewRoutes
<1>8. ASSUME NEW i \in Ids, Acquire(i) \/ LoseLease(i) \/ Finish(i) \/ Drain(i) PROVE Routes'
  <2>1. /\ UNCHANGED <<registry, route, config, starts, cur, want, phase, pc>>
        /\ \E t : tasks' = [tasks EXCEPT ![i] = t]
    BY <1>8 DEF Acquire, LoseLease, Finish, Drain
  <2>2. lease[i] # "none" => config[i] \in Elected
    BY DEF IInv, Born
  <2>3. tasks'[i] = "running" => lease[i] # "none"
    BY <1>8 DEF Acquire, LoseLease, Finish, Drain, IInv, TypeOK
  <2>4. \A k \in Ids : tasks'[k] = "running" => tasks[k] = "running" \/ config[k] \in Elected
    BY <2>1, <2>2, <2>3 DEF IInv, TypeOK
  <2> QED BY <2>1, <2>4, RoutesStay
<1>9. CASE Shutdown \/ FlowsStopped \/ StopFlowsTimeout \/ ReleaseBooted \/ Exit
  <2>1. phase' # "up" /\ pc' = "aborted"
    BY <1>9 DEF Shutdown, FlowsStopped, StopFlowsTimeout, ReleaseBooted, Exit, IInv, Handles
  <2> QED BY <2>1 DEF Routes, RoutesFollowRegistry
<1>10. CASE UNCHANGED vars
  BY <1>10, RoutesStay DEF vars
<1> QED
  BY <1>1, <1>2, <1>3, <1>4, <1>5, <1>6, <1>7, <1>8, <1>9, <1>10 DEF Next

\* The shared servers serve the registered instance of each flow and nothing
\* else, through every replacement.
THEOREM ServedIsRegistered == Spec => []RoutesFollowRegistry
<1>1. Init => Routes
  <2> SUFFICES ASSUME Init PROVE RoutesFollowRegistry
    BY DEF Init, Routes
  <2> SUFFICES ASSUME NEW f \in Flows
               PROVE  /\ route[f] # 0 => route[f] = registry[f]
                      /\ registry[f] # 0 /\ tasks[registry[f]] = "running" => route[f] = registry[f]
    BY DEF RoutesFollowRegistry
  <2> QED BY DEF Init
<1>2. IInv /\ Routes /\ [Next]_vars => Routes'
  BY RoutesStep
<1>3. Routes => RoutesFollowRegistry
  BY DEF Routes
<1> QED BY <1>1, <1>2, <1>3, Invariance, PTL DEF Spec

=============================================================================
