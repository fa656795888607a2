------------------------- MODULE LeaderElectionProofs -------------------------
(***************************************************************************)
(* Proofs about LeaderElection for any set of pods, any lease duration,    *)
(* any call timeout and any number of failures, and about the registrations *)
(* that the pods of Cluster know of each other, for any peers and bounds.   *)
(***************************************************************************)
EXTENDS LeaderElection, Cluster, SequenceTheorems, TLAPS

\* Nobody has a revision the cache has not given out; only a lease has a
\* holder and a generation.
EntryShape ==
  /\ entry.rev <= seq
  /\ entry.kind = "lease" => entry.holder \in Pods /\ entry.gen >= 1

\* What pod p has read or written is still true if the revision it knows is:
\* nothing but the passing of time changes a lease under the same revision.
PodKnows(p) ==
  /\ rev[p] <= seq /\ seen[p] <= seq
  /\ pc[p] \in Leading => gen[p] >= 1
  /\ pc[p] \in {"takeover", "reclaim"} => seenGen[p] >= 1
  /\ pc[p] \in Leading \cup {"release"} /\ RevisionMatches(rev[p]) =>
       entry.kind = "lease" /\ entry.holder = p /\ entry.gen = gen[p]
  /\ pc[p] = "takeover" /\ RevisionMatches(seen[p]) =>
       /\ entry.kind = "lease" /\ entry.holder # p /\ entry.gen = seenGen[p]
       /\ Elapsed(entry.age, lag[p]) > LeaseDuration
  /\ pc[p] = "reclaim" /\ RevisionMatches(seen[p]) =>
       entry.kind = "lease" /\ entry.holder = p /\ entry.gen = seenGen[p]
  /\ pc[p] = "shutDel" /\ RevisionMatches(seen[p]) =>
       entry.kind = "lease" /\ entry.holder = p

\* The inductive invariant.  OnlyHolderCanRenew alone is not inductive: a
\* reclaim or a takeover turns what was read into what is known.
IInv == TypeOK /\ EntryShape /\ \A p \in Pods : PodKnows(p)

-----------------------------------------------------------------------------
(* Types. *)

\* The local variables of a call are reset with their types.
LEMMA LeaveType ==
  ASSUME TypeOK, NEW p \in Pods, NEW s \in PCs, Leave(p, s)
  PROVE  /\ pc' \in [Pods -> PCs]
         /\ seen' \in [Pods -> 0..MaxRev]
         /\ seenGen' \in [Pods -> 0..MaxGen]
         /\ lag' \in [Pods -> 0..CallTimeout]
BY ConstantsAssumption DEF TypeOK, Leave, Goto

LEMMA GotoType ==
  ASSUME TypeOK, NEW p \in Pods, NEW s \in PCs, Goto(p, s)
  PROVE  pc' \in [Pods -> PCs]
BY DEF TypeOK, Goto

LEMMA DisruptType ==
  ASSUME TypeOK, Disrupt
  PROVE  disruptions' \in 0..MaxDisruptions
BY ConstantsAssumption DEF TypeOK, Disrupt

LEMMA SendType ==
  ASSUME TypeOK, NEW p \in Pods, NEW s \in PCs, NEW msg \in {"Leader", "NotLeader"},
         SendOrEnd(p, msg, s)
  PROVE  /\ chan' \in [Pods -> Seq({"Leader", "NotLeader"})]
         /\ pc' \in [Pods -> PCs]
         /\ seen' \in [Pods -> 0..MaxRev]
         /\ seenGen' \in [Pods -> 0..MaxGen]
         /\ lag' \in [Pods -> 0..CallTimeout]
<1>1. "ended" \in PCs
  BY DEF PCs
<1>2. CASE Listening(p)
  <2>1. Leave(p, s) /\ chan' = [chan EXCEPT ![p] = Append(@, msg)]
    BY <1>2 DEF SendOrEnd
  <2>2. chan' \in [Pods -> Seq({"Leader", "NotLeader"})]
    BY <2>1 DEF TypeOK
  <2> QED BY <2>1, <2>2, LeaveType
<1>3. CASE ~Listening(p)
  BY <1>1, <1>3, LeaveType DEF SendOrEnd, TypeOK
<1> QED BY <1>2, <1>3

LEMMA LeaseType ==
  ASSUME TypeOK, NEW p \in Pods, NEW r \in 0..MaxRev, NEW g \in 0..MaxGen
  PROVE  Lease(p, r, lag[p], g) \in Entries
BY ConstantsAssumption, SMTT(30) DEF TypeOK, Lease, Entries, MaxAge

LEMMA TombstoneType ==
  /\ Absent \in Entries
  /\ \A r \in 0..MaxRev : Tombstone(r) \in Entries
<1>1. Absent \in Entries
  BY ConstantsAssumption DEF Absent, Entries, MaxAge
<1>2. ASSUME NEW r \in 0..MaxRev PROVE Tombstone(r) \in Entries
  BY ConstantsAssumption DEF Tombstone, Entries, MaxAge
<1> QED BY <1>1, <1>2

LEMMA WriteType ==
  ASSUME TypeOK, NEW p \in Pods, NEW g \in 0..MaxGen, WriteAcquired(p, g)
  PROVE  TypeOK'
<1>1. seq + 1 \in 0..MaxRev
  BY ConstantsAssumption DEF TypeOK, WriteAcquired
<1>2. entry' \in Entries /\ seq' \in 0..MaxRev
  BY <1>1, LeaseType DEF WriteAcquired
<1>3. "renew" \in PCs /\ "acquire" \in PCs
  BY DEF PCs, LeaseTask, Acquiring, Leading
<1>4. UNCHANGED <<flow, inst>>
  BY DEF WriteAcquired
<1>5. CASE /\ rev' = [rev EXCEPT ![p] = seq + 1]
           /\ gen' = [gen EXCEPT ![p] = g]
           /\ SendOrEnd(p, "Leader", "renew")
           /\ UNCHANGED disruptions
  BY <1>1, <1>2, <1>3, <1>4, <1>5, SendType DEF TypeOK
<1>6. CASE Disrupt /\ Leave(p, "acquire") /\ UNCHANGED <<rev, gen, chan>>
  BY <1>2, <1>3, <1>4, <1>6, LeaveType, DisruptType DEF TypeOK
<1> QED BY <1>5, <1>6 DEF WriteAcquired

LEMMA GiveUpType ==
  ASSUME TypeOK, NEW p \in Pods, GiveUpAttempt(p)
  PROVE  TypeOK'
<1>1. "acquire" \in PCs
  BY DEF PCs, LeaseTask, Acquiring
<1> QED BY <1>1, LeaveType DEF GiveUpAttempt, TypeOK, flowVars

LEMMA DeleteType ==
  ASSUME TypeOK, NEW r, DeleteWithRevision(r)
  PROVE  entry' \in Entries /\ seq' \in 0..MaxRev
BY ConstantsAssumption, TombstoneType DEF TypeOK, DeleteWithRevision

\* Every step keeps the types.
LEMMA NextType == TypeOK /\ [Next]_vars => TypeOK'
<1> SUFFICES ASSUME TypeOK, [Next]_vars PROVE TypeOK'
  OBVIOUS
<1> USE ConstantsAssumption DEF callVars, flowVars
<1>0. /\ LeaseTask \subseteq PCs
      /\ {"ended", "shutRead", "shutDel", "stopped", "down"} \subseteq PCs
      /\ Acquiring \subseteq PCs /\ Leading \subseteq PCs
  BY DEF PCs, LeaseTask
<1>1. ASSUME NEW p \in Pods, StartAcquire(p) PROVE TypeOK'
  BY <1>1, GotoType DEF StartAcquire, TypeOK, PCs, LeaseTask, Acquiring
<1>2. ASSUME NEW p \in Pods, Create(p) PROVE TypeOK'
  <2>1. CASE WriteAcquired(p, 1)
    BY <2>1, WriteType
  <2>2. CASE Goto(p, "get") /\ UNCHANGED <<entry, seq, callVars, rev, gen, flowVars, disruptions>>
    BY <2>2, GotoType DEF TypeOK, PCs, LeaseTask, Acquiring
  <2> QED BY <1>2, <2>1, <2>2 DEF Create
<1>3. ASSUME NEW p \in Pods, GetWithRevision(p) PROVE TypeOK'
  <2>1. CASE /\ Goto(p, ReadLease(p))
             /\ seen' = [seen EXCEPT ![p] = entry.rev]
             /\ seenGen' = [seenGen EXCEPT ![p] = entry.gen]
             /\ lag' = [lag EXCEPT ![p] = IF entry.holder = p THEN 0 ELSE @]
             /\ UNCHANGED <<entry, seq, rev, gen, flowVars, disruptions>>
    <3>1. ReadLease(p) \in PCs
      BY DEF ReadLease, PCs, LeaseTask, Acquiring
    <3>2. pc' \in [Pods -> PCs]
      BY <2>1, <3>1, GotoType
    <3>3. entry.rev \in 0..MaxRev /\ entry.gen \in 0..MaxGen
      BY DEF TypeOK, Entries
    <3>4. lag' \in [Pods -> 0..CallTimeout]
      BY <2>1 DEF TypeOK
    <3>5. /\ seen' \in [Pods -> 0..MaxRev]
          /\ seenGen' \in [Pods -> 0..MaxGen]
      BY <2>1, <3>3 DEF TypeOK
    <3> QED BY <2>1, <3>2, <3>4, <3>5 DEF TypeOK
  <2>2. CASE GiveUpAttempt(p)
    BY <2>2, GiveUpType
  <2>3. CASE Goto(p, "tomb") /\ UNCHANGED <<entry, seq, callVars, rev, gen, flowVars, disruptions>>
    BY <2>3, GotoType DEF TypeOK, PCs, LeaseTask, Acquiring
  <2> QED BY <1>3, <2>1, <2>2, <2>3 DEF GetWithRevision
<1>4. ASSUME NEW p \in Pods, GetRevision(p) PROVE TypeOK'
  <2>1. CASE GiveUpAttempt(p)
    BY <2>1, GiveUpType
  <2>2. CASE /\ seen' = [seen EXCEPT ![p] = entry.rev]
             /\ Goto(p, "overwrite")
             /\ UNCHANGED <<entry, seq, seenGen, lag, rev, gen, flowVars, disruptions>>
    <3>1. entry.rev \in 0..MaxRev
      BY DEF TypeOK, Entries
    <3> QED BY <2>2, <3>1, GotoType DEF TypeOK, PCs, LeaseTask, Acquiring
  <2> QED BY <1>4, <2>1, <2>2 DEF GetRevision
<1>5. ASSUME NEW p \in Pods, Overwrite(p) \/ Reclaim(p) \/ Takeover(p) PROVE TypeOK'
  <2>1. \A g \in 0..MaxGen : NextGeneration(g) \in 0..MaxGen
    BY DEF NextGeneration
  <2>2. seenGen[p] \in 0..MaxGen
    BY DEF TypeOK
  <2>3. 1 \in 0..MaxGen
    OBVIOUS
  <2> QED BY <1>5, <2>1, <2>2, <2>3, WriteType, GiveUpType DEF Overwrite, Reclaim, Takeover
<1>6. ASSUME NEW p \in Pods, StartRenew(p) PROVE TypeOK'
  BY <1>6, GotoType DEF StartRenew, TypeOK, PCs, LeaseTask, Leading
<1>7. ASSUME NEW p \in Pods, Renew(p) PROVE TypeOK'
  <2>1. {"renew", "handing", "lost"} \subseteq PCs
    BY DEF PCs, LeaseTask, Leading
  <2>2. CASE RevisionMatches(rev[p])
    <3>1. seq + 1 \in 0..MaxRev /\ gen[p] \in 0..MaxGen
      BY <1>7, <2>2 DEF Renew, TypeOK
    <3>2. entry' \in Entries /\ seq' \in 0..MaxRev
      BY <1>7, <2>2, <3>1, LeaseType DEF Renew
    <3>3. \E s \in PCs : Leave(p, s)
      BY <1>7, <2>1, <2>2 DEF Renew
    <3>4. rev' \in [Pods -> 0..MaxRev]
      BY <1>7, <2>2, <3>1 DEF Renew, TypeOK
    <3>5. disruptions' \in 0..MaxDisruptions
      BY <1>7, <2>2, DisruptType DEF Renew, TypeOK
    <3> QED BY <1>7, <3>2, <3>3, <3>4, <3>5, LeaveType DEF Renew, TypeOK
  <2>3. CASE ~RevisionMatches(rev[p])
    BY <1>7, <2>1, <2>3, LeaveType DEF Renew, TypeOK
  <2> QED BY <2>2, <2>3
<1>8. ASSUME NEW p \in Pods, Lost(p) PROVE TypeOK'
  BY <1>8, SendType DEF Lost, TypeOK, PCs, LeaseTask, Acquiring
<1>9. ASSUME NEW p \in Pods, HandOver(p) PROVE TypeOK'
  <2>1. "release" \in PCs /\ "renew" \in PCs
    BY DEF PCs, LeaseTask, Leading
  <2>2. pc' \in [Pods -> PCs]
    BY <1>9, <2>1, GotoType DEF HandOver
  <2>3. chan' \in [Pods -> Seq({"Leader", "NotLeader"})]
    <3>1. CASE Listening(p)
      <4>1. chan' = [chan EXCEPT ![p] = Append(@, "NotLeader")]
        BY <1>9, <3>1 DEF HandOver
      <4> QED BY <4>1 DEF TypeOK
    <3>2. CASE ~Listening(p)
      BY <1>9, <3>2 DEF HandOver, TypeOK
    <3> QED BY <3>1, <3>2
  <2> QED BY <1>9, <2>2, <2>3 DEF HandOver, TypeOK
<1>10. ASSUME NEW p \in Pods, Release(p) PROVE TypeOK'
  BY <1>10, DeleteType, GotoType DEF Release, TypeOK, PCs, LeaseTask, Acquiring
<1>11. ASSUME NEW p \in Pods, CallFails(p) PROVE TypeOK'
  <2>1. {"acquire", "renew", "stopped"} \subseteq PCs
    BY DEF PCs, LeaseTask, Acquiring, Leading
  <2>2. \E s \in PCs : Leave(p, s)
    BY <1>11, <2>1 DEF CallFails
  <2> QED BY <1>11, <2>2, LeaveType, DisruptType DEF CallFails, TypeOK
<1>12. ASSUME NEW p \in Pods, MonitorRecv(p) PROVE TypeOK'
  <2>1. chan' \in [Pods -> Seq({"Leader", "NotLeader"})]
    BY <1>12 DEF MonitorRecv, TypeOK
  <2>2. flow' \in [Pods -> {"first", "running", "again", "ended", "off"}]
    BY <1>12 DEF MonitorRecv, TypeOK
  <2>3. inst' \in [Pods -> 0..ParallelInstances]
    BY <1>12 DEF MonitorRecv, TypeOK
  <2> QED BY <1>12, <2>1, <2>2, <2>3 DEF MonitorRecv, TypeOK
<1>13. ASSUME NEW p \in Pods, TasksComplete(p) \/ MonitorClosed(p) PROVE TypeOK'
  <2>1. CASE TasksComplete(p)
    BY <2>1 DEF TasksComplete, TypeOK
  <2>2. CASE MonitorClosed(p)
    BY <2>2 DEF MonitorClosed, TypeOK
  <2> QED BY <1>13, <2>1, <2>2
<1>14. ASSUME NEW p \in Pods, Shutdown(p) PROVE TypeOK'
  BY <1>0, <1>14, LeaveType, DisruptType DEF Shutdown, TypeOK
<1>15. ASSUME NEW p \in Pods, ShutdownRead(p) PROVE TypeOK'
  <2>1. entry.rev \in 0..MaxRev
    BY DEF TypeOK, Entries
  <2>2. seen' \in [Pods -> 0..MaxRev]
    BY <1>15, <2>1 DEF ShutdownRead, TypeOK
  <2>3. pc' \in [Pods -> PCs]
    BY <1>0, <1>15, GotoType DEF ShutdownRead
  <2> QED BY <1>15, <2>2, <2>3 DEF ShutdownRead, TypeOK
<1>16. ASSUME NEW p \in Pods, ShutdownDelete(p) PROVE TypeOK'
  BY <1>0, <1>16, DeleteType, LeaveType DEF ShutdownDelete, TypeOK
<1>17. ASSUME NEW p \in Pods, Exit(p) \/ Crash(p) PROVE TypeOK'
  <2>1. Gone(p) /\ disruptions' \in 0..MaxDisruptions
    BY <1>17, DisruptType DEF Exit, Crash, TypeOK
  <2>2. Leave(p, "down")
    BY <2>1 DEF Gone
  <2>3. chan' \in [Pods -> Seq({"Leader", "NotLeader"})]
    <3>1. <<>> \in Seq({"Leader", "NotLeader"})
      OBVIOUS
    <3>2. chan' = [chan EXCEPT ![p] = <<>>]
      BY <2>1 DEF Gone
    <3> QED BY <3>1, <3>2 DEF TypeOK
  <2>5. flow' \in [Pods -> {"first", "running", "again", "ended", "off"}]
    BY <2>1 DEF Gone, TypeOK
  <2>4. /\ inst' \in [Pods -> 0..ParallelInstances]
        /\ rev' \in [Pods -> 0..MaxRev]
        /\ gen' \in [Pods -> 0..MaxGen]
    BY <2>1 DEF Gone, TypeOK
  <2> QED BY <1>0, <2>1, <2>2, <2>3, <2>4, <2>5, LeaveType DEF Gone, TypeOK
<1>18. ASSUME NEW p \in Pods, Restart(p) PROVE TypeOK'
  BY <1>18, GotoType, DisruptType DEF Restart, TypeOK, PCs, LeaseTask, Acquiring
<1>19. CASE Tick
  <2>1. entry' \in Entries
    <3>1. CASE entry.kind = "lease"
      <4>1. entry' = [entry EXCEPT !.age = Older(entry.age, MaxAge),
                                   !.ttl = Older(entry.ttl, LeaseDuration)]
        BY <1>19, <3>1 DEF Tick
      <4>2. entry.age \in 0..MaxAge /\ entry.ttl \in 0..LeaseDuration
        BY DEF TypeOK, Entries
      <4>3. Older(entry.age, MaxAge) \in 0..MaxAge
        BY <4>2 DEF Older, MaxAge
      <4>4. Older(entry.ttl, LeaseDuration) \in 0..LeaseDuration
        BY <4>2 DEF Older
      <4> QED BY <4>1, <4>3, <4>4 DEF TypeOK, Entries
    <3>2. CASE entry.kind # "lease"
      BY <1>19, <3>2 DEF Tick, TypeOK
    <3> QED BY <3>1, <3>2
  <2>2. lag' \in [Pods -> 0..CallTimeout]
    BY <1>19, SMTT(30) DEF Tick, TypeOK
  <2> QED BY <1>19, <2>1, <2>2 DEF Tick, TypeOK
<1>20. CASE Expire
  BY <1>20, TombstoneType, SMTT(30) DEF Expire, TypeOK
<1>21. CASE PurgeTombstone
  BY <1>21, TombstoneType DEF PurgeTombstone, TypeOK
<1>22. CASE UNCHANGED vars
  BY <1>22 DEF vars, TypeOK
<1> QED
  BY <1>1, <1>2, <1>3, <1>4, <1>5, <1>6, <1>7, <1>8, <1>9, <1>10, <1>11, <1>12,
     <1>13, <1>14, <1>15, <1>16, <1>17, <1>18, <1>19, <1>20, <1>21, <1>22
  DEF Next

-----------------------------------------------------------------------------
(* Knowledge. *)

\* Pod q takes no part in the step.
Untouched(q) ==
  /\ pc'[q] = pc[q] /\ seen'[q] = seen[q] /\ seenGen'[q] = seenGen[q]
  /\ lag'[q] = lag[q] /\ rev'[q] = rev[q] /\ gen'[q] = gen[q]

\* The key is left alone, gets a revision nobody knows yet, or is gone.
KeyMoves ==
  /\ seq' >= seq
  /\ entry' = entry \/ entry'.rev > seq \/ entry'.kind = "absent"

\* States of the lease task that rest on no revision.
Idle == {"acquire", "create", "get", "tomb", "overwrite", "ended", "shutRead", "stopped", "down"}

\* What a pod knows survives the writes of others.
LEMMA OthersKnow ==
  ASSUME TypeOK, TypeOK', NEW q \in Pods, PodKnows(q), Untouched(q), KeyMoves
  PROVE  PodKnows(q)'
<1>1. rev[q] \in Nat /\ seen[q] \in Nat /\ seq \in Nat /\ seq' \in Nat /\ entry'.rev \in Nat
  BY DEF TypeOK, Entries
<1>2. rev[q] <= seq /\ seen[q] <= seq
  BY DEF PodKnows
<1>3. CASE entry' = entry
  BY <1>1, <1>2, <1>3 DEF PodKnows, Untouched, KeyMoves, RevisionMatches
<1>4. CASE entry' # entry
  <2>1. ~RevisionMatches(rev[q])' /\ ~RevisionMatches(seen[q])'
    BY <1>1, <1>2, <1>4 DEF KeyMoves, Untouched, RevisionMatches
  <2> QED BY <1>1, <1>2, <2>1 DEF PodKnows, Untouched, KeyMoves
<1> QED BY <1>3, <1>4

LEMMA IdleKnows ==
  ASSUME NEW p \in Pods, pc'[p] \in Idle, rev'[p] <= seq', seen'[p] <= seq'
  PROVE  PodKnows(p)'
BY DEF PodKnows, Idle, Leading

\* A step of one pod keeps the invariant if it keeps that pod's part of it.
LEMMA PodStep ==
  ASSUME IInv, TypeOK', NEW p \in Pods, KeyMoves, EntryShape', PodKnows(p)',
         \A q \in Pods \ {p} : Untouched(q)
  PROVE  IInv'
<1>1. ASSUME NEW q \in Pods \ {p} PROVE PodKnows(q)'
  BY <1>1, OthersKnow DEF IInv
<1> QED BY <1>1 DEF IInv

LEMMA NothingWritten ==
  ASSUME IInv, UNCHANGED <<entry, seq>>
  PROVE  KeyMoves /\ EntryShape'
BY DEF IInv, TypeOK, KeyMoves, EntryShape

LEMMA LeaseWritten ==
  ASSUME IInv, NEW p \in Pods, NEW l, NEW g \in Nat \ {0},
         entry' = Lease(p, seq + 1, l, g), seq' = seq + 1
  PROVE  KeyMoves /\ EntryShape'
BY DEF IInv, TypeOK, KeyMoves, EntryShape, Lease

LEMMA KeyDeleted ==
  ASSUME IInv, NEW r, DeleteWithRevision(r)
  PROVE  KeyMoves /\ EntryShape'
<1>1. seq \in Nat
  BY DEF IInv, TypeOK
<1>2. CASE RevisionMatches(r)
  BY <1>1, <1>2 DEF DeleteWithRevision, KeyMoves, EntryShape, Tombstone
<1>3. CASE ~RevisionMatches(r)
  BY <1>3, NothingWritten DEF DeleteWithRevision
<1> QED BY <1>2, <1>3

LEMMA LeaveUntouched ==
  ASSUME TypeOK, NEW p \in Pods, NEW s, Leave(p, s)
  PROVE  /\ pc'[p] = s /\ seen'[p] = 0
         /\ \A q \in Pods \ {p} : /\ pc'[q] = pc[q] /\ seen'[q] = seen[q]
                                  /\ seenGen'[q] = seenGen[q] /\ lag'[q] = lag[q]
BY DEF TypeOK, Leave, Goto

LEMMA GotoUntouched ==
  ASSUME TypeOK, NEW p \in Pods, NEW s, Goto(p, s)
  PROVE  pc'[p] = s /\ \A q \in Pods \ {p} : pc'[q] = pc[q]
BY DEF TypeOK, Goto

\* A pod that ends its call and forgets what it read keeps the invariant.
LEMMA LeaveInv ==
  ASSUME IInv, TypeOK', NEW p \in Pods, NEW s \in Idle, Leave(p, s),
         KeyMoves, EntryShape', UNCHANGED <<rev, gen>>
  PROVE  IInv'
<1>1. TypeOK
  BY DEF IInv
<1>2. /\ pc'[p] = s /\ seen'[p] = 0
      /\ \A q \in Pods \ {p} : Untouched(q)
  BY <1>1, LeaveUntouched DEF Untouched
<1>3. rev'[p] <= seq' /\ seen'[p] <= seq'
  BY <1>1, <1>2, SMTT(30) DEF IInv, TypeOK, PodKnows, KeyMoves
<1>4. PodKnows(p)'
  BY <1>2, <1>3, IdleKnows
<1> QED BY <1>2, <1>4, PodStep

LEMMA GiveUpInv ==
  ASSUME IInv, TypeOK', NEW p \in Pods, GiveUpAttempt(p)
  PROVE  IInv'
BY NothingWritten, LeaveInv DEF GiveUpAttempt, Idle

\* A write that was acknowledged makes the pod a leader who knows the lease;
\* one that was not makes it forget.
LEMMA WriteInv ==
  ASSUME IInv, TypeOK', NEW p \in Pods, NEW g \in 1..MaxGen, WriteAcquired(p, g)
  PROVE  IInv'
<1>1. TypeOK /\ seq \in Nat /\ g \in Nat \ {0}
  <2>1. TypeOK
    BY DEF IInv
  <2>2. seq \in Nat
    BY <2>1 DEF TypeOK
  <2> QED BY <2>1, <2>2
<1>2. entry' = Lease(p, seq + 1, lag[p], g) /\ seq' = seq + 1
  BY DEF WriteAcquired
<1>3. KeyMoves /\ EntryShape'
  BY <1>1, <1>2, LeaseWritten
<1>4. CASE Leave(p, "acquire") /\ UNCHANGED <<rev, gen, chan>>
  BY <1>3, <1>4, LeaveInv DEF Idle
<1>5. CASE /\ rev' = [rev EXCEPT ![p] = seq + 1]
           /\ gen' = [gen EXCEPT ![p] = g]
           /\ SendOrEnd(p, "Leader", "renew")
  <2>1. rev'[p] = seq + 1 /\ gen'[p] = g
    BY <1>1, <1>5 DEF TypeOK
  <2>2. \A q \in Pods \ {p} : rev'[q] = rev[q] /\ gen'[q] = gen[q]
    BY <1>1, <1>5 DEF TypeOK
  <2>3. \E s \in {"renew", "ended"} : Leave(p, s)
    BY <1>5 DEF SendOrEnd
  <2>4. /\ pc'[p] \in {"renew", "ended"} /\ seen'[p] = 0
        /\ \A q \in Pods \ {p} : Untouched(q)
    BY <1>1, <2>2, <2>3, LeaveUntouched DEF Untouched
  <2>5. entry'.kind = "lease" /\ entry'.holder = p /\ entry'.gen = g
    BY <1>2 DEF Lease
  <2>6. PodKnows(p)'
    BY <1>1, <1>2, <2>1, <2>4, <2>5 DEF PodKnows, Leading
  <2> QED BY <1>3, <2>4, <2>6, PodStep
<1> QED BY <1>4, <1>5 DEF WriteAcquired
\* A call that starts rests on no revision.
LEMMA StartInv ==
  ASSUME IInv, TypeOK', NEW p \in Pods, NEW s \in Idle, Goto(p, s),
         UNCHANGED <<seen, seenGen, lag, rev, gen>>, KeyMoves, EntryShape'
  PROVE  IInv'
<1>1. TypeOK
  BY DEF IInv
<1>2. pc'[p] = s /\ \A q \in Pods \ {p} : Untouched(q)
  BY <1>1, GotoUntouched DEF Untouched
<1>3. rev'[p] <= seq' /\ seen'[p] <= seq'
  BY <1>1 DEF IInv, TypeOK, PodKnows, KeyMoves
<1>4. PodKnows(p)'
  BY <1>2, <1>3, IdleKnows
<1> QED BY <1>2, <1>4, PodStep

\* An acquisition reads a lease: what it keeps is what the key holds.
LEMMA GetInv ==
  ASSUME IInv, TypeOK', NEW p \in Pods, GetWithRevision(p)
  PROVE  IInv'
<1>1. TypeOK
  BY DEF IInv
<1>2. CASE GiveUpAttempt(p)
  BY <1>2, GiveUpInv
<1>3. CASE Goto(p, "tomb") /\ UNCHANGED <<entry, seq, callVars, rev, gen, flowVars, disruptions>>
  BY <1>3, NothingWritten, StartInv DEF callVars, Idle
<1>4. CASE /\ entry.kind = "lease"
           /\ ReadLease(p) # "acquire"
           /\ Goto(p, ReadLease(p))
           /\ seen' = [seen EXCEPT ![p] = entry.rev]
           /\ seenGen' = [seenGen EXCEPT ![p] = entry.gen]
           /\ lag' = [lag EXCEPT ![p] = IF entry.holder = p THEN 0 ELSE @]
           /\ UNCHANGED <<entry, seq, rev, gen, flowVars, disruptions>>
  <2>1. KeyMoves /\ EntryShape'
    BY <1>4, NothingWritten
  <2>2. pc'[p] = ReadLease(p) /\ seen'[p] = entry.rev /\ seenGen'[p] = entry.gen
    BY <1>1, <1>4, GotoUntouched DEF TypeOK
  <2>3. lag'[p] = IF entry.holder = p THEN 0 ELSE lag[p]
    BY <1>1, <1>4 DEF TypeOK
  <2>4. ASSUME NEW q \in Pods \ {p} PROVE Untouched(q)
    BY <1>1, <1>4, GotoUntouched DEF TypeOK, Untouched
  <2>5. \/ pc'[p] = "reclaim" /\ entry.holder = p
        \/ pc'[p] = "takeover" /\ entry.holder # p /\ Elapsed(entry.age, lag[p]) > LeaseDuration
    BY <1>4, <2>2 DEF ReadLease
  <2>6. entry.rev <= seq /\ entry.gen >= 1 /\ rev[p] <= seq
    BY <1>4 DEF IInv, EntryShape, PodKnows
  <2>7. PodKnows(p)'
    BY <1>4, <2>2, <2>3, <2>5, <2>6 DEF PodKnows, Leading, RevisionMatches, flowVars
  <2> QED BY <2>1, <2>4, <2>7, PodStep
<1> QED BY <1>2, <1>3, <1>4 DEF GetWithRevision

LEMMA GetRevisionInv ==
  ASSUME IInv, TypeOK', NEW p \in Pods, GetRevision(p)
  PROVE  IInv'
<1>1. TypeOK
  BY DEF IInv
<1>2. CASE GiveUpAttempt(p)
  BY <1>2, GiveUpInv
<1>3. CASE /\ seen' = [seen EXCEPT ![p] = entry.rev]
           /\ Goto(p, "overwrite")
           /\ UNCHANGED <<entry, seq, seenGen, lag, rev, gen, flowVars, disruptions>>
  <2>1. KeyMoves /\ EntryShape'
    BY <1>3, NothingWritten
  <2>2. pc'[p] = "overwrite" /\ seen'[p] = entry.rev
    BY <1>1, <1>3, GotoUntouched DEF TypeOK
  <2>3. ASSUME NEW q \in Pods \ {p} PROVE Untouched(q)
    BY <1>1, <1>3, GotoUntouched DEF TypeOK, Untouched
  <2>4. rev'[p] <= seq' /\ seen'[p] <= seq'
    BY <1>3, <2>2 DEF IInv, EntryShape, PodKnows
  <2>5. PodKnows(p)'
    BY <2>2, <2>4, IdleKnows DEF Idle
  <2> QED BY <2>1, <2>3, <2>5, PodStep
<1> QED BY <1>2, <1>3 DEF GetRevision

LEMMA UpdateInv ==
  ASSUME IInv, TypeOK', NEW p \in Pods, Overwrite(p) \/ Reclaim(p) \/ Takeover(p)
  PROVE  IInv'
<1>1. 1 \in 1..MaxGen
  BY ConstantsAssumption
<1>2. pc[p] \in {"takeover", "reclaim"} => seenGen[p] \in 1..MaxGen
  BY DEF IInv, TypeOK, PodKnows
<1>3. \A g \in 1..MaxGen : NextGeneration(g) \in 1..MaxGen
  BY ConstantsAssumption DEF NextGeneration
<1>4. CASE Overwrite(p)
  BY <1>1, <1>4, WriteInv, GiveUpInv DEF Overwrite
<1>5. CASE Reclaim(p)
  BY <1>2, <1>5, WriteInv, GiveUpInv DEF Reclaim
<1>6. CASE Takeover(p)
  BY <1>2, <1>3, <1>6, WriteInv, GiveUpInv DEF Takeover
<1> QED BY <1>4, <1>5, <1>6

\* A leader whose lease is not rewritten keeps what it knows of it.
LEMMA StillLeads ==
  ASSUME IInv, TypeOK', NEW p \in Pods, pc[p] \in Leading,
         pc'[p] \in Leading \cup {"release"},
         seen'[p] <= seq', rev'[p] = rev[p], gen'[p] = gen[p], KeyMoves
  PROVE  PodKnows(p)'
<1>1. /\ rev[p] \in Nat /\ seq \in Nat /\ seq' \in Nat /\ entry'.rev \in Nat
      /\ rev[p] <= seq /\ gen[p] >= 1
  BY DEF IInv, TypeOK, Entries, PodKnows
<1>2. rev'[p] <= seq'
  BY <1>1 DEF KeyMoves
<1>3. pc'[p] \notin {"takeover", "reclaim", "shutDel"}
  BY DEF Leading
<1>4. RevisionMatches(rev[p])' =>
        entry'.kind = "lease" /\ entry'.holder = p /\ entry'.gen = gen'[p]
  BY <1>1 DEF IInv, PodKnows, KeyMoves, RevisionMatches
<1> QED BY <1>1, <1>2, <1>3, <1>4 DEF PodKnows

LEMMA RenewInv ==
  ASSUME IInv, TypeOK', NEW p \in Pods, Renew(p)
  PROVE  IInv'
<1>1. TypeOK /\ seq \in Nat /\ pc[p] \in Leading /\ gen[p] \in Nat \ {0} /\ UNCHANGED gen
  <2>1. TypeOK /\ PodKnows(p)
    BY DEF IInv
  <2>2. pc[p] \in Leading /\ UNCHANGED gen
    BY DEF Renew, Leading
  <2>3. seq \in Nat /\ gen[p] \in Nat
    BY <2>1 DEF TypeOK
  <2>4. gen[p] >= 1
    BY <2>1, <2>2 DEF PodKnows
  <2> QED BY <2>1, <2>2, <2>3, <2>4
<1>2. \E s \in {"renew", "handing", "lost"} : Leave(p, s)
  BY DEF Renew
<1>3. /\ pc'[p] \in {"renew", "handing", "lost"} /\ seen'[p] = 0
      /\ \A q \in Pods \ {p} : /\ pc'[q] = pc[q] /\ seen'[q] = seen[q]
                               /\ seenGen'[q] = seenGen[q] /\ lag'[q] = lag[q]
  BY <1>1, <1>2, LeaveUntouched
<1>4. pc'[p] \in Leading
  BY <1>3 DEF Leading
<1>5. KeyMoves /\ EntryShape'
  <2>1. CASE RevisionMatches(rev[p])
    BY <1>1, <2>1, LeaseWritten DEF Renew
  <2>2. CASE ~RevisionMatches(rev[p])
    BY <2>2, NothingWritten DEF Renew
  <2> QED BY <2>1, <2>2
<1>6. CASE UNCHANGED rev
  <2>1. ASSUME NEW q \in Pods \ {p} PROVE Untouched(q)
    BY <1>1, <1>3, <1>6 DEF Untouched
  <2>2. seen'[p] <= seq'
    BY <1>1, <1>3, <1>5 DEF KeyMoves, TypeOK
  <2>3. PodKnows(p)'
    BY <1>1, <1>4, <1>5, <1>6, <2>2, StillLeads
  <2> QED BY <1>5, <2>1, <2>3, PodStep
<1>7. CASE RevisionMatches(rev[p]) /\ rev' = [rev EXCEPT ![p] = seq + 1]
  <2>1. entry' = Lease(p, seq + 1, lag[p], gen[p]) /\ seq' = seq + 1
    BY <1>7 DEF Renew
  <2>2. rev'[p] = seq + 1 /\ \A q \in Pods \ {p} : rev'[q] = rev[q]
    BY <1>1, <1>7 DEF TypeOK
  <2>3. ASSUME NEW q \in Pods \ {p} PROVE Untouched(q)
    BY <1>1, <1>3, <2>2 DEF Untouched
  <2>4. entry'.kind = "lease" /\ entry'.holder = p /\ entry'.gen = gen'[p]
    BY <1>1, <2>1 DEF Lease
  <2>5. PodKnows(p)'
    BY <1>1, <1>3, <2>1, <2>2, <2>4 DEF PodKnows
  <2> QED BY <1>5, <2>3, <2>5, PodStep
<1> QED BY <1>6, <1>7 DEF Renew
\* Time passes for the lease and for the calls under way alike, so a lease
\* seen expired stays expired.
LEMMA TickInv ==
  ASSUME IInv, TypeOK', Tick
  PROVE  IInv'
<1>1. TypeOK /\ EntryShape
  BY DEF IInv
<1>2. /\ entry'.rev = entry.rev /\ entry'.kind = entry.kind
      /\ entry'.holder = entry.holder /\ entry'.gen = entry.gen
  BY <1>1 DEF Tick, TypeOK, Entries
<1>3. UNCHANGED <<seq, pc, seen, seenGen, rev, gen>>
  BY DEF Tick
<1>4. EntryShape'
  BY <1>1, <1>2, <1>3 DEF EntryShape
<1>5. ASSUME NEW q \in Pods, pc[q] = "takeover", entry.kind = "lease",
             Elapsed(entry.age, lag[q]) > LeaseDuration
      PROVE  Elapsed(entry'.age, lag'[q]) > LeaseDuration
  <2>1. entry.age \in 0..MaxAge /\ lag[q] \in 0..CallTimeout
    BY <1>1 DEF TypeOK, Entries
  <2>2. lag'[q] = lag[q] + 1 /\ lag[q] < CallTimeout
    BY <1>5 DEF Tick, InCall
  <2>3. entry'.age = Older(entry.age, MaxAge)
    BY <1>1, <1>5 DEF Tick, TypeOK, Entries
  <2> QED BY <1>5, <2>1, <2>2, <2>3, ConstantsAssumption DEF Elapsed, Older, MaxAge
<1>6. ASSUME NEW q \in Pods PROVE PodKnows(q)'
  <2>1. PodKnows(q)
    BY DEF IInv
  <2> QED BY <1>2, <1>3, <1>5, <2>1 DEF PodKnows, RevisionMatches
<1> QED BY <1>4, <1>6 DEF IInv
\* The leader's own steps that write no lease.
LEMMA LeaderStepInv ==
  ASSUME IInv, TypeOK', NEW p \in Pods, StartRenew(p) \/ Lost(p) \/ HandOver(p)
  PROVE  IInv'
<1>1. TypeOK /\ seen[p] <= seq
  BY DEF IInv, PodKnows
<1>2. KeyMoves /\ EntryShape' /\ UNCHANGED <<seq, rev, gen>>
  BY NothingWritten DEF StartRenew, Lost, HandOver
<1>3. CASE Lost(p)
  BY <1>2, <1>3, LeaveInv DEF Lost, SendOrEnd, Idle
<1>4. CASE StartRenew(p) \/ HandOver(p)
  <2>1. /\ pc[p] \in {"renew", "handing"}
        /\ \E s \in {"renewing", "release", "renew"} : Goto(p, s)
        /\ UNCHANGED <<seen, seenGen, lag>>
    BY <1>4 DEF StartRenew, HandOver, callVars
  <2>2. /\ pc'[p] \in {"renewing", "release", "renew"}
        /\ \A q \in Pods \ {p} : Untouched(q)
    BY <1>1, <1>2, <2>1, GotoUntouched DEF Untouched
  <2>3. pc[p] \in Leading /\ pc'[p] \in Leading \cup {"release"}
    BY <2>1, <2>2 DEF Leading
  <2>4. PodKnows(p)'
    BY <1>1, <1>2, <2>1, <2>3, StillLeads
  <2> QED BY <1>2, <2>2, <2>4, PodStep
<1> QED BY <1>3, <1>4

LEMMA CallFailsInv ==
  ASSUME IInv, TypeOK', NEW p \in Pods, CallFails(p)
  PROVE  IInv'
<1>1. TypeOK /\ seq \in Nat
  <2>1. TypeOK
    BY DEF IInv
  <2>2. seq \in Nat
    BY <2>1 DEF TypeOK
  <2> QED BY <2>1, <2>2
<1>2. KeyMoves /\ EntryShape' /\ UNCHANGED <<seq, rev, gen>>
  BY NothingWritten DEF CallFails
<1>3. CASE Leave(p, "acquire") \/ Leave(p, "stopped")
  BY <1>2, <1>3, LeaveInv DEF Idle
<1>4. CASE pc[p] \in {"renewing", "lost"} /\ Leave(p, "renew")
  <2>1. /\ pc'[p] = "renew" /\ seen'[p] = 0
        /\ \A q \in Pods \ {p} : Untouched(q)
    BY <1>1, <1>2, <1>4, LeaveUntouched DEF Untouched
  <2>2. pc[p] \in Leading /\ pc'[p] \in Leading
    BY <1>4, <2>1 DEF Leading
  <2>3. PodKnows(p)'
    BY <1>1, <1>2, <2>1, <2>2, StillLeads
  <2> QED BY <1>2, <2>1, <2>3, PodStep
<1> QED BY <1>3, <1>4 DEF CallFails

\* Shutdown deletes the lease at the revision under which it saw itself holder.
LEMMA ShutdownReadInv ==
  ASSUME IInv, TypeOK', NEW p \in Pods, ShutdownRead(p)
  PROVE  IInv'
<1>1. TypeOK /\ seq \in Nat /\ entry.rev <= seq /\ rev[p] <= seq
  <2>1. TypeOK /\ EntryShape /\ PodKnows(p)
    BY DEF IInv
  <2>2. seq \in Nat
    BY <2>1 DEF TypeOK
  <2> QED BY <2>1, <2>2 DEF EntryShape, PodKnows
<1>2. KeyMoves /\ EntryShape'
  BY NothingWritten DEF ShutdownRead
<1>3. /\ pc'[p] = IF StillOwns(p) THEN "shutDel" ELSE "stopped"
      /\ seen'[p] = IF StillOwns(p) THEN entry.rev ELSE 0
  BY <1>1, GotoUntouched DEF ShutdownRead, TypeOK
<1>4. ASSUME NEW q \in Pods \ {p} PROVE Untouched(q)
  BY <1>1, GotoUntouched DEF ShutdownRead, TypeOK, Untouched
<1>5. PodKnows(p)'
  BY <1>1, <1>3 DEF ShutdownRead, PodKnows, StillOwns, Leading
<1> QED BY <1>2, <1>4, <1>5, PodStep

LEMMA GoneInv ==
  ASSUME IInv, TypeOK', NEW p \in Pods, Gone(p)
  PROVE  IInv'
<1>1. TypeOK
  BY DEF IInv
<1>2. KeyMoves /\ EntryShape'
  BY NothingWritten DEF Gone
<1>3. /\ pc'[p] = "down" /\ seen'[p] = 0 /\ rev'[p] = 0
      /\ \A q \in Pods \ {p} : Untouched(q)
  BY <1>1, LeaveUntouched DEF Gone, TypeOK, Untouched
<1>4. seq' \in Nat
  BY DEF TypeOK
<1>5. PodKnows(p)'
  BY <1>3, <1>4, IdleKnows DEF Idle
<1> QED BY <1>2, <1>3, <1>5, PodStep

\* The cache drops the key, or puts a marker in its place.
LEMMA CacheInv ==
  ASSUME IInv, TypeOK', Expire \/ PurgeTombstone
  PROVE  IInv'
<1>1. TypeOK /\ seq \in Nat
  <2>1. TypeOK
    BY DEF IInv
  <2>2. seq \in Nat
    BY <2>1 DEF TypeOK
  <2> QED BY <2>1, <2>2
<1>2. KeyMoves /\ EntryShape'
  BY <1>1 DEF Expire, PurgeTombstone, KeyMoves, EntryShape, Absent, Tombstone
<1>3. ASSUME NEW q \in Pods PROVE Untouched(q) /\ PodKnows(q)
  BY DEF Expire, PurgeTombstone, callVars, Untouched, IInv
<1>4. ASSUME NEW q \in Pods PROVE PodKnows(q)'
  BY <1>1, <1>2, <1>3, OthersKnow
<1> QED BY <1>2, <1>4 DEF IInv

\* Every step keeps the inductive invariant.
LEMMA NextInv == IInv /\ [Next]_vars => IInv'
<1> SUFFICES ASSUME IInv, [Next]_vars PROVE IInv'
  OBVIOUS
<1>1. TypeOK /\ TypeOK'
  BY NextType DEF IInv
<1>2. ASSUME NEW p \in Pods, StartAcquire(p) PROVE IInv'
  BY <1>1, <1>2, NothingWritten, StartInv DEF StartAcquire, callVars, Idle
<1>3. ASSUME NEW p \in Pods, Create(p) PROVE IInv'
  <2>1. CASE WriteAcquired(p, 1)
    BY <1>1, <2>1, WriteInv, ConstantsAssumption
  <2>2. CASE Goto(p, "get") /\ UNCHANGED <<entry, seq, callVars, rev, gen>>
    BY <1>1, <2>2, NothingWritten, StartInv DEF callVars, Idle
  <2> QED BY <1>3, <2>1, <2>2 DEF Create
<1>4. ASSUME NEW p \in Pods, GetWithRevision(p) PROVE IInv'
  BY <1>1, <1>4, GetInv
<1>5. ASSUME NEW p \in Pods, GetRevision(p) PROVE IInv'
  BY <1>1, <1>5, GetRevisionInv
<1>6. ASSUME NEW p \in Pods, Overwrite(p) \/ Reclaim(p) \/ Takeover(p) PROVE IInv'
  BY <1>1, <1>6, UpdateInv
<1>7. ASSUME NEW p \in Pods, Renew(p) PROVE IInv'
  BY <1>1, <1>7, RenewInv
<1>8. ASSUME NEW p \in Pods, StartRenew(p) \/ Lost(p) \/ HandOver(p) PROVE IInv'
  BY <1>1, <1>8, LeaderStepInv
<1>9. ASSUME NEW p \in Pods, Release(p) PROVE IInv'
  BY <1>1, <1>9, KeyDeleted, StartInv DEF Release, callVars, Idle
<1>10. ASSUME NEW p \in Pods, CallFails(p) PROVE IInv'
  BY <1>1, <1>10, CallFailsInv
<1>11. ASSUME NEW p \in Pods, MonitorRecv(p) \/ TasksComplete(p) \/ MonitorClosed(p)
       PROVE  IInv'
  <2>1. UNCHANGED <<entry, seq, pc, seen, seenGen, lag, rev, gen>>
    BY <1>11 DEF MonitorRecv, TasksComplete, MonitorClosed, callVars
  <2> QED BY <1>1, <2>1 DEF IInv, EntryShape, PodKnows, RevisionMatches
<1>12. ASSUME NEW p \in Pods, Shutdown(p) PROVE IInv'
  BY <1>1, <1>12, NothingWritten, LeaveInv DEF Shutdown, Idle
<1>13. ASSUME NEW p \in Pods, ShutdownRead(p) PROVE IInv'
  BY <1>1, <1>13, ShutdownReadInv
<1>14. ASSUME NEW p \in Pods, ShutdownDelete(p) PROVE IInv'
  BY <1>1, <1>14, KeyDeleted, LeaveInv DEF ShutdownDelete, Idle
<1>15. ASSUME NEW p \in Pods, Exit(p) \/ Crash(p) PROVE IInv'
  BY <1>1, <1>15, GoneInv DEF Exit, Crash
<1>16. ASSUME NEW p \in Pods, Restart(p) PROVE IInv'
  BY <1>1, <1>16, NothingWritten, StartInv DEF Restart, callVars, Idle
<1>17. CASE Tick
  BY <1>1, <1>17, TickInv
<1>18. CASE Expire \/ PurgeTombstone
  BY <1>1, <1>18, CacheInv
<1>19. CASE UNCHANGED vars
  BY <1>1, <1>19 DEF vars, IInv, EntryShape, PodKnows, RevisionMatches
<1> QED
  BY <1>2, <1>3, <1>4, <1>5, <1>6, <1>7, <1>8, <1>9, <1>10, <1>11, <1>12, <1>13,
     <1>14, <1>15, <1>16, <1>17, <1>18, <1>19 DEF Next

LEMMA InitInv == Init => IInv
<1> SUFFICES ASSUME Init PROVE IInv
  OBVIOUS
<1>1. TypeOK
  <2>1. pc \in [Pods -> PCs]
    BY DEF Init, PCs, LeaseTask, Acquiring
  <2>2. entry \in Entries
    BY TombstoneType DEF Init
  <2> QED BY <2>1, <2>2, ConstantsAssumption DEF Init, TypeOK
<1>2. EntryShape
  BY DEF Init, EntryShape, Absent
<1>3. ASSUME NEW p \in Pods PROVE PodKnows(p)
  BY DEF Init, PodKnows, Leading
<1> QED BY <1>1, <1>2, <1>3 DEF IInv

\* The invariant holds of every behaviour of lease entry and lease tasks (executor.rs).
THEOREM Invariance == Spec => []IInv
<1>1. Init => IInv
  BY InitInv
<1>2. IInv /\ [Next]_vars => IInv'
  BY NextInv
<1> QED BY <1>1, <1>2, PTL DEF Spec
-----------------------------------------------------------------------------
(* The theorems. *)

\* Every reachable state has its types, for every set of pods.
THEOREM TypeCorrect == Spec => []TypeOK
<1>1. IInv => TypeOK
  BY DEF IInv
<1> QED BY <1>1, Invariance, PTL

\* A renewal task whose update the cache would accept is the task of the pod
\* the lease names, and writes the lease's own generation.
THEOREM RenewalIsTheHolders == Spec => []OnlyHolderCanRenew
<1>1. IInv => OnlyHolderCanRenew
  BY DEF IInv, PodKnows, OnlyHolderCanRenew
<1> QED BY <1>1, Invariance, PTL

\* The calls that can change the lease key.
KeyStep(p) ==
  \/ Create(p) \/ Overwrite(p) \/ Reclaim(p) \/ Takeover(p) \/ Renew(p)
  \/ Release(p) \/ ShutdownDelete(p)

LEMMA KeySteps ==
  ASSUME [Next]_vars
  PROVE  UNCHANGED entry \/ (\E p \in Pods : KeyStep(p)) \/ Tick \/ Expire \/ PurgeTombstone
BY DEF Next, KeyStep, vars, StartAcquire, GetWithRevision, GetRevision, GiveUpAttempt,
       StartRenew, Lost, HandOver, CallFails, MonitorRecv, TasksComplete, MonitorClosed,
       Shutdown, ShutdownRead, Exit, Crash, Gone, Restart

LEMMA TickKeeps ==
  ASSUME TypeOK, Tick
  PROVE  entry'.kind = entry.kind /\ entry'.holder = entry.holder
BY DEF Tick, TypeOK, Entries

\* A step that puts another holder's lease in the place of one, with a
\* generation above the first, is a takeover of an expired lease.
LEMMA TakeoverStep ==
  ASSUME IInv, [Next]_vars, entry.kind = "lease", entry'.kind = "lease",
         entry'.holder # entry.holder, entry'.gen > 1
  PROVE  entry.age > LeaseDuration /\ entry'.gen = NextGeneration(entry.gen)
<1>1. TypeOK /\ \A p \in Pods : PodKnows(p)
  BY DEF IInv
<1>2. ASSUME NEW p \in Pods, KeyStep(p)
      PROVE  entry.age > LeaseDuration /\ entry'.gen = NextGeneration(entry.gen)
  <2>1. CASE Create(p)
    BY <2>1 DEF Create
  <2>2. CASE Overwrite(p)
    BY <2>2 DEF Overwrite, WriteAcquired, GiveUpAttempt, Lease
  <2>3. CASE Reclaim(p)
    BY <1>1, <2>3 DEF Reclaim, WriteAcquired, GiveUpAttempt, Lease, PodKnows
  <2>4. CASE Takeover(p)
    <3>1. RevisionMatches(seen[p]) /\ entry'.gen = NextGeneration(seenGen[p])
      BY <2>4 DEF Takeover, WriteAcquired, GiveUpAttempt, Lease
    <3>2. entry.gen = seenGen[p] /\ Elapsed(entry.age, lag[p]) > LeaseDuration
      BY <1>1, <2>4, <3>1 DEF Takeover, PodKnows
    <3>3. entry.age \in Nat /\ lag[p] \in Nat
      BY <1>1, ConstantsAssumption DEF TypeOK, Entries, MaxAge
    <3> QED BY <3>1, <3>2, <3>3, ConstantsAssumption DEF Elapsed
  <2>5. CASE Renew(p)
    BY <1>1, <2>5 DEF Renew, Lease, PodKnows, Leading
  <2>6. CASE Release(p) \/ ShutdownDelete(p)
    BY <2>6 DEF Release, ShutdownDelete, DeleteWithRevision, Tombstone
  <2> QED BY <1>2, <2>1, <2>2, <2>3, <2>4, <2>5, <2>6 DEF KeyStep
<1>3. ~Tick
  BY <1>1, TickKeeps
<1>4. ~Expire /\ ~PurgeTombstone
  BY DEF Expire, PurgeTombstone, Absent, Tombstone
<1> QED BY <1>2, <1>3, <1>4, KeySteps

\* Within a lineage of generations a lease passes to another pod only once it
\* is older than its duration, however calls are delayed, lost or overtaken.
THEOREM TakeoverNeedsExpiry == Spec => TakeoverOnlyAfterExpiry
<1> DEFINE Step == entry.kind = "lease" /\ entry'.kind = "lease"
                     /\ entry'.holder # entry.holder /\ entry'.gen > 1
                   => entry.age > LeaseDuration /\ entry'.gen = NextGeneration(entry.gen)
<1>1. IInv /\ [Next]_vars => [Step]_vars
  BY TakeoverStep
<1>2. Spec => [][Next]_vars
  BY DEF Spec
<1> QED BY <1>1, <1>2, Invariance, PTL DEF TakeoverOnlyAfterExpiry

\* A step that removes a lease still within its time to live is the holder's
\* own conditional delete.
LEMMA DeleteStep ==
  ASSUME IInv, [Next]_vars, entry.kind = "lease", entry'.kind # "lease",
         entry.ttl < LeaseDuration
  PROVE  \E p \in Pods : /\ entry.holder = p
                         /\ pc[p] \in {"release", "shutDel"}
                         /\ pc'[p] # pc[p]
<1>1. TypeOK /\ \A p \in Pods : PodKnows(p)
  BY DEF IInv
<1>2. ASSUME NEW p \in Pods, KeyStep(p)
      PROVE  entry.holder = p /\ pc[p] \in {"release", "shutDel"} /\ pc'[p] # pc[p]
  <2>1. CASE Create(p)
    BY <2>1 DEF Create
  <2>2. CASE Overwrite(p) \/ Reclaim(p) \/ Takeover(p)
    BY <2>2 DEF Overwrite, Reclaim, Takeover, WriteAcquired, GiveUpAttempt, Lease
  <2>3. CASE Renew(p)
    BY <2>3 DEF Renew, Lease
  <2>4. CASE Release(p)
    <3>1. RevisionMatches(rev[p]) /\ pc[p] = "release"
      BY <2>4 DEF Release, DeleteWithRevision
    <3>2. pc'[p] = "acquire"
      BY <1>1, <2>4, GotoUntouched DEF Release
    <3> QED BY <1>1, <3>1, <3>2 DEF PodKnows
  <2>5. CASE ShutdownDelete(p)
    <3>1. RevisionMatches(seen[p]) /\ pc[p] = "shutDel"
      BY <2>5 DEF ShutdownDelete, DeleteWithRevision
    <3>2. pc'[p] = "stopped"
      BY <1>1, <2>5, LeaveUntouched DEF ShutdownDelete
    <3> QED BY <1>1, <3>1, <3>2 DEF PodKnows
  <2> QED BY <1>2, <2>1, <2>2, <2>3, <2>4, <2>5 DEF KeyStep
<1>3. ~Tick
  BY <1>1, TickKeeps
<1>4. ~PurgeTombstone
  BY DEF PurgeTombstone
<1>5. ~Expire
  <2>1. entry.ttl \in Nat
    BY <1>1, ConstantsAssumption DEF TypeOK, Entries
  <2> QED BY <2>1, ConstantsAssumption DEF Expire
<1> QED BY <1>2, <1>3, <1>4, <1>5, KeySteps

\* No hand-over and no shutdown deletes a live lease of another pod.
THEOREM DeletedByHolder == Spec => DeletedOnlyByHolder
<1> DEFINE Step == entry.kind = "lease" /\ entry'.kind # "lease" /\ entry.ttl < LeaseDuration
                   => \E p \in Pods : /\ entry.holder = p
                                      /\ pc[p] \in {"release", "shutDel"}
                                      /\ pc'[p] # pc[p]
<1>1. IInv /\ [Next]_vars => [Step]_vars
  BY DeleteStep
<1>2. Spec => [][Next]_vars
  BY DEF Spec
<1> QED BY <1>1, <1>2, Invariance, PTL DEF DeletedOnlyByHolder

-----------------------------------------------------------------------------
(* What the flow is told. *)

\* What the flow of p does by what it has read, and by what it will have read.
Acts(p) == IF flow[p] = "running" THEN "Leader" ELSE "NotLeader"
WillAct(p) == IF chan[p] = <<>> THEN Acts(p) ELSE chan[p][Len(chan[p])]

\* Every message on its way says something new.
TellsNews(p) ==
  /\ chan[p] # <<>> => chan[p][1] # Acts(p)
  /\ \A i \in 1..(Len(chan[p]) - 1) : chan[p][i] # chan[p][i + 1]

\* The inductive form of FlowFollowsLease.  The messages stay news also while
\* the pod shuts down, and a process that is gone leaves none behind.
FlowKnows(p) ==
  /\ pc[p] = "down" => chan[p] = <<>>
  /\ Listening(p) => TellsNews(p)
  /\ Listening(p) /\ pc[p] \in LeaseTask => (WillAct(p) = "Leader" <=> pc[p] \in Leading)

FlowInv == \A p \in Pods : FlowKnows(p)

Messages == {"Leader", "NotLeader"}

LEMMA EmptyMessages ==
  ASSUME NEW s \in Seq(Messages)
  PROVE  s = <<>> <=> Len(s) = 0
OBVIOUS

LEMMA FlowTypes ==
  ASSUME TypeOK, NEW p \in Pods
  PROVE  chan[p] \in Seq(Messages) /\ WillAct(p) \in Messages /\ Acts(p) \in Messages
<1>1. chan[p] \in Seq(Messages) /\ Acts(p) \in Messages
  BY DEF TypeOK, Messages, Acts
<1> QED BY <1>1 DEF WillAct

\* A step about pod p leaves what the other pods know.
LEMMA FlowOthers ==
  ASSUME FlowInv, NEW p \in Pods, FlowKnows(p)',
         \A q \in Pods \ {p} : pc'[q] = pc[q] /\ chan'[q] = chan[q] /\ flow'[q] = flow[q]
  PROVE  FlowInv'
<1>1. ASSUME NEW q \in Pods \ {p} PROVE FlowKnows(q)'
  BY <1>1 DEF FlowInv, FlowKnows, Listening, TellsNews, WillAct, Acts
<1> QED BY <1>1 DEF FlowInv

\* The lease task moves and says nothing.
LEMMA Silent ==
  ASSUME FlowInv, NEW p \in Pods, UNCHANGED <<chan, flow>>,
         \A q \in Pods \ {p} : pc'[q] = pc[q],
         pc'[p] = "down" => chan[p] = <<>>,
         Listening(p) /\ pc'[p] \in LeaseTask =>
           pc[p] \in LeaseTask /\ (pc'[p] \in Leading <=> pc[p] \in Leading)
  PROVE  FlowInv'
<1>1. FlowKnows(p)'
  BY DEF FlowInv, FlowKnows, Listening, TellsNews, WillAct, Acts
<1> QED BY <1>1, FlowOthers

\* The lease task sends `msg`, which is news to the flow.
LEMMA Sends ==
  ASSUME TypeOK, FlowInv, NEW p \in Pods, NEW msg \in Messages, Listening(p), UNCHANGED flow,
         chan' = [chan EXCEPT ![p] = Append(@, msg)],
         \A q \in Pods \ {p} : pc'[q] = pc[q],
         pc[p] \in LeaseTask, pc'[p] \in LeaseTask,
         msg = "Leader" <=> pc[p] \notin Leading,
         msg = "Leader" <=> pc'[p] \in Leading
  PROVE  FlowInv'
<1>1. chan[p] \in Seq(Messages) /\ chan'[p] = Append(chan[p], msg) /\ WillAct(p) \in Messages
  BY FlowTypes DEF TypeOK
<1>2. TellsNews(p) /\ (WillAct(p) = "Leader" <=> pc[p] \in Leading)
  BY DEF FlowInv, FlowKnows
<1>3. msg # WillAct(p)
  BY <1>1, <1>2 DEF Messages
<1>4. /\ Len(chan'[p]) = Len(chan[p]) + 1 /\ Len(chan[p]) \in Nat /\ chan'[p][Len(chan[p]) + 1] = msg
      /\ \A i \in 1..Len(chan[p]) : chan'[p][i] = chan[p][i]
      /\ chan'[p] # <<>>
  BY <1>1
<1>5. TellsNews(p)'
  <2>1. chan'[p][1] # Acts(p)
    <3>1. CASE chan[p] = <<>>
      BY <1>3, <1>4, <3>1 DEF WillAct
    <3>2. CASE chan[p] # <<>>
      <4>1. Len(chan[p]) >= 1
        BY <1>1, <3>2
      <4> QED BY <1>2, <1>4, <3>2, <4>1 DEF TellsNews
    <3> QED BY <3>1, <3>2
  <2>2. ASSUME NEW i \in 1..(Len(chan'[p]) - 1) PROVE chan'[p][i] # chan'[p][i + 1]
    <3>1. CASE i = Len(chan[p])
      <4>1. chan[p] # <<>>
        BY <1>4, <3>1
      <4>2. chan'[p][i] = WillAct(p)
        BY <1>4, <3>1, <4>1 DEF WillAct
      <4> QED BY <1>3, <1>4, <3>1, <4>2
    <3>2. CASE i # Len(chan[p])
      <4>1. i \in 1..(Len(chan[p]) - 1) /\ i + 1 \in 1..Len(chan[p]) /\ i \in 1..Len(chan[p])
        BY <1>4, <3>2
      <4> QED BY <1>2, <1>4, <4>1 DEF TellsNews
    <3> QED BY <3>1, <3>2
  <2> QED BY <2>1, <2>2 DEF TellsNews, Acts
<1>6. WillAct(p)' = msg
  BY <1>4 DEF WillAct
<1>7. pc'[p] # "down"
  BY DEF LeaseTask, Acquiring, Leading
<1>8. FlowKnows(p)'
  BY <1>5, <1>6, <1>7 DEF FlowKnows
<1>9. \A q \in Pods \ {p} : chan'[q] = chan[q]
  BY DEF TypeOK
<1> QED BY <1>8, <1>9, FlowOthers

\* response_tx.send, as the acquisition and the lost renewal use it.
LEMMA SendsOrEnds ==
  ASSUME TypeOK, FlowInv, NEW p \in Pods, NEW msg \in Messages, NEW s \in LeaseTask,
         SendOrEnd(p, msg, s), UNCHANGED flow, pc[p] \in LeaseTask,
         msg = "Leader" <=> pc[p] \notin Leading,
         msg = "Leader" <=> s \in Leading
  PROVE  FlowInv'
<1>1. CASE Listening(p)
  <2>1. Leave(p, s) /\ chan' = [chan EXCEPT ![p] = Append(@, msg)]
    BY <1>1 DEF SendOrEnd
  <2>2. pc'[p] = s /\ \A q \in Pods \ {p} : pc'[q] = pc[q]
    BY <2>1, LeaveUntouched
  <2> QED BY <1>1, <2>1, <2>2, Sends
<1>2. CASE ~Listening(p)
  <2>1. Leave(p, "ended") /\ UNCHANGED chan
    BY <1>2 DEF SendOrEnd
  <2>2. pc'[p] = "ended" /\ \A q \in Pods \ {p} : pc'[q] = pc[q]
    BY <2>1, LeaveUntouched
  <2> QED BY <1>2, <2>1, <2>2, Silent
<1> QED BY <1>1, <1>2

\* A lease that was written is told to the flow when the reply arrives.
LEMMA WriteFlow ==
  ASSUME TypeOK, FlowInv, NEW p \in Pods, NEW g, pc[p] \in Acquiring, WriteAcquired(p, g)
  PROVE  FlowInv'
<1>1. /\ pc[p] \in LeaseTask /\ pc[p] \notin Leading /\ "renew" \in LeaseTask \cap Leading
      /\ "acquire" \in LeaseTask \ Leading /\ "acquire" # "down" /\ "Leader" \in Messages
  BY DEF LeaseTask, Acquiring, Leading, Messages
<1>2. CASE SendOrEnd(p, "Leader", "renew")
  BY <1>1, <1>2, SendsOrEnds DEF WriteAcquired
<1>3. CASE Leave(p, "acquire") /\ UNCHANGED chan
  BY <1>1, <1>3, LeaveUntouched, Silent DEF WriteAcquired
<1> QED BY <1>2, <1>3 DEF WriteAcquired

\* The steps of the lease task that tell the flow nothing.
LEMMA QuietFlow ==
  ASSUME TypeOK, FlowInv, NEW p \in Pods, UNCHANGED <<chan, flow>>,
         NEW s \in PCs \ {"down"}, Leave(p, s) \/ Goto(p, s),
         s \in LeaseTask => pc[p] \in LeaseTask /\ (s \in Leading <=> pc[p] \in Leading)
  PROVE  FlowInv'
<1>1. pc'[p] = s /\ \A q \in Pods \ {p} : pc'[q] = pc[q]
  BY LeaveUntouched, GotoUntouched
<1> QED BY <1>1, Silent

\* An acquisition that goes on, waits or takes the lease.
LEMMA AcquiringFlow ==
  ASSUME TypeOK, FlowInv, NEW p \in Pods,
         StartAcquire(p) \/ Create(p) \/ GetWithRevision(p) \/ GetRevision(p)
           \/ Overwrite(p) \/ Reclaim(p) \/ Takeover(p)
  PROVE  FlowInv'
<1>1. pc[p] \in Acquiring
  BY DEF Acquiring, StartAcquire, Create, GetWithRevision, GetRevision, Overwrite, Reclaim, Takeover
<1>2. Acquiring \subseteq LeaseTask \ Leading /\ Acquiring \subseteq PCs \ {"down"} /\ "acquire" \in Acquiring
  BY DEF LeaseTask, Acquiring, Leading, PCs
<1>3. CASE \E g : WriteAcquired(p, g)
  BY <1>1, <1>3, WriteFlow
<1>4. CASE GiveUpAttempt(p)
  <2>1. Leave(p, "acquire") /\ UNCHANGED <<chan, flow>>
    BY <1>4 DEF GiveUpAttempt, flowVars
  <2> QED BY <1>1, <1>2, <2>1, QuietFlow
<1>5. CASE (\E s \in Acquiring : Goto(p, s)) /\ UNCHANGED <<chan, flow>>
  BY <1>1, <1>2, <1>5, QuietFlow
<1>6. CASE StartAcquire(p) \/ Create(p) \/ GetWithRevision(p) \/ GetRevision(p)
  <2>1. ReadLease(p) # "acquire" => ReadLease(p) \in Acquiring
    BY DEF ReadLease, Acquiring
  <2> QED BY <1>3, <1>4, <1>5, <1>6, <2>1
          DEF StartAcquire, Create, GetWithRevision, GetRevision, flowVars, Acquiring
<1>7. CASE Overwrite(p) \/ Reclaim(p) \/ Takeover(p)
  BY <1>3, <1>4, <1>7 DEF Overwrite, Reclaim, Takeover
<1> QED BY <1>6, <1>7

\* A renewal that goes on, is lost or hands over.
LEMMA RenewingFlow ==
  ASSUME TypeOK, FlowInv, NEW p \in Pods,
         StartRenew(p) \/ Renew(p) \/ Lost(p) \/ HandOver(p) \/ Release(p)
  PROVE  FlowInv'
<1>1. /\ Leading \subseteq LeaseTask /\ Leading \subseteq PCs \ {"down"}
      /\ {"acquire", "release"} \subseteq (LeaseTask \ Leading) \cap (PCs \ {"down"})
      /\ "NotLeader" \in Messages
  BY DEF LeaseTask, Acquiring, Leading, PCs, Messages
<1>2. CASE StartRenew(p)
  BY <1>1, <1>2, QuietFlow DEF StartRenew, flowVars, Leading
<1>3. CASE Renew(p)
  <2>1. pc[p] \in Leading /\ UNCHANGED <<chan, flow>>
    BY <1>3 DEF Renew, flowVars, Leading
  <2>2. \E s \in Leading : Leave(p, s)
    BY <1>3 DEF Renew, Leading
  <2> QED BY <1>1, <2>1, <2>2, QuietFlow
<1>4. CASE Lost(p)
  <2>1. pc[p] \in Leading
    BY <1>4 DEF Lost, Leading
  <2> QED BY <1>1, <1>4, <2>1, SendsOrEnds DEF Lost
<1>5. CASE HandOver(p)
  <2>1. pc[p] \in Leading /\ "renew" \in Leading
    BY <1>5 DEF HandOver, Leading
  <2>2. CASE Listening(p)
    <3>1. chan' = [chan EXCEPT ![p] = Append(@, "NotLeader")] /\ UNCHANGED flow
      BY <1>5, <2>2 DEF HandOver
    <3>2. pc'[p] = "release" /\ \A q \in Pods \ {p} : pc'[q] = pc[q]
      BY <1>5, <2>2, GotoUntouched DEF HandOver
    <3> QED BY <1>1, <2>1, <2>2, <3>1, <3>2, Sends
  <2>3. CASE ~Listening(p)
    BY <1>1, <1>5, <2>1, <2>3, QuietFlow DEF HandOver
  <2> QED BY <2>2, <2>3
<1>6. CASE Release(p)
  BY <1>1, <1>6, QuietFlow DEF Release, flowVars
<1> QED BY <1>2, <1>3, <1>4, <1>5, <1>6

\* A call that fails stays where it was: an acquisition, a leader, a shutdown.
LEMMA FailingFlow ==
  ASSUME TypeOK, FlowInv, NEW p \in Pods, CallFails(p)
  PROVE  FlowInv'
<1>1. UNCHANGED <<chan, flow>>
  BY DEF CallFails, flowVars
<1>2. /\ (InCall \ {"renewing"}) \cup {"release"} \subseteq LeaseTask \ Leading
      /\ {"renewing", "lost", "renew"} \subseteq Leading \cap LeaseTask
      /\ "acquire" \in LeaseTask \ Leading /\ "stopped" \notin LeaseTask
      /\ {"acquire", "renew", "stopped"} \subseteq PCs \ {"down"}
  BY DEF InCall, LeaseTask, Acquiring, Leading, PCs
<1>3. CASE pc[p] \in (InCall \ {"renewing"}) \cup {"release"} /\ Leave(p, "acquire")
  BY <1>1, <1>2, <1>3, QuietFlow
<1>4. CASE pc[p] \in {"renewing", "lost"} /\ Leave(p, "renew")
  BY <1>1, <1>2, <1>4, QuietFlow
<1>5. CASE Leave(p, "stopped")
  BY <1>1, <1>2, <1>5, QuietFlow
<1> QED BY <1>3, <1>4, <1>5 DEF CallFails

\* The flow reads what it was told, and then acts on it.
LEMMA MonitorFlow ==
  ASSUME TypeOK, FlowInv, NEW p \in Pods, MonitorRecv(p)
  PROVE  FlowInv'
<1> DEFINE msg == Head(chan[p])
<1>1. chan[p] \in Seq(Messages) /\ chan[p] # <<>> /\ Listening(p)
  BY FlowTypes DEF MonitorRecv
<1>2. /\ msg \in Messages /\ msg = chan[p][1]
      /\ Len(chan[p]) \in Nat \ {0} /\ Len(Tail(chan[p])) = Len(chan[p]) - 1
      /\ \A i \in 1..(Len(chan[p]) - 1) : Tail(chan[p])[i] = chan[p][i + 1]
      /\ Tail(chan[p]) = <<>> <=> Len(chan[p]) = 1
  <2>1. msg = chan[p][1] /\ Len(chan[p]) \in Nat \ {0}
    BY <1>1
  <2>2. msg \in Messages
    BY <1>1, <2>1
  <2>3. /\ Tail(chan[p]) \in Seq(Messages) /\ Len(Tail(chan[p])) = Len(chan[p]) - 1
        /\ \A i \in 1..(Len(chan[p]) - 1) : Tail(chan[p])[i] = chan[p][i + 1]
    BY <1>1
  <2>4. Tail(chan[p]) = <<>> <=> Len(chan[p]) = 1
    <3>1. Tail(chan[p]) = <<>> <=> Len(Tail(chan[p])) = 0
      BY ONLY <2>3, EmptyMessages
    <3>2. Len(chan[p]) - 1 = 0 <=> Len(chan[p]) = 1
      BY ONLY <2>1
    <3> QED BY ONLY <2>3, <3>1, <3>2
  <2> QED BY <2>1, <2>2, <2>3, <2>4
<1>3. /\ chan'[p] = Tail(chan[p]) /\ UNCHANGED pc
      /\ \A q \in Pods \ {p} : chan'[q] = chan[q] /\ flow'[q] = flow[q]
  BY DEF MonitorRecv, TypeOK
<1>4. flow'[p] = IF msg = "Leader" THEN "running"
                 ELSE IF flow[p] = "first" THEN "first" ELSE "again"
  BY DEF MonitorRecv, TypeOK
<1>5. Acts(p)' = msg
  BY <1>2, <1>4 DEF Acts, Messages
<1>6. TellsNews(p)
  BY <1>1 DEF FlowInv, FlowKnows
<1>7. TellsNews(p)'
  <2>1. ASSUME chan'[p] # <<>> PROVE chan'[p][1] # Acts(p)'
    <3>1. 1 \in 1..(Len(chan[p]) - 1)
      BY <1>2, <1>3, <2>1
    <3>2. chan[p][1] # chan[p][1 + 1] /\ chan'[p][1] = chan[p][1 + 1]
      BY <1>2, <1>3, <1>6, <3>1 DEF TellsNews
    <3> QED BY <1>2, <1>5, <3>2
  <2>2. ASSUME NEW i \in 1..(Len(chan'[p]) - 1) PROVE chan'[p][i] # chan'[p][i + 1]
    <3>1. i \in 1..(Len(chan[p]) - 1) /\ i + 1 \in 1..(Len(chan[p]) - 1)
      BY <1>2, <1>3
    <3> QED BY <1>2, <1>3, <1>6, <3>1 DEF TellsNews
  <2> QED BY <2>1, <2>2 DEF TellsNews
<1>8. WillAct(p)' = WillAct(p)
  <2>1. CASE Len(chan[p]) = 1
    BY <1>1, <1>2, <1>3, <1>5, <2>1 DEF WillAct
  <2>2. CASE Len(chan[p]) # 1
    <3>1. Len(chan[p]) - 1 \in 1..(Len(chan[p]) - 1) /\ chan'[p] # <<>>
      BY <1>2, <1>3, <2>2
    <3>2. chan'[p][Len(chan[p]) - 1] = chan[p][Len(chan[p])]
      BY <1>2, <1>3, <3>1
    <3> QED BY <1>1, <1>2, <1>3, <3>1, <3>2 DEF WillAct
  <2> QED BY <2>1, <2>2
<1>9. FlowKnows(p)'
  BY <1>1, <1>3, <1>7, <1>8 DEF FlowInv, FlowKnows
<1> QED BY <1>3, <1>9, FlowOthers

\* A monitor that returns listens no more.
LEMMA ReturnFlow ==
  ASSUME TypeOK, FlowInv, NEW p \in Pods, TasksComplete(p) \/ MonitorClosed(p)
  PROVE  FlowInv'
<1>1. /\ UNCHANGED <<pc, chan>> /\ flow'[p] = "ended"
      /\ \A q \in Pods \ {p} : flow'[q] = flow[q]
  BY DEF TasksComplete, MonitorClosed, callVars, TypeOK
<1>2. FlowKnows(p)'
  BY <1>1 DEF FlowInv, FlowKnows, Listening
<1> QED BY <1>1, <1>2, FlowOthers

\* A process that is gone has no channel.
LEMMA GoneFlow ==
  ASSUME TypeOK, FlowInv, NEW p \in Pods, Gone(p)
  PROVE  FlowInv'
<1>1. /\ chan'[p] = <<>> /\ flow'[p] = "off"
      /\ \A q \in Pods \ {p} : chan'[q] = chan[q] /\ flow'[q] = flow[q]
  BY DEF Gone, TypeOK
<1>2. \A q \in Pods \ {p} : pc'[q] = pc[q]
  BY LeaveUntouched DEF Gone
<1>3. FlowKnows(p)'
  BY <1>1 DEF FlowKnows, Listening
<1> QED BY <1>1, <1>2, <1>3, FlowOthers

\* A pod that comes back has a new channel, and its flow waits.
LEMMA RestartFlow ==
  ASSUME TypeOK, FlowInv, NEW p \in Pods, Restart(p)
  PROVE  FlowInv'
<1>1. /\ pc'[p] = "acquire" /\ flow'[p] = "first" /\ chan'[p] = <<>>
      /\ \A q \in Pods \ {p} : pc'[q] = pc[q] /\ chan'[q] = chan[q] /\ flow'[q] = flow[q]
  BY GotoUntouched DEF Restart, TypeOK, FlowInv, FlowKnows
<1>2. WillAct(p)' = "NotLeader" /\ TellsNews(p)'
  BY <1>1 DEF WillAct, Acts, TellsNews
<1>3. FlowKnows(p)'
  BY <1>1, <1>2 DEF FlowKnows, Leading
<1> QED BY <1>1, <1>3, FlowOthers

LEMMA FlowStep == TypeOK /\ FlowInv /\ [Next]_vars => FlowInv'
<1> SUFFICES ASSUME TypeOK, FlowInv, [Next]_vars PROVE FlowInv'
  OBVIOUS
<1>1. ASSUME NEW p \in Pods,
             StartAcquire(p) \/ Create(p) \/ GetWithRevision(p) \/ GetRevision(p)
               \/ Overwrite(p) \/ Reclaim(p) \/ Takeover(p)
      PROVE FlowInv'
  BY <1>1, AcquiringFlow
<1>2. ASSUME NEW p \in Pods, StartRenew(p) \/ Renew(p) \/ Lost(p) \/ HandOver(p) \/ Release(p)
      PROVE FlowInv'
  BY <1>2, RenewingFlow
<1>3. ASSUME NEW p \in Pods, CallFails(p) PROVE FlowInv'
  BY <1>3, FailingFlow
<1>4. ASSUME NEW p \in Pods, MonitorRecv(p) PROVE FlowInv'
  BY <1>4, MonitorFlow
<1>5. ASSUME NEW p \in Pods, TasksComplete(p) \/ MonitorClosed(p) PROVE FlowInv'
  BY <1>5, ReturnFlow
<1>6. ASSUME NEW p \in Pods, Shutdown(p) \/ ShutdownRead(p) \/ ShutdownDelete(p) PROVE FlowInv'
  <2>1. UNCHANGED <<chan, flow>> /\ \E s \in {"shutRead", "shutDel", "stopped"} : Leave(p, s) \/ Goto(p, s)
    BY <1>6 DEF Shutdown, ShutdownRead, ShutdownDelete, flowVars
  <2>2. {"shutRead", "shutDel", "stopped"} \subseteq PCs \ ({"down"} \cup LeaseTask)
    BY DEF PCs, LeaseTask, Acquiring, Leading
  <2> QED BY <2>1, <2>2, QuietFlow
<1>7. ASSUME NEW p \in Pods, Exit(p) \/ Crash(p) PROVE FlowInv'
  BY <1>7, GoneFlow DEF Exit, Crash
<1>8. ASSUME NEW p \in Pods, Restart(p) PROVE FlowInv'
  BY <1>8, RestartFlow
<1>9. CASE Tick \/ Expire \/ PurgeTombstone \/ UNCHANGED vars
  <2>1. UNCHANGED <<pc, chan, flow>>
    BY <1>9 DEF Tick, Expire, PurgeTombstone, vars, flowVars
  <2> QED BY <2>1 DEF FlowInv, FlowKnows, Listening, TellsNews, WillAct, Acts
<1> QED BY <1>1, <1>2, <1>3, <1>4, <1>5, <1>6, <1>7, <1>8, <1>9 DEF Next

\* What FlowFollowsLease says of the flow's state and its messages in a row.
LEMMA FollowsFromKnows ==
  ASSUME TypeOK, FlowInv
  PROVE  FlowFollowsLease
<1> SUFFICES ASSUME NEW p \in Pods, pc[p] \in LeaseTask, Listening(p)
             PROVE  LET states == <<Acts(p)>> \o chan[p]
                    IN /\ states[Len(states)] = "Leader" <=> pc[p] \in Leading
                       /\ \A i \in 1..Len(chan[p]) : states[i] # states[i + 1]
  BY DEF FlowFollowsLease, Acts
<1> DEFINE states == <<Acts(p)>> \o chan[p]
<1>1. TellsNews(p) /\ (WillAct(p) = "Leader" <=> pc[p] \in Leading)
  BY DEF FlowInv, FlowKnows
<1>2. chan[p] \in Seq(Messages) /\ Len(chan[p]) \in Nat
  BY FlowTypes
<1>3. /\ Len(states) = Len(chan[p]) + 1 /\ states[1] = Acts(p)
      /\ \A i \in 1..Len(chan[p]) : states[i + 1] = chan[p][i]
  BY <1>2
<1>4. states[Len(states)] = WillAct(p)
  <2>1. CASE chan[p] = <<>>
    BY <1>3, <2>1 DEF WillAct
  <2>2. CASE chan[p] # <<>>
    <3>1. Len(chan[p]) \in 1..Len(chan[p])
      BY <1>2, <2>2
    <3> QED BY <1>3, <2>2, <3>1 DEF WillAct
  <2> QED BY <2>1, <2>2
<1>5. ASSUME NEW i \in 1..Len(chan[p]) PROVE states[i] # states[i + 1]
  <2>1. CASE i = 1
    BY <1>1, <1>2, <1>3, <2>1 DEF TellsNews
  <2>2. CASE i # 1
    <3>1. i - 1 \in 1..(Len(chan[p]) - 1) /\ i - 1 \in 1..Len(chan[p])
      BY <1>2, <2>2
    <3>2. states[(i - 1) + 1] = chan[p][i - 1] /\ states[i + 1] = chan[p][i]
      BY <1>3, <3>1
    <3>3. chan[p][i - 1] # chan[p][(i - 1) + 1] /\ (i - 1) + 1 = i
      BY <1>1, <3>1 DEF TellsNews
    <3> QED BY <3>2, <3>3
  <2> QED BY <2>1, <2>2
<1> QED BY <1>1, <1>4, <1>5

\* The flow is told of every lease won and lost, in order and once: what it
\* will do when it has read its channel is what the lease task is.
THEOREM FlowIsTold == Spec => []FlowFollowsLease
<1>1. Init => FlowInv
  <2> SUFFICES ASSUME Init, NEW p \in Pods PROVE FlowKnows(p)
    BY DEF FlowInv
  <2>1. pc[p] = "acquire" /\ chan[p] = <<>> /\ flow[p] = "first"
    BY DEF Init
  <2>2. TellsNews(p) /\ WillAct(p) = "NotLeader"
    BY <2>1 DEF TellsNews, WillAct, Acts
  <2> QED BY <2>1, <2>2 DEF FlowKnows, Leading
<1>2. TypeOK /\ FlowInv /\ [Next]_vars => FlowInv'
  BY FlowStep
<1>3. TypeOK /\ FlowInv => FlowFollowsLease
  BY FollowsFromKnows
<1> QED BY <1>1, <1>2, <1>3, TypeCorrect, PTL DEF Spec


-----------------------------------------------------------------------------
(* Cluster: what the informer of a pod knows of the registrations.          *)

\* Records as pods build them: one under a key has a time.
PeerRecords == {r \in Records : r = NoRecord \/ r.stamp > 0}
PeerEvents == [pod : Peers, rec : PeerRecords]

PeerTypes ==
  /\ phase \in [Peers -> Phases] /\ ready \in [Peers -> BOOLEAN] /\ stamp \in [Peers -> 0..MaxStamp]
  /\ renewal \in [Peers -> PeerRecords] /\ cache \in [Peers -> PeerRecords]
  /\ watch \in [Peers -> {"closed", "open", "reading", "synced"}]
  /\ feed \in [Peers -> Seq(PeerEvents)]
  /\ unread \in [Peers -> SUBSET Peers]
  /\ found \in [Peers -> [Peers -> PeerRecords]]
  /\ informed \in [Peers -> [Peers -> PeerRecords]]

\* What is known of a pod is not older than its record, nor of one that is gone.
Current(known, r) ==
  IF r = NoRecord THEN known = NoRecord ELSE known # NoRecord /\ known.stamp >= r.stamp

\* The watch and what it has brought belong to an informer that runs.
Attached(p) ==
  /\ ~Follows(p) => feed[p] = <<>>
  /\ watch[p] \in {"closed", "open"} => found[p] = Nobody
  /\ phase[p] = "off" => watch[p] = "closed"
  /\ watch[p] \in {"open", "reading"} => phase[p] \in Running
  /\ \A i \in DOMAIN feed[p] : feed[p][i].pod = p => feed[p][i].rec # NoRecord /\ cache[p] # NoRecord

\* The last event about a pod brings its record as it is in the cache.
Arrives(p, q) ==
  \E i \in DOMAIN feed[p] :
    /\ feed[p][i].pod = q /\ feed[p][i].rec = cache[q]
    /\ \A j \in DOMAIN feed[p] : j > i => feed[p][j].pod # q

NoNews(p, q) == \A i \in DOMAIN feed[p] : feed[p][i].pod # q

\* What has been read, or is known, is current.
UpToDate(p, q) ==
  /\ watch[p] = "reading" => q \in unread[p] \/ Current(found[p][q], cache[q])
  /\ watch[p] = "synced" => Current(informed[p][q], cache[q])

\* Events that a pod wrote itself may be older than what it knows.
Follower(p, q) == Follows(p) => Arrives(p, q) \/ (UpToDate(p, q) /\ (q # p => NoNews(p, q)))

InformerInv ==
  /\ PeerTypes
  /\ \A p \in Peers : Attached(p)
  /\ \A p, q \in Peers : Follower(p, q)

LEMMA PeerBounds == MaxStamp \in Nat \ {0} /\ MaxFeed \in Nat \ {0} /\ Nobody \in [Peers -> PeerRecords] /\ NoRecord \in PeerRecords
<1>1. MaxStamp \in Nat \ {0} /\ MaxFeed \in Nat \ {0}
  BY ClusterAssumption
<1>2. NoRecord \in PeerRecords
  BY <1>1 DEF PeerRecords, Records, NoRecord
<1> QED BY <1>1, <1>2 DEF Nobody

\* A record that a pod builds.
LEMMA BuiltIs ==
  ASSUME PeerTypes, NEW p \in Peers, NEW b \in BOOLEAN
  PROVE  Built(p, b) \in PeerRecords /\ Built(p, b) # NoRecord /\ NextStamp(p) \in 0..MaxStamp
<1>1. NextStamp(p) \in 1..MaxStamp
  BY PeerBounds DEF PeerTypes, NextStamp
<1> QED BY <1>1, PeerBounds DEF Built, PeerRecords, Records, NoRecord

LEMMA InformIs ==
  ASSUME NEW recs \in [Peers -> PeerRecords], NEW q \in Peers, NEW r \in PeerRecords
  PROVE  /\ Inform(recs, q, r) \in [Peers -> PeerRecords]
         /\ \A o \in Peers \ {q} : Inform(recs, q, r)[o] = recs[o]
         /\ Current(Inform(recs, q, r)[q], r)
         /\ \A c \in PeerRecords : r # NoRecord /\ Current(recs[q], c) /\ c # NoRecord => Current(Inform(recs, q, r)[q], c)
<1>1. /\ r.stamp \in Int /\ \A o \in PeerRecords : o.stamp \in Int /\ (o # NoRecord => o.stamp > 0)
      /\ NoRecord.stamp = 0
  BY PeerBounds DEF PeerRecords, Records, NoRecord
<1>2. CASE r # NoRecord /\ r.stamp < recs[q].stamp
  <2>1. Inform(recs, q, r) = recs
    BY <1>2 DEF Inform
  <2> QED BY <1>1, <1>2, <2>1 DEF Current
<1>3. CASE ~(r # NoRecord /\ r.stamp < recs[q].stamp)
  <2>1. Inform(recs, q, r) = [recs EXCEPT ![q] = r]
    BY <1>3 DEF Inform
  <2>2. Inform(recs, q, r)[q] = r /\ \A o \in Peers \ {q} : Inform(recs, q, r)[o] = recs[o]
    BY <2>1
  <2>3. Current(r, r)
    BY <1>1 DEF Current
  <2>4. \A c \in PeerRecords : r # NoRecord /\ Current(recs[q], c) /\ c # NoRecord => Current(r, c)
    BY <1>1, <1>3 DEF Current
  <2> QED BY <2>1, <2>2, <2>3, <2>4
<1> QED BY <1>2, <1>3

LEMMA InformOther ==
  ASSUME NEW recs \in [Peers -> PeerRecords], NEW q \in Peers, NEW r \in PeerRecords, NEW o \in Peers, o # q
  PROVE  Inform(recs, q, r)[o] = recs[o]
BY DEF Inform

\* A pod whose informer's state and whose record in the cache stay.
LEMMA FollowerStays ==
  ASSUME NEW p \in Peers, NEW q \in Peers, Follower(p, q), Follows(p)' => Follows(p),
         UNCHANGED <<watch[p], feed[p], unread[p], found[p], informed[p], cache[q]>>
  PROVE  Follower(p, q)'
BY DEF Follower, Arrives, NoNews, UpToDate

\* A record is written, or removed, and its event is kept for a pod that hears of it.
LEMMA NewsArrives ==
  ASSUME InformerInv, NEW p \in Peers, NEW q \in Peers, NEW r \in PeerRecords, p = q => r # NoRecord,
         feed'[p] = Append(feed[p], [pod |-> q, rec |-> r]), cache' = [cache EXCEPT ![q] = r],
         UNCHANGED <<watch[p], unread[p], found[p]>>, Follows(p),
         \A o \in Peers \ {q} : informed'[p][o] = informed[p][o]
  PROVE  /\ \A i \in DOMAIN feed'[p] : feed'[p][i].pod = p => feed'[p][i].rec # NoRecord /\ cache'[p] # NoRecord
         /\ \A o \in Peers : Follower(p, o)'
<1> USE DEF InformerInv
<1>1. [pod |-> q, rec |-> r] \in PeerEvents
  BY DEF PeerEvents
<1>2. /\ Len(feed[p]) \in Nat /\ DOMAIN feed[p] = 1..Len(feed[p])
      /\ DOMAIN feed'[p] = 1..(Len(feed[p]) + 1)
      /\ feed'[p][Len(feed[p]) + 1] = [pod |-> q, rec |-> r]
      /\ \A i \in DOMAIN feed[p] : feed'[p][i] = feed[p][i]
  BY <1>1 DEF PeerTypes
<1>3. cache'[q] = r /\ \A o \in Peers \ {q} : cache'[o] = cache[o]
  BY DEF PeerTypes
<1>4. ASSUME NEW i \in DOMAIN feed'[p], feed'[p][i].pod = p PROVE feed'[p][i].rec # NoRecord /\ cache'[p] # NoRecord
  <2>1. CASE i = Len(feed[p]) + 1
    BY <1>2, <1>3, <1>4, <2>1
  <2>2. CASE i # Len(feed[p]) + 1
    <3>1. i \in DOMAIN feed[p] /\ feed'[p][i] = feed[p][i]
      BY <1>2, <2>2
    <3> QED BY <1>3, <1>4, <3>1 DEF Attached
  <2> QED BY <2>1, <2>2
<1>5. Follower(p, q)'
  <2>1. Len(feed[p]) + 1 \in DOMAIN feed'[p] /\ \A j \in DOMAIN feed'[p] : ~(j > Len(feed[p]) + 1)
    BY <1>2
  <2>2. feed'[p][Len(feed[p]) + 1].pod = q /\ feed'[p][Len(feed[p]) + 1].rec = cache'[q]
    BY <1>2, <1>3
  <2>3. Arrives(p, q)'
    BY <2>1, <2>2 DEF Arrives
  <2> QED BY <2>3 DEF Follower
<1>6. ASSUME NEW o \in Peers, o # q PROVE Follower(p, o)'
  <2>1. ASSUME Arrives(p, o) PROVE Arrives(p, o)'
    <3>1. PICK i \in DOMAIN feed[p] : /\ feed[p][i].pod = o /\ feed[p][i].rec = cache[o]
                                      /\ \A j \in DOMAIN feed[p] : j > i => feed[p][j].pod # o
      BY <2>1 DEF Arrives
    <3>2. i \in DOMAIN feed'[p] /\ feed'[p][i] = feed[p][i]
      BY <1>2
    <3>3. \A j \in DOMAIN feed'[p] : j > i => feed'[p][j].pod # o
      BY <1>2, <1>6, <3>1
    <3> QED BY <1>3, <1>6, <3>1, <3>2, <3>3 DEF Arrives
  <2>2. NoNews(p, o) => NoNews(p, o)'
    BY <1>2, <1>6 DEF NoNews
  <2>3. UpToDate(p, o) => UpToDate(p, o)'
    BY <1>3, <1>6 DEF UpToDate
  <2> QED BY <2>1, <2>2, <2>3 DEF Follower
<1> QED BY <1>4, <1>5, <1>6

\* put: whoever hears of the record has it last in the feed, a synced pod knows its own.
LEMMA PutKeeps ==
  ASSUME InformerInv, NEW q \in Peers, NEW r \in PeerRecords, r # NoRecord, Put(q, r),
         \A p \in Peers : phase'[p] # phase[p] => watch[p] = "closed" \/ (phase[p] \in Running /\ phase'[p] \in Running),
         phase' \in [Peers -> Phases], \A p \in Peers : phase'[p] # "off" \/ phase'[p] = phase[p],
         ready' \in [Peers -> BOOLEAN], stamp' \in [Peers -> 0..MaxStamp], renewal' \in [Peers -> PeerRecords]
  PROVE  InformerInv'
<1> USE DEF InformerInv
<1>1. /\ cache' = [cache EXCEPT ![q] = r] /\ UNCHANGED <<watch, unread, found>>
      /\ feed' = [p \in Peers |-> IF Hears(p, q) THEN Append(feed[p], [pod |-> q, rec |-> r]) ELSE feed[p]]
      /\ informed' = IF watch[q] = "synced" THEN [informed EXCEPT ![q] = Inform(@, q, r)] ELSE informed
  BY DEF Put, Broadcast
<1>2. \A p \in Peers : Follows(p)' <=> Follows(p)
  BY <1>1 DEF Follows, Attached, Running
<1>3. informed' \in [Peers -> [Peers -> PeerRecords]]
  BY <1>1, InformIs DEF PeerTypes
<1>4. [pod |-> q, rec |-> r] \in PeerEvents
  BY DEF PeerEvents
<1>5. feed' \in [Peers -> Seq(PeerEvents)]
  BY <1>1, <1>4 DEF PeerTypes
<1>6. PeerTypes'
  BY <1>1, <1>3, <1>5 DEF PeerTypes
<1>7. ASSUME NEW p \in Peers, NEW o \in Peers \ {q} PROVE informed'[p][o] = informed[p][o]
  <2>1. CASE p = q /\ watch[q] = "synced"
    <3>1. informed'[p] = Inform(informed[p], q, r) /\ informed[p] \in [Peers -> PeerRecords]
      BY <1>1, <2>1 DEF PeerTypes
    <3>2. Inform(informed[p], q, r)[o] = informed[p][o]
      BY <3>1, InformOther
    <3> QED BY <3>1, <3>2
  <2>2. CASE ~(p = q /\ watch[q] = "synced")
    BY <1>1, <2>2 DEF PeerTypes
  <2> QED BY <2>1, <2>2
<1>8. cache'[q] = r /\ \A o \in Peers \ {q} : cache'[o] = cache[o]
  BY <1>1 DEF PeerTypes
<1>9. ASSUME NEW p \in Peers
      PROVE  /\ \A i \in DOMAIN feed'[p] : feed'[p][i].pod = p => feed'[p][i].rec # NoRecord /\ cache'[p] # NoRecord
             /\ Follows(p) => \A o \in Peers : Follower(p, o)'
  <2>1. CASE Hears(p, q)
    BY <1>1, <1>7, <2>1, NewsArrives DEF Hears
  <2>2. CASE ~Hears(p, q)
    <3>1. feed'[p] = feed[p]
      BY <1>1, <2>2
    <3>2. ASSUME Follows(p), NEW o \in Peers, o # q PROVE Follower(p, o)'
      <4>1. cache'[o] = cache[o] /\ informed'[p][o] = informed[p][o] /\ UNCHANGED <<watch[p], unread[p], found[p]>>
        BY <1>1, <1>7, <1>8, <3>2
      <4>2. Arrives(p, o) => Arrives(p, o)'
        BY <3>1, <4>1 DEF Arrives
      <4>3. NoNews(p, o) => NoNews(p, o)'
        BY <3>1 DEF NoNews
      <4>4. UpToDate(p, o) => UpToDate(p, o)'
        BY <4>1 DEF UpToDate
      <4> QED BY <3>2, <4>2, <4>3, <4>4 DEF Follower
    <3>3. ASSUME Follows(p) PROVE Follower(p, q)'
      <4>1. p = q /\ watch[p] = "synced"
        BY <2>2, <3>3 DEF Hears
      <4>2. informed'[p][q] = Inform(informed[p], q, r)[q]
        BY <1>1, <4>1 DEF PeerTypes
      <4>3. Current(informed'[p][q], cache'[q])
        BY <1>8, <4>2, InformIs DEF PeerTypes
      <4> QED BY <1>1, <4>1, <4>3 DEF Follower, UpToDate
    <3>4. \A i \in DOMAIN feed'[p] : feed'[p][i].pod = p => feed'[p][i].rec # NoRecord /\ cache'[p] # NoRecord
      BY <1>8, <3>1 DEF Attached
    <3> QED BY <3>2, <3>3, <3>4
  <2> QED BY <2>1, <2>2
<1>10. ASSUME NEW p \in Peers PROVE Attached(p)'
  <2>1. ~Follows(p)' => feed'[p] = <<>>
    BY <1>1, <1>2 DEF Attached, Hears
  <2> QED BY <1>1, <1>9, <2>1 DEF Attached, Running
<1>11. \A p, o \in Peers : Follower(p, o)'
  BY <1>2, <1>9 DEF Follower
<1> QED BY <1>6, <1>10, <1>11

\* A step that leaves the informers and the cache alone.
LEMMA InformersStay ==
  ASSUME InformerInv, PeerTypes', UNCHANGED <<watch, feed, unread, found, informed, cache>>,
         \A p \in Peers : \/ phase'[p] = phase[p]
                          \/ phase'[p] # "off" /\ (phase'[p] \in Running <=> phase[p] \in Running)
                          \/ phase'[p] # "off" /\ watch[p] = "closed"
  PROVE  InformerInv'
<1> USE DEF InformerInv
<1>1. \A p \in Peers : Follows(p)' <=> Follows(p)
  BY DEF Follows
<1>2. ASSUME NEW p \in Peers PROVE Attached(p)'
  BY <1>1 DEF Attached
<1>3. \A p, q \in Peers : Follower(p, q)'
  BY <1>1, FollowerStays
<1> QED BY <1>2, <1>3

\* One informer ends, and so does its watch; what it knew may stay.
LEMMA InformerEnds ==
  ASSUME InformerInv, PeerTypes', NEW p \in Peers, feed'[p] = <<>>, found'[p] = Nobody,
         watch'[p] \in {"closed", "synced"},
         watch'[p] = "closed" \/ (phase'[p] \notin Running /\ phase'[p] # "off"),
         cache' = cache,
         \A q \in Peers \ {p} : UNCHANGED <<watch[q], feed[q], unread[q], found[q], informed[q], phase[q]>>
  PROVE  InformerInv'
<1> USE DEF InformerInv
<1>1. \A q \in Peers \ {p} : Follows(q)' <=> Follows(q)
  BY DEF Follows
<1>2. ~Follows(p)' /\ Attached(p)'
  BY DEF Follows, Attached
<1>3. ASSUME NEW q \in Peers \ {p} PROVE Attached(q)'
  BY <1>1 DEF Attached
<1>4. ASSUME NEW q \in Peers, NEW o \in Peers PROVE Follower(q, o)'
  <2>1. CASE q = p
    BY <1>2, <2>1 DEF Follower
  <2>2. CASE q # p
    BY <1>1, <2>2, FollowerStays
  <2> QED BY <2>1, <2>2
<1> QED BY <1>2, <1>3, <1>4

\* One informer goes on: its watch is open, it lists and reads, it publishes what it read.
LEMMA InformerGoes ==
  ASSUME InformerInv, NEW p \in Peers, OpenWatch(p) \/ ListKeys(p) \/ (\E q \in Peers : ReadKey(p, q)) \/ Sync(p)
  PROVE  InformerInv'
<1> USE DEF InformerInv, regVars
<1>1. /\ UNCHANGED <<phase, ready, stamp, renewal, cache, feed>>
      /\ \A q \in Peers \ {p} : UNCHANGED <<watch[q], unread[q], found[q], informed[q]>>
  BY DEF OpenWatch, ListKeys, ReadKey, Sync, PeerTypes
<1>2. PeerTypes'
  <2>1. CASE OpenWatch(p)
    BY <2>1 DEF OpenWatch, PeerTypes
  <2>2. CASE ListKeys(p)
    BY <2>2 DEF ListKeys, PeerTypes
  <2>3. ASSUME NEW q \in Peers, ReadKey(p, q) PROVE PeerTypes'
    BY <2>3 DEF ReadKey, PeerTypes
  <2>4. CASE Sync(p)
    BY <2>4, PeerBounds DEF Sync, PeerTypes
  <2> QED BY <2>1, <2>2, <2>3, <2>4
<1>3. \A q \in Peers \ {p} : Follows(q)' <=> Follows(q)
  BY <1>1 DEF Follows
<1>4. ASSUME NEW q \in Peers \ {p}, NEW o \in Peers PROVE Attached(q)' /\ Follower(q, o)'
  <2>1. Attached(q)'
    BY <1>1, <1>3 DEF Attached
  <2> QED BY <1>1, <1>3, <2>1, FollowerStays
<1>5. /\ watch[p] \in {"closed", "open", "reading"} /\ phase[p] \in Running /\ phase[p] # "off"
      /\ watch'[p] \in {"open", "reading", "synced"}
  BY DEF OpenWatch, ListKeys, ReadKey, Sync, PeerTypes, Attached, Running
<1>6. Attached(p)'
  <2>1. watch'[p] = "open" => found'[p] = Nobody
    BY DEF OpenWatch, ListKeys, ReadKey, Sync, PeerTypes, Attached
  <2> QED BY <1>1, <1>5, <2>1 DEF Attached, Follows
<1>7. ASSUME NEW o \in Peers PROVE Follower(p, o)'
  <2>0. (Arrives(p, o)' <=> Arrives(p, o)) /\ (NoNews(p, o)' <=> NoNews(p, o)) /\ cache' = cache
    BY <1>1 DEF Arrives, NoNews
  <2>1. CASE OpenWatch(p)
    <3>1. watch[p] = "closed" /\ watch'[p] = "open"
      BY <2>1 DEF OpenWatch, PeerTypes
    <3>2. feed[p] = <<>>
      BY <3>1 DEF Attached, Follows
    <3>3. NoNews(p, o)
      BY <3>2 DEF NoNews
    <3> QED BY <2>0, <3>1, <3>3 DEF Follower, UpToDate
  <2>2. CASE ListKeys(p)
    <3>1. watch[p] = "open" /\ watch'[p] = "reading" /\ unread'[p] = {q \in Peers : cache[q] # NoRecord} /\ found'[p] = Nobody
      BY <2>2 DEF ListKeys, PeerTypes, Attached
    <3>2. UpToDate(p, o)'
      BY <2>0, <3>1 DEF UpToDate, Current, Nobody
    <3> QED BY <1>5, <2>0, <3>1, <3>2 DEF Follower, Follows
  <2>3. ASSUME NEW q \in Peers, ReadKey(p, q) PROVE Follower(p, o)'
    <3>1. /\ watch[p] = "reading" /\ watch'[p] = "reading" /\ unread'[p] = unread[p] \ {q}
          /\ found'[p] = [found[p] EXCEPT ![q] = cache[q]]
      BY <2>3 DEF ReadKey, PeerTypes
    <3>2. UpToDate(p, o) => UpToDate(p, o)'
      <4>1. CASE o = q
        <5>1. found'[p][o] = cache[o] /\ cache[o].stamp \in Int
          BY <3>1, <4>1 DEF PeerTypes, PeerRecords, Records
        <5>2. Current(found'[p][o], cache[o])
          BY <5>1 DEF Current
        <5> QED BY <2>0, <3>1, <5>2 DEF UpToDate
      <4>2. CASE o # q
        <5>1. found'[p][o] = found[p][o]
          BY <3>1, <4>2 DEF PeerTypes
        <5> QED BY <2>0, <3>1, <4>2, <5>1 DEF UpToDate
      <4> QED BY <4>1, <4>2
    <3> QED BY <1>5, <2>0, <3>1, <3>2 DEF Follower, Follows
  <2>4. CASE Sync(p)
    <3>1. watch[p] = "reading" /\ watch'[p] = "synced" /\ unread[p] = {} /\ informed'[p] = found[p]
      BY <2>4 DEF Sync, PeerTypes
    <3>2. UpToDate(p, o) => UpToDate(p, o)'
      BY <2>0, <3>1 DEF UpToDate
    <3> QED BY <1>5, <2>0, <3>1, <3>2 DEF Follower, Follows
  <2> QED BY <2>1, <2>2, <2>3, <2>4
<1> QED BY <1>2, <1>4, <1>6, <1>7

\* An event is taken: of another pod the last one brings what is in the cache, of the
\* pod itself an older one changes nothing.
LEMMA TakeKeeps ==
  ASSUME InformerInv, NEW p \in Peers, TakeEvent(p)
  PROVE  InformerInv'
<1> USE DEF InformerInv, regVars
<1>1. PICK e : e = Head(feed[p])
  OBVIOUS
<1>2. /\ watch[p] = "synced" /\ phase[p] \in Running /\ feed[p] # <<>>
      /\ UNCHANGED <<phase, ready, stamp, renewal, cache, watch, unread, found>>
      /\ feed' = [feed EXCEPT ![p] = Tail(feed[p])]
      /\ informed' = [informed EXCEPT ![p] = Inform(informed[p], e.pod, e.rec)]
  BY <1>1 DEF TakeEvent
<1>3. feed[p] \in Seq(PeerEvents) /\ informed[p] \in [Peers -> PeerRecords]
  BY DEF PeerTypes
<1>4. /\ Len(feed[p]) \in Nat /\ DOMAIN feed[p] = 1..Len(feed[p]) /\ 1 \in DOMAIN feed[p] /\ e = feed[p][1]
      /\ Tail(feed[p]) \in Seq(PeerEvents) /\ DOMAIN Tail(feed[p]) = 1..(Len(feed[p]) - 1)
      /\ \A i \in DOMAIN Tail(feed[p]) : i + 1 \in DOMAIN feed[p] /\ Tail(feed[p])[i] = feed[p][i + 1]
  BY <1>1, <1>2, <1>3
<1>5. e \in PeerEvents /\ e.pod \in Peers /\ e.rec \in PeerRecords
  <2>1. e \in PeerEvents
    BY <1>3, <1>4
  <2> QED BY <2>1 DEF PeerEvents
<1>6. /\ informed'[p] = Inform(informed[p], e.pod, e.rec) /\ feed'[p] = Tail(feed[p])
      /\ \A q \in Peers \ {p} : feed'[q] = feed[q] /\ informed'[q] = informed[q]
  BY <1>2 DEF PeerTypes
<1>7. PeerTypes'
  <2>1. Inform(informed[p], e.pod, e.rec) \in [Peers -> PeerRecords]
    BY <1>3, <1>5, InformIs
  <2>2. informed' \in [Peers -> [Peers -> PeerRecords]] /\ feed' \in [Peers -> Seq(PeerEvents)]
    BY <1>2, <1>4, <2>1 DEF PeerTypes
  <2> QED BY <1>2, <2>2 DEF PeerTypes
<1>8. \A q \in Peers : Follows(q)' <=> Follows(q)
  BY <1>2 DEF Follows
<1>9. ASSUME NEW q \in Peers PROVE Attached(q)'
  <2>1. CASE q # p
    BY <1>2, <1>6, <1>8, <2>1 DEF Attached
  <2>2. CASE q = p
    <3>1. Follows(p)
      BY <1>2 DEF Follows
    <3>2. \A i \in DOMAIN feed'[p] : feed'[p][i].pod = p => feed'[p][i].rec # NoRecord /\ cache'[p] # NoRecord
      BY <1>2, <1>4, <1>6 DEF Attached
    <3> QED BY <1>2, <1>8, <2>2, <3>1, <3>2 DEF Attached
  <2> QED BY <2>1, <2>2
<1>10. ASSUME NEW o \in Peers PROVE Follower(p, o)'
  <2>1. Arrives(p, o) \/ (UpToDate(p, o) /\ (o # p => NoNews(p, o)))
    BY <1>2 DEF Follower, Follows
  <2>2. \A i \in DOMAIN feed[p] : i # 1 => i - 1 \in DOMAIN feed'[p] /\ feed'[p][i - 1] = feed[p][i]
    BY <1>4, <1>6
  <2>3. UpToDate(p, o)' <=> Current(informed'[p][o], cache[o])
    BY <1>2 DEF UpToDate
  <2>4. ASSUME NEW i \in DOMAIN feed[p], i # 1, feed[p][i].pod = o, feed[p][i].rec = cache[o],
               \A j \in DOMAIN feed[p] : j > i => feed[p][j].pod # o
        PROVE  Arrives(p, o)'
    <3>1. i - 1 \in DOMAIN feed'[p] /\ feed'[p][i - 1].pod = o /\ feed'[p][i - 1].rec = cache'[o]
      BY <1>2, <2>2, <2>4
    <3>2. \A j \in DOMAIN feed'[p] : j > i - 1 => feed'[p][j].pod # o
      BY <1>4, <1>6, <2>4
    <3> QED BY <3>1, <3>2 DEF Arrives
  <2>5. ASSUME e.pod = o, e.rec = cache[o], \A j \in DOMAIN feed[p] : j > 1 => feed[p][j].pod # o
        PROVE  UpToDate(p, o)' /\ NoNews(p, o)'
    <3>1. Current(Inform(informed[p], e.pod, e.rec)[e.pod], e.rec)
      BY <1>3, <1>5, InformIs
    <3>2. UpToDate(p, o)'
      BY <1>6, <2>3, <2>5, <3>1
    <3>3. \A j \in DOMAIN feed'[p] : feed'[p][j].pod # o
      BY <1>4, <1>6, <2>5
    <3> QED BY <3>2, <3>3 DEF NoNews
  <2>6. CASE Arrives(p, o)
    <3>1. PICK i \in DOMAIN feed[p] : /\ feed[p][i].pod = o /\ feed[p][i].rec = cache[o]
                                      /\ \A j \in DOMAIN feed[p] : j > i => feed[p][j].pod # o
      BY <2>6 DEF Arrives
    <3>2. CASE i # 1
      BY <2>4, <3>1, <3>2 DEF Follower
    <3>3. CASE i = 1
      BY <1>4, <2>5, <3>1, <3>3 DEF Follower
    <3> QED BY <3>2, <3>3
  <2>7. CASE UpToDate(p, o) /\ (o # p => NoNews(p, o))
    <3>1. Current(informed[p][o], cache[o])
      BY <1>2, <2>7 DEF UpToDate
    <3>2. CASE e.pod # o
      <4>1. Inform(informed[p], e.pod, e.rec)[o] = informed[p][o]
        BY <1>3, <1>5, <3>2, InformOther
      <4>2. UpToDate(p, o)'
        BY <1>6, <2>3, <3>1, <3>2, <4>1
      <4>3. NoNews(p, o) => NoNews(p, o)'
        BY <1>4, <1>6 DEF NoNews
      <4> QED BY <2>7, <4>2, <4>3 DEF Follower
    <3>3. CASE e.pod = o
      <4>1. o = p /\ e.rec # NoRecord
        BY <1>4, <2>7, <3>3 DEF NoNews, Attached
      <4>2. cache[o] \in PeerRecords
        BY DEF PeerTypes
      <4>3. \A c \in PeerRecords : Current(informed[p][e.pod], c) /\ c # NoRecord =>
                                     Current(Inform(informed[p], e.pod, e.rec)[e.pod], c)
        BY <1>3, <1>5, <4>1, InformIs
      <4>4. CASE cache[o] # NoRecord
        BY <1>6, <2>3, <3>1, <3>3, <4>1, <4>2, <4>3, <4>4 DEF Follower
      <4>5. CASE cache[o] = NoRecord
        BY <1>4, <3>3, <4>1, <4>5 DEF Attached
      <4> QED BY <4>4, <4>5
    <3> QED BY <3>2, <3>3
  <2> QED BY <2>1, <2>6, <2>7
<1>11. ASSUME NEW q \in Peers \ {p}, NEW o \in Peers PROVE Follower(q, o)'
  BY <1>2, <1>6, <1>8, <1>11, FollowerStays
<1> QED BY <1>7, <1>9, <1>10, <1>11

\* deregister: the record goes, and everybody who follows hears of it.
LEMMA DeregisterKeeps ==
  ASSUME InformerInv, NEW p \in Peers, Deregister(p)
  PROVE  InformerInv'
<1> USE DEF InformerInv
<1>1. /\ phase[p] = "leaving" /\ phase' = [phase EXCEPT ![p] = "off"] /\ ready' = [ready EXCEPT ![p] = FALSE]
      /\ watch' = [watch EXCEPT ![p] = "closed"] /\ unread' = [unread EXCEPT ![p] = {}]
      /\ found' = [found EXCEPT ![p] = Nobody] /\ informed' = [informed EXCEPT ![p] = Nobody]
      /\ UNCHANGED <<stamp, renewal>>
  BY DEF Deregister, Forget
<1>2. ~Follows(p) /\ feed[p] = <<>> /\ ~Hears(p, p)
  BY <1>1 DEF Follows, Running, Attached, Hears
<1>3. \A q \in Peers \ {p} : UNCHANGED <<phase[q], watch[q], unread[q], found[q], informed[q]>>
  BY <1>1 DEF PeerTypes
<1>4. watch'[p] = "closed" /\ found'[p] = Nobody /\ phase'[p] = "off"
  BY <1>1 DEF PeerTypes
<1>5. CASE cache' = [cache EXCEPT ![p] = NoRecord] /\ Broadcast(p, NoRecord)
  <2>1. feed' = [q \in Peers |-> IF Hears(q, p) THEN Append(feed[q], [pod |-> p, rec |-> NoRecord]) ELSE feed[q]]
    BY <1>5 DEF Broadcast
  <2>2. [pod |-> p, rec |-> NoRecord] \in PeerEvents
    BY PeerBounds DEF PeerEvents
  <2>3. feed' \in [Peers -> Seq(PeerEvents)]
    BY <2>1, <2>2 DEF PeerTypes
  <2>4. PeerTypes'
    BY <1>1, <1>5, <2>3, PeerBounds DEF PeerTypes, Phases
  <2>5. feed'[p] = <<>> /\ ~Follows(p)'
    BY <1>2, <1>4, <2>1 DEF Follows
  <2>6. Attached(p)' /\ \A o \in Peers : Follower(p, o)'
    BY <1>4, <2>5 DEF Attached, Follower
  <2>7. ASSUME NEW q \in Peers \ {p} PROVE Attached(q)' /\ \A o \in Peers : Follower(q, o)'
    <3>0. (Follows(q)' <=> Follows(q)) /\ cache'[q] = cache[q]
      BY <1>3, <1>5 DEF Follows, PeerTypes
    <3>1. CASE Follows(q)
      <4>1. feed'[q] = Append(feed[q], [pod |-> p, rec |-> NoRecord])
        BY <2>1, <3>1 DEF Hears
      <4>2. /\ \A i \in DOMAIN feed'[q] : feed'[q][i].pod = q => feed'[q][i].rec # NoRecord /\ cache'[q] # NoRecord
            /\ \A o \in Peers : Follower(q, o)'
        BY <1>3, <1>5, <3>1, <4>1, PeerBounds, NewsArrives
      <4> QED BY <1>3, <3>0, <3>1, <4>2 DEF Attached
    <3>2. CASE ~Follows(q)
      <4>1. feed'[q] = feed[q]
        BY <2>1, <3>2 DEF Hears
      <4> QED BY <1>3, <3>0, <3>2, <4>1 DEF Attached, Follower
    <3> QED BY <3>1, <3>2
  <2> QED BY <2>4, <2>6, <2>7
<1>6. CASE UNCHANGED <<cache, feed>>
  <2>1. PeerTypes'
    BY <1>1, <1>6, PeerBounds DEF PeerTypes, Phases
  <2> QED BY <1>2, <1>3, <1>4, <1>6, <2>1, InformerEnds
<1> QED BY <1>5, <1>6 DEF Deregister

\* A record once its time to live has passed.
AgedRecord(r) == [r EXCEPT !.old = TRUE]

LEMMA AgedIs ==
  ASSUME NEW r \in PeerRecords
  PROVE  /\ AgedRecord(r) \in PeerRecords /\ AgedRecord(r).stamp = r.stamp /\ (AgedRecord(r) = NoRecord <=> r = NoRecord)
         /\ \A known \in PeerRecords : Current(known, r) => Current(AgedRecord(known), AgedRecord(r))
<1>1. \A s \in PeerRecords : /\ AgedRecord(s) \in PeerRecords /\ AgedRecord(s).stamp = s.stamp /\ s.stamp \in Int
                             /\ (AgedRecord(s) = NoRecord <=> s = NoRecord)
  <2> TAKE s \in PeerRecords
  <2>1. s \in Records /\ s.stamp \in Int /\ (s = NoRecord \/ s.stamp > 0)
    BY PeerBounds DEF PeerRecords, Records
  <2>4. /\ AgedRecord(s) \in Records
        /\ AgedRecord(s).stamp = s.stamp /\ AgedRecord(s).ready = s.ready /\ AgedRecord(s).old = TRUE
    BY <2>1 DEF AgedRecord, Records
  <2>5. s = NoRecord => AgedRecord(s) = NoRecord
    <3>1. \A a, b \in Records : a.stamp = b.stamp /\ a.ready = b.ready /\ a.old = b.old => a = b
      BY DEF Records
    <3>2. NoRecord \in Records /\ NoRecord.old = TRUE
      BY PeerBounds DEF PeerRecords, NoRecord
    <3> QED BY <2>1, <2>4, <3>1, <3>2
  <2>6. AgedRecord(s) = NoRecord => s = NoRecord
    BY <2>1, <2>4 DEF NoRecord
  <2>7. AgedRecord(s) \in PeerRecords
    BY <2>1, <2>4, <2>5 DEF PeerRecords
  <2> QED BY <2>1, <2>4, <2>5, <2>6, <2>7
<1> QED BY <1>1 DEF Current

\* All copies of a record age together.
LEMMA AgeKeeps ==
  ASSUME InformerInv, NEW q \in Peers, Age(q)
  PROVE  InformerInv'
<1> USE DEF InformerInv
<1>1. /\ cache' = [cache EXCEPT ![q] = AgedRecord(cache[q])] /\ renewal' = [renewal EXCEPT ![q] = AgedRecord(renewal[q])]
      /\ informed' = [p \in Peers |-> [informed[p] EXCEPT ![q] = AgedRecord(informed[p][q])]]
      /\ found' = [p \in Peers |-> [found[p] EXCEPT ![q] = AgedRecord(found[p][q])]]
      /\ feed' = [p \in Peers |-> [i \in DOMAIN feed[p] |->
                    IF feed[p][i].pod = q THEN [feed[p][i] EXCEPT !.rec = AgedRecord(feed[p][i].rec)] ELSE feed[p][i]]]
      /\ UNCHANGED <<phase, ready, stamp, watch, unread>>
  BY DEF Age, AgedRecord
<1>2. ASSUME NEW p \in Peers
      PROVE  /\ DOMAIN feed'[p] = DOMAIN feed[p] /\ feed'[p] \in Seq(PeerEvents)
             /\ \A i \in DOMAIN feed[p] : /\ feed[p][i].pod \in Peers /\ feed[p][i].rec \in PeerRecords
                                          /\ feed'[p][i].pod = feed[p][i].pod
                                          /\ feed'[p][i].rec = IF feed[p][i].pod = q THEN AgedRecord(feed[p][i].rec)
                                                                                     ELSE feed[p][i].rec
  <2>1. feed[p] \in Seq(PeerEvents)
    BY DEF PeerTypes
  <2>2. \A i \in DOMAIN feed[p] : feed[p][i] \in PeerEvents
    BY <2>1
  <2>3. \A e \in PeerEvents : /\ e.pod \in Peers /\ e.rec \in PeerRecords
                              /\ [e EXCEPT !.rec = AgedRecord(e.rec)] \in PeerEvents
                              /\ [e EXCEPT !.rec = AgedRecord(e.rec)].pod = e.pod
                              /\ [e EXCEPT !.rec = AgedRecord(e.rec)].rec = AgedRecord(e.rec)
    BY AgedIs DEF PeerEvents
  <2>4. /\ DOMAIN feed'[p] = DOMAIN feed[p]
        /\ \A i \in DOMAIN feed[p] :
             feed'[p][i] = IF feed[p][i].pod = q THEN [feed[p][i] EXCEPT !.rec = AgedRecord(feed[p][i].rec)] ELSE feed[p][i]
    BY <1>1
  <2>5. \A i \in DOMAIN feed[p] : feed'[p][i] \in PeerEvents
    BY <2>2, <2>3, <2>4
  <2>6. feed'[p] \in Seq(PeerEvents)
    <3>1. PICK n : n = Len(feed[p])
      OBVIOUS
    <3>2. n \in Nat /\ DOMAIN feed[p] = 1..n
      BY <2>1, <3>1
    <3>3. PICK g : g = feed'[p]
      OBVIOUS
    <3>4. g = [i \in 1..n |-> g[i]]
      BY <1>1, <3>2, <3>3
    <3>5. g \in [1..n -> PeerEvents]
      BY <2>5, <2>4, <3>2, <3>3, <3>4
    <3> QED BY <3>2, <3>3, <3>5, SeqDef
  <2> QED BY <2>2, <2>3, <2>4, <2>6
<1>3. \A p \in Peers : /\ informed'[p] \in [Peers -> PeerRecords] /\ found'[p] \in [Peers -> PeerRecords]
                       /\ informed'[p][q] = AgedRecord(informed[p][q]) /\ found'[p][q] = AgedRecord(found[p][q])
                       /\ \A o \in Peers \ {q} : informed'[p][o] = informed[p][o] /\ found'[p][o] = found[p][o]
  BY <1>1, AgedIs DEF PeerTypes
<1>4. /\ cache'[q] = AgedRecord(cache[q]) /\ \A o \in Peers \ {q} : cache'[o] = cache[o]
      /\ cache' \in [Peers -> PeerRecords] /\ renewal' \in [Peers -> PeerRecords]
  BY <1>1, AgedIs DEF PeerTypes
<1>5. PeerTypes'
  <2>1. feed' \in [Peers -> Seq(PeerEvents)]
    BY <1>1, <1>2
  <2>2. informed' \in [Peers -> [Peers -> PeerRecords]] /\ found' \in [Peers -> [Peers -> PeerRecords]]
    BY <1>1, <1>3
  <2> QED BY <1>1, <1>4, <2>1, <2>2 DEF PeerTypes
<1>6. \A p \in Peers : Follows(p)' <=> Follows(p)
  BY <1>1 DEF Follows
<1>7. ASSUME NEW p \in Peers PROVE Attached(p)'
  <2>1. ~Follows(p)' => feed'[p] = <<>>
    <3>1. ~Follows(p) => DOMAIN feed'[p] = {}
      BY <1>2 DEF Attached
    <3> QED BY <1>2, <1>6, <3>1
  <2>2. watch'[p] \in {"closed", "open"} => found'[p] = Nobody
    <3>1. AgedRecord(NoRecord) = NoRecord
      BY PeerBounds, AgedIs
    <3> QED BY <1>1, <3>1 DEF Attached, Nobody
  <2>3. \A i \in DOMAIN feed'[p] : feed'[p][i].pod = p => feed'[p][i].rec # NoRecord /\ cache'[p] # NoRecord
    <3> TAKE i \in DOMAIN feed'[p]
    <3>1. HAVE feed'[p][i].pod = p
    <3>2. i \in DOMAIN feed[p] /\ feed[p][i].pod = p /\ feed[p][i].rec \in PeerRecords
      BY <1>2, <3>1
    <3>3. feed[p][i].rec # NoRecord /\ cache[p] # NoRecord /\ cache[p] \in PeerRecords
      BY <3>2 DEF Attached, PeerTypes
    <3>4. p = q => AgedRecord(feed[p][i].rec) # NoRecord /\ AgedRecord(cache[p]) # NoRecord
      BY <3>2, <3>3, AgedIs
    <3>5. p = q => feed'[p][i].rec # NoRecord /\ cache'[p] # NoRecord
      BY <1>2, <1>4, <3>2, <3>4
    <3>6. p # q => feed'[p][i].rec # NoRecord /\ cache'[p] # NoRecord
      BY <1>2, <1>4, <3>2, <3>3
    <3> QED BY <3>5, <3>6
  <2> QED BY <1>1, <2>1, <2>2, <2>3 DEF Attached
<1>8. ASSUME NEW p \in Peers, NEW o \in Peers PROVE Follower(p, o)'
  <2>1. ASSUME Arrives(p, o) PROVE Arrives(p, o)'
    <3>1. PICK i \in DOMAIN feed[p] : /\ feed[p][i].pod = o /\ feed[p][i].rec = cache[o]
                                      /\ \A j \in DOMAIN feed[p] : j > i => feed[p][j].pod # o
      BY <2>1 DEF Arrives
    <3>2. i \in DOMAIN feed'[p] /\ feed'[p][i].pod = o /\ \A j \in DOMAIN feed'[p] : j > i => feed'[p][j].pod # o
      BY <1>2, <3>1
    <3>3. feed'[p][i].rec = cache'[o]
      BY <1>2, <1>4, <3>1
    <3> QED BY <3>2, <3>3 DEF Arrives
  <2>2. NoNews(p, o) => NoNews(p, o)'
    BY <1>2 DEF NoNews
  <2>3. UpToDate(p, o) => UpToDate(p, o)'
    <3>1. CASE o = q
      <4>1. cache[o] \in PeerRecords /\ informed[p][o] \in PeerRecords /\ found[p][o] \in PeerRecords
        BY DEF PeerTypes
      <4>2. /\ Current(informed[p][o], cache[o]) => Current(informed'[p][o], cache'[o])
            /\ Current(found[p][o], cache[o]) => Current(found'[p][o], cache'[o])
        BY <1>3, <1>4, <3>1, <4>1, AgedIs
      <4> QED BY <1>1, <4>2 DEF UpToDate
    <3>2. CASE o # q
      BY <1>1, <1>3, <1>4, <3>2 DEF UpToDate
    <3> QED BY <3>1, <3>2
  <2> QED BY <1>6, <2>1, <2>2, <2>3 DEF Follower
<1> QED BY <1>5, <1>7, <1>8

LEMMA InformerInit ==
  ASSUME ClusterInit
  PROVE  InformerInv
<1>1. PeerTypes
  <2>1. /\ phase \in [Peers -> Phases] /\ ready \in [Peers -> BOOLEAN] /\ stamp \in [Peers -> 0..MaxStamp]
        /\ renewal \in [Peers -> PeerRecords]
    BY PeerBounds DEF ClusterInit, Phases
  <2>2. [stamp |-> MaxStamp, ready |-> TRUE, old |-> FALSE] \in PeerRecords
    BY PeerBounds DEF PeerRecords, Records
  <2>3. cache \in [Peers -> PeerRecords]
    BY <2>2, PeerBounds DEF ClusterInit
  <2>4. /\ watch \in [Peers -> {"closed", "open", "reading", "synced"}] /\ feed \in [Peers -> Seq(PeerEvents)]
        /\ unread \in [Peers -> SUBSET Peers] /\ found \in [Peers -> [Peers -> PeerRecords]]
        /\ informed \in [Peers -> [Peers -> PeerRecords]]
    BY PeerBounds DEF ClusterInit
  <2> QED BY <2>1, <2>3, <2>4 DEF PeerTypes
<1>2. \A p \in Peers : watch[p] = "closed" /\ feed[p] = <<>> /\ found[p] = Nobody
  BY DEF ClusterInit
<1>3. \A p \in Peers : Attached(p)
  BY <1>2 DEF Attached
<1>4. \A p, q \in Peers : Follower(p, q)
  BY <1>2 DEF Follower, Follows
<1> QED BY <1>1, <1>3, <1>4 DEF InformerInv

\* A record is built, and written or not.
LEMMA RecordsKeep ==
  ASSUME InformerInv, NEW p \in Peers,
         Start(p) \/ MarkReady(p) \/ BuildRenewal(p) \/ WriteRenewal(p) \/ RenewRecord(p)
  PROVE  InformerInv'
<1>0. PeerTypes /\ Attached(p)
  BY DEF InformerInv
<1> USE DEF infVars, regVars
<1>1. ready[p] \in BOOLEAN /\ renewal[p] \in PeerRecords
  BY <1>0 DEF PeerTypes
<1>2. /\ Built(p, FALSE) \in PeerRecords /\ Built(p, FALSE) # NoRecord
      /\ Built(p, TRUE) \in PeerRecords /\ Built(p, TRUE) # NoRecord
      /\ Built(p, ready[p]) \in PeerRecords /\ Built(p, ready[p]) # NoRecord
      /\ NextStamp(p) \in 0..MaxStamp
  BY <1>0, <1>1, BuiltIs
<1>3. CASE Start(p)
  <2>1. /\ phase[p] = "off" /\ phase' = [phase EXCEPT ![p] = "starting"]
        /\ stamp' = [stamp EXCEPT ![p] = NextStamp(p)] /\ ready' = ready /\ renewal' = renewal
        /\ watch[p] = "closed"
    BY <1>0, <1>3 DEF Start, Attached
  <2>2. /\ phase' \in [Peers -> Phases] /\ stamp' \in [Peers -> 0..MaxStamp]
        /\ ready' \in [Peers -> BOOLEAN] /\ renewal' \in [Peers -> PeerRecords]
        /\ \A o \in Peers : (phase'[o] # phase[o] => watch[o] = "closed") /\ (phase'[o] # "off" \/ phase'[o] = phase[o])
    BY <1>0, <1>2, <2>1 DEF PeerTypes, Phases
  <2>3. CASE Put(p, Built(p, FALSE))
    BY <1>2, <2>2, <2>3, PutKeeps
  <2>4. CASE UNCHANGED <<cache, watch, feed, unread, found, informed>>
    <3>1. PeerTypes'
      BY <1>0, <2>2, <2>4 DEF PeerTypes
    <3>2. \A o \in Peers : phase'[o] = phase[o] \/ (phase'[o] # "off" /\ watch[o] = "closed")
      BY <2>2
    <3> QED BY <2>4, <3>1, <3>2, InformersStay
  <2> QED BY <1>3, <2>3, <2>4 DEF Start
<1>4. CASE MarkReady(p)
  <2>1. /\ phase[p] = "starting" /\ phase' = [phase EXCEPT ![p] = "up"] /\ ready' = [ready EXCEPT ![p] = TRUE]
        /\ stamp' = [stamp EXCEPT ![p] = NextStamp(p)] /\ renewal' = renewal
    BY <1>4 DEF MarkReady
  <2>2. /\ phase' \in [Peers -> Phases] /\ stamp' \in [Peers -> 0..MaxStamp]
        /\ ready' \in [Peers -> BOOLEAN] /\ renewal' \in [Peers -> PeerRecords]
    BY <1>0, <1>2, <2>1 DEF PeerTypes, Phases
  <2>3. \A o \in Peers : phase'[o] = phase[o] \/ (phase[o] \in Running /\ phase'[o] \in Running /\ phase'[o] # "off")
    BY <1>0, <2>1 DEF PeerTypes, Running
  <2>4. CASE Put(p, Built(p, TRUE))
    BY <1>2, <2>2, <2>3, <2>4, PutKeeps
  <2>5. CASE UNCHANGED <<cache, watch, feed, unread, found, informed>>
    <3>1. PeerTypes'
      BY <1>0, <2>2, <2>5 DEF PeerTypes
    <3> QED BY <2>3, <2>5, <3>1, InformersStay
  <2> QED BY <1>4, <2>4, <2>5 DEF MarkReady
<1>5. CASE BuildRenewal(p)
  <2>1. PeerTypes'
    BY <1>0, <1>2, <1>5 DEF BuildRenewal, PeerTypes
  <2> QED BY <1>5, <2>1, InformersStay DEF BuildRenewal
<1>6. CASE WriteRenewal(p)
  <2>1. /\ renewal[p] # NoRecord /\ renewal' = [renewal EXCEPT ![p] = NoRecord]
        /\ UNCHANGED <<phase, ready, stamp>>
    BY <1>6 DEF WriteRenewal
  <2>2. renewal' \in [Peers -> PeerRecords]
    BY <1>0, <2>1, PeerBounds DEF PeerTypes
  <2>3. CASE Put(p, renewal[p])
    BY <1>0, <1>1, <2>1, <2>2, <2>3, PutKeeps DEF PeerTypes
  <2>4. CASE UNCHANGED <<cache, watch, feed, unread, found, informed>>
    <3>1. PeerTypes'
      BY <1>0, <2>1, <2>2, <2>4 DEF PeerTypes
    <3> QED BY <2>1, <2>4, <3>1, InformersStay
  <2> QED BY <1>6, <2>3, <2>4 DEF WriteRenewal
<1>7. CASE RenewRecord(p)
  <2>1. /\ stamp' = [stamp EXCEPT ![p] = NextStamp(p)] /\ Put(p, Built(p, ready[p]))
        /\ UNCHANGED <<phase, ready, renewal>>
    BY <1>7 DEF RenewRecord
  <2>2. stamp' \in [Peers -> 0..MaxStamp]
    BY <1>0, <1>2, <2>1 DEF PeerTypes
  <2> QED BY <1>0, <1>2, <2>1, <2>2, PutKeeps DEF PeerTypes
<1> QED BY <1>3, <1>4, <1>5, <1>6, <1>7

\* The end of an informer: its watch breaks, the pod stops or crashes.
LEMMA EndsKeep ==
  ASSUME InformerInv, NEW p \in Peers, WatchBreaks(p) \/ Signal(p) \/ PodCrash(p)
  PROVE  InformerInv'
<1>0. PeerTypes
  BY DEF InformerInv
<1> USE DEF regVars
<1>1. CASE WatchBreaks(p)
  <2>1. /\ watch' = [watch EXCEPT ![p] = "closed"] /\ feed' = [feed EXCEPT ![p] = <<>>]
        /\ unread' = [unread EXCEPT ![p] = {}] /\ found' = [found EXCEPT ![p] = Nobody]
        /\ informed' = [informed EXCEPT ![p] = Nobody] /\ UNCHANGED <<phase, ready, stamp, renewal, cache>>
    BY <1>1 DEF WatchBreaks, CloseWatch
  <2>2. PeerTypes'
    <3>1. /\ phase' \in [Peers -> Phases] /\ ready' \in [Peers -> BOOLEAN] /\ stamp' \in [Peers -> 0..MaxStamp]
          /\ renewal' \in [Peers -> PeerRecords] /\ cache' \in [Peers -> PeerRecords]
      BY <1>0, <2>1, PeerBounds DEF PeerTypes, Phases
    <3>2. /\ watch' \in [Peers -> {"closed", "open", "reading", "synced"}] /\ unread' \in [Peers -> SUBSET Peers]
          /\ feed' \in [Peers -> Seq(PeerEvents)]
      BY <1>0, <2>1 DEF PeerTypes
    <3>3. found' \in [Peers -> [Peers -> PeerRecords]] /\ informed' \in [Peers -> [Peers -> PeerRecords]]
      BY <1>0, <2>1, PeerBounds DEF PeerTypes
    <3> QED BY <3>1, <3>2, <3>3 DEF PeerTypes
  <2>3. /\ feed'[p] = <<>> /\ found'[p] = Nobody /\ watch'[p] = "closed"
        /\ \A q \in Peers \ {p} : UNCHANGED <<watch[q], feed[q], unread[q], found[q], informed[q], phase[q]>>
    BY <1>0, <2>1 DEF PeerTypes
  <2> QED BY <2>1, <2>2, <2>3, InformerEnds
<1>2. CASE Signal(p)
  <2>1. /\ watch' = [watch EXCEPT ![p] = IF watch[p] = "synced" THEN watch[p] ELSE "closed"]
        /\ feed' = [feed EXCEPT ![p] = <<>>] /\ renewal' = [renewal EXCEPT ![p] = NoRecord]
        /\ unread' = [unread EXCEPT ![p] = {}] /\ found' = [found EXCEPT ![p] = Nobody]
        /\ phase' = [phase EXCEPT ![p] = "halting"] /\ UNCHANGED <<ready, stamp, cache, informed>>
    BY <1>2 DEF Signal
  <2>2. PeerTypes'
    <3>1. /\ phase' \in [Peers -> Phases] /\ ready' \in [Peers -> BOOLEAN] /\ stamp' \in [Peers -> 0..MaxStamp]
          /\ renewal' \in [Peers -> PeerRecords] /\ cache' \in [Peers -> PeerRecords]
      BY <1>0, <2>1, PeerBounds DEF PeerTypes, Phases
    <3>2. /\ watch' \in [Peers -> {"closed", "open", "reading", "synced"}] /\ unread' \in [Peers -> SUBSET Peers]
          /\ feed' \in [Peers -> Seq(PeerEvents)]
      BY <1>0, <2>1 DEF PeerTypes
    <3>3. found' \in [Peers -> [Peers -> PeerRecords]] /\ informed' \in [Peers -> [Peers -> PeerRecords]]
      BY <1>0, <2>1, PeerBounds DEF PeerTypes
    <3> QED BY <3>1, <3>2, <3>3 DEF PeerTypes
  <2>3. /\ feed'[p] = <<>> /\ found'[p] = Nobody /\ watch'[p] \in {"closed", "synced"} /\ phase'[p] = "halting"
        /\ \A q \in Peers \ {p} : UNCHANGED <<watch[q], feed[q], unread[q], found[q], informed[q], phase[q]>>
    BY <1>0, <2>1 DEF PeerTypes
  <2> QED BY <2>1, <2>2, <2>3, InformerEnds DEF Running
<1>3. CASE PodCrash(p)
  <2>1. /\ watch' = [watch EXCEPT ![p] = "closed"] /\ feed' = [feed EXCEPT ![p] = <<>>]
        /\ unread' = [unread EXCEPT ![p] = {}] /\ found' = [found EXCEPT ![p] = Nobody]
        /\ informed' = [informed EXCEPT ![p] = Nobody] /\ UNCHANGED <<stamp, cache>>
        /\ phase' = [phase EXCEPT ![p] = "off"] /\ ready' = [ready EXCEPT ![p] = FALSE]
        /\ renewal' = [renewal EXCEPT ![p] = NoRecord]
    BY <1>3 DEF PodCrash, CloseWatch, Forget
  <2>2. PeerTypes'
    <3>1. /\ phase' \in [Peers -> Phases] /\ ready' \in [Peers -> BOOLEAN] /\ stamp' \in [Peers -> 0..MaxStamp]
          /\ renewal' \in [Peers -> PeerRecords] /\ cache' \in [Peers -> PeerRecords]
      BY <1>0, <2>1, PeerBounds DEF PeerTypes, Phases
    <3>2. /\ watch' \in [Peers -> {"closed", "open", "reading", "synced"}] /\ unread' \in [Peers -> SUBSET Peers]
          /\ feed' \in [Peers -> Seq(PeerEvents)]
      BY <1>0, <2>1 DEF PeerTypes
    <3>3. found' \in [Peers -> [Peers -> PeerRecords]] /\ informed' \in [Peers -> [Peers -> PeerRecords]]
      BY <1>0, <2>1, PeerBounds DEF PeerTypes
    <3> QED BY <3>1, <3>2, <3>3 DEF PeerTypes
  <2>3. /\ feed'[p] = <<>> /\ found'[p] = Nobody /\ watch'[p] = "closed"
        /\ \A q \in Peers \ {p} : UNCHANGED <<watch[q], feed[q], unread[q], found[q], informed[q], phase[q]>>
    BY <1>0, <2>1 DEF PeerTypes
  <2> QED BY <2>1, <2>2, <2>3, InformerEnds
<1> QED BY <1>1, <1>2, <1>3

LEMMA InformerKept ==
  ASSUME InformerInv, [ClusterNext]_clusterVars
  PROVE  InformerInv'
<1>0. PeerTypes
  BY DEF InformerInv
<1> USE DEF infVars, regVars
<1>1. CASE \E p \in Peers : Start(p) \/ MarkReady(p) \/ BuildRenewal(p) \/ WriteRenewal(p) \/ RenewRecord(p) \/ Age(p)
  BY <1>1, RecordsKeep, AgeKeeps
<1>2. CASE \E p \in Peers : OpenWatch(p) \/ ListKeys(p) \/ Sync(p) \/ TakeEvent(p) \/ WatchBreaks(p)
  BY <1>2, InformerGoes, TakeKeeps, EndsKeep
<1>3. CASE \E p, q \in Peers : ReadKey(p, q)
  BY <1>3, InformerGoes
<1>4. CASE \E p \in Peers : Look(p) \/ Settle(p) \/ NewRound(p)
  <2>1. UNCHANGED <<phase, ready, stamp, renewal, cache, watch, feed, unread, found, informed>>
    BY <1>4 DEF Look, Settle, NewRound
  <2>2. PeerTypes'
    BY <1>0, <2>1 DEF PeerTypes
  <2> QED BY <2>1, <2>2, InformersStay
<1>5. CASE (\E p \in Peers : \E f \in Flows : HandLeaseOver(p, f) \/ Acquire(p, f)) \/ (\E f \in Flows : Lapse(f)) \/ UNCHANGED clusterVars
  <2>1. UNCHANGED <<phase, ready, stamp, renewal, cache, watch, feed, unread, found, informed>>
    BY <1>5 DEF HandLeaseOver, Acquire, Lapse, clusterVars
  <2>2. PeerTypes'
    BY <1>0, <2>1 DEF PeerTypes
  <2> QED BY <2>1, <2>2, InformersStay
<1>6. ASSUME NEW p \in Peers, ReleaseLeases(p) PROVE InformerInv'
  <2>1. /\ UNCHANGED <<ready, stamp, renewal, cache, watch, feed, unread, found, informed>>
        /\ phase[p] = "halting" /\ phase' = [phase EXCEPT ![p] = "leaving"]
    BY <1>6 DEF ReleaseLeases
  <2>2. PeerTypes'
    BY <1>0, <2>1 DEF PeerTypes, Phases
  <2>3. \A o \in Peers : \/ phase'[o] = phase[o]
                         \/ phase'[o] # "off" /\ (phase'[o] \in Running <=> phase[o] \in Running)
    BY <1>0, <2>1 DEF PeerTypes, Running
  <2> QED BY <2>1, <2>2, <2>3, InformersStay
<1>7. CASE \E p \in Peers : Signal(p) \/ ReleaseLeases(p) \/ Deregister(p) \/ PodCrash(p)
  BY <1>6, <1>7, EndsKeep, DeregisterKeeps
<1> QED BY <1>1, <1>2, <1>3, <1>4, <1>5, <1>7 DEF ClusterNext

\* InformedIsCurrent, of PeerRegistry::inform, set_informed and follow_registrations
\* (core/src/peer.rs): whatever the order of watching, listing, reading and of late renewals,
\* an informer that has taken every event knows no registration older than the cache has it.
THEOREM InformersAreCurrent == ClusterSpec => []InformedIsCurrent
<1>1. InformerInv => InformedIsCurrent
  <2> SUFFICES ASSUME InformerInv, NEW p \in Peers, watch[p] = "synced", phase[p] \in Running, feed[p] = <<>>,
                      NEW q \in Peers
               PROVE  IF cache[q] = NoRecord THEN informed[p][q] = NoRecord
                      ELSE informed[p][q] # NoRecord /\ informed[p][q].stamp >= cache[q].stamp
    BY DEF InformedIsCurrent
  <2>1. Follower(p, q) /\ Follows(p)
    BY DEF InformerInv, Follows
  <2>2. ~Arrives(p, q)
    BY DEF Arrives
  <2> QED BY <2>1, <2>2 DEF Follower, UpToDate, Current
<1>2. ClusterInit => InformerInv
  BY InformerInit
<1>3. InformerInv /\ [ClusterNext]_clusterVars => InformerInv'
  BY InformerKept
<1> QED BY <1>1, <1>2, <1>3, PTL DEF ClusterSpec
=============================================================================
