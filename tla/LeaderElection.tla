---------------------------- MODULE LeaderElection ----------------------------
(***************************************************************************)
(* Leader election of one flow among pods: Executor (core/src/executor.rs) *)
(* and the lease tasks of TaskManager (core/src/task/manager.rs) over the  *)
(* NATS key-value cache (nats/src/cache.rs), and the flow monitor          *)
(* (app/src/flow.rs) that starts and stops the flow's tasks on what the    *)
(* lease task tells it.                                                    *)
(*                                                                         *)
(* Each pod's lease task is cut at its awaits: one action per cache call.  *)
(* Any call may fail, before or after the cache applied it.  Pods crash,   *)
(* restart under the same holder identity and shut down.  Wall-clock time  *)
(* is kept relative: the age of the lease's renewed_at, and for each call  *)
(* the time since it read `now`.                                           *)
(***************************************************************************)
EXTENDS Naturals, Sequences

CONSTANTS Pods,               \* holder identities
          LeaseDuration,      \* lease_duration_secs, in time units
          CallTimeout,        \* longest time between reading `now` and the end of a call
          ParallelInstances,  \* parallel_instances of the flow
          MaxRev,             \* bound: writes to the key
          MaxGen,             \* saturation point of the generation counter
          MaxDisruptions      \* bound: failed calls, hand-overs, crashes, shutdowns

ASSUME ConstantsAssumption ==
  /\ LeaseDuration \in Nat \ {0}
  /\ CallTimeout \in Nat
  /\ ParallelInstances \in Nat \ {0}
  /\ MaxRev \in Nat
  /\ MaxGen \in Nat \ {0, 1}
  /\ MaxDisruptions \in Nat

VARIABLES entry,        \* the lease key in the cache
          seq,          \* the last sequence number the cache gave out
          pc,           \* where each pod's lease task is
          seen,         \* revision an acquisition (or shutdown) has read
          seenGen,      \* generation an acquisition has read
          lag,          \* time since the running call read `now`
          rev,          \* current_revision of the renewal task
          gen,          \* generation of the renewal task
          chan,         \* leadership channel from lease task to flow monitor
          flow,         \* the flow monitor
          inst,         \* copies of the flow's tasks that run on the pod
          disruptions   \* disruptions so far

callVars == <<seen, seenGen, lag>>
flowVars == <<chan, flow, inst>>
vars == <<entry, seq, pc, seen, seenGen, lag, rev, gen, chan, flow, inst, disruptions>>

-----------------------------------------------------------------------------

\* Older than this every lease is expired for every call: ages stop here.
MaxAge == LeaseDuration + CallTimeout + 1

Older(a, max) == IF a < max THEN a + 1 ELSE a

\* now.saturating_sub(renewed_at), for a call that read `now` some time ago.
Elapsed(a, l) == IF a > l THEN a - l ELSE 0

\* generation.saturating_add(1)
NextGeneration(g) == IF g < MaxGen THEN g + 1 ELSE g

\* A key never written, or whose last message was removed.
Absent == [kind |-> "absent", rev |-> 0, holder |-> "none", age |-> 0, ttl |-> 0, gen |-> 0]

Tombstone(r) ==
  [kind |-> "tombstone", rev |-> r, holder |-> "none", age |-> 0, ttl |-> 0, gen |-> 0]

\* LeaseMetadata of pod p as a call writes it that read `now` l time units ago.
Lease(p, r, l, g) ==
  [kind |-> "lease", rev |-> r, holder |-> p, age |-> l, ttl |-> 0, gen |-> g]

\* Expected-Last-Subject-Sequence: the compare of update and delete.
RevisionMatches(r) == entry.kind # "absent" /\ entry.rev = r

\* States of the lease task between reading `now` and the end of the call.
InCall == {"create", "get", "tomb", "overwrite", "reclaim", "takeover", "renewing"}

\* States of an acquisition task and of a renewal task.
Acquiring == {"acquire", "create", "get", "tomb", "overwrite", "reclaim", "takeover"}
Leading == {"renew", "renewing", "handing", "lost"}
LeaseTask == Acquiring \cup Leading \cup {"release"}

PCs == LeaseTask \cup {"ended", "shutRead", "shutDel", "stopped", "down"}

\* The monitor's receiver exists: the lease task can still send.
Listening(p) == flow[p] \in {"first", "running", "again"}

Disrupt == disruptions < MaxDisruptions /\ disruptions' = disruptions + 1

Goto(p, s) == pc' = [pc EXCEPT ![p] = s]

\* The call ends and its local variables with it.
Leave(p, s) ==
  /\ Goto(p, s)
  /\ seen' = [seen EXCEPT ![p] = 0]
  /\ seenGen' = [seenGen EXCEPT ![p] = 0]
  /\ lag' = [lag EXCEPT ![p] = 0]

-----------------------------------------------------------------------------

Init ==
  /\ entry = Absent
  /\ seq = 0
  /\ pc = [p \in Pods |-> "acquire"]
  /\ seen = [p \in Pods |-> 0]
  /\ seenGen = [p \in Pods |-> 0]
  /\ lag = [p \in Pods |-> 0]
  /\ rev = [p \in Pods |-> 0]
  /\ gen = [p \in Pods |-> 0]
  /\ chan = [p \in Pods |-> <<>>]
  /\ flow = [p \in Pods |-> "first"]
  /\ inst = [p \in Pods |-> 0]
  /\ disruptions = 0

\* response_tx.send(msg): the task goes on to `s`, or ends when the flow is gone.
SendOrEnd(p, msg, s) ==
  IF Listening(p)
  THEN /\ chan' = [chan EXCEPT ![p] = Append(@, msg)]
       /\ Leave(p, s)
  ELSE /\ UNCHANGED chan
       /\ Leave(p, "ended")

(***************************************************************************)
(* Acquisition: spawn_acquisition_retry_task and acquire_lease.  Waiting,  *)
(* backoff and deferral to a preferred pod only delay the next attempt.    *)
(***************************************************************************)

\* acquire_lease reads the clock and calls create.
StartAcquire(p) ==
  /\ pc[p] = "acquire"
  /\ Goto(p, "create")
  /\ UNCHANGED <<entry, seq, callVars, rev, gen, flowVars, disruptions>>

\* The cache applies a write of p's lease.  When the reply arrives the task
\* keeps revision and generation, tells the flow and turns into a renewal
\* task; when it is lost the attempt ends in an error and is retried.
WriteAcquired(p, g) ==
  /\ seq < MaxRev
  /\ seq' = seq + 1
  /\ entry' = Lease(p, seq + 1, lag[p], g)
  /\ UNCHANGED <<flow, inst>>
  /\ \/ /\ rev' = [rev EXCEPT ![p] = seq + 1]
        /\ gen' = [gen EXCEPT ![p] = g]
        /\ SendOrEnd(p, "Leader", "renew")
        /\ UNCHANGED disruptions
     \/ /\ Disrupt
        /\ Leave(p, "acquire")
        /\ UNCHANGED <<rev, gen, chan>>

\* The attempt ends without the lease: HeldByOther or an error, then a wait.
GiveUpAttempt(p) ==
  /\ Leave(p, "acquire")
  /\ UNCHANGED <<entry, seq, rev, gen, flowVars, disruptions>>

\* create succeeds only on an absent key; a value and a tombstone both
\* answer AlreadyExists.
Create(p) ==
  /\ pc[p] = "create"
  /\ \/ /\ entry.kind = "absent"
        /\ WriteAcquired(p, 1)
     \/ /\ entry.kind # "absent"
        /\ Goto(p, "get")
        /\ UNCHANGED <<entry, seq, callVars, rev, gen, flowVars, disruptions>>

\* Mutant of ReadLease: a lease is left alone even when it has expired.
ReadLeaseNoTakeover(p) == IF entry.holder = p THEN "reclaim" ELSE "acquire"

\* What acquire_lease does about a lease it has read: its own is renewed, an
\* expired one is taken over, any other one left alone.
ReadLease(p) ==
  IF entry.holder = p THEN "reclaim"
  ELSE IF Elapsed(entry.age, lag[p]) > LeaseDuration THEN "takeover"
  ELSE "acquire"

\* get_with_revision: no value under the key means a tombstone.  renew_lease
\* reads the clock anew.
GetWithRevision(p) ==
  /\ pc[p] = "get"
  /\ \/ /\ entry.kind = "lease"
        /\ ReadLease(p) # "acquire"
        /\ Goto(p, ReadLease(p))
        /\ seen' = [seen EXCEPT ![p] = entry.rev]
        /\ seenGen' = [seenGen EXCEPT ![p] = entry.gen]
        /\ lag' = [lag EXCEPT ![p] = IF entry.holder = p THEN 0 ELSE @]
        /\ UNCHANGED <<entry, seq, rev, gen, flowVars, disruptions>>
     \/ /\ entry.kind = "lease"
        /\ ReadLease(p) = "acquire"
        /\ GiveUpAttempt(p)
     \/ /\ entry.kind # "lease"
        /\ Goto(p, "tomb")
        /\ UNCHANGED <<entry, seq, callVars, rev, gen, flowVars, disruptions>>

\* get_revision: whatever is under the key by now, its revision is taken for
\* the tombstone's; a key that is gone is an error.
GetRevision(p) ==
  /\ pc[p] = "tomb"
  /\ IF entry.kind = "absent"
     THEN GiveUpAttempt(p)
     ELSE /\ seen' = [seen EXCEPT ![p] = entry.rev]
          /\ Goto(p, "overwrite")
          /\ UNCHANGED <<entry, seq, seenGen, lag, rev, gen, flowVars, disruptions>>

\* update over the tombstone; the generation starts again at 1.
Overwrite(p) ==
  /\ pc[p] = "overwrite"
  /\ IF RevisionMatches(seen[p]) THEN WriteAcquired(p, 1) ELSE GiveUpAttempt(p)

\* renew_lease on a lease this pod's identity already holds.  After a
\* mismatch the holder is read again, and whatever it is the attempt ends.
Reclaim(p) ==
  /\ pc[p] = "reclaim"
  /\ IF RevisionMatches(seen[p]) THEN WriteAcquired(p, seenGen[p]) ELSE GiveUpAttempt(p)

\* update of an expired lease, with the next generation.
Takeover(p) ==
  /\ pc[p] = "takeover"
  /\ IF RevisionMatches(seen[p])
     THEN WriteAcquired(p, NextGeneration(seenGen[p]))
     ELSE GiveUpAttempt(p)

(***************************************************************************)
(* Renewal: spawn_renewal_task, renew_lease and hand_over.                 *)
(***************************************************************************)

\* The interval ticks: renew_lease reads the clock and calls update.
StartRenew(p) ==
  /\ pc[p] = "renew"
  /\ Goto(p, "renewing")
  /\ UNCHANGED <<entry, seq, callVars, rev, gen, flowVars, disruptions>>

\* The update of the lease this task holds.  should_hand_over is asked after
\* a renewal; its answer depends on the other pods and is open here.
Renew(p) ==
  /\ pc[p] = "renewing"
  /\ UNCHANGED <<gen, flowVars>>
  /\ IF RevisionMatches(rev[p])
     THEN /\ seq < MaxRev
          /\ seq' = seq + 1
          /\ entry' = Lease(p, seq + 1, lag[p], gen[p])
          /\ \/ /\ rev' = [rev EXCEPT ![p] = seq + 1]
                /\ \/ Leave(p, "renew") /\ UNCHANGED disruptions
                   \/ Leave(p, "handing") /\ Disrupt
             \/ Disrupt /\ Leave(p, "renew") /\ UNCHANGED rev
     ELSE /\ Leave(p, "lost")
          /\ UNCHANGED <<entry, seq, rev, disruptions>>

\* Mutant of Lost: the flow is not told that the lease was deleted.
LostSilently(p) ==
  /\ pc[p] = "lost"
  /\ IF entry.kind = "lease"
     THEN SendOrEnd(p, "NotLeader", "acquire")
     ELSE Leave(p, "acquire") /\ UNCHANGED chan
  /\ UNCHANGED <<entry, seq, rev, gen, flow, inst, disruptions>>

\* Mutant of Lost: after a mismatch the revision just read is renewed.
LostAdoptsRevision(p) ==
  /\ pc[p] = "lost"
  /\ Leave(p, "renew")
  /\ rev' = [rev EXCEPT ![p] = entry.rev]
  /\ UNCHANGED <<entry, seq, gen, flowVars, disruptions>>

\* Mutant of Lost: a mismatch is taken for a failed call.
LostKeepsRenewing(p) ==
  /\ pc[p] = "lost"
  /\ Leave(p, "renew")
  /\ UNCHANGED <<entry, seq, rev, gen, flowVars, disruptions>>

\* The holder is read after a mismatch: LostOwnership and LeaseDeleted both
\* tell the flow and hand over to an acquisition task.
Lost(p) ==
  /\ pc[p] = "lost"
  /\ SendOrEnd(p, "NotLeader", "acquire")
  /\ UNCHANGED <<entry, seq, rev, gen, flow, inst, disruptions>>

\* hand_over: nothing to move when the flow has ended; otherwise the flow is
\* told to stop before the lease is released.
HandOver(p) ==
  /\ pc[p] = "handing"
  /\ IF Listening(p)
     THEN /\ chan' = [chan EXCEPT ![p] = Append(@, "NotLeader")]
          /\ Goto(p, "release")
     ELSE /\ UNCHANGED chan
          /\ Goto(p, "renew")
  /\ UNCHANGED <<entry, seq, callVars, rev, gen, flow, inst, disruptions>>

\* delete_with_revision leaves a tombstone.
DeleteWithRevision(r) ==
  IF RevisionMatches(r)
  THEN /\ seq < MaxRev
       /\ seq' = seq + 1
       /\ entry' = Tombstone(seq + 1)
  ELSE UNCHANGED <<entry, seq>>

\* release_lease_with_revision of a hand-over; acquisition starts over
\* whether it succeeded or not.
Release(p) ==
  /\ pc[p] = "release"
  /\ DeleteWithRevision(rev[p])
  /\ Goto(p, "acquire")
  /\ UNCHANGED <<callVars, rev, gen, flowVars, disruptions>>

\* A cache call fails without having been applied.  Acquisition waits and
\* retries, a renewal waits for its next tick, shutdown only warns.
CallFails(p) ==
  /\ Disrupt
  /\ \/ pc[p] \in (InCall \ {"renewing"}) \cup {"release"} /\ Leave(p, "acquire")
     \/ pc[p] \in {"renewing", "lost"} /\ Leave(p, "renew")
     \/ pc[p] \in {"shutRead", "shutDel"} /\ Leave(p, "stopped")
  /\ UNCHANGED <<entry, seq, rev, gen, flowVars>>

(***************************************************************************)
(* The flow monitor: monitor_tasks of a leader-elected flow.               *)
(***************************************************************************)

\* Leader: the tasks are spawned, parallel_instances copies the first time
\* and one copy after a re-acquisition.  NotLeader: the tasks are cancelled
\* and aborted.
MonitorRecv(p) ==
  /\ chan[p] # <<>>
  /\ Listening(p)
  /\ chan' = [chan EXCEPT ![p] = Tail(@)]
  /\ LET msg == Head(chan[p]) IN
     /\ flow' = [flow EXCEPT ![p] = IF msg = "Leader" THEN "running"
                                    ELSE IF @ = "first" THEN "first" ELSE "again"]
     /\ inst' = [inst EXCEPT ![p] = IF msg = "NotLeader" THEN 0
                                    ELSE IF flow[p] = "first" THEN ParallelInstances
                                    ELSE IF flow[p] = "again" THEN 1
                                    ELSE @]
  /\ UNCHANGED <<entry, seq, pc, callVars, rev, gen, disruptions>>

\* All tasks completed: the monitor returns and its receiver is dropped.  The
\* select is biased, so a pending message is handled first.
TasksComplete(p) ==
  /\ flow[p] = "running"
  /\ chan[p] = <<>>
  /\ flow' = [flow EXCEPT ![p] = "ended"]
  /\ inst' = [inst EXCEPT ![p] = 0]
  /\ UNCHANGED <<entry, seq, pc, callVars, rev, gen, chan, disruptions>>

\* The lease task is gone and the channel drained: a waiting monitor returns;
\* a running one only stops listening.
MonitorClosed(p) ==
  /\ flow[p] \in {"first", "again"}
  /\ chan[p] = <<>>
  /\ pc[p] \in {"shutRead", "shutDel", "stopped"}
  /\ flow' = [flow EXCEPT ![p] = "ended"]
  /\ UNCHANGED <<entry, seq, pc, callVars, rev, gen, chan, inst, disruptions>>

(***************************************************************************)
(* Pods: shutdown, crash, restart; and the passage of time.                *)
(***************************************************************************)

\* TaskManager::shutdown aborts the lease task.  stop_flows before it cancels
\* a token no leader-elected task holds, so the flow is as it was.
Shutdown(p) ==
  /\ pc[p] \in LeaseTask \cup {"ended"}
  /\ Disrupt
  /\ Leave(p, "shutRead")
  /\ UNCHANGED <<entry, seq, rev, gen, flowVars>>

\* still_owns_lease
StillOwns(p) == entry.kind = "lease" /\ entry.holder = p

ShutdownRead(p) ==
  /\ pc[p] = "shutRead"
  /\ seen' = [seen EXCEPT ![p] = IF StillOwns(p) THEN entry.rev ELSE 0]
  /\ Goto(p, IF StillOwns(p) THEN "shutDel" ELSE "stopped")
  /\ UNCHANGED <<entry, seq, seenGen, lag, rev, gen, flowVars, disruptions>>

\* release_lease_with_revision at the revision just read.
ShutdownDelete(p) ==
  /\ pc[p] = "shutDel"
  /\ DeleteWithRevision(seen[p])
  /\ Leave(p, "stopped")
  /\ UNCHANGED <<rev, gen, flowVars, disruptions>>

\* The process is gone, with everything it had in memory.
Gone(p) ==
  /\ Leave(p, "down")
  /\ chan' = [chan EXCEPT ![p] = <<>>]
  /\ flow' = [flow EXCEPT ![p] = "off"]
  /\ inst' = [inst EXCEPT ![p] = 0]
  /\ rev' = [rev EXCEPT ![p] = 0]
  /\ gen' = [gen EXCEPT ![p] = 0]
  /\ UNCHANGED <<entry, seq>>

Exit(p) == pc[p] = "stopped" /\ Gone(p) /\ UNCHANGED disruptions

Crash(p) == pc[p] # "down" /\ Disrupt /\ Gone(p)

\* The pod comes back under the same holder identity and registers its flow.
Restart(p) ==
  /\ pc[p] = "down"
  /\ Goto(p, "acquire")
  /\ flow' = [flow EXCEPT ![p] = "first"]
  /\ UNCHANGED <<entry, seq, callVars, rev, gen, chan, inst, disruptions>>

\* Time passes, but no call outlives its timeout.
Tick ==
  /\ \A p \in Pods : pc[p] \in InCall => lag[p] < CallTimeout
  /\ entry' = IF entry.kind = "lease"
              THEN [entry EXCEPT !.age = Older(@, MaxAge), !.ttl = Older(@, LeaseDuration)]
              ELSE entry
  /\ lag' = [p \in Pods |-> IF pc[p] \in InCall THEN lag[p] + 1 ELSE lag[p]]
  /\ UNCHANGED <<seq, pc, seen, seenGen, rev, gen, flowVars, disruptions>>

\* The cache drops the key once its time to live is over, with or without
\* leaving a marker.
Expire ==
  /\ entry.kind = "lease"
  /\ entry.ttl >= LeaseDuration
  /\ \/ entry' = Absent /\ UNCHANGED seq
     \/ /\ seq < MaxRev
        /\ entry' = Tombstone(seq + 1)
        /\ seq' = seq + 1
  /\ UNCHANGED <<pc, callVars, rev, gen, flowVars, disruptions>>

\* A tombstone's own time to live ends.
PurgeTombstone ==
  /\ entry.kind = "tombstone"
  /\ entry' = Absent
  /\ UNCHANGED <<seq, pc, callVars, rev, gen, flowVars, disruptions>>

\* What a live lease task does next.
TaskStep(p) ==
  \/ StartAcquire(p) \/ Create(p) \/ GetWithRevision(p) \/ GetRevision(p)
  \/ Overwrite(p) \/ Reclaim(p) \/ Takeover(p)
  \/ StartRenew(p) \/ Renew(p) \/ Lost(p) \/ HandOver(p) \/ Release(p)

MonitorStep(p) == MonitorRecv(p) \/ MonitorClosed(p)

ShutdownStep(p) == ShutdownRead(p) \/ ShutdownDelete(p) \/ Exit(p)

Next ==
  \/ \E p \in Pods :
       \/ StartAcquire(p) \/ Create(p) \/ GetWithRevision(p) \/ GetRevision(p)
       \/ Overwrite(p) \/ Reclaim(p) \/ Takeover(p)
       \/ StartRenew(p) \/ Renew(p) \/ Lost(p) \/ HandOver(p) \/ Release(p)
       \/ CallFails(p)
       \/ MonitorRecv(p) \/ TasksComplete(p) \/ MonitorClosed(p)
       \/ Shutdown(p) \/ ShutdownRead(p) \/ ShutdownDelete(p)
       \/ Exit(p) \/ Crash(p) \/ Restart(p)
  \/ Tick \/ Expire \/ PurgeTombstone

Spec == Init /\ [][Next]_vars

\* Time passes, tokio runs every task that can run, and a shutdown goes on to
\* the end of the process.  Nothing is assumed of failures, of the cache's
\* expiry, of hand-overs, of restarts or of tasks that complete.
Fairness ==
  /\ WF_vars(Tick)
  /\ \A p \in Pods :
       WF_vars(TaskStep(p)) /\ WF_vars(MonitorStep(p)) /\ WF_vars(ShutdownStep(p))

FairSpec == Spec /\ Fairness

-----------------------------------------------------------------------------

\* What can be under the lease key.
Entries == [kind : {"absent", "tombstone", "lease"}, rev : 0..MaxRev,
            holder : Pods \cup {"none"}, age : 0..MaxAge, ttl : 0..LeaseDuration,
            gen : 0..MaxGen]

\* Every variable has its type.
TypeOK ==
  /\ entry \in Entries
  /\ seq \in 0..MaxRev
  /\ pc \in [Pods -> PCs]
  /\ seen \in [Pods -> 0..MaxRev]
  /\ seenGen \in [Pods -> 0..MaxGen]
  /\ lag \in [Pods -> 0..CallTimeout]
  /\ rev \in [Pods -> 0..MaxRev]
  /\ gen \in [Pods -> 0..MaxGen]
  /\ chan \in [Pods -> Seq({"Leader", "NotLeader"})]
  /\ flow \in [Pods -> {"first", "running", "again", "ended", "off"}]
  /\ inst \in [Pods -> 0..ParallelInstances]
  /\ disruptions \in 0..MaxDisruptions

\* Only the pod that the cache names as holder knows the lease's revision and
\* generation: a renewal task whose compare-and-swap would succeed is the
\* holder's, whatever calls were lost or overtaken before.
OnlyHolderCanRenew ==
  \A p \in Pods :
    pc[p] \in Leading \cup {"release"} /\ RevisionMatches(rev[p])
      => entry.kind = "lease" /\ entry.holder = p /\ entry.gen = gen[p]

\* What the flow will do once it has read its channel is what its lease task
\* is: every loss is reported, nothing is reported twice.
FlowFollowsLease ==
  \A p \in Pods :
    pc[p] \in LeaseTask /\ Listening(p) =>
      LET states == <<IF flow[p] = "running" THEN "Leader" ELSE "NotLeader">> \o chan[p]
      IN /\ states[Len(states)] = "Leader" <=> pc[p] \in Leading
         /\ \A i \in 1..Len(chan[p]) : states[i] # states[i + 1]

\* Within a lineage the lease changes hands only after it expired: the pod
\* that takes it over has seen exactly this lease older than its duration.
TakeoverOnlyAfterExpiry ==
  [][entry.kind = "lease" /\ entry'.kind = "lease" /\ entry'.holder # entry.holder
       /\ entry'.gen > 1
     => entry.age > LeaseDuration /\ entry'.gen = NextGeneration(entry.gen)]_vars

\* A lease that has not outlived its time is deleted only by its own holder,
\* handing over or shutting down.
DeletedOnlyByHolder ==
  [][entry.kind = "lease" /\ entry'.kind # "lease" /\ entry.ttl < LeaseDuration
     => \E p \in Pods : /\ entry.holder = p
                        /\ pc[p] \in {"release", "shutDel"}
                        /\ pc'[p] # pc[p]]_vars

\* A flow without a running pod is run again, as long as a pod is up: no
\* failure, crash, deleted or expired lease leaves the pods waiting on each
\* other.  A flow that has ended stays with its pod.
FlowIsTakenUp ==
  (\A p \in Pods : flow[p] \notin {"running", "ended"})
    ~> \/ \E p \in Pods : flow[p] \in {"running", "ended"}
       \/ \A p \in Pods : pc[p] \notin LeaseTask
       \/ seq = MaxRev

\* A pod that runs the flow although another holds the lease stops running it.
StaleLeaderStops ==
  \A p \in Pods :
    (flow[p] = "running" /\ entry.kind = "lease" /\ entry.holder # p)
      ~> (flow[p] # "running" \/ entry.holder = p \/ seq = MaxRev)

\* executor.rs, acquire_lease: "If the lease exists, check if it has expired
\* beyond its duration. For expired leases, attempt atomic takeover".
NoLiveLeaseIsTaken ==
  [][entry.kind = "lease" /\ entry'.kind = "lease" /\ entry'.holder # entry.holder
     => entry.age > LeaseDuration]_vars

\* docs, concepts/flows: "The `parallel_instances` field controls how many
\* copies of the flow run concurrently on the active pod."
AllInstancesRun ==
  \A p \in Pods : flow[p] = "running" => inst[p] = ParallelInstances

=============================================================================
