------------------------------ MODULE Sources ------------------------------
(***************************************************************************)
(* The source tasks that read a log and keep their place in it: the Kafka   *)
(* subscriber (an offset per partition), the Salesforce Pub/Sub subscriber  *)
(* (a replay ID), the MongoDB change stream (no place) and generate (a      *)
(* counter of completed runs, and the time of the last attempt).  The place *)
(* is kept in the cache, which survives a crash; what is in memory does not. *)
(***************************************************************************)
EXTENDS Integers, FiniteSets

CONSTANTS Partitions,   \* partitions a topic can have
          SourceSetups,       \* the source tasks that are checked: see SourceSetupsAssumption
          MaxLog,       \* bound: records of a partition, and the count of generate
          MaxBatch,     \* bound: events Salesforce sends at a time
          MaxTime,      \* bound: the clock
          Interval,     \* the interval of generate
          MaxRuns   \* max_attempts of generate's RetryConfig, in run-once mode

\* The kind of task, the partitions its topic has and may get, where it starts
\* ("earliest" or "latest"), max_deliver (0: no limit), and the mode and
\* allow_rerun of a generate task; a bound on crashes, failed starts, next tasks
\* that end and records the topic loses.
ASSUME SourceSetupsAssumption ==
  \A s \in SourceSetups :
    /\ s.kind \in {"kafka", "salesforce", "managed", "change_stream", "generate"}
    /\ s.partitions \cup s.added \subseteq Partitions /\ s.partitions # {}
    /\ s.kind # "kafka" => Cardinality(s.partitions) = 1 /\ s.added = {}
    /\ s.start \in {"earliest", "latest"} /\ s.maxDeliver \in Nat
    /\ s.mode \in {"interval", "once"} /\ s.rerun \in BOOLEAN
    /\ s.maxDisruptions \in Nat
ASSUME SourceBoundsAssumption ==
  /\ {MaxLog, MaxBatch, MaxTime, Interval} \subseteq Nat
  /\ MaxBatch > 0 /\ Interval > 0 /\ MaxRuns \in Nat \ {0}

None == -1

VARIABLES source,       \* one of SourceSetups
          topic,       \* the partitions the topic has
          first, end,  \* the records a partition holds: first..(end - 1)
          stored,      \* the place in the cache, or None
          run,         \* the task: "down", "init", "on" or "ended"
          known,       \* the partitions it consumes
          next,        \* for each, the record to read next
          batch,       \* for each, the records that were delivered and not judged
          answers,     \* of these, what the flow answered
          deliveries,  \* of a record, so far
          followerUp,      \* the next task takes events
          handled,     \* records the flow completed (history)
          given,       \* records given up: max_deliver, retention, truncation (history)
          passed,      \* records the place was past when they came, or when the
                       \* partition was first started (history)
          started,     \* partitions that were started before (history)
          disruptions, \* so far
          now, due, anchor, lastFire  \* generate: the clock, the next run, last_attempt, history

logVars == <<topic, first, end>>
partVars == <<known, next, batch, answers, deliveries>>
timeVars == <<now, due, anchor, lastFire>>
histVars == <<handled, given, passed, started>>
sourceVars == <<source, logVars, stored, run, partVars, followerUp, histVars, disruptions, timeVars>>

Kind == source.kind
Is(kinds) == Kind \in kinds
Disrupts == disruptions < source.maxDisruptions /\ disruptions' = disruptions + 1

SourcesInit ==
  /\ source \in SourceSetups
  /\ topic = source.partitions
  /\ first = [p \in Partitions |-> 0]
  /\ end = [p \in Partitions |-> IF source.kind = "generate" THEN MaxLog ELSE 0]
  /\ stored = [p \in Partitions |-> None]
  /\ run = "init"
  /\ known = {}
  /\ next = [p \in Partitions |-> 0]
  /\ batch = [p \in Partitions |-> {}]
  /\ answers = [p \in Partitions |-> {}]
  /\ deliveries = [p \in Partitions |-> 0]
  /\ followerUp = TRUE
  /\ handled = {} /\ given = {} /\ passed = {} /\ started = {}
  /\ disruptions = 0
  /\ now = 0 /\ due = 0 /\ anchor = None /\ lastFire = None

(***************************************************************************)
(* The services.                                                           *)
(***************************************************************************)

\* The task is past an offset, in memory or in the cache, or is at it.
Past(p, o) == stored[p] > o \/ (p \in known /\ next[p] > o) \/ o \in batch[p]

\* A record at an offset that a truncation made free is a new one.
Produce(p) ==
  /\ p \in topic /\ ~Is({"generate"}) /\ end[p] < MaxLog
  /\ end' = [end EXCEPT ![p] = @ + 1]
  /\ LET record == <<p, end[p]>>
     IN IF Past(p, end[p])
        THEN passed' = passed \cup {record} /\ UNCHANGED <<handled, given>>
        ELSE /\ handled' = handled \ {record}
             /\ given' = given \ {record}
             /\ passed' = passed \ {record}
  /\ UNCHANGED <<source, topic, first, stored, run, partVars, followerUp, started, disruptions, timeVars>>

\* Retention removes the oldest record.
Remove(p) ==
  /\ Is({"kafka", "salesforce"}) /\ first[p] < end[p] /\ Disrupts
  /\ first' = [first EXCEPT ![p] = @ + 1]
  /\ given' = given \cup {<<p, first[p]>>}
  /\ UNCHANGED <<source, topic, end, stored, run, partVars, followerUp, handled, passed, started, timeVars>>

\* A broker loses its newest record; the place may now be past the end.
Truncate(p) ==
  /\ Is({"kafka"}) /\ first[p] < end[p] /\ Disrupts
  /\ end' = [end EXCEPT ![p] = @ - 1]
  /\ given' = given \cup {<<p, end[p] - 1>>}
  /\ UNCHANGED <<source, topic, first, stored, run, partVars, followerUp, handled, passed, started, timeVars>>

\* The topic grows after the first start; init lists its partitions once, so one
\* that comes meanwhile is as good as added before or after it.
AddPartition(p) ==
  /\ p \in source.added \ topic
  /\ source.partitions \subseteq started /\ run # "init"
  /\ topic' = topic \cup {p}
  /\ UNCHANGED <<source, first, end, stored, run, partVars, followerUp, histVars, disruptions, timeVars>>

Tick ==
  /\ Is({"generate"}) /\ now < MaxTime
  /\ now' = now + 1
  /\ UNCHANGED <<source, logVars, stored, run, partVars, followerUp, histVars, disruptions, due, anchor, lastFire>>

(***************************************************************************)
(* init: where each partition starts.                                      *)
(***************************************************************************)

\* resolve_start_offset; replay_preset.
StartOf(p) == IF source.start = "earliest" THEN first[p] ELSE end[p]

StoredOr(p, place) == IF stored[p] = None THEN place ELSE stored[p]

\* generate counts its completed runs; allow_rerun starts the count again.
Counter(p) == IF source.rerun THEN 0 ELSE StoredOr(p, 0)

\* The cached replay ID, or replay_preset.
ReplayPlace(p) == StoredOr(p, StartOf(p))

\* A change stream starts at the end, and nobody commits a managed subscription.
StartPlace(p) ==
  CASE Is({"kafka"}) -> StoredOr(p, StartOf(p))
    [] Is({"salesforce"}) -> ReplayPlace(p)
    [] Is({"managed"}) -> StartOf(p)
    [] Is({"change_stream"}) -> end[p]
    [] Is({"generate"}) -> Counter(p)

\* The records below an offset, those the topic lost included.
RecordsBelow(p, place) == {<<p, o>> : o \in 0..(place - 1)}

\* Without a stored place the task jumps to the start it is configured with: also
\* in a partition that was added and that watch_partitions has not come to.
InitPartition(p) ==
  /\ run = "init" /\ p \in topic \ known
  /\ Is({"salesforce"}) => stored[p] = None \/ stored[p] >= first[p]
  /\ known' = known \cup {p}
  /\ next' = [next EXCEPT ![p] = StartPlace(p)]
  /\ stored' = CASE Is({"kafka"}) -> [stored EXCEPT ![p] = StartPlace(p)]
                 [] Is({"generate"}) /\ source.rerun -> [stored EXCEPT ![p] = 0]
                 [] OTHER -> stored
  /\ started' = started \cup {p}
  /\ passed' = IF p \notin started /\ stored[p] = None THEN passed \cup RecordsBelow(p, StartPlace(p)) ELSE passed
  /\ UNCHANGED <<source, logVars, run, batch, answers, deliveries, followerUp, handled, given, disruptions, timeVars>>

\* An invalid replay ID is deleted; the task tries again without it.
ReplayInvalid(p) ==
  /\ Is({"salesforce"}) /\ run = "init" /\ p \in topic
  /\ stored[p] # None /\ stored[p] < first[p]
  /\ stored' = [stored EXCEPT ![p] = None]
  /\ UNCHANGED <<source, logVars, run, partVars, followerUp, histVars, disruptions, timeVars>>

\* A step of init fails; the next attempt starts over with what the cache has.
InitFails ==
  /\ run = "init" /\ known # {} /\ Disrupts
  /\ known' = {}
  /\ UNCHANGED <<source, logVars, stored, run, next, batch, answers, deliveries, followerUp, histVars, timeVars>>

\* first_due: an interval counts from the last attempt, at most one interval away.
FirstDue(from) ==
  IF source.mode = "once" THEN now
  ELSE IF from = None \/ from > now THEN now + Interval
  ELSE IF from + Interval < now THEN now
  ELSE from + Interval

\* A generate task that has done its count ends.
StartHandling ==
  /\ run = "init" /\ known = topic
  /\ run' = IF Is({"generate"}) /\ \A p \in topic : next[p] >= MaxLog THEN "ended" ELSE "on"
  /\ due' = IF Is({"generate"}) THEN FirstDue(anchor) ELSE due
  /\ anchor' = IF Is({"generate"}) /\ source.mode = "interval" /\ anchor = None THEN now ELSE anchor
  /\ UNCHANGED <<source, logVars, stored, partVars, followerUp, histVars, disruptions, now, lastFire>>

(***************************************************************************)
(* The records go to the flow.                                             *)
(***************************************************************************)

\* What was delivered and not judged is forgotten; the place is in the cache.
Drop ==
  /\ known' = {}
  /\ batch' = [p \in Partitions |-> {}]
  /\ answers' = [p \in Partitions |-> {}]
  /\ deliveries' = [p \in Partitions |-> 0]
  /\ UNCHANGED next

Idle(p) == run = "on" /\ p \in known /\ batch[p] = {}

\* record_attempt; a cache that fails is logged.
RecordAttempt == anchor' \in IF source.mode = "interval" THEN {now, anchor} ELSE {anchor}

\* generate records the attempt, then sends the event when it is due.
DeliverGenerated(p) ==
  /\ Is({"generate"}) /\ Idle(p) /\ due <= now /\ followerUp
  /\ batch' = [batch EXCEPT ![p] = {next[p]}]
  /\ RecordAttempt
  /\ due' = now + Interval
  /\ lastFire' = now
  /\ UNCHANGED <<source, logVars, stored, run, known, next, answers, deliveries, followerUp, histVars, disruptions, now>>

\* run_loop starts over with what the cache has, until a run-once gives up.
LoopAgain(p, from) ==
  /\ batch' = [batch EXCEPT ![p] = {}]
  /\ answers' = [answers EXCEPT ![p] = {}]
  /\ next' = [next EXCEPT ![p] = StoredOr(p, 0)]
  /\ due' = FirstDue(from)
  /\ IF source.mode = "once"
     THEN /\ run' = IF deliveries[p] + 1 < MaxRuns THEN run ELSE "ended"
          /\ deliveries' = [deliveries EXCEPT ![p] = @ + 1]
     ELSE UNCHANGED <<run, deliveries>>
  /\ UNCHANGED known

\* The stream has more: one record of Kafka, a batch of Salesforce.
Deliver(p) ==
  /\ Is({"kafka", "salesforce", "managed"}) /\ Idle(p) /\ followerUp
  /\ next[p] \in first[p]..(end[p] - 1)
  /\ \E n \in 1..(IF Is({"kafka"}) THEN 1 ELSE MaxBatch) :
       /\ next[p] + n <= end[p]
       /\ batch' = [batch EXCEPT ![p] = next[p]..(next[p] + n - 1)]
  /\ deliveries' = [deliveries EXCEPT ![p] = 1]
  /\ UNCHANGED <<source, logVars, stored, run, known, next, answers, followerUp, histVars, disruptions, timeVars>>

\* A change is sent and not waited for.
Forward(p) ==
  /\ Is({"change_stream"}) /\ Idle(p) /\ followerUp
  /\ next[p] < end[p]
  /\ next' = [next EXCEPT ![p] = @ + 1]
  /\ UNCHANGED <<source, logVars, stored, run, known, batch, answers, deliveries, followerUp, histVars, disruptions, timeVars>>

\* The next task is gone: the task connects anew, and Salesforce goes on
\* without storing its place.
HandOnFails(p) ==
  /\ Idle(p) /\ ~followerUp /\ next[p] < end[p]
  /\ CASE Is({"salesforce", "managed"}) ->
            next' = [next EXCEPT ![p] = @ + 1] /\ UNCHANGED <<run, known, batch, answers, deliveries, due, anchor>>
       [] Is({"generate"}) ->
            due <= now /\ RecordAttempt /\ LoopAgain(p, anchor')
       [] OTHER -> run' = "init" /\ Drop /\ UNCHANGED <<due, anchor>>
  /\ UNCHANGED <<source, logVars, stored, followerUp, histVars, disruptions, now, lastFire>>

\* The flow completes a record, fails at it, forgets it or takes too long.
Answer(p, o, ok) ==
  /\ run = "on" /\ p \in known /\ o \in batch[p] /\ \A a \in answers[p] : a[1] # o
  /\ answers' = [answers EXCEPT ![p] = @ \cup {<<o, ok>>}]
  /\ handled' = IF ok THEN handled \cup {<<p, o>>} ELSE handled
  /\ UNCHANGED <<source, logVars, stored, run, known, next, batch, deliveries, followerUp, given, passed, started, disruptions, timeVars>>

Judged(p) == run = "on" /\ batch[p] # {} /\ {a[1] : a \in answers[p]} = batch[p]
AllOk(p) == \A a \in answers[p] : a[2]
GivesUp(p) == source.maxDeliver > 0 /\ deliveries[p] >= source.maxDeliver

Last(p) == CHOOSE o \in batch[p] : \A q \in batch[p] : q <= o

\* The place moves past what was judged; a cache that fails is logged.
StorePlace(p) == stored' \in {stored, [stored EXCEPT ![p] = Last(p) + 1]}

Advance(p) ==
  /\ next' = [next EXCEPT ![p] = Last(p) + 1]
  /\ batch' = [batch EXCEPT ![p] = {}]
  /\ answers' = [answers EXCEPT ![p] = {}]

\* process_record: the record completed, or max_deliver deliveries failed.
FinishRecordAlways(p) ==
  /\ Is({"kafka"}) /\ Judged(p)
  /\ StorePlace(p) /\ Advance(p)
  /\ deliveries' = [deliveries EXCEPT ![p] = 0]
  /\ UNCHANGED <<source, logVars, run, known, followerUp, histVars, disruptions, timeVars>>

FinishRecord(p) ==
  /\ Is({"kafka"}) /\ Judged(p)
  /\ AllOk(p) \/ GivesUp(p)
  /\ StorePlace(p) /\ Advance(p)
  /\ deliveries' = [deliveries EXCEPT ![p] = 0]
  /\ given' = IF AllOk(p) THEN given ELSE given \cup {<<p, Last(p)>>}
  /\ UNCHANGED <<source, logVars, run, known, followerUp, handled, passed, started, disruptions, timeVars>>

RedeliverUncounted(p) ==
  /\ Is({"kafka"}) /\ Judged(p) /\ ~AllOk(p) /\ ~GivesUp(p)
  /\ answers' = [answers EXCEPT ![p] = {}]
  /\ UNCHANGED <<source, logVars, stored, run, known, next, batch, deliveries, followerUp, histVars, disruptions, timeVars>>

Redeliver(p) ==
  /\ Is({"kafka"}) /\ Judged(p) /\ ~AllOk(p) /\ ~GivesUp(p)
  /\ answers' = [answers EXCEPT ![p] = {}]
  /\ deliveries' = [deliveries EXCEPT ![p] = IF source.maxDeliver = 0 THEN 1 ELSE @ + 1]
  /\ UNCHANGED <<source, logVars, stored, run, known, next, batch, followerUp, histVars, disruptions, timeVars>>

\* process_events: once every event of the batch was answered the replay ID of
\* the last is cached; a failed flow is logged.
FinishBatch(p) ==
  /\ Is({"salesforce", "managed"}) /\ Judged(p)
  /\ IF Is({"salesforce"}) THEN StorePlace(p) ELSE UNCHANGED stored
  /\ Advance(p)
  /\ deliveries' = [deliveries EXCEPT ![p] = 0]
  /\ UNCHANGED <<source, logVars, run, known, followerUp, histVars, disruptions, timeVars>>

\* run_loop: a completed run counts; the task ends when it has done its count.
FinishGenerated(p) ==
  /\ Is({"generate"}) /\ Judged(p) /\ AllOk(p)
  /\ StorePlace(p) /\ Advance(p)
  /\ run' = IF Last(p) + 1 = MaxLog THEN "ended" ELSE run
  /\ due' = IF source.mode = "once" THEN now ELSE due
  /\ UNCHANGED <<source, logVars, known, deliveries, followerUp, histVars, disruptions, now, anchor, lastFire>>

\* A failed run waits for its next time; a run-once is retried, then ends.
FailGenerated(p) ==
  /\ Is({"generate"}) /\ Judged(p) /\ ~AllOk(p)
  /\ IF source.mode = "once" THEN LoopAgain(p, anchor)
     ELSE /\ batch' = [batch EXCEPT ![p] = {}]
          /\ answers' = [answers EXCEPT ![p] = {}]
          /\ UNCHANGED <<run, known, next, deliveries, due>>
  /\ UNCHANGED <<source, logVars, stored, followerUp, histVars, disruptions, now, anchor, lastFire>>

\* OffsetOutOfRange: the earliest record, or start_offset when past the end.
RecoverOffset(p) ==
  /\ Is({"kafka"}) /\ Idle(p)
  /\ next[p] \notin first[p]..end[p]
  /\ next' = [next EXCEPT ![p] = IF next[p] < first[p] THEN first[p] ELSE StartOf(p)]
  /\ UNCHANGED <<source, logVars, stored, run, known, batch, answers, deliveries, followerUp, histVars, disruptions, timeVars>>

\* The stream of Salesforce or MongoDB ends: the task connects anew.
StreamEnds ==
  /\ Is({"salesforce", "managed", "change_stream"}) /\ run = "on" /\ \A p \in known : batch[p] = {}
  /\ run' = "init"
  /\ Drop
  /\ UNCHANGED <<source, logVars, stored, followerUp, histVars, disruptions, timeVars>>

\* watch_partitions: the added partitions get their earliest offset, as far as
\* the cache takes it, and the task starts over.
WatchPartitions ==
  /\ Is({"kafka"}) /\ run = "on" /\ topic # known
  /\ \E kept \in SUBSET (topic \ known) :
       stored' = [p \in Partitions |-> IF p \in kept THEN first[p] ELSE stored[p]]
  /\ run' = "init"
  /\ Drop
  /\ UNCHANGED <<source, logVars, followerUp, histVars, disruptions, timeVars>>

(***************************************************************************)
(* Crashes, and the flow around the task.                                  *)
(***************************************************************************)

FollowerEnds ==
  /\ followerUp /\ run = "on" /\ Disrupts
  /\ followerUp' = FALSE
  /\ UNCHANGED <<source, logVars, stored, run, partVars, histVars, timeVars>>

\* A crash or a cancelled task: only the cache is left.
Stop ==
  /\ run \in {"init", "on"} /\ Disrupts
  /\ run' = "down"
  /\ Drop
  /\ UNCHANGED <<source, logVars, stored, followerUp, histVars, timeVars>>

\* The flow starts again, on a node whose clock may be behind; an attempt the
\* cache did not take is forgotten.
Restart ==
  /\ run = "down"
  /\ run' = "init"
  /\ followerUp' = TRUE
  /\ now' \in IF Is({"generate"}) THEN {now, 0} ELSE {now}
  /\ lastFire' = IF now' < now \/ anchor # lastFire THEN None ELSE lastFire
  /\ UNCHANGED <<source, logVars, stored, partVars, histVars, disruptions, due, anchor>>

Service == \E p \in Partitions : Produce(p) \/ Remove(p) \/ Truncate(p) \/ AddPartition(p)

Reads(p) ==
  \/ InitPartition(p) \/ ReplayInvalid(p)
  \/ DeliverGenerated(p) \/ Deliver(p) \/ Forward(p) \/ HandOnFails(p)
  \/ FinishRecord(p) \/ Redeliver(p) \/ FinishBatch(p)
  \/ FinishGenerated(p) \/ FailGenerated(p) \/ RecoverOffset(p)

Answers(p) == \E o \in 0..MaxLog, ok \in BOOLEAN : Answer(p, o, ok)

SourcesNext ==
  \/ Service \/ Tick
  \/ \E p \in Partitions : Reads(p) \/ Answers(p)
  \/ InitFails \/ StartHandling \/ StreamEnds \/ WatchPartitions
  \/ FollowerEnds \/ Stop \/ Restart

\* The runtime polls the task, init succeeds when it is tried again and again,
\* the flow answers, and a flow that stopped is started again.
SourcesFairness ==
  /\ \A p \in Partitions :
       WF_sourceVars(Answers(p)) /\ SF_sourceVars(InitPartition(p)) /\ WF_sourceVars(Reads(p))
  /\ SF_sourceVars(StartHandling) /\ WF_sourceVars(Restart) /\ WF_sourceVars(WatchPartitions)

SourcesSpec == SourcesInit /\ [][SourcesNext]_sourceVars /\ SourcesFairness

-----------------------------------------------------------------------------

\* Records that the flow completed, that were given up or lost, or passed over.
Accounted == handled \cup given \cup passed

\* The stored place is never past a record that the flow has not completed, save
\* one given up after max_deliver deliveries, lost in the topic, or passed over,
\* whatever crashes and cache failures come between (process_record, run_loop).
\* Passed over is what lies before the place of a first start without a stored
\* offset, and what is written at an offset that a truncation freed after the
\* task had got past it.
StoredIsHandled ==
  Is({"kafka", "generate"}) =>
    \A p \in Partitions : stored[p] # None => RecordsBelow(p, stored[p]) \subseteq Accounted

\* "replay_id is only cached after ALL events succeed" (process_events of the
\* Salesforce subscriber).
ReplayIsHandled ==
  Is({"salesforce"}) =>
    \A p \in Partitions : stored[p] # None => RecordsBelow(p, stored[p]) \subseteq Accounted

\* Two runs of an interval are an interval apart, over restarts too, and a
\* restart never waits longer than one (first_due).
IntervalKept ==
  [][source.mode = "interval" =>
       /\ lastFire' # lastFire /\ lastFire # None /\ lastFire' # None => lastFire' >= lastFire + Interval
       /\ Is({"generate"}) /\ run' = "on" => due' <= now' + Interval]_sourceVars

\* With a max_deliver every record of a Kafka partition is in the end handled,
\* given up, lost in the topic or passed over, as long as the next task takes
\* events: no crash, added partition or moved offset leaves another one unread,
\* and no record blocks those behind it (consume_partition).  The code does pass
\* records over: with a start_offset "latest" those of an added partition that a
\* reconnect, a restart or a failed store brings to init before watch_partitions
\* has stored its earliest offset, and those written at offsets it had read
\* before a truncation.
RecordsAreRead ==
  Is({"kafka"}) /\ source.maxDeliver > 0 =>
    <>[](followerUp => \A p \in topic : RecordsBelow(p, end[p]) \subseteq Accounted)

-----------------------------------------------------------------------------
(***************************************************************************)
(* What a document says of the program and a run refutes.                  *)
(***************************************************************************)

\* "Partitions added to the topic are picked up within five minutes and read from
\* their earliest record" (docs kafka/subscribe): the first start of an added
\* partition is at the first record it has.
AddedFromEarliest ==
  [][\A p \in source.added \ source.partitions :
       p \in started' \ started => next'[p] = first[p]]_sourceVars
=============================================================================
