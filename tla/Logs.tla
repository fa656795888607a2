-------------------------------- MODULE Logs --------------------------------
(***************************************************************************)
(* What a pod keeps of its own log: the counters and the status of a flow  *)
(* (core/src/flow/activity_layer.rs, activity.rs), the ring buffers of     *)
(* lines (core/src/telemetry/query.rs), and the history query and the live *)
(* tail that the web UI reads (core/src/telemetry/cluster.rs, web.rs).     *)
(*                                                                         *)
(* An event of tracing goes through the layers on the thread that logs it: *)
(* it is timed, counted, formatted with a timestamp of its own, stored and *)
(* announced.  Other threads and pods log in between.  Clocks agree.  A    *)
(* reader of the tail keeps up; a slower one loses lines, by design.       *)
(***************************************************************************)
EXTENDS Integers, Sequences, FiniteSets, FiniteSetsExt, Functions, TLC

CONSTANTS LogPods,     \* the pods that log
          Reader,      \* the pod whose web UI is read
          Events,      \* the events logged: the spans around one from the root, each with a
                       \* name and the flow it carries or NoFlow, a level, an event.subject or not
          Filters,     \* the filters of a reader: a flow or AnyFlow, and levels
          Limits,      \* the limits of a query
          RingSize,    \* capacity_per_flow
          MaxLimit,    \* MAX_QUERY_LIMIT
          MaxClock,    \* bound: milliseconds
          MaxWriting,  \* bound: threads that log at the same time
          MaxLines,    \* bound: events
          MaxSilent    \* bound: peers that do not answer

NoFlow == "no flow"
AnyFlow == "any flow"
Worse == [ok |-> 0, warn |-> 1, error |-> 2]

ASSUME LogsAssumption ==
  /\ Reader \in LogPods
  /\ \A e \in Events : e.level \in {"info", "warn", "error"} /\ e.subject \in BOOLEAN
  /\ RingSize \in Nat \ {0} /\ MaxLimit \in Nat \ {0}
  /\ Limits \subseteq Nat \ {0}
  /\ MaxClock \in Nat /\ MaxWriting \in Nat /\ MaxLines \in Nat /\ MaxSilent \in Nat

VARIABLES now,       \* the clock
          writing,   \* the events in the layers, with their stage
          lines,     \* how many events there were
          tallies,   \* FlowMetrics of each pod, flow and level
          rings,     \* Buffers of each pod: a ring for each flow and level
          history,   \* history: the lines each pod has stored, in that order
          counted,   \* history: the events counted
          backwards, \* history: a counter's time went back
          tail,      \* the reader's subscription to its own pod
          query,     \* the reader's history query
          silent     \* peers that did not answer

logVars == <<now, writing, lines, tallies, rings, history, counted, backwards, tail, query, silent>>

Flows == UNION {{span.flow : span \in Range(e.spans)} : e \in Events} \ {NoFlow}
Levels == {"info", "warn", "error"}
Rings == (Flows \cup {NoFlow}) \X Levels

NoTail == [open |-> FALSE]
NoQuery == [stage |-> "none"]

LogsInit ==
  /\ now = 1
  /\ writing = {}
  /\ lines = 0
  /\ tallies = [p \in LogPods |-> [f \in Flows |-> [l \in Levels |-> [total |-> 0, last |-> 0]]]]
  /\ rings = [p \in LogPods |-> [k \in Rings |-> <<>>]]
  /\ history = [p \in LogPods |-> <<>>]
  /\ counted = {}
  /\ backwards = FALSE
  /\ tail = NoTail
  /\ query = NoQuery
  /\ silent = 0

(***************************************************************************)
(* Logging.                                                                *)
(***************************************************************************)

\* The flow of the innermost span that carries one, of those named in `names`.
Innermost(spans, names) ==
  LET carrying == {i \in DOMAIN spans : spans[i].flow # NoFlow /\ spans[i].name \in names}
  IN IF carrying = {} THEN NoFlow ELSE spans[Max(carrying)].flow

\* on_new_span and on_event: the flow a flow.run or a task.run carries.
FlowOf(e) == Innermost(e.spans, {"flow.run", "task.run"})

\* span_field: the `flow` of any span.
FiledOf(e) == Innermost(e.spans, {span.name : span \in Range(e.spans)})

\* An info event counts in a task.handle or with an event.subject, a warning or an error
\* anywhere in a flow.
Counts(e) ==
  /\ FlowOf(e) # NoFlow
  /\ e.level = "info" => e.subject \/ \E span \in Range(e.spans) : span.name = "task.handle"

\* init_tracing: the activity layer comes before the memory layer.
FirstStage(e) == IF Counts(e) THEN "observed" ELSE "formatted"

\* FlowActivityLayer::on_event takes the time of an event that counts and leaves others to
\* the memory layer, which formats the line with a time of its own.
Observe(p, e) ==
  /\ Cardinality(writing) < MaxWriting
  /\ lines < MaxLines
  /\ lines' = lines + 1
  /\ writing' = writing \cup {[id |-> lines + 1, pod |-> p, of |-> FlowOf(e), flow |-> FiledOf(e),
                               level |-> e.level, counts |-> Counts(e), ts |-> now, stage |-> FirstStage(e)]}
  /\ UNCHANGED <<now, tallies, rings, history, counted, backwards, tail, query, silent>>

Line(w) == [id |-> w.id, pod |-> w.pod, flow |-> w.flow, level |-> w.level, ts |-> w.ts]

\* FlowMetrics::record
Tally(tally, ts) == [total |-> tally.total + 1, last |-> ts]

\* OtlpMetricsStore::record; then the memory layer formats the line, with the time it is by now.
Count(w) ==
  /\ w.stage = "observed"
  /\ writing' = (writing \ {w}) \cup {[w EXCEPT !.stage = "formatted", !.ts = now]}
  /\ tallies' = [tallies EXCEPT ![w.pod][w.of][w.level] = Tally(@, w.ts)]
  /\ counted' = counted \cup {Line(w)}
  /\ backwards' = (backwards \/ w.ts < tallies[w.pod][w.of][w.level].last)
  /\ UNCHANGED <<now, lines, rings, history, tail, query, silent>>

Room(s, n) == IF Len(s) = n THEN Tail(s) ELSE s

\* push_bounded: a full ring loses its first line.
PushBounded(ring, line) ==
  [ring EXCEPT ![<<line.flow, line.level>>] = Append(Room(@, RingSize), line)]

\* LogFilter::matches
Matches(filter, line) ==
  /\ filter.flow \in {AnyFlow, line.flow}
  /\ line.level \in filter.levels

Push(line) ==
  /\ rings' = [rings EXCEPT ![line.pod] = PushBounded(@, line)]
  /\ history' = [history EXCEPT ![line.pod] = Append(@, line)]

Announce(line) ==
  tail' = IF tail.open /\ line.pod = Reader /\ Matches(tail.filter, line)
          THEN [tail EXCEPT !.got = @ \cup {line}] ELSE tail

\* Mutant of Ingest: the line is announced before it is stored.
IngestLate(w) ==
  /\ \/ /\ w.stage = "formatted"
        /\ Announce(Line(w))
        /\ writing' = (writing \ {w}) \cup {[w EXCEPT !.stage = "stored"]}
        /\ UNCHANGED <<rings, history>>
     \/ /\ w.stage = "stored"
        /\ Push(Line(w))
        /\ writing' = writing \ {w}
        /\ UNCHANGED tail
  /\ UNCHANGED <<now, lines, tallies, counted, backwards, query, silent>>

\* ingest: the line goes into its ring, and then to the subscribers, which only the reader's
\* pod has here.
Ingest(w) ==
  /\ \/ /\ w.stage = "formatted"
        /\ Push(Line(w))
        /\ writing' = (writing \ {w}) \cup (IF w.pod = Reader THEN {[w EXCEPT !.stage = "stored"]} ELSE {})
        /\ UNCHANGED tail
     \/ /\ w.stage = "stored"
        /\ Announce(Line(w))
        /\ writing' = writing \ {w}
        /\ UNCHANGED <<rings, history>>
  /\ UNCHANGED <<now, lines, tallies, counted, backwards, query, silent>>

TickLogs ==
  /\ now < MaxClock
  /\ now' = now + 1
  /\ UNCHANGED <<writing, lines, tallies, rings, history, counted, backwards, tail, query, silent>>

(***************************************************************************)
(* The status of a flow.                                                   *)
(***************************************************************************)

StatusOf == [info |-> "ok", warn |-> "warn", error |-> "error"]

\* derive_status: the level seen last, the worst of those seen in the same millisecond.
DeriveStatus(last) ==
  LET seen == {l \in Levels : last[l] # 0}
      best == {l \in seen : \A k \in seen : last[k] <= last[l]}
  IN IF seen = {} THEN "idle"
     ELSE CHOOSE s \in {StatusOf[l] : l \in best} : \A t \in {StatusOf[l] : l \in best} : Worse[s] >= Worse[t]

\* FlowMetrics::snapshot
LastSeen(p, f) == [l \in Levels |-> tallies[p][f][l].last]

\* The status merged over `pods`: the later time of each level.
Status(f, pods) == DeriveStatus([l \in Levels |-> Max({LastSeen(p, f)[l] : p \in pods})])

(***************************************************************************)
(* Reading: the history query, over all pods, and the tail.                *)
(***************************************************************************)

\* newest, and the end of query: lines sorted by time, the last `limit` of them; lines of
\* one millisecond in any order.
Newest(found, limit) ==
  {kept \in kSubset(Min({limit, Cardinality(found)}), found) :
     \A line \in found \ kept : \A other \in kept : line.ts <= other.ts}

\* collect_from
Collected(p, filter) ==
  {line \in UNION {Range(rings[p][k]) : k \in Rings} : Matches(filter, line)}

\* The lines a pod has to keep: the last RingSize of each flow and level.
Kept(p) ==
  {line \in Range(history[p]) :
     Cardinality({i \in DOMAIN history[p] :
                    /\ history[p][i].flow = line.flow /\ history[p][i].level = line.level
                    /\ \E j \in 1..i : history[p][j] = line}) <= RingSize}

\* The pod's own lines are in the history the reader gets.
HasAnswered(p) ==
  query.stage = "answered" \/ (query.stage = "asked" /\ p \in DOMAIN query.answers)

\* What the pod stored after its answer and has announced by now.
SinceAnswer ==
  IF HasAnswered(Reader)
  THEN {history[Reader][i] : i \in
          {j \in query.at + 1 .. Len(history[Reader]) :
             \A w \in writing : w.stage = "stored" => Line(w) # history[Reader][j]}}
  ELSE {}

\* tail: a subscription to the reader's own pod, for the lines the reader asks for.  The
\* logs page asks and subscribes at once (onMount), the flow's panel subscribes when it
\* has the history (ensureFlowSubscription).
OpenTail(filter) ==
  /\ ~tail.open
  /\ query.stage # "none" => filter = query.filter
  /\ tail' = [open |-> TRUE, filter |-> filter, got |-> {}, unheard |-> SinceAnswer]
  /\ UNCHANGED <<now, writing, lines, tallies, rings, history, counted, backwards, query, silent>>

\* list_logs and serve_logs bound the limit.
Served(limit) == Min({limit, MaxLimit})

\* list_logs; ClusterLogsStore::query asks every pod at once.  A reader with a tail asks for
\* the same lines.
Ask(filter, limit) ==
  /\ query.stage = "none"
  /\ tail.open => filter = tail.filter
  /\ query' = [stage |-> "asked", filter |-> filter, limit |-> Served(limit),
               kept |-> UNION {Kept(p) : p \in LogPods},
               answers |-> [p \in {} |-> {}], at |-> Len(history[Reader])]
  /\ UNCHANGED <<now, writing, lines, tallies, rings, history, counted, backwards, tail, silent>>

Answered(p, found) ==
  [query EXCEPT !.answers = [q \in DOMAIN @ \cup {p} |-> IF q = p THEN found ELSE @[q]],
                !.at = IF p = Reader THEN Len(history[p]) ELSE @]

\* serve_logs: the newest lines of one pod; a peer that does not answer is left out.
Answer(p) ==
  /\ query.stage = "asked"
  /\ p \notin DOMAIN query.answers
  /\ \/ /\ \E found \in Newest(Collected(p, query.filter), Served(query.limit)) :
             query' = Answered(p, found)
        /\ UNCHANGED silent
     \/ /\ p # Reader /\ silent < MaxSilent
        /\ silent' = silent + 1
        /\ query' = [Answered(p, {}) EXCEPT !.kept = {line \in @ : line.pod # p}]
  /\ UNCHANGED <<now, writing, lines, tallies, rings, history, counted, backwards, tail>>

MergeAnswers ==
  /\ query.stage = "asked"
  /\ DOMAIN query.answers = LogPods
  /\ \E found \in Newest(UNION {query.answers[p] : p \in LogPods}, query.limit) :
       query' = [stage |-> "answered", filter |-> query.filter, limit |-> query.limit,
                 kept |-> {line \in query.kept : line \in Kept(line.pod)}, found |-> found, at |-> query.at]
  /\ UNCHANGED <<now, writing, lines, tallies, rings, history, counted, backwards, tail, silent>>

-----------------------------------------------------------------------------

LogsNext ==
  \/ \E p \in LogPods, e \in Events : Observe(p, e)
  \/ \E w \in writing : Count(w) \/ Ingest(w)
  \/ TickLogs
  \/ \E filter \in Filters : OpenTail(filter) \/ \E limit \in Limits : Ask(filter, limit)
  \/ \E p \in LogPods : Answer(p)
  \/ MergeAnswers

LogsSpec == LogsInit /\ [][LogsNext]_logVars

-----------------------------------------------------------------------------

\* A history query shows the newest lines of all pods: a matching line that its pod had to
\* keep from the question to the answer, however many lines of other levels and flows came
\* in between, is missing only behind `limit` lines that are not older, or with its pod.
QueryIsNewest ==
  query.stage = "answered" =>
    /\ \A line \in query.found : Matches(query.filter, line)
    /\ \A line \in query.kept :
         Matches(query.filter, line) /\ line \notin query.found =>
           /\ Cardinality(query.found) = query.limit
           /\ \A other \in query.found : other.ts >= line.ts

\* History and tail together lack no matching line of the reader's pod that was stored
\* after the pod's answer, whichever came first, but for those that the pod announced
\* before the subscription: `unheard` is empty for a tail that is open when the pod
\* answers.  The panel of a flow, which always asks first, has that gap (activityStore),
\* the logs page when its subscription arrives after its question.
NoGap ==
  query.stage = "answered" /\ tail.open =>
    \A i \in query.at + 1 .. Len(history[Reader]) :
      LET line == history[Reader][i]
      IN \/ ~Matches(tail.filter, line)
         \/ line \in tail.got \cup tail.unheard
         \/ \E w \in writing : w.id = line.id

\* The status of a flow, of a pod and of all pods, is that of the event counted last, the
\* worst in a tie.  Excepted is the race of two threads that count the same level: the
\* later store wins, whichever event is the later.  An event counts for the flow its line is
\* kept under: the status and the history of a flow speak of the same events.
StatusIsLatest ==
  ~backwards =>
    \A f \in Flows : \A pods \in SUBSET LogPods \ {{}} :
      LET mine == {e \in counted : e.flow = f /\ e.pod \in pods}
          last == {e \in mine : \A d \in mine : d.ts <= e.ts}
      IN Status(f, pods) =
           (IF mine = {} THEN "idle"
            ELSE IF \E e \in last : e.level = "error" THEN "error"
            ELSE IF \E e \in last : e.level = "warn" THEN "warn" ELSE "ok")

=============================================================================
