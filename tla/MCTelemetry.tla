----------------------------- MODULE MCTelemetry -----------------------------
(* Metrics with one viewer and one peer, or the log of one reader and one peer. *)
EXTENDS Telemetry, Logs

VARIABLE side

Span(name, f) == [name |-> name, flow |-> f]
InFlow == <<Span("flow.run", "f"), Span("task.run", NoFlow), Span("task.handle", NoFlow)>>
OfRequest == <<Span("task.run", "f"), Span("task.handle", NoFlow)>>
Ambient == <<Span("mcp.request", NoFlow)>>

MCEvents ==
  [spans : {InFlow}, level : {"info", "error"}, subject : {TRUE}]
    \cup [spans : {OfRequest}, level : {"warn"}, subject : {FALSE}]
    \cup [spans : {<<Span("flow.run", "f")>>}, level : {"info"}, subject : {FALSE}]
    \cup [spans : {Ambient}, level : {"info", "error"}, subject : {FALSE}]

MCFilters ==
  {[flow |-> AnyFlow, levels |-> Levels], [flow |-> AnyFlow, levels |-> {"error"}]}

MCInit == side \in {"metrics", "status", "log"} /\ Init /\ LogsInit

\* Counters and lines share no state: one side counts and nobody reads, on the other
\* nothing counts, time stands still and the peer alone logs for a flow.
MCNext ==
  /\ \/ side = "metrics" /\ Next /\ UNCHANGED logVars
     \/ /\ side \in {"status", "log"} /\ LogsNext /\ UNCHANGED vars
        /\ side = "status" => query' = query /\ tail' = tail /\ \A w \in writing' : w.counts
        /\ side = "log" => /\ now' = now
                           /\ \A w \in writing' : ~w.counts /\ (w.flow = NoFlow <=> w.pod = Reader)
  /\ UNCHANGED side

MCSpec == MCInit /\ [][MCNext]_<<side, vars, logVars>> /\ Fairness
=============================================================================
