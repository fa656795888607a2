----------------------------- MODULE Endpoints -----------------------------
(***************************************************************************)
(* A request at an HTTP endpoint, an MCP tool, an LLM proxy of the AI       *)
(* gateway or an in-process endpoint: the handler finds the registration,   *)
(* checks the request, hands an event to the flow and waits for its         *)
(* completion, or streams what the flow sends meanwhile.  A stream has an   *)
(* entry in a response registry, a map behind one mutex; the flow finds the *)
(* entry by its correlation ID and puts chunks in its channel, which the    *)
(* stream task moves on to the channel of the response body.                *)
(***************************************************************************)
EXTENDS Listings, Admission

CONSTANTS Requests,
          Setups,       \* what the flows offer and what the requests are
          ProgressCap,  \* capacity of an entry's progress channel (32)
          BodyCap,      \* capacity of a response body's channel (32)
          InputCap      \* capacity of the flow's input channel

\* Bounds on the starts and stops of flows, and the requests: the server, whether
\* it streams, whether ack_timeout is set, how many chunks the flow sends, whether
\* the client may disconnect, how the door is guarded, and what is shown at it.
ASSUME SetupsAssumption ==
  \A s \in Setups :
    /\ s.offers \in [Flows -> SUBSET Tables]
    /\ s.sessions \subseteq Sessions
    /\ s.starts \in 0..MaxChanges /\ s.stops \in BOOLEAN
    /\ DOMAIN s.ask \subseteq Requests
    /\ \A r \in DOMAIN s.ask :
         /\ s.ask[r].role \in {"endpoint", "proxy", "tool", "inproc"}
         /\ s.ask[r].stream \in BOOLEAN /\ s.ask[r].timeout \in BOOLEAN
         /\ s.ask[r].chunks \in Nat /\ s.ask[r].leaves \in BOOLEAN
         /\ s.ask[r].guard \in Guards
    /\ s.shown \subseteq Queries
ASSUME CapacityAssumption == {ProgressCap, BodyCap, InputCap} \subseteq Nat \ {0}

Tenures == 1..MaxChanges
NoOne == "noOne"
NoQuery == [auth |-> "absent", headers |-> FALSE, form |-> "good", from |-> "outside"]
Mcp == 0   \* the MCP server's own response registry; the others belong to a tenure

VARIABLES setup,      \* one of Setups
          tenure,     \* the tenure of a flow that runs, or 0
          cancelled,  \* tenures whose token is cancelled
          alive,      \* tenures whose tasks still take events
          input,      \* the input channel of a tenure
          lock,       \* who holds a registry's mutex
          entries,    \* the correlation IDs in a registry
          pc,         \* where the handler of a request, or its stream task, is
          reg,        \* the tenure of the registration it found
          query,      \* what it showed when it was admitted
          caller,     \* the user in the session of its event, or "none"
          client,     \* "there" or "gone"
          expired,    \* its ack_timeout ran out
          work,       \* the flow's: "none", "queued", "busy", "sending" or "done"
          left,       \* chunks the flow has still to send
          progress,   \* chunks in the entry's channel
          result,     \* of its completion: "none", "ok", "failed" or "dropped"
          body,       \* frames in the response body's channel
          told,       \* chunks the client has read
          answer,     \* what ended the response: see Answers
          accepted    \* chunks that went into the entry's channel (history)

flowVars == <<tenure, cancelled, alive, input>>
registryVars == <<lock, entries>>
doorVars == <<query, caller>>
handlerVars == <<pc, reg, doorVars>>
jobVars == <<work, left, accepted>>
clientVars == <<client, told, answer>>
requestVars == <<setup, flowVars, registryVars, handlerVars, expired, jobVars, progress,
                 result, body, clientVars>>
vars == <<listVars, requestVars>>

Ask(r) == setup.ask[r]
Asked == DOMAIN setup.ask
Role(r) == Ask(r).role
\* Tools always stream, in-process calls never do.
Streams(r) == Role(r) = "tool" \/ (Role(r) # "inproc" /\ Ask(r).stream)
\* A tool's entry is in the MCP server's registry, the others in the flow's.
RegistryOf(r) == IF Role(r) = "tool" THEN Mcp ELSE reg[r]

Answers == {"none", "ok", "error", "unknown", "rejected", "stopped", "busy", "undelivered",
            "ended", "cut"}
HandlerSteps == {"check", "insert", "send", "undo", "await"}
StreamSteps == {"open", "select", "put", "quit", "remove", "again", "drain", "late", "final",
                "exit"}

TypeOK ==
  /\ ListingsTypeOK
  /\ setup \in Setups
  /\ tenure \in [Flows -> 0..MaxChanges] /\ cancelled \cup alive \subseteq Tenures
  /\ \A t \in Tenures : Len(input[t]) =< InputCap
  /\ lock \in [0..MaxChanges -> Requests \cup {NoOne}]
  /\ entries \in [0..MaxChanges -> SUBSET Requests]
  /\ pc \in [Requests -> {"new", "done"} \cup HandlerSteps \cup StreamSteps]
  /\ reg \in [Requests -> 0..MaxChanges]
  /\ query \in [Requests -> Queries] /\ caller \in [Requests -> {"none", "user"}]
  /\ client \in [Requests -> {"there", "gone"}]
  /\ expired \in [Requests -> BOOLEAN]
  /\ work \in [Requests -> {"none", "queued", "busy", "sending", "done"}]
  /\ progress \in [Requests -> 0..ProgressCap]
  /\ result \in [Requests -> {"none", "ok", "failed", "dropped"}]
  /\ \A r \in Requests : Len(body[r]) =< BodyCap
  /\ answer \in [Requests -> Answers]

Init ==
  /\ setup \in Setups
  /\ offers = setup.offers
  /\ ListingsInit
  /\ tenure = [f \in Flows |-> 0] /\ cancelled = {} /\ alive = {}
  /\ input = [t \in Tenures |-> << >>]
  /\ lock = [g \in 0..MaxChanges |-> NoOne]
  /\ entries = [g \in 0..MaxChanges |-> {}]
  /\ pc = [r \in Requests |-> IF r \in Asked THEN "new" ELSE "done"]
  /\ reg = [r \in Requests |-> 0]
  /\ query = [r \in Requests |-> NoQuery] /\ caller = [r \in Requests |-> "none"]
  /\ client = [r \in Requests |-> "there"]
  /\ expired = [r \in Requests |-> FALSE]
  /\ work = [r \in Requests |-> "none"]
  /\ left = [r \in Requests |-> IF r \in Asked THEN Ask(r).chunks ELSE 0]
  /\ accepted = [r \in Requests |-> 0] /\ told = [r \in Requests |-> 0]
  /\ progress = [r \in Requests |-> 0]
  /\ result = [r \in Requests |-> "none"]
  /\ body = [r \in Requests |-> << >>]
  /\ answer = [r \in Requests |-> "none"]
-----------------------------------------------------------------------------
(* Flows: a start is a tenure with a registry of its own; a stop cancels it *)
(* and takes it from the servers, and its tasks end some time later.        *)

Start(f) ==
  /\ changes < setup.starts
  /\ StartFlow(f)
  /\ tenure' = [tenure EXCEPT ![f] = changes + 1]
  /\ alive' = alive \cup {changes + 1}
  /\ UNCHANGED <<setup, cancelled, input, registryVars, handlerVars, expired, jobVars, progress,
                 result, body, clientVars>>

Claim(f, t) == Register(f, t) /\ UNCHANGED requestVars

\* stop_and_deregister and stop_flows: cancel, then deregister_flow of the servers.
Cancel(f) ==
  /\ setup.stops /\ f \in up /\ toDo[f] = {} /\ tenure[f] \notin cancelled
  /\ cancelled' = cancelled \cup {tenure[f]}
  /\ UNCHANGED <<listVars, setup, tenure, alive, input, registryVars, handlerVars, expired,
                 jobVars, progress, result, body, clientVars>>

Deregister(f) ==
  /\ tenure[f] \in cancelled
  /\ StopFlow(f)
  /\ UNCHANGED requestVars

\* What a tenure has of a request, and has not completed, is dropped with its tasks.
Held(t) == {r \in Asked : reg[r] = t /\ work[r] \in {"queued", "busy", "sending"}}
TasksEnd(t) ==
  /\ t \in alive \cap cancelled
  /\ alive' = alive \ {t}
  /\ input' = [input EXCEPT ![t] = << >>]
  /\ work' = [r \in Requests |-> IF r \in Held(t) THEN "done" ELSE work[r]]
  /\ result' = [r \in Requests |-> IF r \in Held(t) THEN "dropped" ELSE result[r]]
  /\ lock' = [lock EXCEPT ![t] = IF @ \in Held(t) THEN NoOne ELSE @]
  /\ UNCHANGED <<listVars, setup, tenure, cancelled, entries, handlerVars, expired, left, accepted,
                 progress, body, clientVars>>
-----------------------------------------------------------------------------
(* The flow's side: process_events takes the event, the AI task streams its *)
(* chunks (handle_streaming), and the last task signals the completion.     *)

Take(t) ==
  LET r == Head(input[t])
  IN  /\ t \in alive /\ input[t] # << >>
      /\ input' = [input EXCEPT ![t] = Tail(@)]
      /\ work' = [work EXCEPT ![r] = IF t \in cancelled THEN "done" ELSE "busy"]
      /\ result' = [result EXCEPT ![r] = IF t \in cancelled THEN "dropped" ELSE @]
      /\ UNCHANGED <<listVars, setup, tenure, cancelled, alive, registryVars, handlerVars, expired,
                     left, accepted, progress, body, clientVars>>

\* ResponseRegistry.send_progress on the flow's registry: it keeps the mutex while
\* the channel is full.  No entry, or no receiver: nothing is sent.
Found(r) == r \in entries[reg[r]] /\ RegistryOf(r) = reg[r]
SendProgress(r) ==
  /\ work[r] = "busy" /\ left[r] > 0
  /\ lock[reg[r]] = NoOne
  /\ left' = [left EXCEPT ![r] = @ - 1]
  /\ \/ /\ ~ Found(r) \/ pc[r] = "done"
        /\ UNCHANGED <<work, progress, accepted, lock>>
     \/ /\ Found(r) /\ pc[r] # "done" /\ progress[r] < ProgressCap
        /\ progress' = [progress EXCEPT ![r] = @ + 1]
        /\ accepted' = [accepted EXCEPT ![r] = @ + 1]
        /\ UNCHANGED <<work, lock>>
     \/ /\ Found(r) /\ pc[r] # "done" /\ progress[r] = ProgressCap
        /\ work' = [work EXCEPT ![r] = "sending"]
        /\ lock' = [lock EXCEPT ![reg[r]] = r]
        /\ UNCHANGED <<progress, accepted>>
  /\ UNCHANGED <<listVars, setup, flowVars, entries, handlerVars, expired, result, body,
                 clientVars>>

\* The send goes on when there is room, or fails when the receiver is dropped.
SendsOn(r) ==
  /\ work[r] = "sending"
  /\ \/ /\ progress[r] < ProgressCap /\ pc[r] # "done"
        /\ progress' = [progress EXCEPT ![r] = @ + 1]
        /\ accepted' = [accepted EXCEPT ![r] = @ + 1]
     \/ /\ pc[r] = "done"
        /\ UNCHANGED <<progress, accepted>>
  /\ work' = [work EXCEPT ![r] = "busy"]
  /\ lock' = [lock EXCEPT ![reg[r]] = NoOne]
  /\ UNCHANGED <<listVars, setup, flowVars, entries, handlerVars, expired, left, result, body,
                 clientVars>>

\* A handler of a cancelled tenure returns without a word; otherwise the flow
\* completes the event, or fails it, perhaps before its last chunk.
FlowEnds(r) ==
  /\ work[r] = "busy"
  /\ \/ /\ left[r] = 0 /\ reg[r] \notin cancelled
        /\ result' = [result EXCEPT ![r] = "ok"]
     \/ /\ reg[r] \notin cancelled
        /\ result' = [result EXCEPT ![r] = "failed"]
     \/ /\ reg[r] \in cancelled
        /\ result' = [result EXCEPT ![r] = "dropped"]
  /\ work' = [work EXCEPT ![r] = "done"]
  /\ UNCHANGED <<listVars, setup, flowVars, registryVars, handlerVars, expired, left, accepted,
                 progress, body, clientVars>>
-----------------------------------------------------------------------------
(* The handler.                                                             *)

Unchanged == UNCHANGED <<listVars, setup, tenure, cancelled, alive>>
AnswerWith(r, a) ==
  /\ pc' = [pc EXCEPT ![r] = "done"]
  /\ answer' = [answer EXCEPT ![r] = a]

\* dispatch_webhook, resolve_registration, execute_tool_call, InprocRegistry.call:
\* the registration is copied from the table; the endpoint and the proxy refuse a
\* request to a flow that is being stopped.
Arrive(r) ==
  LET f == table[Role(r)]
      t == tenure[f]
  IN  /\ pc[r] = "new"
      /\ \/ /\ f = NoFlow
            /\ AnswerWith(r, "unknown") /\ UNCHANGED reg
         \/ /\ f # NoFlow /\ Role(r) \in {"endpoint", "proxy"} /\ t \in cancelled
            /\ AnswerWith(r, "stopped") /\ UNCHANGED reg
         \/ /\ f # NoFlow /\ ~ (Role(r) \in {"endpoint", "proxy"} /\ t \in cancelled)
            /\ reg' = [reg EXCEPT ![r] = t]
            /\ pc' = [pc EXCEPT ![r] = "check"] /\ UNCHANGED answer
      /\ Unchanged
      /\ UNCHANGED <<input, registryVars, doorVars, expired, jobVars, progress, result, body, client,
                     told>>

\* The checks of Admission.
Check(r) ==
  /\ pc[r] = "check"
  /\ \E q \in setup.shown :
       \/ /\ ~ Admits(Role(r), Ask(r).guard, q)
          /\ AnswerWith(r, "rejected") /\ UNCHANGED doorVars
       \/ /\ Admits(Role(r), Ask(r).guard, q)
          /\ query' = [query EXCEPT ![r] = q]
          /\ caller' = [caller EXCEPT ![r] = CallerOf(Role(r), Ask(r).guard, q)]
          /\ pc' = [pc EXCEPT ![r] = IF Streams(r) THEN "insert" ELSE "send"]
          /\ UNCHANGED answer
  /\ Unchanged
  /\ UNCHANGED <<input, registryVars, reg, expired, jobVars, progress, result, body, client, told>>

\* ResponseRegistry.insert.
Insert(r) ==
  /\ pc[r] = "insert" /\ lock[RegistryOf(r)] = NoOne
  /\ entries' = [entries EXCEPT ![RegistryOf(r)] = @ \cup {r}]
  /\ pc' = [pc EXCEPT ![r] = "send"]
  /\ Unchanged
  /\ UNCHANGED <<input, lock, reg, doorVars, expired, jobVars, progress, result, body, clientVars>>

AfterSend(r) ==
  IF ~ Streams(r) THEN "await" ELSE IF Role(r) = "proxy" THEN "open" ELSE "select"

\* inject_event, send_by: the event goes to the flow, the flow is gone, or there is
\* no room for it by the deadline.  An error takes the entry out again.
Send(r) ==
  /\ pc[r] = "send"
  /\ \/ /\ reg[r] \in alive /\ Len(input[reg[r]]) < InputCap
        /\ input' = [input EXCEPT ![reg[r]] = Append(@, r)]
        /\ work' = [work EXCEPT ![r] = "queued"]
        /\ pc' = [pc EXCEPT ![r] = AfterSend(r)] /\ UNCHANGED answer
     \/ /\ reg[r] \notin alive \/ expired[r]
        /\ answer' = [answer EXCEPT ![r] = IF expired[r] THEN "busy" ELSE "undelivered"]
        /\ pc' = [pc EXCEPT ![r] = IF Streams(r) THEN "undo" ELSE "done"]
        /\ UNCHANGED <<input, work>>
  /\ Unchanged
  /\ UNCHANGED <<registryVars, reg, doorVars, expired, left, accepted, progress, result, body, client, told>>

\* ResponseRegistry.remove.
RemoveEntry(r) ==
  /\ lock[RegistryOf(r)] = NoOne
  /\ entries' = [entries EXCEPT ![RegistryOf(r)] = @ \ {r}]

Undo(r) ==
  /\ pc[r] = "undo"
  /\ RemoveEntry(r)
  /\ pc' = [pc EXCEPT ![r] = "done"]
  /\ Unchanged
  /\ UNCHANGED <<input, lock, reg, doorVars, expired, jobVars, progress, result, body, clientVars>>

Told(r) == IF result[r] = "ok" THEN "ok" ELSE "error"

\* dispatch_blocking of the endpoint and the gateway, and InprocRegistry.call.
Await(r) ==
  /\ pc[r] = "await"
  /\ result[r] # "none" \/ expired[r]
  /\ AnswerWith(r, Told(r))
  /\ Unchanged
  /\ UNCHANGED <<input, registryVars, reg, doorVars, expired, jobVars, progress, result, body, client, told>>

Expire(r) ==
  /\ r \in Asked /\ Ask(r).timeout /\ ~ expired[r]
  /\ pc[r] \notin {"new", "check", "insert", "done"}
  /\ expired' = [expired EXCEPT ![r] = TRUE]
  /\ UNCHANGED <<listVars, setup, flowVars, registryVars, handlerVars, jobVars, progress, result,
                 body, clientVars>>
-----------------------------------------------------------------------------
(* The stream task.  It moves chunks from the entry's channel to the body   *)
(* until the completion or the deadline.                                    *)

Goes(r, to) == pc' = [pc EXCEPT ![r] = to]
Room(r) == Len(body[r]) < BodyCap
Puts(r, frame) == body' = [body EXCEPT ![r] = Append(@, frame)]
\* `let _ = sse_tx.send(..).await`: waits for room, and passes when the client left.
PutsIfThere(r, frame) ==
  \/ client[r] = "there" /\ Room(r) /\ Puts(r, frame)
  \/ client[r] = "gone" /\ UNCHANGED body
StreamUnchanged == Unchanged /\ UNCHANGED <<input, reg, doorVars, expired, jobVars, result, clientVars>>

\* The gateway's first frames; when the client has left, its entry stays.
Open(r) ==
  /\ pc[r] = "open"
  /\ \/ client[r] = "there" /\ Room(r) /\ Puts(r, "open") /\ Goes(r, "select")
     \/ client[r] = "gone" /\ Goes(r, "done") /\ UNCHANGED body
  /\ StreamUnchanged /\ UNCHANGED <<registryVars, progress>>

\* select!: a chunk.
Receive(r) ==
  /\ pc[r] = "select" /\ progress[r] > 0
  /\ progress' = [progress EXCEPT ![r] = @ - 1]
  /\ Goes(r, "put")
  /\ StreamUnchanged /\ UNCHANGED <<registryVars, body>>

PutChunk(r) ==
  /\ pc[r] = "put"
  /\ \/ client[r] = "there" /\ Room(r) /\ Puts(r, "chunk") /\ Goes(r, "select")
     \/ /\ client[r] = "gone" /\ UNCHANGED body
        /\ Goes(r, IF Role(r) = "endpoint" THEN "exit" ELSE "quit")
  /\ StreamUnchanged /\ UNCHANGED <<registryVars, progress>>

\* Only the endpoint's stream waits for sse_tx.closed().
ClientGone(r) ==
  /\ pc[r] = "select" /\ Role(r) = "endpoint" /\ client[r] = "gone"
  /\ Goes(r, "exit")
  /\ StreamUnchanged /\ UNCHANGED <<registryVars, progress, body>>

CompletedIfAnswered(r) ==
  /\ pc[r] = "select" /\ result[r] \in {"ok", "failed"}
  /\ Goes(r, IF Role(r) = "endpoint" THEN "drain" ELSE "remove")
  /\ StreamUnchanged /\ UNCHANGED <<registryVars, progress, body>>

\* select!: the completion.  The endpoint drains the channel and removes the entry
\* last; the tool and the gateway remove it first, so that nothing comes after.
Completed(r) ==
  /\ pc[r] = "select" /\ result[r] # "none"
  /\ Goes(r, IF Role(r) = "endpoint" THEN "drain" ELSE "remove")
  /\ StreamUnchanged /\ UNCHANGED <<registryVars, progress, body>>

\* select!: the deadline, with no completion yet.  The endpoint and the tool say so,
\* the tool and the gateway remove the entry.  The branch waits for the mutex and for
\* room in the body as part of the select!, so that a chunk may still come first.
TimedOut(r) ==
  /\ pc[r] = "select" /\ expired[r] /\ result[r] = "none"
  /\ IF Role(r) = "endpoint" THEN UNCHANGED entries ELSE RemoveEntry(r)
  /\ IF Role(r) = "proxy" THEN UNCHANGED body ELSE PutsIfThere(r, "error")
  /\ Goes(r, IF Role(r) = "endpoint" THEN "late" ELSE "again")
  /\ StreamUnchanged /\ UNCHANGED <<lock, progress>>

DrainedNothing(r) ==
  /\ UNCHANGED <<progress, body>>
  /\ Goes(r, IF pc[r] = "drain" THEN "final"
             ELSE IF Role(r) = "endpoint" THEN "exit" ELSE "done")
\* What is left in the channel, then the end of the stream.
Drained(r) ==
  \/ /\ progress[r] > 0
     /\ progress' = [progress EXCEPT ![r] = @ - 1]
     /\ PutsIfThere(r, "chunk")
     /\ UNCHANGED pc
  \/ /\ progress[r] = 0
     /\ Goes(r, IF pc[r] = "drain" THEN "final"
                ELSE IF Role(r) = "endpoint" THEN "exit" ELSE "done")
     /\ UNCHANGED <<progress, body>>
Drain(r) ==
  /\ pc[r] \in {"drain", "late"}
  /\ Drained(r)
  /\ StreamUnchanged /\ UNCHANGED registryVars

Remove(r) ==
  /\ pc[r] \in {"remove", "again", "quit"}
  /\ RemoveEntry(r)
  /\ Goes(r, CASE pc[r] = "remove" -> "drain" [] pc[r] = "again" -> "late" [] pc[r] = "quit" -> "done")
  /\ StreamUnchanged /\ UNCHANGED <<lock, progress, body>>

\* The frames that end the stream.  The endpoint sends the data of a completion that
\* has any, and nothing for a failure; the gateway closes the stream of a dropped
\* completion like that of a finished one.
FinalFrame(r) == IF Role(r) = "proxy" /\ result[r] = "dropped" THEN "ok" ELSE Told(r)
Final(r) ==
  /\ pc[r] = "final"
  /\ \/ /\ Role(r) = "endpoint" => result[r] = "ok"
        /\ PutsIfThere(r, FinalFrame(r))
     \/ Role(r) = "endpoint" /\ UNCHANGED body
  /\ Goes(r, IF Role(r) = "endpoint" THEN "exit" ELSE "done")
  /\ StreamUnchanged /\ UNCHANGED <<registryVars, progress>>

Exit(r) ==
  /\ pc[r] = "exit"
  /\ RemoveEntry(r)
  /\ Goes(r, "done")
  /\ StreamUnchanged /\ UNCHANGED <<lock, progress, body>>
-----------------------------------------------------------------------------
(* The client.                                                              *)

Streaming(r) == pc[r] \in StreamSteps

Read(r) ==
  LET frame == Head(body[r])
  IN  /\ client[r] = "there" /\ body[r] # << >>
      /\ body' = [body EXCEPT ![r] = Tail(@)]
      /\ told' = [told EXCEPT ![r] = IF frame = "chunk" THEN @ + 1 ELSE @]
      /\ answer' = [answer EXCEPT ![r] = IF frame \in {"ok", "error"} THEN frame ELSE @]
      /\ UNCHANGED <<listVars, setup, flowVars, registryVars, handlerVars, expired, jobVars,
                     progress, result, client>>

\* The response body ends without a frame that says how.
StreamEnds(r) ==
  /\ r \in Asked /\ Streams(r) /\ client[r] = "there"
  /\ pc[r] = "done" /\ body[r] = << >> /\ answer[r] = "none"
  /\ answer' = [answer EXCEPT ![r] = "ended"]
  /\ UNCHANGED <<listVars, setup, flowVars, registryVars, handlerVars, expired, jobVars,
                 progress, result, body, client, told>>

\* A client that disconnects ends the handler that has not answered; a stream task
\* runs on without its reader.
Leave(r) ==
  /\ r \in Asked /\ Ask(r).leaves /\ client[r] = "there" /\ answer[r] = "none"
  /\ pc[r] # "new" /\ Role(r) # "inproc"
  /\ client' = [client EXCEPT ![r] = "gone"]
  /\ answer' = [answer EXCEPT ![r] = "cut"]
  /\ body' = [body EXCEPT ![r] = << >>]
  /\ pc' = [pc EXCEPT ![r] = IF Streaming(r) THEN @ ELSE "done"]
  /\ UNCHANGED <<listVars, setup, flowVars, registryVars, reg, doorVars, expired, jobVars, progress,
                 result, told>>
-----------------------------------------------------------------------------
SessionStep ==
  /\ \/ \E s \in setup.sessions : OfSession(s)
     \/ \E a \in announcing : Broadcast(a)
  /\ UNCHANGED requestVars

LockStep(r) == Insert(r) \/ Undo(r) \/ Remove(r) \/ Exit(r) \/ TimedOut(r) \/ SendProgress(r)
HandlerStep(r) ==
  \/ Arrive(r) \/ Check(r) \/ Send(r) \/ Await(r)
  \/ Open(r) \/ Receive(r) \/ PutChunk(r) \/ ClientGone(r) \/ Completed(r) \/ Drain(r) \/ Final(r)
FlowStep(r) == SendsOn(r) \/ FlowEnds(r)

Next ==
  \/ \E f \in Flows : Start(f) \/ Cancel(f) \/ Deregister(f) \/ \E t \in Tables : Claim(f, t)
  \/ \E t \in Tenures : TasksEnd(t) \/ Take(t)
  \/ SessionStep
  \/ \E r \in Asked : \/ HandlerStep(r) \/ LockStep(r) \/ FlowStep(r)
                      \/ Expire(r) \/ Read(r) \/ StreamEnds(r) \/ Leave(r)

Spec == Init /\ [][Next]_vars

\* Tasks run on, a mutex is handed out in turn, and a client that stays reads.
Fairness ==
  /\ \A f \in Flows, t \in Tables : WF_vars(Claim(f, t))
  /\ \A t \in Tenures : WF_vars(TasksEnd(t)) /\ WF_vars(Take(t))
  /\ \A r \in Requests :
       /\ WF_vars(r \in Asked /\ HandlerStep(r)) /\ SF_vars(r \in Asked /\ LockStep(r))
       /\ WF_vars(r \in Asked /\ FlowStep(r))
       /\ WF_vars(Read(r)) /\ WF_vars(StreamEnds(r))

FairSpec == Spec /\ Fairness
-----------------------------------------------------------------------------
\* A client that is told its request succeeded is told so of a completion that
\* succeeded, and has by then every chunk the flow streamed for it: none is left in
\* the entry's channel or lost between the drain and the last frame (dispatch_stream,
\* execute_tool_call, dispatch_streaming).  The gateway is known to close the stream
\* of a dropped completion like that of a finished one.
SuccessIsComplete ==
  \A r \in Asked : answer[r] = "ok" =>
    /\ result[r] = "ok" \/ (Role(r) = "proxy" /\ Streams(r) /\ result[r] = "dropped")
    /\ Streams(r) => told[r] = accepted[r]

\* An entry of a response registry belongs to a request that is being served; only
\* a client that left before its stream task ran can leave an entry behind.
EntryHasOwner ==
  \A r \in Asked : r \in entries[RegistryOf(r)] => pc[r] # "done" \/ client[r] = "gone"

\* A flow that holds its registry's mutex while it waits for room in the channel of a
\* stream whose task reads no more and waits for that mutex: neither goes on, and the
\* channel's receiver is not dropped (send_progress, dispatch_stream, dispatch_streaming).
Deadlocked(t) ==
  \E r \in Asked :
    /\ lock[t] = r /\ reg[r] = t
    /\ work[r] = "sending" /\ progress[r] = ProgressCap
    /\ pc[r] \in {"exit", "quit"}

\* Every request is answered, its stream ended or its client gone, once a flow took
\* it, unless its flow is deadlocked with the stream of another request.  The code
\* does get there: a client leaves, or its time runs out, while the flow has more
\* chunks for it than its channel holds.  Then every other request of that flow that
\* needs the registry, to be entered or to be sent a chunk, waits as well; without
\* such a stream, requests of one flow do not hold each other up for ever.
EveryoneIsAnswered ==
  \A r \in Requests :
    (r \in Asked /\ pc[r] # "new")
      ~> (r \in Asked => answer[r] # "none" \/ (reg[r] # 0 /\ Deadlocked(reg[r])))

\* Keys and users at a door.
ShowsKey(g, a) == IsKey(a) \/ (a = "basic" /\ "basic" \in g.kinds)

\* An event that reached a flow was let in as its source task is configured: a door
\* with credentials saw one of them, a door that requires a user passed one on, and a
\* bearer that is the door's own key was never taken for the identity of a user that
\* nobody asked for (validate_endpoint_auth, validate_auth, validate_user_auth,
\* optional_user, headers_satisfy).
AdmittedAsConfigured ==
  \A r \in Asked :
    LET g == Ask(r).guard
        a == query[r].auth
        guarded == IF Role(r) = "tool" THEN ChecksKey(g) ELSE g.own
    IN  work[r] # "none" /\ Role(r) # "inproc" =>
          /\ guarded => ShowsKey(g, a)
          /\ g.required => caller[r] = "user"
          /\ guarded /\ ~ g.required => caller[r] = "none"
          /\ g.scoped /\ Role(r) # "endpoint" => query[r].headers

\* The registry's promise: an entry is cleaned up (core/src/registry.rs).
EntriesAreCleanedUp ==
  \A r \in Requests : (r \in Asked /\ r \in entries[RegistryOf(r)])
                        ~> (r \in Asked => r \notin entries[RegistryOf(r)])
=============================================================================
