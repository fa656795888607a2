------------------------------ MODULE Pipeline ------------------------------
(***************************************************************************)
(* The events of one running flow: a source that pulls messages from a      *)
(* broker, sends each as an event and acks it when the flow completed       *)
(* (nats/src/jetstream/subscriber.rs), the bounded channels and fan_out     *)
(* dispatchers of the task graph (app/src/flow.rs), and the processors'     *)
(* event loop with its slots, retries and cancellation                      *)
(* (core/src/task/runner.rs).  The counter of a delivery is the atomic      *)
(* count-down that Completion is shown to implement.                        *)
(*                                                                         *)
(* A node is a processor, numbered by its task, or the dispatcher of a     *)
(* task with several branches, numbered after all tasks.  The queue of a   *)
(* node is its input channel.                                              *)
(***************************************************************************)
EXTENDS TaskGraph

CONSTANTS Flow,           \* the task list; its first task is the source
          HandlesFailed,  \* tasks that handle events that failed upstream
          MaxDeliveries,  \* bound: messages the broker delivers or redelivers
          SourceInFlight, \* max_in_flight of the source
          MaxInFlight,    \* max_in_flight of the other tasks
          MaxAttempts     \* attempts a processor gives an event

N == Len(Flow)

ASSUME FlowAssumption ==
  /\ N \in Nat /\ N >= 2 /\ DOMAIN Flow = 1..N
  /\ BuildRegistry(Flow).ok
  /\ \A t \in 2..N : Flow[t].io /\ DOMAIN BuildRegistry(Flow).parents[t] # {}
  /\ \A t \in 1..N : Len(Flow[t].deps) \in Nat /\ DOMAIN Flow[t].deps = 1..Len(Flow[t].deps)

ASSUME BoundsAssumption ==
  /\ HandlesFailed \subseteq 2..N
  /\ MaxDeliveries \in Nat
  /\ SourceInFlight \in Nat \ {0}
  /\ MaxInFlight \in Nat \ {0}
  /\ MaxAttempts \in Nat \ {0}

\* CHANNEL_CAPACITY.
Capacity == 1

Source == 1
Wiring == BuildRegistry(Flow)
Out == [t \in 1..N |-> Branches(Wiring.parents, t)]
Processors == 2..N
Leaves == {t \in Processors : Out[t] = {}}
DispatcherOf(t) == t + N
Forks == {t \in 1..N : Cardinality(Out[t]) > 1}
Dispatchers == {DispatcherOf(t) : t \in Forks}
Nodes == Processors \cup Dispatchers
Slots == 1..MaxInFlight
Deliveries == 1..MaxDeliveries

\* build_dag: where a task's output sender leads, 0 for a leaf.
OutNode ==
  [t \in 1..N |->
     IF Out[t] = {} THEN 0
     ELSE IF t \in Forks THEN DispatcherOf(t)
     ELSE (CHOOSE b \in Out[t] : TRUE)[1]]

\* The nodes that hold a sender of node n.
SendersOf ==
  [n \in Nodes |-> {t \in 1..N : OutNode[t] = n}
                     \cup {DispatcherOf(t) : t \in {u \in Forks : \E b \in Out[u] : b[1] = n}}]

Free == [st |-> "free", d |-> 0, tries |-> 0]
NoEvent == [d |-> 0, failed |-> FALSE]

VARIABLES sourceUp,   \* the source has not returned
          delivery,   \* the source's side of each delivery
          remaining,  \* leaves each delivery still waits for
          outcome,    \* verdict of the last leaf
          alive,      \* "init", "running", "closing" or "done", of each node
          queue,      \* input channel of each node
          slots,      \* handlers of each processor
          sending,    \* event a dispatcher is cloning
          todo,       \* branches that still miss it
          cancelled,  \* the cancellation token
          lost        \* history: deliveries of which a copy went away unsignalled

sourceVars == <<sourceUp, delivery>>
countVars == <<remaining, outcome>>
dispVars == <<sending, todo>>
vars == <<sourceVars, countVars, dispVars, alive, queue, slots, cancelled, lost>>

Open(n) == alive[n] \in {"init", "running"}
Space(n) == Len(queue[n]) < Capacity

\* Every sender of n has been dropped.
InputClosed(n) ==
  \A s \in SendersOf[n] : IF s = Source THEN ~sourceUp ELSE alive[s] = "done"

EventsIn(q) == {q[i].d : i \in 1..Len(q)}

\* A copy of the event of delivery d is somewhere in the flow.
InFlow(d) ==
  \/ \E n \in Nodes : d \in EventsIn(queue[n])
  \/ \E n \in Dispatchers : sending[n].d = d
  \/ \E n \in Processors : \E s \in Slots : slots[n][s].d = d

Outstanding(d) == delivery[d] \in {"sending", "waiting"}

-----------------------------------------------------------------------------

Init ==
  /\ sourceUp = TRUE
  /\ delivery = [d \in Deliveries |-> "none"]
  /\ remaining = [d \in Deliveries |-> 0]
  /\ outcome = [d \in Deliveries |-> "none"]
  /\ alive = [n \in Nodes |-> IF n \in Processors THEN "init" ELSE "running"]
  /\ queue = [n \in Nodes |-> <<>>]
  /\ slots = [n \in Processors |-> [s \in Slots |-> Free]]
  /\ sending = [n \in Dispatchers |-> NoEvent]
  /\ todo = [n \in Dispatchers |-> {}]
  /\ cancelled = FALSE
  /\ lost = {}

(***************************************************************************)
(* The source.                                                             *)
(***************************************************************************)

\* A slot is free and the broker has a message: process creates the completion
\* channel, sized by the source's leaves.  A message that cannot be read is
\* nak'ed.
Pull(d) ==
  /\ ~cancelled
  /\ delivery[d] = "none"
  /\ \A e \in Deliveries : e < d => delivery[e] # "none"
  /\ Cardinality({e \in Deliveries : Outstanding(e)}) < SourceInFlight
  /\ \E next \in {"sending", "nacked"} : delivery' = [delivery EXCEPT ![d] = next]
  /\ remaining' = [remaining EXCEPT ![d] = Wiring.leaves[Source]]
  /\ UNCHANGED <<sourceUp, outcome, dispVars, alive, queue, slots, cancelled, lost>>

\* The event goes into the flow, or the first task is gone and the message is
\* nak'ed.
SourceSend(d) ==
  LET out == OutNode[Source] IN
  /\ delivery[d] = "sending"
  /\ \/ /\ Open(out) /\ Space(out)
        /\ queue' = [queue EXCEPT ![out] = Append(@, [d |-> d, failed |-> FALSE])]
        /\ delivery' = [delivery EXCEPT ![d] = "waiting"]
     \/ /\ ~Open(out)
        /\ delivery' = [delivery EXCEPT ![d] = "nacked"]
        /\ UNCHANGED queue
  /\ UNCHANGED <<sourceUp, countVars, dispVars, alive, slots, cancelled, lost>>

\* What completed waits for, in the order of its select: cancellation comes
\* first and leaves the message unanswered.
Answer(d, reply) ==
  /\ ~cancelled
  /\ delivery[d] = "waiting"
  /\ delivery' = [delivery EXCEPT ![d] = reply]
  /\ UNCHANGED <<sourceUp, countVars, dispVars, alive, queue, slots, cancelled, lost>>

\* The last leaf's verdict arrives.
SourceResult(d) ==
  /\ outcome[d] # "none"
  /\ Answer(d, IF outcome[d] = "ok" THEN "acked" ELSE "nacked")

\* No copy is left, so the sender is gone.
SourceClosed(d) ==
  /\ outcome[d] = "none"
  /\ ~InFlow(d)
  /\ Answer(d, "nacked")

\* ack_timeout, while the event is still in the flow.
SourceTimeout(d) ==
  /\ outcome[d] = "none"
  /\ Answer(d, "nacked")

\* The flow's token is cancelled, by a shutdown or a lost lease.
Cancel ==
  /\ ~cancelled
  /\ cancelled' = TRUE
  /\ UNCHANGED <<sourceVars, countVars, dispVars, alive, queue, slots, lost>>

\* The source sees it, returns, and aborts the deliveries in flight: the broker
\* redelivers their messages.
SourceStops ==
  /\ cancelled
  /\ sourceUp
  /\ sourceUp' = FALSE
  /\ delivery' = [d \in Deliveries |-> IF Outstanding(d) THEN "dropped" ELSE delivery[d]]
  /\ UNCHANGED <<countVars, dispVars, alive, queue, slots, cancelled, lost>>

(***************************************************************************)
(* fan_out.                                                                *)
(***************************************************************************)

\* The next event; with no branch left that takes events, fan_out returns.
DispatchTake(n) ==
  LET branches == {b \in Out[n - N] : Open(b[1])} IN
  /\ alive[n] = "running"
  /\ sending[n] = NoEvent
  /\ queue[n] # <<>>
  /\ IF branches = {}
     THEN /\ alive' = [alive EXCEPT ![n] = "done"]
          /\ queue' = [queue EXCEPT ![n] = <<>>]
          /\ lost' = lost \cup EventsIn(queue[n])
          /\ UNCHANGED dispVars
     ELSE /\ sending' = [sending EXCEPT ![n] = Head(queue[n])]
          /\ todo' = [todo EXCEPT ![n] = branches]
          /\ queue' = [queue EXCEPT ![n] = Tail(@)]
          /\ lost' = IF branches = Out[n - N] THEN lost ELSE lost \cup {Head(queue[n]).d}
          /\ UNCHANGED alive
  /\ UNCHANGED <<sourceVars, countVars, slots, cancelled>>

\* The branch that gets the next clone: in the order of the children.
NextBranch(n) ==
  CHOOSE x \in todo[n] : \A y \in todo[n] : x[1] < y[1] \/ (x[1] = y[1] /\ x[2] <= y[2])

\* Mutant of DispatchSend: the dispatcher waits for a branch that stopped.
DispatchSendWaits(n) ==
  LET b == NextBranch(n)
      rest == todo[n] \ {b}
  IN
  /\ todo[n] # {}
  /\ Open(b[1]) /\ Space(b[1])
  /\ queue' = [queue EXCEPT ![b[1]] = Append(@, sending[n])]
  /\ todo' = [todo EXCEPT ![n] = rest]
  /\ sending' = [sending EXCEPT ![n] = IF rest = {} THEN NoEvent ELSE @]
  /\ UNCHANGED <<sourceVars, countVars, alive, slots, cancelled, lost>>

\* The next branch gets its clone, or has stopped taking events.
DispatchSend(n) ==
  LET b == NextBranch(n)
      rest == todo[n] \ {b}
  IN
  /\ todo[n] # {}
  /\ \/ /\ Open(b[1]) /\ Space(b[1])
        /\ queue' = [queue EXCEPT ![b[1]] = Append(@, sending[n])]
        /\ UNCHANGED lost
     \/ /\ ~Open(b[1])
        /\ lost' = lost \cup {sending[n].d}
        /\ UNCHANGED queue
  /\ todo' = [todo EXCEPT ![n] = rest]
  /\ sending' = [sending EXCEPT ![n] = IF rest = {} THEN NoEvent ELSE @]
  /\ UNCHANGED <<sourceVars, countVars, alive, slots, cancelled>>

\* All senders are gone and nothing is queued.
DispatchEnd(n) ==
  /\ alive[n] = "running"
  /\ sending[n] = NoEvent
  /\ queue[n] = <<>>
  /\ InputClosed(n)
  /\ alive' = [alive EXCEPT ![n] = "done"]
  /\ UNCHANGED <<sourceVars, countVars, dispVars, queue, slots, cancelled, lost>>

(***************************************************************************)
(* Processors.                                                             *)
(***************************************************************************)

\* init succeeded and process_events starts.
Start(n) ==
  /\ alive[n] = "init"
  /\ alive' = [alive EXCEPT ![n] = "running"]
  /\ UNCHANGED <<sourceVars, countVars, dispVars, queue, slots, cancelled, lost>>

\* init failed after all attempts: the task ends and drops its channel.
InitFails(n) ==
  /\ alive[n] = "init"
  /\ alive' = [alive EXCEPT ![n] = "done"]
  /\ queue' = [queue EXCEPT ![n] = <<>>]
  /\ lost' = lost \cup EventsIn(queue[n])
  /\ UNCHANGED <<sourceVars, countVars, dispVars, slots, cancelled>>

\* With a free slot the loop takes the next event; one that failed upstream is
\* passed on, unless the task handles such events.
Take(n, s) ==
  /\ alive[n] = "running"
  /\ ~cancelled
  /\ slots[n][s] = Free
  /\ queue[n] # <<>>
  /\ slots' = [slots EXCEPT ![n][s] = [st |-> IF Head(queue[n]).failed /\ n \notin HandlesFailed
                                              THEN "fail" ELSE "work",
                                       d |-> Head(queue[n]).d, tries |-> 1]]
  /\ queue' = [queue EXCEPT ![n] = Tail(@)]
  /\ UNCHANGED <<sourceVars, countVars, dispVars, alive, cancelled, lost>>

\* Mutant of Signal: every leaf's verdict is the flow's.
SignalEveryLeaf(d, verdict) ==
  /\ remaining' = [remaining EXCEPT ![d] = IF @ = 0 THEN 0 ELSE @ - 1]
  /\ outcome' = [outcome EXCEPT ![d] = IF @ = "none" THEN verdict ELSE @]

\* signal_completion and signal_completion_with_error, as one atomic step.
Signal(d, verdict) ==
  /\ remaining' = [remaining EXCEPT ![d] = IF @ = 0 THEN 0 ELSE @ - 1]
  /\ outcome' = [outcome EXCEPT ![d] = IF remaining[d] = 1 THEN verdict ELSE @]

\* handle did its work: a leaf signals, another task sends its result.
Handled(n, s) ==
  /\ slots[n][s].st = "work"
  /\ IF n \in Leaves
     THEN /\ Signal(slots[n][s].d, "ok")
          /\ slots' = [slots EXCEPT ![n][s] = Free]
     ELSE /\ slots' = [slots EXCEPT ![n][s].st = "send"]
          /\ UNCHANGED countVars
  /\ UNCHANGED <<sourceVars, dispVars, alive, queue, cancelled, lost>>

\* The result goes downstream.
Send(n, s) ==
  LET out == OutNode[n] IN
  /\ slots[n][s].st = "send"
  /\ Open(out) /\ Space(out)
  /\ queue' = [queue EXCEPT ![out] = Append(@, [d |-> slots[n][s].d, failed |-> FALSE])]
  /\ slots' = [slots EXCEPT ![n][s] = Free]
  /\ UNCHANGED <<sourceVars, countVars, dispVars, alive, cancelled, lost>>

\* handle returns an error, its own or that the next task is gone: the event is
\* tried again after a delay, or it has failed.
HandleFails(n, s) ==
  /\ \/ slots[n][s].st = "work"
     \/ slots[n][s].st = "send" /\ ~Open(OutNode[n])
  /\ \/ /\ ~cancelled
        /\ slots[n][s].tries < MaxAttempts
        /\ slots' = [slots EXCEPT ![n][s].st = "delay"]
     \/ slots' = [slots EXCEPT ![n][s].st = "fail"]
  /\ UNCHANGED <<sourceVars, countVars, dispVars, alive, queue, cancelled, lost>>

\* The delay is over; a cancellation ends it and the retries.
Retry(n, s) ==
  /\ slots[n][s].st = "delay"
  /\ slots' = IF cancelled THEN [slots EXCEPT ![n][s].st = "fail"]
              ELSE [slots EXCEPT ![n][s].st = "work", ![n][s].tries = @ + 1]
  /\ UNCHANGED <<sourceVars, countVars, dispVars, alive, queue, cancelled, lost>>

\* forward_failure: downstream if there is a next task that takes events,
\* otherwise to the source.
ForwardFailure(n, s) ==
  LET out == OutNode[n]
      d == slots[n][s].d
  IN
  /\ slots[n][s].st = "fail"
  /\ IF out # 0 /\ Open(out)
     THEN /\ Space(out)
          /\ queue' = [queue EXCEPT ![out] = Append(@, [d |-> d, failed |-> TRUE])]
          /\ UNCHANGED countVars
     ELSE /\ Signal(d, "err")
          /\ UNCHANGED queue
  /\ slots' = [slots EXCEPT ![n][s] = Free]
  /\ UNCHANGED <<sourceVars, dispVars, alive, cancelled, lost>>

\* The handler panics: the JoinSet logs it, the event is gone.
Panic(n, s) ==
  /\ slots[n][s].st = "work"
  /\ slots' = [slots EXCEPT ![n][s] = Free]
  /\ lost' = lost \cup {slots[n][s].d}
  /\ UNCHANGED <<sourceVars, countVars, dispVars, alive, queue, cancelled>>

\* With a free slot in hand, the loop receives the end of its channel.
SeesEnd(n) == InputClosed(n) /\ queue[n] = <<>> /\ \E s \in Slots : slots[n][s] = Free

\* Mutant of Close: cancellation does not end the loop.
CloseAtEnd(n) ==
  /\ alive[n] = "running"
  /\ SeesEnd(n)
  /\ alive' = [alive EXCEPT ![n] = "closing"]
  /\ UNCHANGED <<sourceVars, countVars, dispVars, queue, slots, cancelled, lost>>

\* The loop ends and closes the channel; what is queued stays until the end.
Close(n) ==
  /\ alive[n] = "running"
  /\ cancelled \/ SeesEnd(n)
  /\ alive' = [alive EXCEPT ![n] = "closing"]
  /\ UNCHANGED <<sourceVars, countVars, dispVars, queue, slots, cancelled, lost>>

\* The handlers have finished: process_events returns and drops its channel.
Finish(n) ==
  /\ alive[n] = "closing"
  /\ \A s \in Slots : slots[n][s] = Free
  /\ alive' = [alive EXCEPT ![n] = "done"]
  /\ queue' = [queue EXCEPT ![n] = <<>>]
  /\ lost' = lost \cup EventsIn(queue[n])
  /\ UNCHANGED <<sourceVars, countVars, dispVars, slots, cancelled>>

\* A flow that lost its lease aborts its tasks after cancelling them: the
\* JoinSet goes and takes the handlers along.  Dispatchers are not aborted.
Abort(n) ==
  /\ cancelled
  /\ alive[n] # "done"
  /\ alive' = [alive EXCEPT ![n] = "done"]
  /\ queue' = [queue EXCEPT ![n] = <<>>]
  /\ slots' = [slots EXCEPT ![n] = [s \in Slots |-> Free]]
  /\ lost' = lost \cup EventsIn(queue[n]) \cup ({slots[n][s].d : s \in Slots} \ {0})
  /\ UNCHANGED <<sourceVars, countVars, dispVars, cancelled>>

-----------------------------------------------------------------------------

Next ==
  \/ \E d \in Deliveries : Pull(d)
  \/ \E d \in Deliveries : SourceSend(d)
  \/ \E d \in Deliveries : SourceResult(d)
  \/ \E d \in Deliveries : SourceClosed(d)
  \/ \E d \in Deliveries : SourceTimeout(d)
  \/ Cancel
  \/ SourceStops
  \/ \E n \in Dispatchers : DispatchTake(n)
  \/ \E n \in Dispatchers : DispatchSend(n)
  \/ \E n \in Dispatchers : DispatchEnd(n)
  \/ \E n \in Processors : Start(n)
  \/ \E n \in Processors : InitFails(n)
  \/ \E n \in Processors : \E s \in Slots : Take(n, s)
  \/ \E n \in Processors : \E s \in Slots : Handled(n, s)
  \/ \E n \in Processors : \E s \in Slots : Send(n, s)
  \/ \E n \in Processors : \E s \in Slots : HandleFails(n, s)
  \/ \E n \in Processors : \E s \in Slots : Retry(n, s)
  \/ \E n \in Processors : \E s \in Slots : ForwardFailure(n, s)
  \/ \E n \in Processors : \E s \in Slots : Panic(n, s)
  \/ \E n \in Processors : Close(n)
  \/ \E n \in Processors : Finish(n)
  \/ \E n \in Processors : Abort(n)

Spec == Init /\ [][Next]_vars

HandlerStep(n, s) ==
  \/ Take(n, s) \/ Handled(n, s) \/ Send(n, s) \/ HandleFails(n, s) \/ Retry(n, s)
  \/ ForwardFailure(n, s)

\* The runtime polls every task that can go on, handlers return, init ends.
\* Nothing is assumed of new messages, the ack_timeout, cancellation or aborts.
Fairness ==
  /\ WF_vars(SourceStops)
  /\ \A d \in Deliveries : WF_vars(SourceSend(d) \/ SourceResult(d) \/ SourceClosed(d))
  /\ \A n \in Dispatchers : WF_vars(DispatchTake(n) \/ DispatchSend(n) \/ DispatchEnd(n))
  /\ \A n \in Processors :
       /\ WF_vars(Start(n) \/ InitFails(n) \/ Close(n) \/ Finish(n))
       /\ \A s \in Slots : WF_vars(HandlerStep(n, s))

FairSpec == Spec /\ Fairness

(***************************************************************************)
(* Properties.                                                             *)
(***************************************************************************)

\* Every variable keeps its type; no channel holds more than CHANNEL_CAPACITY
\* events, and a dispatcher owes its event to a branch exactly while it has one.
TypeOK ==
  /\ sourceUp \in BOOLEAN /\ cancelled \in BOOLEAN
  /\ delivery \in [Deliveries -> {"none", "sending", "waiting", "acked", "nacked", "dropped"}]
  /\ remaining \in [Deliveries -> 0..N]
  /\ outcome \in [Deliveries -> {"none", "ok", "err"}]
  /\ alive \in [Nodes -> {"init", "running", "closing", "done"}]
  /\ \A n \in Nodes : Len(queue[n]) <= Capacity /\ EventsIn(queue[n]) \subseteq Deliveries
  /\ slots \in [Processors -> [Slots -> [st : {"free", "work", "send", "delay", "fail"},
                                         d : 0..MaxDeliveries, tries : 0..MaxAttempts]]]
  /\ \A n \in Dispatchers : sending[n] = NoEvent <=> todo[n] = {}
  /\ lost \subseteq Deliveries

\* The source acks a message only when every leaf is through with it: no task,
\* dispatcher or channel holds a copy of its event, and none was thrown away by a
\* panic, a failed init or a shutdown (Delivery::process, CompletionState).
AckAfterAllLeaves ==
  \A d \in Deliveries : delivery[d] = "acked" => ~InFlow(d) /\ d \notin lost

\* While all tasks of the flow run and none panics, an event never vanishes:
\* when its last copy is gone the source has a verdict, whatever failed, was
\* retried or was forwarded as failed on the way (forward_failure).
EveryEventIsJudged ==
  (\A n \in Nodes : Open(n)) =>
    \A d \in Deliveries :
      delivery[d] = "waiting" /\ ~InFlow(d) /\ d \notin lost => outcome[d] # "none"

\* The source gets an answer for every message it took, even without an
\* ack_timeout: no back-pressure, retry, panic or ended task on the way blocks a
\* delivery for ever (process_events, fan_out).
EveryDeliveryEnds ==
  \A d \in Deliveries : Outstanding(d) ~> ~Outstanding(d)

\* Once the token is cancelled every task of the flow and every dispatcher
\* ends, though none of them is told in any order and full channels connect
\* them (process_events closes its channel so that sends upstream fail).
CancelledFlowEnds ==
  cancelled ~> (~sourceUp /\ \A n \in Nodes : alive[n] = "done")

=============================================================================
