------------------------------ MODULE Handling ------------------------------
(***************************************************************************)
(* One event at one task, for every kind of task: the start of the task     *)
(* (Runner::run), the attempts of handle_with_retry at the event, every     *)
(* step of the task's handler (CoreTasks, StoreTasks, ServiceTasks), the    *)
(* service it calls, the leaves below it and the source that waits for      *)
(* them.  The source's completion channel counts the leaves below the task. *)
(***************************************************************************)
EXTENDS CoreTasks, StoreTasks, ServiceTasks, FiniteSets, TLC

CONSTANTS Kinds,        \* the task types that are modelled
          MaxLeaves,    \* bound: leaves below the task
          MaxAttempts   \* max_attempts of its RetryConfig

Tasks == CoreTasks @@ StoreTasks @@ ServiceTasks

ASSUME KindsAssumption == Kinds \subseteq DOMAIN Tasks
ASSUME ErrorsAssumption == \A k \in Kinds : Returned(Tasks[k]) \subseteq Tasks[k].errors
\* The deletion of a file comes after its completion was handed on: a retry
\* sends the events, with the completion, once more.
WorksAfterHandOn == {"object_read_delete"}

\* A path hands the completion on, or signals, with its last step.
Concluding == {"hand_on", "signal_once", "signal_leaves"}
HandsOnLast(path) == \A i \in DOMAIN path : path[i].op \in Concluding => i = Len(path)

\* A path calls its service once, and from then on fails for good.
CallsOnce(path, permanent) ==
  \A i \in DOMAIN path : path[i].op = "call" =>
    \A j \in i..Len(path) :
      /\ j # i => path[j].op # "call"
      /\ path[j].op \in {"try", "call"} => path[j].errors \subseteq permanent

\* Files of a type that is not read, and empty batches at a fork, leave the
\* source without an answer.
LeavesSourceWaiting == {"object_read", "object_read_delete", "object_write"}

\* A path ends where every leaf has been sent the completion, or signalled for.
Concludes(path) == path # <<>> /\ path[Len(path)].op \in {"hand_on", "signal_leaves"}

\* How the handlers are written: every other task is through with an event when
\* it hands it on or signals, none but a few ends before, and a task that does not
\* retry safely makes one call.
ASSUME PathsAssumption ==
  \A k \in Kinds : \A path \in Tasks[k].paths :
    /\ path \in Seq({path[i] : i \in DOMAIN path})
    /\ k \notin WorksAfterHandOn => HandsOnLast(path)
    /\ k \notin LeavesSourceWaiting => Concludes(path)
    /\ ~Tasks[k].safe => CallsOnce(path, Tasks[k].permanent)
ASSUME AttemptsAssumption == MaxLeaves \in Nat /\ MaxAttempts \in Nat \ {0}

VARIABLES kind,       \* the task's type
          leaves,     \* the leaves below it; without any the task is a leaf
          failed,     \* the event's upstream task failed: event.error
          phase,      \* "starting", "taken", "working", "delay", "failing" or "done"
          rest,       \* steps of the handler still to do
          tries,      \* attempts so far, at the start and then at the event
          calls,      \* changes the task made to its service
          nextUp,     \* the next task still takes events
          cancelled,  \* the cancellation token
          carried,    \* for each leaf, events on their way that carry the completion
          errors,     \* for each leaf, failed events on their way that carry it
          served,     \* leaves that handled an event with the completion
          released,   \* the handler signalled by itself
          gaveUp,     \* the handler's last attempt failed
          remaining,  \* leaves the source still waits for
          outcome     \* what the source learned

taskVars == <<kind, leaves, failed>>
downVars == <<carried, errors, served>>
vars == <<taskVars, phase, rest, tries, calls, nextUp, cancelled, downVars, released, gaveUp,
          remaining, outcome>>

Leaf == 1..leaves
LeafCount == IF leaves = 0 THEN 1 ELSE leaves
Task_ == Tasks[kind]

\* Handlers that run on a failed event: a script that asks for it, and the
\* Salesforce publisher, whose loop does not look.
HandlesFailed == {"script", "salesforce_publisher"}

SignalFirst(n, verdict) ==
  /\ remaining' = IF remaining > n THEN remaining - n ELSE 0
  /\ outcome' = IF outcome = "none" THEN verdict ELSE outcome

\* last_leaf, n times: the last signal of all decides.
Signal(n, verdict) ==
  /\ remaining' = IF remaining > n THEN remaining - n ELSE 0
  /\ outcome' = IF remaining > 0 /\ remaining <= n THEN verdict ELSE outcome

Init ==
  /\ kind \in Kinds
  /\ leaves \in 0..MaxLeaves
  /\ failed \in BOOLEAN
  /\ phase = "starting"
  /\ rest = <<>>
  /\ tries = 0
  /\ calls = 0
  /\ nextUp = TRUE
  /\ cancelled = FALSE
  /\ carried = [l \in Leaf |-> 0]
  /\ errors = [l \in Leaf |-> 0]
  /\ served = {}
  /\ released = FALSE
  /\ gaveUp = FALSE
  /\ remaining = LeafCount
  /\ outcome = "none"

(***************************************************************************)
(* Runner::run: init is retried, and the events are taken once it is done.  *)
(***************************************************************************)

StartFails ==
  /\ phase = "starting"
  /\ Task_.start.retried # {}
  /\ tries + 1 < MaxAttempts
  /\ tries' = tries + 1
  /\ UNCHANGED <<taskVars, phase, rest, calls, nextUp, cancelled, downVars, released, gaveUp, remaining, outcome>>

\* The task ends and drops the events that wait for it.
StartGivesUp ==
  /\ phase = "starting"
  /\ \/ Task_.start.fatal # {}
     \/ Task_.start.retried # {} /\ tries + 1 = MaxAttempts
  /\ phase' = "done"
  /\ UNCHANGED <<taskVars, rest, tries, calls, nextUp, cancelled, downVars, released, gaveUp, remaining, outcome>>

\* process_events takes the event; a cancelled task takes none and drops it.
Take ==
  /\ phase = "starting"
  /\ phase' = IF cancelled THEN "done" ELSE "taken"
  /\ tries' = 0
  /\ UNCHANGED <<taskVars, rest, calls, nextUp, cancelled, downVars, released, gaveUp, remaining, outcome>>

\* An event that failed upstream is passed on unhandled.
PassOn ==
  /\ phase = "taken" /\ failed /\ kind # "salesforce_publisher"
  /\ phase' = "failing"
  /\ UNCHANGED <<taskVars, rest, tries, calls, nextUp, cancelled, downVars, released, gaveUp, remaining, outcome>>

\* handle is called with the event; the code takes one of its paths.
Begin ==
  /\ phase = "taken"
  /\ failed => kind \in HandlesFailed
  /\ phase' = "working"
  /\ rest' \in Task_.paths
  /\ UNCHANGED <<taskVars, tries, calls, nextUp, cancelled, downVars, released, gaveUp, remaining, outcome>>

(***************************************************************************)
(* The steps of a handler.                                                 *)
(***************************************************************************)

At(op) == phase = "working" /\ rest # <<>> /\ Head(rest).op = op
GoOn == rest' = Tail(rest) /\ UNCHANGED phase

CheckCancelled ==
  /\ At("cancelled")
  /\ IF cancelled THEN rest' = <<>> /\ phase' = "done" ELSE GoOn
  /\ UNCHANGED <<taskVars, tries, calls, nextUp, cancelled, downVars, released, gaveUp, remaining, outcome>>

DoTry ==
  /\ At("try")
  /\ GoOn
  /\ UNCHANGED <<taskVars, tries, calls, nextUp, cancelled, downVars, released, gaveUp, remaining, outcome>>

DoCall ==
  /\ At("call")
  /\ GoOn
  /\ calls' = calls + 1
  /\ UNCHANGED <<taskVars, tries, nextUp, cancelled, downVars, released, gaveUp, remaining, outcome>>

RetriedAlways(error) == ~cancelled /\ tries + 1 < MaxAttempts

\* is_retryable, the token and the attempts left decide what follows.
Retried(error) == ~cancelled /\ tries + 1 < MaxAttempts /\ error \notin Task_.permanent

Fails(error) ==
  /\ phase' = IF Retried(error) THEN "delay" ELSE "failing"
  /\ rest' = <<>>
  /\ gaveUp' = (phase' = "failing")

\* A call fails before the service did anything, or after it did.
StepFails ==
  /\ phase = "working" /\ rest # <<>> /\ Head(rest).op \in {"try", "call"}
  /\ \E error \in Head(rest).errors : Fails(error)
  /\ \/ UNCHANGED calls
     \/ Head(rest).op = "call" /\ calls' = calls + 1
  /\ UNCHANGED <<taskVars, tries, nextUp, cancelled, downVars, released, remaining, outcome>>

\* send: a leaf has nowhere to send to, and the next task may be gone.
DoEmit ==
  /\ At("emit")
  /\ leaves = 0 \/ nextUp
  /\ GoOn
  /\ UNCHANGED <<taskVars, tries, calls, nextUp, cancelled, downVars, released, gaveUp, remaining, outcome>>

\* A leaf signals, any other task sends the event on with the completion.
DoHandOn ==
  /\ At("hand_on")
  /\ GoOn
  /\ IF leaves = 0
     THEN Signal(1, "ok") /\ released' = TRUE /\ UNCHANGED carried
     ELSE /\ nextUp
          /\ carried' = [l \in Leaf |-> carried[l] + 1]
          /\ UNCHANGED <<released, remaining, outcome>>
  /\ UNCHANGED <<taskVars, tries, calls, nextUp, cancelled, errors, served, gaveUp>>

SendFails ==
  /\ At("emit") \/ At("hand_on")
  /\ leaves # 0 /\ ~nextUp
  /\ Fails("SendMessage")
  /\ UNCHANGED <<taskVars, tries, calls, nextUp, cancelled, downVars, released, remaining, outcome>>

DoSignal ==
  /\ At("signal_once") \/ At("signal_leaves")
  /\ GoOn
  /\ Signal(IF At("signal_once") THEN 1 ELSE LeafCount, "ok")
  /\ released' = TRUE
  /\ UNCHANGED <<taskVars, tries, calls, nextUp, cancelled, downVars, gaveUp>>

Returns ==
  /\ phase = "working" /\ rest = <<>>
  /\ phase' = "done"
  /\ UNCHANGED <<taskVars, rest, tries, calls, nextUp, cancelled, downVars, released, gaveUp, remaining, outcome>>

(***************************************************************************)
(* handle_with_retry and forward_failure.                                  *)
(***************************************************************************)

RetryUncounted ==
  /\ phase = "delay"
  /\ ~cancelled
  /\ phase' = "working"
  /\ rest' \in Task_.paths
  /\ UNCHANGED <<taskVars, tries, calls, nextUp, cancelled, downVars, released, gaveUp, remaining, outcome>>

Retry ==
  /\ phase = "delay"
  /\ ~cancelled
  /\ phase' = "working"
  /\ rest' \in Task_.paths
  /\ tries' = tries + 1
  /\ UNCHANGED <<taskVars, calls, nextUp, cancelled, downVars, released, gaveUp, remaining, outcome>>

DelayCancelled ==
  /\ phase = "delay"
  /\ cancelled
  /\ phase' = "failing"
  /\ gaveUp' = TRUE
  /\ UNCHANGED <<taskVars, rest, tries, calls, nextUp, cancelled, downVars, released, remaining, outcome>>

\* The event goes on with its error, or is signalled here, once.
ForwardFailure ==
  /\ phase = "failing"
  /\ phase' = "done"
  /\ IF leaves # 0 /\ nextUp
     THEN errors' = [l \in Leaf |-> errors[l] + 1] /\ UNCHANGED <<remaining, outcome>>
     ELSE Signal(1, "err") /\ UNCHANGED errors
  /\ UNCHANGED <<taskVars, rest, tries, calls, nextUp, cancelled, carried, served, released, gaveUp>>

(***************************************************************************)
(* The leaves, the source and the flow around the task.                    *)
(***************************************************************************)

LeafServes(l) ==
  /\ carried[l] > 0
  /\ carried' = [carried EXCEPT ![l] = @ - 1]
  /\ served' = served \cup {l}
  /\ Signal(1, "ok")
  /\ UNCHANGED <<taskVars, phase, rest, tries, calls, nextUp, cancelled, errors, released, gaveUp>>

LeafReportsError(l) ==
  /\ errors[l] > 0
  /\ errors' = [errors EXCEPT ![l] = @ - 1]
  /\ Signal(1, "err")
  /\ UNCHANGED <<taskVars, phase, rest, tries, calls, nextUp, cancelled, carried, served, released, gaveUp>>

\* No event holds the completion any more: the source finds the channel closed.
Forgotten == phase = "done" /\ \A l \in Leaf : carried[l] = 0 /\ errors[l] = 0

SourceClosed ==
  /\ Forgotten /\ outcome = "none"
  /\ outcome' = "closed"
  /\ UNCHANGED <<taskVars, phase, rest, tries, calls, nextUp, cancelled, downVars, released, gaveUp, remaining>>

\* The next task ends, and the events in its channel with it.
NextEnds ==
  /\ leaves # 0 /\ nextUp
  /\ nextUp' = FALSE
  /\ carried' = [l \in Leaf |-> 0]
  /\ errors' = [l \in Leaf |-> 0]
  /\ UNCHANGED <<taskVars, phase, rest, tries, calls, cancelled, served, released, gaveUp, remaining, outcome>>

Cancel ==
  /\ ~cancelled
  /\ cancelled' = TRUE
  /\ UNCHANGED <<taskVars, phase, rest, tries, calls, nextUp, downVars, released, gaveUp, remaining, outcome>>

Handle ==
  \/ CheckCancelled \/ DoTry \/ DoCall \/ StepFails \/ DoEmit \/ DoHandOn \/ SendFails
  \/ DoSignal \/ Returns

Progress ==
  \/ StartFails \/ StartGivesUp \/ Take \/ PassOn \/ Begin \/ Handle
  \/ Retry \/ DelayCancelled \/ ForwardFailure
  \/ \E l \in Leaf : LeafServes(l) \/ LeafReportsError(l)
  \/ SourceClosed

Next == Progress \/ NextEnds \/ Cancel

\* The runtime keeps polling the tasks; nothing makes a task end or cancels it.
Spec == Init /\ [][Next]_vars /\ WF_vars(Progress)

-----------------------------------------------------------------------------

\* The values the variables take.
TypeOK ==
  /\ kind \in Kinds /\ leaves \in 0..MaxLeaves /\ failed \in BOOLEAN
  /\ phase \in {"starting", "taken", "working", "delay", "failing", "done"}
  /\ tries \in 0..MaxAttempts
  /\ carried \in [Leaf -> Nat] /\ errors \in [Leaf -> Nat] /\ served \subseteq Leaf
  /\ remaining \in 0..LeafCount
  /\ outcome \in {"none", "ok", "err", "closed"}

\* The source is told that an event completed only when the task is through with
\* it and every leaf below handled it, or, where the handler signalled in the place
\* of the leaves, no leaf has or had the completion, whatever was retried in
\* between (leaf_count, event.rs).  Where one event becomes several this is about
\* the one that carries the completion: nobody waits for the others.
AckCoversEveryLeaf ==
  outcome = "ok" /\ kind \notin WorksAfterHandOn =>
    /\ phase = "done" \/ (phase = "working" /\ rest = <<>>)
    /\ served = Leaf \/ (released /\ served = {} /\ \A l \in Leaf : carried[l] = 0)

\* An event whose handler gave up, or that failed before it, is never reported
\* as completed, unless a script handled the failure.
FailureIsNotAcked ==
  /\ gaveUp /\ kind \notin WorksAfterHandOn => outcome # "ok"
  /\ failed /\ kind # "script" => outcome # "ok"

\* A task hands an event that failed before it on without handling it
\* (process_events); only a script may ask for it.
FailedIsUnhandled == failed /\ kind # "script" => calls = 0 /\ served = {}

\* The last attempt to start may have failed, or the start fails for good.
StartsInVain ==
  \/ Task_.start.fatal # {}
  \/ Task_.start.retried # {} /\ tries + 1 = MaxAttempts

\* A handler that returns told the source or handed the completion on, or its
\* failure went on: the source finds its channel closed only when a task was
\* stopped or did not start.
HandledIsReported ==
  outcome = "closed" /\ kind \notin LeavesSourceWaiting =>
    cancelled \/ ~nextUp \/ StartsInVain

\* A call that must not be repeated (retries_safely) changes its service once,
\* unless its result could not be sent to the next task.
UnsafeCallOnce == calls > 1 /\ nextUp => Task_.safe

\* The source always learns what became of its event.
Settles == <>(outcome # "none")
=============================================================================
