------------------------------ MODULE TaskSteps ------------------------------
(***************************************************************************)
(* The vocabulary in which the handlers of the tasks are written: what one  *)
(* call of Handler::handle does to its event, in order.  A handler is the   *)
(* set of its paths, one for every way its code branches; a path is a       *)
(* sequence of steps, and ends where the code returns Ok.  A step that may  *)
(* fail names the errors it returns.  The module Handling runs the paths.   *)
(***************************************************************************)
EXTENDS Naturals, Sequences

Step(op, errors) == [op |-> op, errors |-> errors]

\* if cancellation_token.is_cancelled() { return Ok(()) }
Cancelled == Step("cancelled", {})

\* Work that leaves nothing behind: rendering, parsing, reading from a service.
Try(errors) == Step("try", errors)

\* A call that changes a service: it may fail before or after the change.
Call(errors) == Step("call", errors)

\* An event goes to the next task, without the completion.
Emit == Step("emit", {"SendMessage"})

\* The last event: it takes the completion along, and a leaf signals instead.
HandOn == Step("hand_on", {"SendMessage"})

\* signal_completion, once, and once for each leaf below the task.
SignalOnce == Step("signal_once", {})
SignalLeaves == Step("signal_leaves", {})

\* A stream that looks ahead to know its last item, and an empty first item
\* where there is none.
LookAhead(next) == {<<next, next, HandOn>>, <<next, next, Emit, next, HandOn>>}

\* A sequence whose last item is known.
OneOrTwo(each) == {<<each, HandOn>>, <<each, Emit, each, HandOn>>}

Before(first, paths) == {first \o path : path \in paths}

\* A task type: its errors, its handler, the errors it does not retry, whether
\* a failed call may be repeated, and the errors of its start that are retried
\* (init) or end the task at once.
Task(errors, paths, permanent, safe, start) ==
  [errors |-> errors, paths |-> paths, permanent |-> permanent, safe |-> safe, start |-> start]

\* The errors a task's handler and start can return.
Returned(task) ==
  task.start.retried \cup task.start.fatal
    \cup UNION {UNION {path[i].errors : i \in DOMAIN path} : path \in task.paths}

Start(retried, fatal) == [retried |-> retried, fatal |-> fatal]
=============================================================================
