------------------------------ MODULE CoreTasks ------------------------------
(***************************************************************************)
(* The handlers of the tasks of flowgen_core: log, convert, script and the  *)
(* in-process request.                                                      *)
(***************************************************************************)
EXTENDS TaskSteps

LogErrors == {"SendMessage", "EventBuilder", "RetryExhausted"}

\* log: the event itself goes on.
LogHandle == {<<Cancelled, HandOn>>}

LogStart == Start({}, {})

ConvertErrors ==
  {"SendMessage", "EventBuilder", "ArrowToJson", "SerdeAvro", "SerdeAvroDe", "SerdeSchema",
   "ArrowToAvroNotSupported", "UnsupportedEventData", "ArrowCast", "ArrowSchema",
   "MissingAvroSchema", "RetryExhausted", "ResourceLoad"}

\* convert: an event of a format that has no conversion fails.
ConvertData ==
  {"SerdeAvro", "ArrowToJson", "ArrowToAvroNotSupported", "ArrowCast",
   "SerdeSchema", "SerdeAvroDe", "UnsupportedEventData"}

ConvertHandle == {<<Cancelled, Try(ConvertData), Try({"EventBuilder"}), HandOn>>}

ConvertStart == Start({"ResourceLoad", "MissingAvroSchema", "SerdeSchema", "ArrowSchema"}, {})

ScriptErrors ==
  {"SendMessage", "EventBuilder", "ScriptExecution", "Thrown", "EventConversion",
   "InvalidReturnType", "JsonSerialization", "ParseRFC2822Timestamp", "ParseRFC3339Timestamp",
   "InvalidUnixTimestamp", "TimestampTypeError", "ResourceLoad", "RetryExhausted"}

\* script: a script may change the cache while it runs.
ScriptRun ==
  <<Cancelled, Try({"EventConversion", "JsonSerialization", "ScriptExecution"}),
    Call({"ScriptExecution", "Thrown"}), Try({"InvalidReturnType"})>>

GenerateScriptEvent == Try({"EventBuilder"})

\* A null or an empty array ends the event here and releases every leaf.
ScriptHandle ==
  {ScriptRun \o <<SignalLeaves>>}
    \cup Before(ScriptRun, OneOrTwo(GenerateScriptEvent))

ScriptPermanent == {"ScriptExecution", "Thrown", "InvalidReturnType", "ResourceLoad"}

ScriptStart == Start({"ResourceLoad"}, {})

\* inproc_request: what InprocRegistry::call answers.
InprocCallErrors ==
  {"Recursive", "NotFound", "NotAllowed", "EventBuilder", "Closed", "Failed", "Timeout", "Dropped"}

InprocRequestErrors ==
  InprocCallErrors \cup {"NotJson", "RenderConfig", "EventBuilder", "SendMessage"}

InprocRequestHandle ==
  {<<Cancelled, Try({"RenderConfig", "NotJson"}), Call(InprocCallErrors),
     Try({"EventBuilder"}), HandOn>>}

\* Only a flow that is not there, or stopped taking calls, is called again.
InprocRequestPermanent ==
  (InprocCallErrors \ {"NotFound", "Closed"}) \cup {"RenderConfig", "NotJson", "SendMessage"}

InprocRequestStart == Start({}, {})

CoreTasks ==
  [log |-> Task(LogErrors, LogHandle, {}, TRUE, LogStart),
   convert |-> Task(ConvertErrors, ConvertHandle, {}, TRUE, ConvertStart),
   script |-> Task(ScriptErrors, ScriptHandle, ScriptPermanent, TRUE, ScriptStart),
   inproc_request |->
     Task(InprocRequestErrors, InprocRequestHandle, InprocRequestPermanent, TRUE, InprocRequestStart)]
=============================================================================
