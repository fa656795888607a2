------------------------------- MODULE Gateway -------------------------------
(***************************************************************************)
(* The two protocols of the AI gateway (ai-agent/src/ai_gateway/protocol):  *)
(* a client's conversation is translated into what the model is given       *)
(* (translate_request, then passthrough::build_request), and the model's    *)
(* answer into the client's response or stream (ProtocolAdapter,            *)
(* StreamWriter).                                                           *)
(*                                                                         *)
(* A block of the conversation is its place <<message, block>>; a piece of   *)
(* the answer's text is its number.  How a stream task, the flow and the    *)
(* registry interleave is in Endpoints: here the calls of the writer have    *)
(* the order that the stream task gives them.                               *)
(***************************************************************************)
EXTENDS Naturals, Sequences, SequencesExt

CONSTANTS Talks,      \* conversations: see TalksAssumption
          MaxPieces,  \* bound: progress events of an attempt
          MaxCalls    \* bound: tools the model asks for

\* A message has a role and blocks of three kinds.
ASSUME TalksAssumption ==
  Talks \subseteq Seq([role : STRING, kinds : Seq({"text", "use", "result"})])

VARIABLES request,   \* what the client sent
          given,     \* what the model is given, Refused, or Unsent
          stage,     \* "request", "flow", "streaming", "completed" or "over"
          attempt,   \* attempts of the task so far
          pieces,    \* pieces of text this attempt has streamed
          steps,     \* tools the agent has used by itself
          result,    \* of the completion: its status, text and tool calls
          streamed,  \* streamed_progress: a piece of text went out
          writer,    \* the stream writer's state
          wire       \* frames the client has been sent

gatewayVars == <<request, given, stage, attempt, pieces, steps, result, streamed, writer, wire>>

Unsent == [sent |-> FALSE, blocks |-> <<>>]
Refused == [sent |-> FALSE, blocks |-> <<<<0, 0>>>>]
Sent(blocks) == [sent |-> TRUE, blocks |-> blocks]

\* The blocks of message m that are of these kinds, in their order.
Gathered(m, kinds) ==
  FlattenSeq([b \in DOMAIN request.talk[m].kinds |->
    IF request.talk[m].kinds[b] \in kinds THEN << <<m, b>> >> ELSE <<>>])
Places(m, kind) == Gathered(m, {kind})

-----------------------------------------------------------------------------
(* The conversation in the shape of OpenAI's messages.                      *)

Shaped(role, texts, calls, answers) ==
  [role |-> role, texts |-> texts, calls |-> calls, answers |-> answers]

\* Mutant: the text before a tool's result is not flushed.
FlushLast(buffer) == <<>>

\* translate_user_message: the text so far becomes a message of its own.
Flush(buffer) == IF buffer = <<>> THEN <<>> ELSE <<Shaped("user", buffer, <<>>, <<>>)>>

\* translate_user_message: each tool result is a message, in its place among
\* the texts; a tool use does not belong here and is skipped.
Scan(m, b, acc) ==
  CASE request.talk[m].kinds[b] = "text" -> [buffer |-> Append(acc.buffer, <<m, b>>), out |-> acc.out]
    [] request.talk[m].kinds[b] = "result" ->
         [buffer |-> <<>>,
          out |-> (acc.out \o Flush(acc.buffer)) \o <<Shaped("tool", <<>>, <<>>, <<m, b>>)>>]
    [] request.talk[m].kinds[b] = "use" -> acc
UserMessages(m) ==
  LET n == Len(request.talk[m].kinds)
      scan[b \in 0..n] == IF b = 0 THEN [buffer |-> <<>>, out |-> <<>>] ELSE Scan(m, b, scan[b - 1])
  IN scan[n].out \o Flush(scan[n].buffer)

\* translate_assistant_message: its texts, joined, and its tool uses.
AssistantMessage(m) == <<Shaped("assistant", Places(m, "text"), Places(m, "use"), <<>>)>>

OtherMessage(m) == <<Shaped(request.talk[m].role, Places(m, "text"), <<>>, <<>>)>>

\* An OpenAI client sends that shape itself: text parts are joined, and a result
\* is a message of the role "tool".
OpenAiMessage(m) ==
  IF request.talk[m].role = "tool"
  THEN <<Shaped("tool", <<>>, <<>>, <<m, 1>>)>>
  ELSE <<Shaped(request.talk[m].role, Places(m, "text"), Places(m, "use"), <<>>)>>

\* What the two request types can hold: Anthropic's results are blocks of a user's
\* message.
Expressible(protocol, talk) ==
  \A m \in DOMAIN talk :
    IF protocol = "anthropic" THEN talk[m].role # "tool"
    ELSE CASE talk[m].role = "tool" -> talk[m].kinds = <<"result">>
           [] talk[m].role = "user" -> \A b \in DOMAIN talk[m].kinds : talk[m].kinds[b] = "text"
           [] OTHER -> TRUE

MessagesOf(m) ==
  IF request.protocol = "openai" THEN OpenAiMessage(m)
  ELSE CASE request.talk[m].role = "user" -> UserMessages(m)
         [] request.talk[m].role = "assistant" -> AssistantMessage(m)
         [] OTHER -> OtherMessage(m)
Messages == FlattenSeq([m \in DOMAIN request.talk |-> MessagesOf(m)])

\* translate_request and dispatch_chat_completions: the flat prompt, of the user's
\* texts or of every text but the system's.
PromptTexts ==
  FlattenSeq([m \in DOMAIN request.talk |->
    IF request.talk[m].role = "user" \/ (request.protocol = "openai" /\ request.talk[m].role # "system")
    THEN Places(m, "text") ELSE <<>>])

\* oai_message_to_rig, or the error it returns.
Accepted(msg) ==
  CASE msg.role = "assistant" -> msg.texts # <<>> \/ msg.calls # <<>>
    [] msg.role = "tool" -> msg.answers # <<>>
    [] msg.role = "user" -> msg.texts # <<>>
    [] OTHER -> FALSE
Rig(msg) ==
  CASE msg.role = "tool" -> <<msg.answers>>
    [] OTHER -> msg.texts \o msg.calls

\* build_request: the system message is the preamble already.
BuildRequest ==
  LET messages == Messages
      history == {i \in DOMAIN messages : messages[i].role # "system"}
  IN IF history = {} \/ \E i \in history : ~Accepted(messages[i]) THEN Refused
     ELSE Sent(FlattenSeq([i \in DOMAIN messages |-> IF i \in history THEN Rig(messages[i]) ELSE <<>>]))

\* should_passthrough: the client sent tools and the task lets them through
\* (tool_passthrough).
Passthrough == request.tools /\ request.optin
Given == IF Passthrough THEN BuildRequest ELSE Sent(PromptTexts)

-----------------------------------------------------------------------------
(* The stream writers.                                                      *)

NewWriter == [next |-> 0, open |-> FALSE, index |-> 0, asked |-> FALSE, step |-> 0]
Frame(t, i, n) == [t |-> t, index |-> i, n |-> n]
Writes(w, frames) == writer' = w /\ wire' = wire \o frames

\* MessagesStreamWriter: one block at a time, numbered.
StopBlock(w) == IF w.open THEN <<Frame("block_stop", w.index, 0)>> ELSE <<>>
AnthropicText(w, n) ==
  IF w.open THEN [w |-> w, frames |-> <<Frame("text", w.index, n)>>]
  ELSE [w |-> [w EXCEPT !.open = TRUE, !.index = w.next, !.next = @ + 1],
        frames |-> <<Frame("block_start", w.next, 0), Frame("text", w.next, n)>>]
AnthropicCalls(w, k) ==
  [w |-> [w EXCEPT !.open = FALSE, !.next = @ + k],
   frames |-> StopBlock(w)
     \o FlattenSeq([c \in 1..k |->
          <<Frame("block_start", w.next + c - 1, 0), Frame("call", w.next + c - 1, c),
            Frame("block_stop", w.next + c - 1, 0)>>])]
AnthropicClose(w, stop) == StopBlock(w) \o <<Frame(stop, 0, 0), Frame("message_stop", 0, 0)>>

\* OpenAiStreamWriter: chunks; a tool call takes two.
OpenAiText(w, n) == [w |-> w, frames |-> <<Frame("text", 0, n)>>]
ToolFrames(i, n) == <<Frame("call_open", i, n), Frame("call", i, n)>>
OpenAiCalls(w, k) ==
  [w |-> [w EXCEPT !.asked = @ \/ k > 0],
   frames |-> FlattenSeq([c \in 1..k |-> ToolFrames(c - 1, c)])]
OpenAiStep(w) == [w |-> [w EXCEPT !.step = @ + 1], frames |-> ToolFrames(w.step, 0)]
OpenAiClose(w, stop) ==
  <<Frame(IF w.asked THEN "tool_use" ELSE stop, 0, 0)>>
    \o (IF request.usage /\ result.status = "ok" THEN <<Frame("usage", 0, 0)>> ELSE <<>>)

\* The adapter of the request's protocol.
Anthropic == request.protocol = "anthropic"
Opening == <<Frame(IF Anthropic THEN "message_start" ELSE "role", 0, 0)>>
TextDelta(w, n) == IF Anthropic THEN AnthropicText(w, n) ELSE OpenAiText(w, n)
ToolCalls(w, k) == IF Anthropic THEN AnthropicCalls(w, k) ELSE OpenAiCalls(w, k)
ToolStep(w) == IF Anthropic THEN [w |-> w, frames |-> <<>>] ELSE OpenAiStep(w)
Close(w, stop) ==
  IF Anthropic THEN AnthropicClose(w, stop) ELSE OpenAiClose(w, stop) \o <<Frame("done", 0, 0)>>

-----------------------------------------------------------------------------

NoResult == [status |-> "none", text |-> <<>>, calls |-> 0]

GatewayInit ==
  /\ request \in [protocol : {"openai", "anthropic"}, talk : Talks, tools : BOOLEAN, optin : BOOLEAN,
                  stream : BOOLEAN, usage : BOOLEAN]
  /\ Expressible(request.protocol, request.talk)
  /\ given = Unsent
  /\ stage = "request"
  /\ attempt = 1
  /\ pieces = 0 /\ steps = 0
  /\ result = NoResult
  /\ streamed = FALSE
  /\ writer = NewWriter
  /\ wire = <<>>

Dispatch ==
  /\ stage = "request"
  /\ given' = Given
  /\ IF request.stream
     THEN stage' = "streaming" /\ Writes(writer, Opening)
     ELSE stage' = "flow" /\ UNCHANGED <<writer, wire>>
  /\ UNCHANGED <<request, attempt, pieces, steps, result, streamed>>

\* handle_streaming of an agent: text and tool steps go to the registry as they
\* come; the passthrough stream sends no progress.
Streaming == stage = "streaming" /\ ~Passthrough /\ pieces + steps < MaxPieces

Progress ==
  /\ Streaming
  /\ pieces' = pieces + 1
  /\ streamed' = TRUE
  /\ LET d == TextDelta(writer, pieces + 1) IN Writes(d.w, d.frames)
  /\ UNCHANGED <<request, given, stage, attempt, steps, result>>

Step ==
  /\ Streaming
  /\ steps' = steps + 1
  /\ LET d == ToolStep(writer) IN Writes(d.w, d.frames)
  /\ UNCHANGED <<request, given, stage, attempt, pieces, result, streamed>>

\* The model's stream breaks off: handle_with_retry starts over.
Retry ==
  /\ stage \in {"flow", "streaming"} /\ attempt = 1
  /\ attempt' = 2
  /\ pieces' = 0
  /\ UNCHANGED <<request, given, stage, steps, result, streamed, writer, wire>>

\* The completion: a failure, a drop, or the text of all pieces and the tools the
\* model asks for.  An agent uses its tools by itself.
Said(n) == [i \in 1..n |-> i]
Complete ==
  /\ stage \in {"flow", "streaming"}
  /\ stage' = "completed"
  /\ \/ \E status \in {"failed", "dropped"} : result' = [NoResult EXCEPT !.status = status]
     \/ /\ given # Refused
        /\ \E n \in (IF pieces > 0 THEN {pieces} ELSE 0..1),
              k \in (IF Passthrough THEN 0..MaxCalls ELSE {0}) :
             result' = [status |-> "ok", text |-> Said(n), calls |-> k]
  /\ UNCHANGED <<request, given, attempt, pieces, steps, streamed, writer, wire>>

\* dispatch_blocking: one body; OpenAI's has the tool calls or the text.
BodyText == IF result.text # <<>> THEN <<Frame("text", 0, 1)>> ELSE <<>>
BodyCalls == [c \in 1..result.calls |-> Frame("call", c, c)]
AnthropicBody == BodyText \o BodyCalls \o <<Frame(IF result.calls > 0 THEN "tool_use" ELSE "end", 0, 0)>>
OpenAiBody ==
  IF result.calls > 0 THEN BodyCalls \o <<Frame("tool_use", 0, 0)>>
  ELSE BodyText \o <<Frame("end", 0, 0)>>
Body ==
  IF result.status # "ok" THEN <<Frame("error", 0, 0)>>
  ELSE IF Anthropic THEN AnthropicBody ELSE OpenAiBody

Reply ==
  /\ stage = "completed" /\ ~request.stream
  /\ stage' = "over"
  /\ Writes(writer, Body)
  /\ UNCHANGED <<request, given, attempt, pieces, steps, result, streamed>>

\* dispatch_streaming: the text goes out if no piece of it did, then the tool calls.
FinalText == result.text # <<>> /\ ~streamed

\* The whole text of the completion is one delta, numbered 1 here.
Finish ==
  /\ stage = "completed" /\ request.stream
  /\ stage' = "over"
  /\ LET text == IF FinalText THEN TextDelta(writer, 1) ELSE [w |-> writer, frames |-> <<>>]
         calls == IF result.calls > 0 THEN ToolCalls(text.w, result.calls) ELSE [w |-> text.w, frames |-> <<>>]
         error == IF result.status = "failed" THEN <<Frame("error", 0, 0)>> ELSE <<>>
     IN Writes(calls.w, text.frames \o calls.frames \o error
                          \o Close(calls.w, IF result.calls > 0 THEN "tool_use" ELSE "end"))
  /\ UNCHANGED <<request, given, attempt, pieces, steps, result, streamed>>

GatewayNext == Dispatch \/ Progress \/ Step \/ Retry \/ Complete \/ Reply \/ Finish

-----------------------------------------------------------------------------

Only(ts) == SelectSeq(wire, LAMBDA frame : frame.t \in ts)

\* The blocks of the conversation that belong where they are.
KeptOf(m) ==
  CASE request.talk[m].role \in {"user", "tool"} -> Gathered(m, {"text", "result"})
    [] request.talk[m].role = "assistant" -> Places(m, "text") \o Places(m, "use")
    [] OTHER -> <<>>
KeptBlocks == FlattenSeq([m \in DOMAIN request.talk |-> KeptOf(m)])

\* A conversation with tools reaches the model without loss: every text, tool use and
\* tool result once, and a result never before what was said ahead of it, whichever
\* protocol and however the blocks are grouped (translate_request, build_request).
TranscriptIsKept ==
  Passthrough /\ given.sent => given.blocks = KeptBlocks

\* The frames up to the last are inside their blocks: block indices count up, one block
\* is open at a time, and every delta names the open one.
InBlocks ==
  \A i \in DOMAIN wire :
    LET before == SubSeq(wire, 1, i - 1)
        starts == SelectSeq(before, LAMBDA f : f.t = "block_start")
        stops == SelectSeq(before, LAMBDA f : f.t = "block_stop")
    IN /\ wire[i].t = "block_start" => Len(starts) = Len(stops) /\ wire[i].index = Len(starts)
       /\ wire[i].t \in {"text", "call", "block_stop"} =>
            Len(starts) = Len(stops) + 1 /\ wire[i].index = Len(stops)
       /\ wire[i].t \in {"message_stop", "end", "tool_use"} => Len(starts) = Len(stops)

Ends == {"end", "tool_use"}

\* A stream is one its protocol's clients can read, whatever the model does and
\* wherever it breaks off: it opens first, its blocks nest, it says once why it
\* stopped, it says so for tools only if it asks for one, and nothing but the usage
\* and the sentinel follows (StreamWriter).
StreamIsWellFormed ==
  request.stream /\ stage # "request" =>
    /\ wire[1] = Opening[1]
    /\ Anthropic => InBlocks
    /\ \A i \in DOMAIN wire : wire[i].t = "call" => wire[i].n > 0 \/ wire[i - 1].index = wire[i].index
    /\ stage = "over" =>
         /\ Len(Only(Ends)) = 1
         /\ (Only(Ends)[1].t = "tool_use") = (\E i \in DOMAIN wire : wire[i].t = "call" /\ wire[i].n > 0)
         /\ wire[Len(wire)].t = IF Anthropic THEN "message_stop" ELSE "done"
         /\ \A i \in DOMAIN wire : wire[i].t \in Ends =>
              \A j \in (i + 1)..Len(wire) : wire[j].t \in {"usage", "done", "message_stop"}

\* The client of a completed stream reads the text once, in order, whether it was
\* streamed or came with the completion; only an attempt that broke off and was made
\* again repeats itself (streamed_progress of dispatch_streaming).
TextIsToldOnce ==
  stage = "over" /\ request.stream /\ result.status = "ok" /\ attempt = 1 =>
    [i \in DOMAIN Only({"text"}) |-> Only({"text"})[i].n] = result.text

=============================================================================
