------------------------------ MODULE Batches ------------------------------
(***************************************************************************)
(* The two tasks that change how many events there are: iterate makes one   *)
(* event of every element of an array, buffer makes one event of many.      *)
(* Source events reach a buffer directly or through an iterate above it;    *)
(* the leaves below the buffer signal completions, and the signals find     *)
(* their way back through the buffer's proxies and iterate's fan-in.        *)
(***************************************************************************)
EXTENDS Naturals, Sequences, FiniteSets

CONSTANTS Events,        \* the events of the sources
          Keys,          \* values of the rendered partition_key
          NoUser,        \* no session
          BatchSetups,        \* the flows that are checked: see BatchSetupsAssumption
          MaxElements,   \* bound: elements of an array
          Capacity       \* CHANNEL_CAPACITY of the channel to the buffer

\* The events; split: an iterate above the buffer; keyed: a partition_key; size
\* and flush_on_completion of the buffer; the leaves below it, none when it is
\* one itself; and the user of each event.
ASSUME BatchSetupsAssumption ==
  \A s \in BatchSetups :
    /\ s.events \subseteq Events
    /\ s.split \in BOOLEAN /\ s.keyed \in BOOLEAN /\ s.flushOnCompletion \in BOOLEAN
    /\ s.size \in Nat \ {0} /\ s.leaves \in Nat /\ DOMAIN s.user = Events
ASSUME BatchBoundsAssumption == MaxElements \in Nat /\ Capacity \in Nat \ {0} /\ Keys # {}

VARIABLES shape,     \* one of BatchSetups
          input,     \* source events that nobody took yet
          array,     \* elements iterate has still to send, of each event it works on
          number,    \* elements iterate sent of each event
          fanIn,     \* events whose elements spawn_fan_in_completion waits for
          inbox,     \* the channel to the buffer
          closed,    \* its senders are gone
          loop,      \* the buffer: "top" of its loop, in "select", or "ended"
          buffers,   \* for each key, the messages of the batch being collected
          session,   \* for each key, the session of its Origin
          timed,     \* keys with an entry in batch_started_times
          batches,   \* flushed batches and passed on failures, until they are forgotten
          belowUp,    \* the task after the buffer takes events
          chan,      \* the completion channel of every event and element
          learned,   \* what each source learned
          broken,    \* completions whose batch failed at its last leaf, and events
                     \* iterate left before the end of their array (history)
          stopping  \* the cancellation token

upVars == <<input, array, number, fanIn>>
bufferVars == <<loop, buffers, session, timed>>
batchVars == <<shape, upVars, inbox, closed, bufferVars, batches, belowUp, chan, learned, broken, stopping>>

Elements == Events \X (1..MaxElements)

\* An element is an event of its own.
ASSUME ElementsAssumption == Events \cap Elements = {}

Source(c) == IF c \in Events THEN c ELSE c[1]
BufferKeys == IF shape.keyed THEN Keys ELSE {CHOOSE k \in Keys : TRUE}
BatchLeaves == IF shape.leaves = 0 THEN 1 ELSE shape.leaves

\* last_leaf, n times on each channel of cs: the last signal decides.
Signalled(ch, cs, n, verdict) ==
  [c \in DOMAIN ch |->
     IF c \notin cs THEN ch[c]
     ELSE [remaining |-> IF ch[c].remaining > n THEN ch[c].remaining - n ELSE 0,
           verdict |-> IF ch[c].remaining \in 1..n THEN verdict ELSE ch[c].verdict]]

BatchesInit ==
  /\ shape \in BatchSetups
  /\ input = shape.events
  /\ array = [e \in Events |-> 0]
  /\ number = [e \in Events |-> 0]
  /\ fanIn = {}
  /\ inbox = <<>>
  /\ closed = FALSE
  /\ loop = "top"
  /\ buffers = [k \in Keys |-> <<>>]
  /\ session = [k \in Keys |-> NoUser]
  /\ timed = {}
  /\ batches = {}
  /\ belowUp = TRUE
  /\ chan = [c \in Events \cup Elements |-> [remaining |-> BatchLeaves, verdict |-> "none"]]
  /\ learned = [e \in Events |-> "none"]
  /\ broken = {}
  /\ stopping = FALSE

(***************************************************************************)
(* The sources and iterate.                                                *)
(***************************************************************************)

\* An event for the buffer: JSON or another format, failed upstream or not.
Message(c, k, json, failed) == [chan |-> c, key |-> k, json |-> json, failed |-> failed]

Send(c, json, failed) ==
  /\ Len(inbox) < Capacity /\ loop # "ended"
  /\ \E k \in BufferKeys : inbox' = Append(inbox, Message(c, k, json, failed))

\* Without iterate the event is the buffer's own.
SendDirect(e) ==
  /\ ~shape.split /\ e \in input
  /\ \/ \E json \in BOOLEAN : Send(e, json, FALSE)
     \/ Send(e, TRUE, TRUE)
  /\ input' = input \ {e}
  /\ UNCHANGED <<shape, array, number, fanIn, closed, bufferVars, batches, belowUp, chan, learned, broken, stopping>>

\* Nobody takes the event any more: it fails, or is dropped.
InboxClosed(e) ==
  /\ ~shape.split /\ e \in input /\ loop = "ended"
  /\ input' = input \ {e}
  /\ chan' = Signalled(chan, {e}, 1, "err")
  /\ UNCHANGED <<shape, array, number, fanIn, inbox, closed, bufferVars, batches, belowUp, learned, broken, stopping>>

\* iterate: an empty array signals for every leaf.
SplitEmpty(e) ==
  /\ shape.split /\ e \in input /\ ~stopping
  /\ input' = input \ {e}
  /\ chan' = Signalled(chan, {e}, BatchLeaves, "ok")
  /\ UNCHANGED <<shape, array, number, fanIn, inbox, closed, bufferVars, batches, belowUp, learned, broken, stopping>>

SplitStart(e) ==
  /\ shape.split /\ e \in input /\ ~stopping
  /\ input' = input \ {e}
  /\ \E n \in 1..MaxElements : array' = [array EXCEPT ![e] = n]
  /\ UNCHANGED <<shape, number, fanIn, inbox, closed, bufferVars, batches, belowUp, chan, learned, broken, stopping>>

\* No array: the event goes on as a failed one (forward_failure).
SplitErrs(e) ==
  /\ shape.split /\ e \in input /\ ~stopping
  /\ Send(e, TRUE, TRUE)
  /\ input' = input \ {e}
  /\ UNCHANGED <<shape, array, number, fanIn, closed, bufferVars, batches, belowUp, chan, learned, broken, stopping>>

\* Each element has a completion channel of its own, for every leaf below.
SplitSend(e) ==
  /\ array[e] > 0 /\ ~stopping
  /\ Send(<<e, number[e] + 1>>, TRUE, FALSE)
  /\ number' = [number EXCEPT ![e] = @ + 1]
  /\ array' = [array EXCEPT ![e] = @ - 1]
  /\ fanIn' = IF array[e] = 1 THEN fanIn \cup {e} ELSE fanIn
  /\ UNCHANGED <<shape, input, closed, bufferVars, batches, belowUp, chan, learned, broken, stopping>>

\* Iterate leaves an event: the elements it has not sent are never sent.
Leave(e) ==
  /\ e \in input \/ array[e] > 0
  /\ input' = input \ {e}
  /\ array' = [array EXCEPT ![e] = 0]
  /\ broken' = IF array[e] > 0 THEN broken \cup {e} ELSE broken

\* A cancelled iterate returns between two elements; the event is dropped.
SplitCancelled(e) ==
  /\ shape.split /\ stopping
  /\ Leave(e)
  /\ UNCHANGED <<shape, number, fanIn, inbox, closed, bufferVars, batches, belowUp, chan, learned, stopping>>

\* The buffer is gone: the attempts fail and so does the event.
SplitFails(e) ==
  /\ shape.split /\ loop = "ended"
  /\ Leave(e)
  /\ chan' = Signalled(chan, {e}, 1, "err")
  /\ UNCHANGED <<shape, number, fanIn, inbox, closed, bufferVars, batches, belowUp, learned, stopping>>

(***************************************************************************)
(* Who still holds a completion handle.                                    *)
(***************************************************************************)

InMessages(c, messages) == \E i \in DOMAIN messages : messages[i].chan = c
InBuffers(c) == \E k \in Keys : InMessages(c, buffers[k])
InBatches(c) == \E b \in batches : c \in b.upstreams
Held(c) == InMessages(c, inbox) \/ InBuffers(c) \/ InBatches(c)

\* The receiver of an element's channel answers: a verdict, or a closed channel.
Answered(c) == chan[c].verdict # "none" \/ ~Held(c)

\* spawn_fan_in_completion: when the elements are answered, one signal per leaf.
FanIn(e) ==
  /\ e \in fanIn
  /\ \A i \in 1..number[e] : Answered(<<e, i>>)
  /\ fanIn' = fanIn \ {e}
  /\ chan' = Signalled(chan, {e}, BatchLeaves, "ok")
  /\ UNCHANGED <<shape, input, array, number, inbox, closed, bufferVars, batches, belowUp, learned, broken, stopping>>

\* The source's wait ends: with a verdict, or with a closed channel.
SourceHears(e) ==
  /\ e \in shape.events /\ learned[e] = "none"
  /\ \/ chan[e].verdict # "none" /\ learned' = [learned EXCEPT ![e] = chan[e].verdict]
     \/ /\ chan[e].verdict = "none"
        /\ e \notin input /\ array[e] = 0 /\ e \notin fanIn /\ ~Held(e)
        /\ learned' = [learned EXCEPT ![e] = "closed"]
  /\ UNCHANGED <<shape, upVars, inbox, closed, bufferVars, batches, belowUp, chan, broken, stopping>>

(***************************************************************************)
(* The buffer.                                                             *)
(***************************************************************************)

\* The top of the loop: a cancelled buffer returns and forgets what it holds.
LoopTop ==
  /\ loop = "top"
  /\ IF stopping
     THEN /\ loop' = "ended"
          /\ buffers' = [k \in Keys |-> <<>>]
          /\ timed' = {}
          /\ inbox' = <<>>
     ELSE loop' = "select" /\ UNCHANGED <<buffers, timed, inbox>>
  /\ UNCHANGED <<shape, upVars, closed, session, batches, belowUp, chan, learned, broken, stopping>>

Channels(messages) == {messages[i].chan : i \in DOMAIN messages}

\* spawn_completion_proxy: one upstream is passed through, more get a proxy.
Batch(messages, k, user, error) ==
  [messages |-> messages, key |-> k, session |-> user, error |-> error,
   upstreams |-> Channels(messages), proxy |-> Cardinality(Channels(messages)) > 1,
   left |-> shape.leaves, remaining |-> BatchLeaves, verdict |-> "none"]

\* flush_buffer: the batch goes to the next task, or is lost with it; a leaf
\* signals every upstream itself.
Flush(messages, k, user) ==
  /\ batches' = IF shape.leaves > 0 /\ belowUp THEN batches \cup {Batch(messages, k, user, FALSE)}
                ELSE batches
  /\ chan' = IF shape.leaves = 0 THEN Signalled(chan, Channels(messages), 1, "ok") ELSE chan

\* Origin::add.
Add(current, next) == IF current = next THEN next ELSE NoUser

\* pass_on_failed.
ReceiveFailed ==
  /\ loop = "select" /\ inbox # <<>> /\ Head(inbox).failed
  /\ loop' = "top"
  /\ inbox' = Tail(inbox)
  /\ IF shape.leaves > 0 /\ belowUp
     THEN batches' = batches \cup {Batch(<<Head(inbox)>>, Head(inbox).key, NoUser, TRUE)} /\ UNCHANGED chan
     ELSE chan' = Signalled(chan, {Head(inbox).chan}, 1, "err") /\ UNCHANGED batches
  /\ UNCHANGED <<shape, upVars, closed, buffers, session, timed, belowUp, learned, broken, stopping>>

\* Data that is not JSON ends the task.
ReceiveOther ==
  /\ loop = "select" /\ inbox # <<>> /\ ~Head(inbox).json
  /\ loop' = "ended"
  /\ inbox' = <<>>
  /\ buffers' = [k \in Keys |-> <<>>]
  /\ timed' = {}
  /\ UNCHANGED <<shape, upVars, closed, session, batches, belowUp, chan, learned, broken, stopping>>

\* A buffer is full; a new one for a key is not looked at.
ReachedSize(k, messages) ==
  Len(messages) >= shape.size /\ (shape.keyed => buffers[k] # <<>>)

Receive ==
  /\ loop = "select" /\ inbox # <<>> /\ Head(inbox).json /\ ~Head(inbox).failed
  /\ loop' = "top"
  /\ inbox' = Tail(inbox)
  /\ LET m == Head(inbox)
         k == m.key
         messages == Append(buffers[k], m)
         next == shape.user[Source(m.chan)]
         user == IF buffers[k] = <<>> THEN next ELSE Add(session[k], next)
     IN IF ReachedSize(k, messages) \/ shape.flushOnCompletion
        THEN /\ Flush(messages, k, user)
             /\ buffers' = [buffers EXCEPT ![k] = <<>>]
             /\ session' = [session EXCEPT ![k] = NoUser]
             /\ timed' = timed \ {k}
        ELSE /\ buffers' = [buffers EXCEPT ![k] = messages]
             /\ session' = [session EXCEPT ![k] = user]
             /\ timed' = timed \cup {k}
             /\ UNCHANGED <<batches, chan>>
  /\ UNCHANGED <<shape, upVars, closed, belowUp, learned, broken, stopping>>

FlushKey(k) ==
  /\ Flush(buffers[k], k, session[k])
  /\ buffers' = [buffers EXCEPT ![k] = <<>>]
  /\ session' = [session EXCEPT ![k] = NoUser]
  /\ timed' = timed \ {k}

\* The timeout runs from the first event of a batch.
TimeoutNever(k) == FALSE /\ UNCHANGED batchVars

Timeout(k) ==
  /\ loop = "select" /\ k \in timed /\ buffers[k] # <<>>
  /\ loop' = "top"
  /\ FlushKey(k)
  /\ UNCHANGED <<shape, upVars, inbox, closed, belowUp, learned, broken, stopping>>

\* The channel is closed: what is left is flushed, key by key, and the task ends.
ShutdownFlush(k) ==
  /\ loop = "select" /\ inbox = <<>> /\ closed /\ buffers[k] # <<>>
  /\ FlushKey(k)
  /\ UNCHANGED <<shape, upVars, inbox, closed, loop, belowUp, learned, broken, stopping>>

ChannelClosed ==
  /\ loop = "select" /\ inbox = <<>> /\ closed
  /\ \A k \in Keys : buffers[k] = <<>>
  /\ loop' = "ended"
  /\ UNCHANGED <<shape, upVars, inbox, closed, buffers, session, timed, batches, belowUp, chan, learned, broken, stopping>>

(***************************************************************************)
(* The leaves below the buffer and the proxies.                            *)
(***************************************************************************)

\* A leaf handles a batch, fails at it, or is gone before it does; the last
\* leaf of an event without a proxy drops its handle.
LeafSignals(b, verdict) ==
  /\ b.left > 0
  /\ b.error => verdict # "ok"
  /\ LET signals == verdict # "lost"
         last == signals /\ b.remaining = 1
         next == [b EXCEPT !.left = @ - 1,
                           !.remaining = IF signals THEN @ - 1 ELSE @,
                           !.verdict = IF last THEN verdict ELSE @]
     IN /\ broken' = IF last /\ verdict = "err" THEN broken \cup b.upstreams ELSE broken
        /\ batches' = (batches \ {b}) \cup (IF b.proxy \/ b.left > 1 THEN {next} ELSE {})
        /\ chan' = IF b.proxy \/ ~signals THEN chan ELSE Signalled(chan, b.upstreams, 1, verdict)
  /\ UNCHANGED <<shape, upVars, inbox, closed, bufferVars, belowUp, learned, stopping>>

\* The proxy forwards a success, once to every upstream, and drops the handles.
ProxyForwardsAll(b) ==
  /\ b.proxy /\ b.left = 0
  /\ batches' = batches \ {b}
  /\ chan' = Signalled(chan, b.upstreams, 1, "ok")
  /\ UNCHANGED <<shape, upVars, inbox, closed, bufferVars, belowUp, learned, broken, stopping>>

Proxy(b) ==
  /\ b.proxy /\ b.left = 0
  /\ batches' = batches \ {b}
  /\ chan' = IF b.verdict = "ok" THEN Signalled(chan, b.upstreams, 1, "ok") ELSE chan
  /\ UNCHANGED <<shape, upVars, inbox, closed, bufferVars, belowUp, learned, broken, stopping>>

(***************************************************************************)
(* The flow around them.                                                   *)
(***************************************************************************)

\* The tasks above the buffer end once they have nothing left to send.
CloseChannel ==
  /\ ~closed /\ input = {} /\ \A e \in Events : array[e] = 0
  /\ closed' = TRUE
  /\ UNCHANGED <<shape, upVars, inbox, bufferVars, batches, belowUp, chan, learned, broken, stopping>>

\* The task after the buffer ends; its events are lost.
BelowEnds ==
  /\ belowUp /\ shape.leaves > 0
  /\ belowUp' = FALSE
  /\ batches' = {b \in batches : b.proxy}
  /\ UNCHANGED <<shape, upVars, inbox, closed, bufferVars, chan, learned, broken, stopping>>

\* A proxy whose event was lost.
ProxyClosed(b) ==
  /\ b.proxy /\ b.left > 0 /\ ~belowUp
  /\ batches' = batches \ {b}
  /\ UNCHANGED <<shape, upVars, inbox, closed, bufferVars, belowUp, chan, learned, broken, stopping>>

CancelBuffer ==
  /\ ~stopping
  /\ stopping' = TRUE
  /\ UNCHANGED <<shape, upVars, inbox, closed, bufferVars, batches, belowUp, chan, learned, broken>>

Iterates(e) ==
  \/ SplitEmpty(e) \/ SplitErrs(e) \/ SplitStart(e) \/ SplitSend(e) \/ SplitCancelled(e)
  \/ SplitFails(e)
Upstream(e) == SendDirect(e) \/ InboxClosed(e) \/ Iterates(e) \/ FanIn(e) \/ SourceHears(e)

Buffer ==
  \/ LoopTop \/ Receive \/ ReceiveFailed \/ ReceiveOther \/ ChannelClosed
  \/ \E k \in Keys : Timeout(k) \/ ShutdownFlush(k)

Downstream ==
  \E b \in batches :
    Proxy(b) \/ ProxyClosed(b) \/ \E verdict \in {"ok", "err", "lost"} : LeafSignals(b, verdict)

BatchesNext ==
  \/ \E e \in Events : Upstream(e)
  \/ Buffer \/ Downstream
  \/ CloseChannel \/ BelowEnds \/ CancelBuffer

\* The runtime polls every task; the sleep of a timeout ends; a leaf answers.
BatchesFairness ==
  /\ \A e \in Events : WF_batchVars(Upstream(e))
  /\ WF_batchVars(Buffer)
  /\ \A k \in Keys : WF_batchVars(Timeout(k))
  /\ WF_batchVars(Downstream)

BatchesSpec == BatchesInit /\ [][BatchesNext]_batchVars /\ BatchesFairness

-----------------------------------------------------------------------------

\* Places where a message of an event still waits for the buffer or a leaf.
InFlight(e) ==
  \E c \in DOMAIN chan :
    /\ Source(c) = e
    /\ \/ InMessages(c, inbox) \/ InBuffers(c)
       \/ \E b \in batches : b.left > 0 /\ c \in b.upstreams

\* A source is told that its event completed only when nothing of it waits in the
\* buffer or at a leaf, the batch with the event itself did not fail, and an
\* iterate sent its array to the end (spawn_completion_proxy,
\* spawn_fan_in_completion).  Behind an iterate that says when the source is
\* told, not how its elements ended: the fan-in drops the verdict of every
\* element, so one whose batch failed or was lost in a cancelled buffer counts as
\* much as one that was handled, and the source is told "ok" all the same.
AckedIsDone ==
  \A e \in Events : learned[e] = "ok" => ~InFlight(e) /\ array[e] = 0 /\ e \notin broken

\* A batch is no larger than the size (a size of 1 with a partition_key makes
\* batches of two), holds one key's messages in their order, and acts for a user
\* only when every message is that user's (Origin::add).
BatchIsSound ==
  \A b \in batches :
    /\ \/ Len(b.messages) <= shape.size
       \/ shape.keyed /\ shape.size = 1 /\ Len(b.messages) = 2
    /\ \A i \in DOMAIN b.messages : b.messages[i].key = b.key
    /\ b.session # NoUser =>
         \A i \in DOMAIN b.messages : shape.user[Source(b.messages[i].chan)] = b.session
    /\ \A i, j \in DOMAIN b.messages :
         i < j /\ b.messages[i].chan \in Elements /\ b.messages[j].chan \in Elements
               /\ Source(b.messages[i].chan) = Source(b.messages[j].chan) =>
           b.messages[i].chan[2] < b.messages[j].chan[2]

\* Every source learns what became of its event: no batch waits for ever, and
\* no regrouped completion is lost.
SourcesLearn == \A e \in Events : (e \in shape.events) ~> (learned[e] # "none")
=============================================================================
