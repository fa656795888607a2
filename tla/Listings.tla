------------------------------ MODULE Listings ------------------------------
(***************************************************************************)
(* What the HTTP, MCP and AI gateway servers offer: dispatch tables that    *)
(* the source tasks of flows fill when a flow starts and that a stop        *)
(* empties, and the sessions of MCP clients that are told when a list of    *)
(* theirs changes.  Every table has one key here, the one two flows claim.  *)
(* A table changes first and is announced later, with its entry released;   *)
(* in between others change it, and clients list it.                        *)
(***************************************************************************)
EXTENDS Integers, Sequences, FiniteSets

CONSTANTS Flows,       \* identities of flows
          Sessions,    \* GET streams of MCP clients
          SessionCap,  \* SESSION_CHANNEL_CAPACITY
          MaxChanges   \* bound: starts of flows

ASSUME ListingsAssumption == SessionCap \in Nat \ {0} /\ MaxChanges \in Nat

NoFlow == "none"
Tables == {"endpoint", "inproc", "proxy", "tool", "resource", "template", "prompt"}
Lists == {"resources", "prompts"}

\* The resource templates are listed apart, and announced as resources.
ListOf(t) ==
  IF t \in {"resource", "template"} THEN {"resources"}
  ELSE IF t = "prompt" THEN {"prompts"} ELSE {}

\* A notification that a flow's source task, or its stop, has still to broadcast.
Announcements == [flow : Flows, by : Tables \cup {"stop"}, list : Lists]

\* What a client has before it lists: not what any table holds.
Unlisted == {<<"none", NoFlow>>}

VARIABLES offers,   \* the tables the source tasks of each flow register in
          table,    \* the flow that owns the key of each table, or NoFlow
          up,       \* the flows that run
          toDo,     \* of these, the tables they have still to register in
          session,  \* "none", "open" or "left": its receiver is dropped
          queue,    \* the notifications it has not read
          toList,   \* the lists its client was told of and has not listed again
          listed,   \* of each list, what its client got when it listed, or Unlisted
          announcing, \* the notifications that are still to be broadcast
          missed,   \* the lists it was not told of, its queue being full (history)
          changes   \* flow starts so far

tableVars == <<table, up, toDo>>
clientsVars == <<session, queue, toList, listed, missed>>
sessionVars == <<clientsVars, announcing>>
listVars == <<offers, tableVars, sessionVars, changes>>

ListingsTypeOK ==
  /\ offers \in [Flows -> SUBSET Tables]
  /\ table \in [Tables -> Flows \cup {NoFlow}]
  /\ up \subseteq Flows
  /\ toDo \in [Flows -> SUBSET Tables]
  /\ session \in [Sessions -> {"none", "open", "left"}]
  /\ \A s \in Sessions : queue[s] \in Seq(Lists) /\ Len(queue[s]) =< SessionCap
  /\ toList \in [Sessions -> SUBSET Lists] /\ missed \in [Sessions -> SUBSET Lists]
  /\ announcing \subseteq Announcements
  /\ changes \in 0..MaxChanges

ListingsInit ==
  /\ table = [t \in Tables |-> NoFlow]
  /\ up = {}
  /\ toDo = [f \in Flows |-> {}]
  /\ session = [s \in Sessions |-> "none"]
  /\ queue = [s \in Sessions |-> << >>]
  /\ toList = [s \in Sessions |-> {}]
  /\ listed = [s \in Sessions |-> [l \in Lists |-> Unlisted]]
  /\ announcing = {}
  /\ missed = [s \in Sessions |-> {}]
  /\ changes = 0
-----------------------------------------------------------------------------
\* What a client gets that lists.
Content(l) == {<<t, table[t]>> : t \in {u \in Tables : l \in ListOf(u) /\ table[u] # NoFlow}}

InQueue(s, l) == \E i \in DOMAIN queue[s] : queue[s][i] = l
Full(s) == Len(queue[s]) >= SessionCap

\* broadcast_notification: try_send drops the notification when the queue is full,
\* and the session when its receiver is gone.  A stop announces resources first.
Broadcast(a) ==
  /\ a \in announcing
  /\ a.by = "stop" /\ a.list = "prompts" => [a EXCEPT !.list = "resources"] \notin announcing
  /\ announcing' = announcing \ {a}
  /\ LET open == {s \in Sessions : session[s] = "open"}
     IN  /\ session' = [s \in Sessions |-> IF session[s] = "left" THEN "none" ELSE session[s]]
         /\ queue' = [s \in Sessions |->
                        IF s \in open /\ ~ Full(s) THEN Append(queue[s], a.list) ELSE queue[s]]
         /\ missed' = [s \in Sessions |->
                        IF s \in open /\ Full(s) /\ ~ InQueue(s, a.list)
                        THEN missed[s] \cup {a.list} ELSE missed[s]]
  /\ UNCHANGED <<offers, tableVars, toList, listed, changes>>

\* The change of these lists is to be announced.
Announce(f, by, lists) ==
  /\ announcing' = announcing \cup {[flow |-> f, by |-> by, list |-> l] : l \in lists}
  /\ UNCHANGED clientsVars

Announced(f) == \A a \in announcing : a.flow # f

\* A flow starts; its source tasks register one after the other.
StartFlow(f) ==
  /\ f \notin up /\ changes < MaxChanges /\ Announced(f)
  /\ up' = up \cup {f}
  /\ toDo' = [toDo EXCEPT ![f] = offers[f]]
  /\ changes' = changes + 1
  /\ UNCHANGED <<offers, table, sessionVars>>

\* HttpServer.register and InprocRegistry.register replace what is there.
Put(f, t) ==
  /\ table' = [table EXCEPT ![t] = f]
  /\ UNCHANGED sessionVars

TryPutSilently(f, t) ==
  /\ table' = [table EXCEPT ![t] = IF table[t] = NoFlow THEN f ELSE @]
  /\ UNCHANGED sessionVars

\* try_register, register_resource, register_resource_template, register_prompt:
\* only when the key is free; a collision is an error of the source task.
TryPut(f, t) ==
  \/ /\ table[t] = NoFlow
     /\ table' = [table EXCEPT ![t] = f]
     /\ Announce(f, t, ListOf(t))
  \/ /\ table[t] # NoFlow
     /\ UNCHANGED <<table, sessionVars>>

\* The Runner.run of the source tasks: initialised, then registered, once.
Register(f, t) ==
  /\ t \in toDo[f]
  /\ toDo' = [toDo EXCEPT ![f] = @ \ {t}]
  /\ IF t \in {"endpoint", "proxy", "inproc"} THEN Put(f, t) ELSE TryPut(f, t)
  /\ UNCHANGED <<offers, up, changes>>

\* deregister_flow of each server and deregister_flow_all: what the flow owns,
\* by its name; a notification for a list that lost an entry.
StopFlow(f) ==
  LET owned == {t \in Tables : table[t] = f}
  IN  /\ f \in up /\ toDo[f] = {} /\ Announced(f)
      /\ up' = up \ {f}
      /\ table' = [t \in Tables |-> IF t \in owned THEN NoFlow ELSE table[t]]
      /\ Announce(f, "stop", UNION {ListOf(t) : t \in owned})
      /\ UNCHANGED <<offers, toDo, changes>>
-----------------------------------------------------------------------------
\* handle_mcp_sse.
OpenSession(s) ==
  /\ session[s] = "none"
  /\ session' = [session EXCEPT ![s] = "open"]
  /\ queue' = [queue EXCEPT ![s] = << >>]
  /\ toList' = [toList EXCEPT ![s] = {}]
  /\ listed' = [listed EXCEPT ![s] = [l \in Lists |-> Unlisted]]
  /\ missed' = [missed EXCEPT ![s] = {}]
  /\ UNCHANGED <<offers, tableVars, announcing, changes>>

\* The client lists, first or again: handle_resources_list, _templates_list,
\* handle_prompts_list answer with the tables as they are.
List(s, l) ==
  /\ session[s] = "open" /\ (l \in toList[s] \/ listed[s][l] = Unlisted)
  /\ listed' = [listed EXCEPT ![s] = [@ EXCEPT ![l] = Content(l)]]
  /\ toList' = [toList EXCEPT ![s] = @ \ {l}]
  /\ missed' = [missed EXCEPT ![s] = @ \ {l}]
  /\ UNCHANGED <<offers, tableVars, announcing, session, queue, changes>>

\* The client is told that a list changed.
ReadNotification(s) ==
  /\ session[s] = "open" /\ queue[s] # << >>
  /\ queue' = [queue EXCEPT ![s] = Tail(@)]
  /\ toList' = [toList EXCEPT ![s] = @ \cup {Head(queue[s])}]
  /\ UNCHANGED <<offers, tableVars, announcing, session, listed, missed, changes>>

LeaveSession(s) ==
  /\ session[s] = "open"
  /\ session' = [session EXCEPT ![s] = "left"]
  /\ queue' = [queue EXCEPT ![s] = << >>]
  /\ toList' = [toList EXCEPT ![s] = {}]
  /\ listed' = [listed EXCEPT ![s] = [l \in Lists |-> Unlisted]]
  /\ missed' = [missed EXCEPT ![s] = {}]
  /\ UNCHANGED <<offers, tableVars, announcing, changes>>

OfSession(s) == OpenSession(s) \/ ReadNotification(s) \/ LeaveSession(s) \/ \E l \in Lists : List(s, l)

ListingsNext ==
  \/ \E f \in Flows : \/ StartFlow(f) \/ StopFlow(f)
                      \/ \E t \in Tables : Register(f, t)
  \/ \E a \in announcing : Broadcast(a)
  \/ \E s \in Sessions : OfSession(s)
-----------------------------------------------------------------------------
\* The tables whose key a second flow is refused.
Exclusive == Tables \ {"endpoint", "proxy", "inproc"}

\* A flow that was given the key of a tool, a resource, a template or a prompt
\* keeps it until it stops itself: neither the start of a flow that claims the same
\* key nor that flow's stop takes it away (try_register, deregister_flow).
ClaimIsKept ==
  [][\A t \in Exclusive :
       table[t] # NoFlow /\ table'[t] # table[t] => table[t] \in up /\ table[t] \notin up']_listVars

\* When the tables are no longer as the client of an open session got them, since
\* it opened the session, it is going to know: the change is still to be broadcast,
\* or announced in the session's queue, or the client was told and will list again.
\* The exception is in the code: broadcast_notification drops what does not fit, so
\* a client whose queue is full of notifications of the other list stays with its
\* old list until that list changes once more, although the stream stays open.
StaleIsAnnounced ==
  \A s \in Sessions, l \in Lists :
    session[s] = "open" /\ listed[s][l] \notin {Unlisted, Content(l)} =>
      \/ \E a \in announcing : a.list = l
      \/ InQueue(s, l) \/ l \in toList[s] \/ l \in missed[s]
=============================================================================
