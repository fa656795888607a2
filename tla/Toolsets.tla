------------------------------ MODULE Toolsets ------------------------------
(***************************************************************************)
(* The tools of an ai_completion task (ai-agent/src/completion.rs): a        *)
(* toolset is a set of MCP connections, opened with the Authorization         *)
(* headers of the moment, and the agent clients built on them.  A slot keeps  *)
(* the current toolset: the task's own, or one for each user when a server    *)
(* is called on behalf of the user.  A toolset is never changed, it is        *)
(* replaced when a header it was opened with is not the one it would get      *)
(* now; requests keep theirs while they use it.                               *)
(*                                                                         *)
(* The headers are numbers: a user's token, or the token an OAuth 2.0 server  *)
(* gave.  Slots and toolsets are numbered as they are made.                   *)
(***************************************************************************)
EXTENDS Naturals, Sequences, FiniteSets

CONSTANTS Users,
          ServerLists,  \* the kinds of the servers of a task, in order
          MaxInFlight,  \* events in flight (max_in_flight)
          Models,       \* what a client is cached under (ClientId)
          MaxEvents,    \* bound: events
          MaxTokens,    \* bound: tokens of a user, and tokens fetched
          MaxFails      \* bound: connects, fetches and builds that fail

VARIABLES servers,   \* the task's mcp_servers: sequence of "user", "oauth", "static"
          token,     \* the token each user has now
          fetched,   \* OAuth 2.0 tokens fetched so far
          slots,     \* ToolsetSlot: its toolset (0: none), who holds `connecting`
          slotOf,    \* UserToolsets and the task's slot: the slot of each owner, 0 for none
          toolsets,  \* each toolset: headers opened with, token cache, clients built
          turn,      \* the handling of each request in flight
          events,    \* events taken so far
          fails      \* failures so far

toolVars == <<servers, token, fetched, slots, slotOf, toolsets, turn, events, fails>>

Turns == 1..MaxInFlight
Task == "task"
Owners == Users \cup {Task}
NoTurn == [pc |-> "none", user |-> Task, token |-> 0, model |-> 0, slot |-> 0, toolset |-> 0]

-----------------------------------------------------------------------------

\* user_mcp_server: one server called on behalf of the user makes all tools the user's.
PerUser == \E i \in DOMAIN servers : servers[i] = "user"
OAuth == \E i \in DOMAIN servers : servers[i] = "oauth"

\* Processor::init: the task's own toolset is opened at the start, the users' with
\* their first request.
ToolsInit ==
  /\ servers \in ServerLists
  /\ token = [u \in Users |-> 1]
  /\ fetched = IF PerUser THEN 0 ELSE 1
  /\ toolsets = IF PerUser THEN <<>>
                ELSE <<[user |-> Task, token |-> 0, header |-> 1, cached |-> 1, clients |-> {}]>>
  /\ slots = IF PerUser THEN <<>> ELSE <<[toolset |-> 1, connecting |-> FALSE]>>
  /\ slotOf = [o \in Owners |-> IF o = Task /\ ~PerUser THEN 1 ELSE 0]
  /\ turn = [r \in Turns |-> NoTurn]
  /\ events = 0 /\ fails = 0

TurnAt(r, pc) == turn[r].pc = pc
TurnGoes(r, pc) == turn' = [turn EXCEPT ![r].pc = pc]
TurnEnds(r) == turn' = [turn EXCEPT ![r] = NoTurn]
TurnFails == fails < MaxFails /\ fails' = fails + 1

\* Error: the runner tries again (is_retryable), or the request ends.
FailsWith(r) ==
  /\ TurnFails
  /\ \/ turn' = [turn EXCEPT ![r] = [NoTurn EXCEPT !.pc = "resolve", !.user = turn[r].user,
                                             !.token = turn[r].token, !.model = turn[r].model]]
     \/ TurnEnds(r)

-----------------------------------------------------------------------------
(* UserToolsets::current and ToolsetSlot::current                           *)

\* An event, with the session of its user.  A session without a token ends in
\* McpUserRequired before anything is opened.
Receive(r) ==
  /\ TurnAt(r, "none") /\ events < MaxEvents
  /\ events' = events + 1
  /\ \A q \in 1..(r - 1) : ~TurnAt(q, "none")
  /\ \E u \in (IF PerUser THEN Users ELSE {Task}), m \in Models :
       turn' = [turn EXCEPT ![r] = [NoTurn EXCEPT !.pc = "resolve", !.user = u,
                                            !.token = IF PerUser THEN token[u] ELSE 0, !.model = m]]
  /\ UNCHANGED <<servers, token, fetched, slots, slotOf, toolsets, fails>>

\* users.entry(id).or_insert_with(..), under the lock of the map; last_used = now.
Resolve(r) ==
  /\ TurnAt(r, "resolve")
  /\ LET o == turn[r].user
         s == IF slotOf[o] # 0 THEN slotOf[o] ELSE Len(slots) + 1
     IN /\ slots' = IF slotOf[o] # 0 THEN slots ELSE Append(slots, [toolset |-> 0, connecting |-> FALSE])
        /\ slotOf' = [slotOf EXCEPT ![o] = s]
        /\ turn' = [turn EXCEPT ![r].slot = s, ![r].pc = "look"]
  /\ UNCHANGED <<servers, token, fetched, toolsets, events, fails>>

\* fresh: the toolset of the slot is read under its lock and judged after it.
Look(r) ==
  /\ turn[r].pc \in {"look", "look_again"}
  /\ turn' = [turn EXCEPT ![r].toolset = slots[turn[r].slot].toolset,
                                ![r].pc = IF TurnAt(r, "look") THEN "judge" ELSE "judge_again"]
  /\ UNCHANGED <<servers, token, fetched, slots, slotOf, toolsets, events, fails>>

\* Mutant: any user's token will do.
SameUserAny(r, t) == TRUE

\* McpTools::is_current: the header of a server called on behalf of the user, ...
SameUser(r, t) == PerUser => t.token = turn[r].token
\* ... and of one with OAuth 2.0 credentials, whose token cache is the toolset's own.
SameOAuth(t) == OAuth => t.cached = t.header

IsCurrent(r, t) == SameUser(r, t) /\ SameOAuth(t)

NotFresh(r) == TurnGoes(r, IF TurnAt(r, "judge") THEN "wait" ELSE "connect")

Judging(r) == turn[r].pc \in {"judge", "judge_again"}
Unlocked(r) == IF TurnAt(r, "judge") THEN slots ELSE [slots EXCEPT ![turn[r].slot].connecting = FALSE]

NothingYet(r) ==
  /\ Judging(r) /\ turn[r].toolset = 0
  /\ NotFresh(r)
  /\ UNCHANGED <<servers, token, fetched, slots, slotOf, toolsets, events, fails>>

\* A user's header is compared first; an OAuth 2.0 token that has lapsed is fetched
\* anew for its turn, and then is not the one the connection was opened with.
Lapsed(r) ==
  /\ turn[r].toolset # 0 /\ OAuth
  /\ toolsets[turn[r].toolset].cached = 0 /\ SameUser(r, toolsets[turn[r].toolset])

Judge(r) ==
  /\ Judging(r) /\ turn[r].toolset # 0 /\ ~Lapsed(r)
  /\ IF IsCurrent(r, toolsets[turn[r].toolset]) THEN TurnGoes(r, "client") /\ slots' = Unlocked(r)
     ELSE NotFresh(r) /\ UNCHANGED slots
  /\ UNCHANGED <<servers, token, fetched, slotOf, toolsets, events, fails>>

\* get_or_refresh_token, under the lock of the token cache.
Refetch(r) ==
  /\ Judging(r) /\ Lapsed(r)
  /\ fetched' = fetched + 1
  /\ toolsets' = [toolsets EXCEPT ![turn[r].toolset].cached = fetched + 1]
  /\ NotFresh(r)
  /\ UNCHANGED <<servers, token, slots, slotOf, events, fails>>

RefetchFails(r) ==
  /\ Judging(r) /\ Lapsed(r)
  /\ FailsWith(r)
  /\ slots' = Unlocked(r)
  /\ UNCHANGED <<servers, token, fetched, slotOf, toolsets, events>>

\* self.connecting.lock()
Wait(r) ==
  /\ TurnAt(r, "wait") /\ ~slots[turn[r].slot].connecting
  /\ slots' = [slots EXCEPT ![turn[r].slot].connecting = TRUE]
  /\ TurnGoes(r, "look_again")
  /\ UNCHANGED <<servers, token, fetched, slotOf, toolsets, events, fails>>

\* connect_mcp_tools, with the turn's token and fresh OAuth 2.0 credentials of its
\* own; the slot takes the toolset and the lock is dropped.
Connect(r) ==
  /\ TurnAt(r, "connect")
  /\ fetched' = IF OAuth THEN fetched + 1 ELSE fetched
  /\ toolsets' = Append(toolsets, [user |-> turn[r].user, token |-> turn[r].token,
                                   header |-> fetched', cached |-> fetched', clients |-> {}])
  /\ slots' = [slots EXCEPT ![turn[r].slot] = [toolset |-> Len(toolsets) + 1, connecting |-> FALSE]]
  /\ turn' = [turn EXCEPT ![r].toolset = Len(toolsets) + 1, ![r].pc = "client"]
  /\ UNCHANGED <<servers, token, slotOf, events, fails>>

\* Mutant: the lock is kept.
ConnectFailsLocked(r) ==
  /\ TurnAt(r, "connect")
  /\ FailsWith(r)
  /\ UNCHANGED <<servers, token, fetched, slots, slotOf, toolsets, events>>

\* A server does not answer, or refuses the user's token (rejects): permanent.
ConnectFails(r) ==
  /\ TurnAt(r, "connect")
  /\ FailsWith(r)
  /\ slots' = [slots EXCEPT ![turn[r].slot].connecting = FALSE]
  /\ UNCHANGED <<servers, token, fetched, slotOf, toolsets, events>>

-----------------------------------------------------------------------------

Built(r) == turn[r].model \in toolsets[turn[r].toolset].clients

\* Toolset::client: the client of the toolset, ...
Client(r) ==
  /\ TurnAt(r, "client") /\ Built(r)
  /\ TurnGoes(r, "use")
  /\ UNCHANGED <<servers, token, fetched, slots, slotOf, toolsets, events, fails>>

\* ... or a new one, built on its tools under the lock of its clients, ...
BuildClient(r) ==
  /\ TurnAt(r, "client") /\ ~Built(r)
  /\ toolsets' = [toolsets EXCEPT ![turn[r].toolset].clients = @ \cup {turn[r].model}]
  /\ TurnGoes(r, "use")
  /\ UNCHANGED <<servers, token, fetched, slots, slotOf, events, fails>>

\* ... unless its credentials, headers or documents are wrong.
BuildFails(r) ==
  /\ TurnAt(r, "client") /\ ~Built(r)
  /\ FailsWith(r)
  /\ UNCHANGED <<servers, token, fetched, slots, slotOf, toolsets, events>>

\* The agent's turns run its tools on the toolset; then the request lets go of it.
Prompt(r) ==
  /\ TurnAt(r, "use")
  /\ TurnEnds(r)
  /\ UNCHANGED <<servers, token, fetched, slots, slotOf, toolsets, events, fails>>

PromptFails(r) ==
  /\ TurnAt(r, "use")
  /\ FailsWith(r)
  /\ UNCHANGED <<servers, token, fetched, slots, slotOf, toolsets, events>>

-----------------------------------------------------------------------------

\* The user signs in again, or the session's token is refreshed.
Renew(u) ==
  /\ PerUser /\ token[u] < MaxTokens
  /\ token' = [token EXCEPT ![u] = @ + 1]
  /\ UNCHANGED <<servers, fetched, slots, slotOf, toolsets, turn, events, fails>>

\* Connections somebody can still reach.
Open ==
  {turn[r].toolset : r \in Turns} \cup {slots[turn[r].slot].toolset : r \in {q \in Turns : turn[q].slot # 0}}
    \cup {slots[slotOf[o]].toolset : o \in {p \in Owners : slotOf[p] # 0}}

\* CachedToken::is_valid: a token of an OAuth 2.0 server lapses.
Lapse(t) ==
  /\ OAuth /\ t \in Open /\ toolsets[t].cached # 0 /\ fetched < MaxTokens
  /\ toolsets' = [toolsets EXCEPT ![t].cached = 0]
  /\ UNCHANGED <<servers, token, fetched, slots, slotOf, turn, events, fails>>

\* close_idle of the sweeper: the entry of a user not heard of for USER_MCP_IDLE goes;
\* a request that takes as long may still hold the slot.
CloseIdle(u) ==
  /\ slotOf[u] # 0
  /\ slotOf' = [slotOf EXCEPT ![u] = 0]
  /\ UNCHANGED <<servers, token, fetched, slots, toolsets, turn, events, fails>>

TurnStep(r) ==
  \/ Resolve(r) \/ Look(r) \/ NothingYet(r) \/ Judge(r) \/ Refetch(r) \/ RefetchFails(r)
  \/ Wait(r) \/ Connect(r) \/ ConnectFails(r)
  \/ Client(r) \/ BuildClient(r) \/ BuildFails(r) \/ Prompt(r) \/ PromptFails(r)

ToolsNext ==
  \/ \E r \in Turns : Receive(r) \/ TurnStep(r)
  \/ \E u \in Users : Renew(u) \/ CloseIdle(u)
  \/ \E t \in DOMAIN toolsets : Lapse(t)

ToolsFairness ==
  /\ \A r \in Turns : SF_toolVars(Wait(r)) /\ WF_toolVars(TurnStep(r))
  /\ \A u \in Users : WF_toolVars(CloseIdle(u))

-----------------------------------------------------------------------------

\* A turn's tools act for its own user and with the token it came with, whoever
\* replaced the slot's toolset meanwhile (UserToolsets, ToolsetSlot::current).
OwnToken ==
  \A r \in Turns : TurnAt(r, "use") /\ PerUser =>
    /\ toolsets[turn[r].toolset].user = turn[r].user
    /\ toolsets[turn[r].toolset].token = turn[r].token

\* "They open once": connections are opened only when the slot has none that would do
\* (ToolsetSlot::current).
OpensOnce ==
  [][\A r \in Turns : TurnAt(r, "connect") /\ Len(toolsets') > Len(toolsets) /\ slots[turn[r].slot].toolset # 0 =>
       ~IsCurrent(r, toolsets[slots[turn[r].slot].toolset])]_toolVars

\* Every request is answered, and no user's connections stay open for ever: when the
\* users fall silent all of them are closed, those of a slot that was swept away under
\* a request included (close_idle).
UserConnectionsClose == <>[](\A r \in Turns : TurnAt(r, "none")) /\ (PerUser => <>[](Open \subseteq {0}))

=============================================================================
