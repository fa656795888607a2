------------------------------- MODULE MCParts -------------------------------
(***************************************************************************)
(* Six parts that work beside the flows: the wiring of a flow's tasks, the   *)
(* gateway's protocols, the client registry, the tools of a completion task, *)
(* the start of a pod and the catalog of the MCP server.  A behaviour is     *)
(* about one of them, the others rest.                                      *)
(*                                                                         *)
(* All flows of one or two tasks with any names, and all flows of four     *)
(* distinct tasks, with up to two dependencies each; all conversations of  *)
(* two messages with up to three blocks in a user's.                       *)
(***************************************************************************)
EXTENDS TaskRegistry, Gateway, Clients, Toolsets, Boot, Catalog

VARIABLE part

Tasks(names, deps) ==
  [name : names, explicit : {FALSE}, deps : {<<>>}, io : BOOLEAN]
    \cup [name : names, explicit : {TRUE}, io : BOOLEAN,
          deps : {<<>>} \cup {<<n>> : n \in deps} \cup {<<m, n>> : m, n \in deps}]

AnyTask == Tasks({"a", "b", "c"}, {"a", "b", "c"})

SmallFlows == UNION {[1..n -> AnyTask] : n \in 1..2}

FourTasks ==
  {<<s, t, u, v>> : s \in Tasks({"a"}, {}), t \in Tasks({"b"}, {"a", "d"}),
                    u \in Tasks({"c"}, {"a", "b"}), v \in Tasks({"d"}, {"a", "b", "c"})}

MCFlowConfigs == SmallFlows \cup FourTasks

Kinds(kinds, n) == UNION {[1..m -> kinds] : m \in 0..n}

MCTalks ==
  {<<first, second>> :
     first \in [role : {"assistant"}, kinds : Kinds({"text", "use"}, 2)]
                 \cup [role : {"system"}, kinds : Kinds({"text"}, 1)],
     second \in [role : {"user"}, kinds : Kinds({"text", "use", "result"}, 3)]
                  \cup [role : {"tool"}, kinds : {<<"result">>}]}

\* The answer does not depend on what was said, so the streams answer two conversations:
\* one that is accepted and one that is refused.
StreamTalks ==
  {<<[role |-> "assistant", kinds |-> k], [role |-> "user", kinds |-> <<"text">>]>> : k \in {<<>>, <<"text">>}}

MCServerLists == {<<"oauth">>, <<"static", "user">>}

\* `e` asks for election, `s` serves.
Elected == {"e"}
Served == {"s"}
Deployed(replicas, cache, name, e, s, inE, inS, twice, login, logs) ==
  [replicas |-> replicas, cache |-> cache, flows |-> name, files |-> [e |-> e, s |-> s], keys |-> [e |-> inE, s |-> inS],
   twice |-> twice, login |-> login, logs |-> logs]

MCDeployments ==
  {Deployed({"p", "q"}, "enabled", "off", "good", "good", "none", "none", FALSE, TRUE, TRUE),
   Deployed({"p"}, "enabled", "system", "good", "none", "none", "good", FALSE, TRUE, TRUE),
   Deployed({"p"}, "enabled", "flows", "unusable", "good", "good", "good", FALSE, FALSE, TRUE),
   Deployed({"p"}, "enabled", "system", "invalid", "good", "good", "binary", FALSE, FALSE, TRUE),
   Deployed({"p"}, "enabled", "off", "good", "good", "none", "none", TRUE, FALSE, TRUE),
   Deployed({"p", "q"}, "disabled", "system", "good", "good", "none", "none", FALSE, FALSE, TRUE),
   Deployed({"p", "q"}, "none", "off", "good", "good", "none", "none", FALSE, FALSE, FALSE)}

\* Tools, prompts and resources, one of each for everybody and one for callers with
\* the header h; all URIs of up to two characters and some longer ones.
Offer(f, k, key, needs, src, ok, required) ==
  [flow |-> f, kind |-> k, key |-> key, needs |-> needs, source |-> src, ok |-> ok, required |-> required,
   own |-> FALSE, keys |-> {},
   optional |-> {"o"}, values |-> 2,
   suggests |-> IF k \in {"prompt", "resource"} THEN src ELSE "inline"]
MCOffers ==
  {Offer("f", "tool", <<"t">>, {}, "inline", TRUE, {}),
   [Offer("f", "tool", <<"u">>, {"h"}, "inline", TRUE, {}) EXCEPT !.own = TRUE, !.keys = {"k", "own"}],
   Offer("f", "prompt", <<"p">>, {"h"}, "resource", TRUE, {"q"}),
   Offer("g", "prompt", <<"p">>, {}, "inline", TRUE, {}), Offer("g", "prompt", <<"r">>, {}, "inline", FALSE, {}),
   Offer("g", "resource", <<"a">>, {"h"}, "resource", TRUE, {}),
   Offer("f", "template", <<"{x}">>, {}, "resource", TRUE, {}),
   Offer("g", "template", <<"{x}", "-", "{y}">>, {"h"}, "inline", TRUE, {}),
   Offer("g", "template", <<"a", "/", "{x}">>, {}, "inline", TRUE, {}),
   Offer("f", "template", <<"{x}", "-">>, {}, "inline", TRUE, {})}

Uris ==
  UNION {[1..n -> {"a", "-", "/"}] : n \in 1..2}
    \cup {<<"a", "-", "a">>, <<"a", "/", "a">>, <<"a", "-", "/">>, <<"a", "-", "a", "-">>, <<"a", "-", "-", "a">>,
          <<"a", "/", "a", "a">>}
MCServerKeys == {"k"}
Call(method, key, headers, args, bearer, valid) ==
  [method |-> method, key |-> key, headers |-> headers, args |-> args, token |-> bearer, valid |-> valid]
Listed ==
  {Call(method, <<>>, headers, {}, "k", TRUE) : method \in DOMAIN ListKind, headers \in SUBSET {"h"}}
Used ==
  {Call("call", <<"t">>, headers, {}, "k", valid) : headers \in SUBSET {"h"}, valid \in BOOLEAN}
    \cup {Call("call", <<"u">>, headers, {}, bearer, TRUE) : headers \in SUBSET {"h"}, bearer \in {"k", "own", "none"}}
    \cup {Call("get", <<"p">>, headers, args, "k", TRUE) : headers \in SUBSET {"h"}, args \in SUBSET {"q"}}
    \cup {Call("read", uri, headers, {}, "k", TRUE) : uri \in Uris, headers \in SUBSET {"h"}}
Other ==
  {Call(method, <<"p">>, {}, {}, "k", TRUE) : method \in {"initialize", "initialized", "complete", "ping"}}
    \cup {Call("get", <<"p">>, {}, {}, "none", TRUE)}
MCCalls == Listed \cup Used \cup Other

NoRequest ==
  [protocol |-> "none", talk |-> <<>>, tools |-> FALSE, optin |-> FALSE, stream |-> FALSE, usage |-> FALSE]

FlowRests == flow = <<>> /\ registry = NotBuilt
GatewayRests ==
  /\ request = NoRequest /\ given = Unsent /\ stage = "over" /\ attempt = 1 /\ pieces = 0 /\ steps = 0
  /\ result = NoResult /\ streamed = FALSE /\ writer = NewWriter /\ wire = <<>>
ClientsRest ==
  /\ clients = 1 /\ guards = 0 /\ locked = {} /\ made = [clients |-> 1, guards |-> 1]
  /\ caller = [c \in Callers |-> [pc |-> "use", client |-> 1, guard |-> 0]]
  /\ dead = {} /\ faults = 0 /\ removes = 0 /\ served = {}
ToolsRest ==
  /\ servers = <<>> /\ token = [u \in Users |-> 1] /\ fetched = 0 /\ toolsets = <<>> /\ slots = <<>>
  /\ slotOf = [o \in Owners |-> 0] /\ turn = [r \in Turns |-> NoTurn] /\ events = 0 /\ fails = 0

BootRests ==
  /\ deployment = Deployed({}, "none", "off", "none", "none", "none", "none", FALSE, FALSE, TRUE)
  /\ keys = deployment.keys /\ pods = [p \in Replicas |-> Stopped] /\ leads = [f \in Electing |-> {}]
  /\ troubles = 0 /\ bootWrites = 0

CatalogRests ==
  /\ entries = {} /\ mounted = "text" /\ cached = "none" /\ asked = NoCall /\ stand = "idle" /\ chosen = NoChoice
  /\ reply = NoReply /\ found = {} /\ noFile = FALSE /\ switches = 0

MCInit ==
  \/ part = "wiring" /\ WiringInit /\ GatewayRests /\ ClientsRest /\ ToolsRest /\ BootRests /\ CatalogRests
  \/ /\ part = "gateway" /\ FlowRests /\ GatewayInit /\ ClientsRest /\ ToolsRest /\ BootRests /\ CatalogRests
     /\ request.stream => request.talk \in StreamTalks
  \/ part = "clients" /\ FlowRests /\ GatewayRests /\ ClientsInit /\ ToolsRest /\ BootRests /\ CatalogRests
  \/ part = "tools" /\ FlowRests /\ GatewayRests /\ ClientsRest /\ ToolsInit /\ BootRests /\ CatalogRests
  \/ part = "boot" /\ FlowRests /\ GatewayRests /\ ClientsRest /\ ToolsRest /\ BootInit /\ CatalogRests
  \/ part = "catalog" /\ FlowRests /\ GatewayRests /\ ClientsRest /\ ToolsRest /\ BootRests /\ CatalogInit

\* Bound: one user's token changes.
OneRenews == \A x, y \in Users : token[x] > 1 /\ token[y] > 1 => x = y

MCNext ==
  /\ \/ part = "wiring" /\ WiringNext /\ UNCHANGED <<gatewayVars, clientVars, toolVars, bootVars, catalogVars>>
     \/ part = "gateway" /\ GatewayNext /\ UNCHANGED <<wiringVars, clientVars, toolVars, bootVars, catalogVars>>
     \/ part = "clients" /\ ClientsNext /\ UNCHANGED <<wiringVars, gatewayVars, toolVars, bootVars, catalogVars>>
     \/ part = "tools" /\ ToolsNext /\ OneRenews' /\ UNCHANGED <<wiringVars, gatewayVars, clientVars, bootVars, catalogVars>>
     \/ part = "boot" /\ BootNext /\ UNCHANGED <<wiringVars, gatewayVars, clientVars, toolVars, catalogVars>>
     \/ part = "catalog" /\ CatalogNext /\ UNCHANGED <<wiringVars, gatewayVars, clientVars, toolVars, bootVars>>
  /\ UNCHANGED part

MCSpec ==
  /\ MCInit
  /\ [][MCNext]_<<part, wiringVars, gatewayVars, clientVars, toolVars, bootVars, catalogVars>>
  /\ ClientsFairness
  /\ ToolsFairness

=============================================================================
