---------------------------- MODULE MCEndpoints ----------------------------
(***************************************************************************)
(* Endpoints for TLC: two requests to one flow, and two flows that claim    *)
(* the same keys while a client listens.                                    *)
(***************************************************************************)
EXTENDS Endpoints, TLC

CONSTANTS q1, q2, f1, f2, s1

MCRequests == {q1, q2}
MCFlows == {f1, f2}
MCSessions == {s1}

Unguarded ==
  [own |-> FALSE, kinds |-> {}, keys |-> FALSE, required |-> FALSE, provider |-> FALSE,
   scoped |-> FALSE, models |-> FALSE]
Is(role, stream, timeout, chunks, leaves) ==
  [role |-> role, stream |-> stream, timeout |-> timeout, chunks |-> chunks, leaves |-> leaves,
   guard |-> Unguarded]

Shows(auths, forms, origins) ==
  {q \in Queries : q.auth \in auths /\ q.form \in forms /\ q.from \in origins}
Plain == [auth |-> "absent", headers |-> FALSE, form |-> "good", from |-> "outside"]

Two(a, b, stops) ==
  [offers |-> [f \in Flows |-> IF f = f1 THEN {a.role, b.role} ELSE {}],
   sessions |-> {}, starts |-> 1, stops |-> stops, shown |-> {Plain}, ask |-> (q1 :> a @@ q2 :> b)]

\* Clients that stay and clients that leave, with more chunks than the channels hold
\* and with as many as fit.  In the first, a client leaves while the flow waits to
\* send it a chunk, with the registry's mutex that the other request needs.
MCAsks ==
  {Two(Is("endpoint", TRUE, FALSE, 2, TRUE), Is("endpoint", TRUE, FALSE, 1, FALSE), FALSE),
   Two(Is("endpoint", TRUE, FALSE, 2, FALSE), Is("endpoint", TRUE, TRUE, 1, FALSE), FALSE),
   Two(Is("endpoint", TRUE, FALSE, 1, TRUE), Is("endpoint", FALSE, TRUE, 0, FALSE), TRUE),
   Two(Is("proxy", TRUE, TRUE, 2, FALSE), Is("proxy", TRUE, FALSE, 1, TRUE), FALSE),
   Two(Is("proxy", TRUE, FALSE, 2, FALSE), Is("proxy", FALSE, FALSE, 0, TRUE), TRUE),
   Two(Is("tool", TRUE, TRUE, 1, TRUE), Is("inproc", FALSE, TRUE, 0, FALSE), TRUE)}

MCLists ==
  [offers |-> (f1 :> {"template", "resource"} @@ f2 :> {"resource", "prompt"}),
   sessions |-> Sessions, starts |-> 2, stops |-> TRUE, shown |-> {}, ask |-> << >>]

\* One request at a guarded door, with everything it might show.
Door(role, g, shown) ==
  [offers |-> [f \in Flows |-> IF f = f1 THEN {role} ELSE {}],
   sessions |-> {}, starts |-> 1, stops |-> FALSE, shown |-> shown,
   ask |-> (q1 :> [Is(role, FALSE, FALSE, 0, FALSE) EXCEPT !.guard = g])]

Credentials == {g \in Guards : (g.own \/ g.kinds = {}) /\ ~ g.models}
MCDoors ==
  {Door("endpoint", g, Shows(Authorizations, {"good"}, {"outside"})) :
     g \in {g \in Credentials : ~ g.scoped /\ ~ g.keys}}
  \cup {Door("proxy", g, Shows(Authorizations, {"good"}, {"outside"})) :
     g \in {g \in Credentials : ~ g.keys}}
  \cup {Door("tool", g, Shows(Authorizations, {"good"}, {"outside"})) :
     g \in {g \in Credentials : g.kinds \subseteq {"bearer"}}}
  \cup {Door(role, Unguarded, Shows({"absent"}, Forms, Origins)) :
     role \in {"endpoint", "proxy", "tool", "inproc"}}
  \cup {Door("proxy", [Unguarded EXCEPT !.models = TRUE], Shows({"absent"}, Forms, {"outside"}))}

\* A client that leaves its stream alone.
MCAlone ==
  [offers |-> [f \in Flows |-> IF f = f1 THEN {"proxy"} ELSE {}],
   sessions |-> {}, starts |-> 1, stops |-> FALSE, shown |-> {Plain},
   ask |-> (q1 :> Is("proxy", TRUE, FALSE, 2, TRUE))]

MCSetups == MCAsks \cup {MCLists, MCAlone} \cup MCDoors
=============================================================================
