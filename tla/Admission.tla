------------------------------ MODULE Admission ------------------------------
(***************************************************************************)
(* Who may call a flow: the checks that the HTTP, AI gateway and MCP        *)
(* servers and the in-process registry make before they hand an event to    *)
(* the flow, and the user whose session the event carries.                  *)
(*                                                                         *)
(* A guard is what the registration and its server are configured with: own *)
(* credentials (`own`, of the kinds in `kinds`), the MCP server's API keys  *)
(* (`keys`), `auth.required`, an auth provider, required headers (`scoped`) *)
(* and, for a proxy, a menu of models.  A query is what the request shows.  *)
(***************************************************************************)
EXTENDS Integers, FiniteSets

Authorizations ==
  {"absent", "unreadable", "key", "user", "keyAndUser", "other", "basic", "badBasic", "scheme"}
Forms == {"good", "badBody", "badMethod", "badModel", "bareModel"}
Origins == {"outside", "allowed", "stranger", "recursive"}

Guards == [own : BOOLEAN, kinds : SUBSET {"bearer", "basic"}, keys : BOOLEAN,
           required : BOOLEAN, provider : BOOLEAN, scoped : BOOLEAN, models : BOOLEAN]
Queries == [auth : Authorizations, headers : BOOLEAN, form : Forms, from : Origins]
-----------------------------------------------------------------------------
\* extract_bearer_token, and what the token is.
BearerToken(a) == a \in {"key", "user", "keyAndUser", "other"}
IsKey(a) == a \in {"key", "keyAndUser"}

\* AuthProvider.validate.
Validates(a) == a \in {"user", "keyAndUser"}

\* headers_satisfy.
HeadersSatisfy(g, q) == g.scoped => q.headers

\* validate_basic_auth: the decoded pair, compared with the configured one.
BasicAuth(a) == a = "basic"

\* validate_endpoint_auth: a bearer token that is not the configured one is
\* refused although the pair might be configured too.
WebhookAuth(g, a) ==
  g.own => \/ "bearer" \in g.kinds /\ BearerToken(a) /\ IsKey(a)
           \/ "basic" \in g.kinds /\ BasicAuth(a)
ProxyAuth(g, a) ==
  g.own => \/ "bearer" \in g.kinds /\ BearerToken(a) /\ IsKey(a)
           \/ "basic" \in g.kinds /\ a = "basic"

\* validate_auth: the keys of the tool, else those of the server; no keys, no check.
ChecksKey(g) == IF g.own THEN "bearer" \in g.kinds ELSE g.keys
ToolAuth(g, a) == ChecksKey(g) => BearerToken(a) /\ IsKey(a)

\* validate_user_auth of the three servers, where the user is required.
RequiredUserAny(g, a) == g.required => BearerToken(a)
RequiredUser(g, a) == g.required => g.provider /\ BearerToken(a) /\ Validates(a)

\* optional_user: none where the bearer is the endpoint's own key.
WebhookUser(g, a) ==
  IF BearerToken(a) /\ Validates(a) /\ g.provider /\ (g.required \/ ~ g.own)
  THEN "user" ELSE "none"
ProxyUser(g, a) ==
  IF BearerToken(a) /\ Validates(a) /\ g.provider /\ (g.required \/ ~ g.own)
  THEN "user" ELSE "none"
\* Here it is none where an API key was checked.
ToolUser(g, a) ==
  IF BearerToken(a) /\ Validates(a) /\ g.provider /\ (g.required \/ ~ ChecksKey(g))
  THEN "user" ELSE "none"
-----------------------------------------------------------------------------
\* dispatch_webhook and parse_request: the method, the credentials, the user, then
\* the body, which has to be JSON of at most max_body_bytes.
WebhookAdmits(g, q) ==
  /\ q.form # "badMethod"
  /\ WebhookAuth(g, q.auth)
  /\ RequiredUser(g, q.auth)
  /\ q.form # "badBody"

\* split_model and require_model_choice: `proxy/model`, or a bare `proxy` where the
\* proxy has no menu of models.
SplitModel(q) == q.form # "badModel"
RequireModelChoice(g, q) == q.form = "bareModel" => ~ g.models

\* resolve_registration, between the two.
ResolveRegistration(g, q) ==
  /\ HeadersSatisfy(g, q)
  /\ q.form # "badMethod"    \* the protocol of the URL
  /\ ProxyAuth(g, q.auth)
  /\ RequiredUser(g, q.auth)

\* dispatch_chat_completions and dispatch_messages.
ProxyAdmits(g, q) ==
  /\ q.form # "badBody"
  /\ SplitModel(q)
  /\ ResolveRegistration(g, q)
  /\ RequireModelChoice(g, q)

\* execute_tool_call: a tool whose headers do not match is an unknown tool.
ToolAdmits(g, q) ==
  /\ q.form # "badMethod"
  /\ ToolAuth(g, q.auth)
  /\ HeadersSatisfy(g, q)
  /\ RequiredUser(g, q.auth)
  /\ q.form # "badBody"

\* InprocRegistry.call: not from a flow that waits for this call itself, and from
\* flowgen or a flow within one of the registration's callers.
InprocAdmits(q) == q.from \in {"outside", "allowed"}

Admits(role, g, q) ==
  CASE role = "endpoint" -> WebhookAdmits(g, q)
    [] role = "proxy"    -> ProxyAdmits(g, q)
    [] role = "tool"     -> ToolAdmits(g, q)
    [] role = "inproc"   -> InprocAdmits(q)

\* The session of the event; an in-process call passes on the caller's.
CallerOf(role, g, q) ==
  CASE role = "endpoint" -> WebhookUser(g, q.auth)
    [] role = "proxy"    -> ProxyUser(g, q.auth)
    [] role = "tool"     -> ToolUser(g, q.auth)
    [] role = "inproc"   -> IF q.auth = "user" THEN "user" ELSE "none"
=============================================================================
