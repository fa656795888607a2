------------------------------ MODULE Catalog ------------------------------
(***************************************************************************)
(* What an MCP client finds at the server: the tools, resources, resource   *)
(* templates and prompts that flows registered, each for the callers whose  *)
(* headers satisfy it; the answer to every method of handle_mcp; and the    *)
(* ResourceLoader behind the texts, which looks at the mounted files first  *)
(* and in the cache then.  Registrations come and go while a text is        *)
(* rendered.  The run of a called tool is in Endpoints.                     *)
(***************************************************************************)
EXTENDS Naturals, Sequences, FiniteSets, SequencesExt

CONSTANTS Offers,         \* tasks of types mcp_tool, mcp_resource, mcp_prompt: see OffersAssumption
          Calls,          \* JSON-RPC requests: see CallsAssumption
          ServerKeys,     \* the API keys of the server's credentials, {} without any
          CompletionMax,  \* COMPLETION_MAX_VALUES
          MaxSwitches     \* bound: changes of files and of flows

\* A task's flow, its kind and its key: a name, a URI or the pattern of a template;
\* the headers a caller needs; own: a tool with credentials of its own, and their API
\* keys; ok: its configuration is right; where its text and its completion values come
\* from; the prompt's required arguments and defaults; how many completion values match.
ASSUME OffersAssumption ==
  \A o \in Offers :
    /\ {"kind", "key"} \subseteq DOMAIN o
    /\ o.kind \in {"tool", "resource", "template", "prompt"} /\ o.key \in Seq(STRING)
    /\ {o.source, o.suggests} \subseteq {"inline", "resource"} /\ o.ok \in BOOLEAN
    /\ o.own \in BOOLEAN /\ o.keys \subseteq STRING /\ (o.own => o.kind = "tool")
    /\ o.required \cap o.optional = {} /\ o.values \in Nat

\* A request's method, what it names, the headers, the bearer token and the arguments it
\* brings, and whether these are valid for the tool.
ASSUME CallsAssumption ==
  \A c \in Calls : c.key \in Seq(STRING) /\ c.token \in STRING /\ c.valid \in BOOLEAN

VARIABLES entries,   \* the four tables: the tasks that are registered, with their text if it is resolved
          mounted,   \* the file of the resources: "none", "text" or "broken"
          cached,    \* its copy in the cache: "none", "text" or "binary"
          asked,     \* the request that is handled, or NoCall
          stand,     \* "idle", "file" or "cache": where the loader looks, or "answered"
          chosen,    \* the registration cloned for the answer, with the bindings of its URI
          reply,     \* the answer
          found,     \* the tables when they were looked at (history)
          noFile,    \* the file was missing when the loader looked (history)
          switches   \* changes so far

catalogVars == <<entries, mounted, cached, asked, stand, chosen, reply, found, noFile, switches>>

NoCall == [method |-> "none"]
NoChoice == [key |-> <<>>]
NoReply == [status |-> "none"]
Refuse(status) == [status |-> status]

CatalogInit ==
  /\ entries = {}
  /\ mounted = "text" /\ cached \in {"none", "text", "binary"}
  /\ asked = NoCall /\ stand = "idle" /\ chosen = NoChoice /\ reply = NoReply
  /\ found = {} /\ noFile = FALSE /\ switches = 0

Switches == switches < MaxSwitches /\ switches' = switches + 1

\* f with v at x, if f has nothing there.
Extend(f, x, v) == [y \in DOMAIN f \cup {x} |-> IF y \in DOMAIN f THEN f[y] ELSE v]
-----------------------------------------------------------------------------
(* match_uri_template: literals and {parameters}, left to right. *)

Parameters == {"{x}", "{y}"}
NoMatch == [status |-> "no match"]

Placeholder(t) == SelectInSeq(t, LAMBDA s : s \in Parameters)
Drop(s, n) == SubSeq(s, n + 1, Len(s))

\* The places before which `literal` occurs in u; u.find takes the first.
Finds(u, literal) == {i \in 0..(Len(u) - Len(literal)) : SubSeq(u, i + 1, i + Len(literal)) = literal}
First(S) == CHOOSE i \in S : \A j \in S : i <= j

\* Where the URI goes on: behind the literal that ends the value.
RemainingAtLiteral(valueEnd, literal) == valueEnd
RemainingAfterValue(valueEnd, literal) == valueEnd + Len(literal)

\* The template's first parameter: its value at the front of the URI, and what both
\* go on with.
FirstParameter(t, u) ==
  LET open == Placeholder(t)
      literal == SubSeq(t, 1, open - 1)
      rest == Drop(t, open)
      next == Placeholder(rest)
      behind == Drop(u, open - 1)
      ending == SubSeq(rest, 1, next - 1)
      stop == Finds(behind, ending)
      upTo(value, template, uri) ==
        IF value = <<>> \/ "/" \in Range(value) THEN NoMatch
        ELSE [status |-> "match", param |-> t[open], value |-> value, template |-> template, uri |-> uri]
  IN  CASE ~IsPrefix(literal, u) -> NoMatch
        [] IsPrefix(literal, u) /\ next = 0 -> upTo(behind, <<>>, <<>>)
        [] OTHER -> IF stop = {} THEN NoMatch
                    ELSE upTo(SubSeq(behind, 1, First(stop)), Drop(rest, next - 1),
                              Drop(behind, RemainingAfterValue(First(stop), ending)))

\* A parameter that comes again takes its later value.
Match[t \in Seq(STRING)] == [u \in Seq(STRING) |->
  LET first == FirstParameter(t, u)
      rest == Match[first.template][first.uri]
  IN  CASE Placeholder(t) = 0 -> IF t = u THEN [status |-> "match", bound |-> <<>>] ELSE NoMatch
        [] Placeholder(t) # 0 /\ first.status # "match" -> NoMatch
        [] OTHER -> IF rest.status # "match" THEN NoMatch
                    ELSE [status |-> "match", bound |-> Extend(rest.bound, first.param, first.value)]]

MatchUriTemplate(template, uri) == Match[template][uri]
-----------------------------------------------------------------------------
(* The tasks: init and run of Processor in tool.rs, resource.rs and prompt.rs. *)

Load == IF mounted = "text" THEN {"file"} ELSE IF mounted = "none" /\ cached = "text" THEN {"copy"} ELSE {}

\* parse_completion_lines: completion values from a resource are loaded once.
Suggests(o) == o.suggests = "resource" => Load # {}

\* register_tool, register_resource, register_resource_template, register_prompt: a
\* key is taken once.
RegisterEntry(o, text) ==
  /\ Switches
  /\ \A e \in entries : e.kind # o.kind \/ e.key # o.key
  /\ entries' = entries \cup {Extend(o, "text", text)}
  /\ UNCHANGED <<mounted, cached, asked, stand, chosen, reply, found, noFile>>

\* A tool has credentials and a schema that can be read, and a task behind it.
RegisterTool(o) == o.kind = "tool" /\ o.ok /\ RegisterEntry(o, "later")

\* A prompt has a template or messages, which are rendered for each answer.
RegisterPrompt(o) == o.kind = "prompt" /\ o.ok /\ Suggests(o) /\ RegisterEntry(o, "later")

\* A concrete resource is rendered once, here; a template for each answer.
RegisterResource(o) ==
  /\ o.ok /\ Suggests(o)
  /\ \/ o.kind = "template" /\ RegisterEntry(o, "later")
     \/ o.kind = "resource" /\ \E text \in IF o.source = "inline" THEN {"inline"} ELSE Load : RegisterEntry(o, text)

\* deregister_flow_all.
DeregisterFlow(f) ==
  /\ Switches
  /\ \E e \in entries : e.flow = f
  /\ entries' = {e \in entries : e.flow # f}
  /\ UNCHANGED <<mounted, cached, asked, stand, chosen, reply, found, noFile>>

ReplaceFile(state) ==
  /\ Switches /\ state # mounted
  /\ mounted' = state
  /\ UNCHANGED <<entries, cached, asked, stand, chosen, reply, found, noFile>>
-----------------------------------------------------------------------------
(* The handlers. *)

Satisfies(call, e) == e.needs \subseteq call.headers
Visible(call, es) == {e \in es : Satisfies(call, e)}
Of(es, kind) == {e \in es : e.kind = kind}
Named(es, kind, key) == {e \in es : e.kind = kind /\ e.key = key}

\* handle_tools_list, handle_resources_list, handle_resource_templates_list,
\* handle_prompts_list: the keys of what the caller's headers satisfy.
ListKind == [tools_list |-> "tool", resources_list |-> "resource", templates_list |-> "template",
             prompts_list |-> "prompt"]
ListEntries(call, es) ==
  {[status |-> "list", keys |-> {e.key : e \in Of(Visible(call, es), ListKind[call.method])}]}

\* A reply that needs a text: of this registration, with these bindings.
Rendering(e, bound) == [status |-> "render", entry |-> e, bound |-> bound]

\* validate_auth: one of the keys, or no keys at all.  A call of a tool is held to the
\* tool's own credentials, everything else to the server's.
Admits(keys, call) == keys = {} \/ call.token \in keys
OwnCredentials(call, es) == {e \in Named(es, "tool", call.key) : call.method = "call" /\ e.own}
Authorized(call, es) ==
  IF OwnCredentials(call, es) = {} THEN Admits(ServerKeys, call)
  ELSE \A e \in OwnCredentials(call, es) : Admits(e.keys, call)

\* execute_tool_call behind validate_auth, as far as it sends the event into the flow;
\* Admission has the login of the caller's user, which comes behind the headers.
CallTool(call, es) ==
  IF Visible(call, Named(es, "tool", call.key)) = {} THEN {Refuse("unknown")}
  ELSE IF call.valid THEN {[status |-> "called", key |-> call.key]} ELSE {Refuse("arguments")}

\* handle_resources_read: the concrete resource with this URI, else one of the
\* templates that match it, in the order of a hash map.
ReadResource(call, es) ==
  LET concrete == Named(es, "resource", call.key)
      templates == {e \in Of(Visible(call, es), "template") :
                      MatchUriTemplate(e.key, call.key).status = "match"}
  IN  IF concrete # {}
      THEN {IF Satisfies(call, e) THEN [status |-> "text", entry |-> e.key, text |-> e.text]
            ELSE Refuse("unknown") : e \in concrete}
      ELSE IF templates = {} THEN {Refuse("unknown")}
      ELSE {Rendering(e, MatchUriTemplate(e.key, call.key).bound) : e \in templates}

\* handle_prompts_get: required arguments are there, defaults fill the others, and
\* what the client brings besides is passed on.
Context(call, e) ==
  [a \in e.required \cup e.optional \cup call.args |-> IF a \in call.args THEN "given" ELSE "default"]
GetPromptFromAll(call, es) ==
  LET prompts == Named(es, "prompt", call.key)
  IN  IF prompts = {} THEN {Refuse("unknown")}
      ELSE {IF e.required \subseteq call.args THEN Rendering(e, Context(call, e))
            ELSE Refuse("missing") : e \in prompts}
GetPrompt(call, es) ==
  LET prompts == Visible(call, Named(es, "prompt", call.key))
  IN  IF prompts = {} THEN {Refuse("unknown")}
      ELSE {IF e.required \subseteq call.args THEN Rendering(e, Context(call, e))
            ELSE Refuse("missing") : e \in prompts}

\* handle_completion_complete, for prompts and templates; it does not look at headers.
CompleteArgument(call, es) ==
  LET named == {e \in es : e.kind \in {"prompt", "template"} /\ e.key = call.key}
      total(e) == [status |-> "values", total |-> e.values, more |-> e.values > CompletionMax,
                   values |-> IF e.values > CompletionMax THEN CompletionMax ELSE e.values]
  IN  IF named = {} THEN {[status |-> "values", total |-> 0, more |-> FALSE, values |-> 0]}
      ELSE {total(e) : e \in named}

\* handle_mcp; every handler but handle_initialize begins with validate_auth.
Handlers == DOMAIN ListKind \cup {"call", "read", "get", "complete"}
Replies(call, es) ==
  CASE call.method = "initialize" -> {[status |-> "capabilities"]}
    [] call.method = "initialized" -> {[status |-> "accepted"]}
    [] call.method \in Handlers /\ ~Authorized(call, es) -> {Refuse("unauthorized")}
    [] call.method \in DOMAIN ListKind /\ Authorized(call, es) -> ListEntries(call, es)
    [] call.method = "call" /\ Authorized(call, es) -> CallTool(call, es)
    [] call.method = "read" /\ Authorized(call, es) -> ReadResource(call, es)
    [] call.method = "get" /\ Authorized(call, es) -> GetPrompt(call, es)
    [] call.method = "complete" /\ Authorized(call, es) -> CompleteArgument(call, es)
    [] OTHER -> {Refuse("method")}

\* The registration is cloned, and the tables may change while its text is rendered.
AskServer(call) ==
  /\ stand = "idle"
  /\ asked' = call
  /\ found' = entries
  /\ \E r \in Replies(call, entries) :
       IF r.status = "render"
       THEN /\ chosen' = [key |-> r.entry.key, bound |-> r.bound, source |-> r.entry.source]
            /\ stand' = IF r.entry.source = "inline" THEN "inline" ELSE "file"
            /\ reply' = NoReply
       ELSE chosen' = NoChoice /\ stand' = "answered" /\ reply' = r
  /\ noFile' = FALSE
  /\ UNCHANGED <<entries, mounted, cached, switches>>

Render(text) ==
  /\ stand' = "answered"
  /\ reply' = IF text = "none" THEN Refuse("render")
              ELSE [status |-> "text", entry |-> chosen.key, text |-> text]
  /\ UNCHANGED <<entries, mounted, cached, asked, chosen, found, noFile, switches>>

RenderInline == stand = "inline" /\ Render("inline")

\* ResourceLoader::load: a file that is not there is looked for in the cache, one
\* that cannot be read is an error.
LoadFile ==
  /\ stand = "file"
  /\ CASE mounted = "text" -> Render("file")
       [] mounted = "broken" -> Render("none")
       [] OTHER -> /\ stand' = "cache" /\ noFile' = TRUE
                   /\ UNCHANGED <<entries, mounted, cached, asked, chosen, reply, found, switches>>

LoadCopy == stand = "cache" /\ Render(IF cached = "text" THEN "copy" ELSE "none")

TakeReply ==
  /\ stand = "answered"
  /\ asked' = NoCall /\ stand' = "idle" /\ chosen' = NoChoice /\ reply' = NoReply
  /\ found' = {} /\ noFile' = FALSE
  /\ UNCHANGED <<entries, mounted, cached, switches>>

CatalogNext ==
  \/ \E o \in Offers : RegisterTool(o) \/ RegisterPrompt(o) \/ RegisterResource(o) \/ DeregisterFlow(o.flow)
  \/ \E state \in {"none", "text", "broken"} : ReplaceFile(state)
  \/ \E call \in Calls : AskServer(call)
  \/ RenderInline \/ LoadFile \/ LoadCopy \/ TakeReply
-----------------------------------------------------------------------------
\* A caller cannot tell an entry whose headers it does not satisfy from one that is
\* not registered: every list and every answer is the one of a server that holds the
\* visible entries only (headers_satisfy).  Three cases are excepted: completion does
\* not look at headers; a hidden resource keeps its URI from the templates; and a hidden
\* tool with credentials of its own tells itself from an absent one where these and the
\* server's disagree about the caller's key, since execute_tool_call looks at them
\* before the headers, although the comment on `headers` in tool.rs has the two alike.
HiddenIsAbsent ==
  LET hides == \E e \in Named(found, "resource", asked.key) : ~Satisfies(asked, e)
      betrays == \E e \in OwnCredentials(asked, found) :
                   ~Satisfies(asked, e) /\ ~(Admits(e.keys, asked) <=> Admits(ServerKeys, asked))
  IN  stand # "idle" /\ asked.method # "complete" /\ ~(asked.method = "read" /\ hides) /\ ~betrays =>
        Replies(asked, found) = Replies(asked, Visible(asked, found))

\* A URI that a template answers is the template with the bindings in the places of
\* the parameters (match_uri_template), when nothing follows the last parameter and
\* no parameter occurs twice.
Substituted(template, bound) ==
  FlattenSeq([i \in DOMAIN template |->
                IF template[i] \in Parameters THEN bound[template[i]] ELSE <<template[i]>>])
MatchIsSubstitution ==
  asked.method = "read" /\ chosen # NoChoice =>
    LET places == {i \in DOMAIN chosen.key : chosen.key[i] \in Parameters}
    IN  Cardinality({chosen.key[i] : i \in places}) = Cardinality(places) /\ Len(chosen.key) \in places =>
          Substituted(chosen.key, chosen.bound) = asked.key

\* A text comes from the cache only when the file was missing as the loader looked:
\* an unreadable file is an error, and one that appears later does not matter
\* (ResourceLoader::load).
MountWins == reply.status = "text" /\ chosen # NoChoice /\ reply.text = "copy" => noFile
=============================================================================
