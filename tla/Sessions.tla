------------------------------ MODULE Sessions -------------------------------
(***************************************************************************)
(* Who a request of the web API comes from: the session cookie and its     *)
(* key (app/src/login.rs, cookie_key), signing in and out, the middleware  *)
(* that resolves a session and refreshes it past its expiry                *)
(* (app/src/web.rs, resolve_session, auth_middleware) and the machine keys.*)
(*                                                                         *)
(* There is one browser.  A refresh token is a number; the identity        *)
(* provider rotates them and revokes the whole login once it sees one      *)
(* twice.  The session lives in the cookie alone: the pods share nothing   *)
(* but the key that encrypts it.                                           *)
(***************************************************************************)
EXTENDS Integers, FiniteSets

CONSTANTS Pods,       \* pods that serve the web API
          MaxRequests, \* bound: requests that can be under way at a time
          MaxTokens,  \* bound: tokens the identity provider issues
          MaxOpen,    \* bound: requests and other events from outside, without web.auth
          MaxSigned   \* the same with web.auth, sign-ins and expiries included

ASSUME SessionsAssumption ==
  /\ {MaxRequests, MaxTokens} \subseteq Nat \ {0} /\ {MaxOpen, MaxSigned} \subseteq Nat
  /\ {"none", "creating"} \cap Pods = {}

VARIABLES auth,     \* web.auth is configured
          secret,   \* web.cookie_key in the system cache: the pod that made it
          keyOf,    \* the cookie key of each pod
          stash,    \* the state cookie: the sign-in the browser waits for
          cookie,   \* the session cookie: its token and the key it is encrypted with
          issued,   \* tokens issued so far
          login,    \* the sign-in each token goes back to
          live,     \* refresh tokens the provider accepts
          expired,  \* tokens whose id_token is past its expiry
          flight,   \* SingleFlight of each pod: the exchange of a token
          sess,     \* what the middleware knows of each request
          torn,     \* an exchange was abandoned, forgotten or made on another pod
          events    \* events from outside so far

sessVars == <<auth, secret, keyOf, stash, cookie, issued, login, live, expired, flight, sess, torn>>
loginVars == <<stash, issued, login, live, expired>>

-----------------------------------------------------------------------------

None == "none"
Tokens == 1..MaxTokens
Requests == 1..MaxRequests
NoCookie == [token |-> 0, key |-> None]

\* A place of the request table; `token` is the one the request came with, `new`
\* the one its response sets.
Unused == [at |-> "idle", pod |-> None, caller |-> None, token |-> 0, new |-> 0]

Happens == events < (IF auth THEN MaxSigned ELSE MaxOpen) /\ events' = events + 1

Booted == {p \in Pods : keyOf[p] \notin {None, "creating"}}

\* Entries of SingleFlight: no exchange, one under way, or its result.
NoFlight == 0
Exchanging == MaxTokens + 1

\* Without web.auth each process has a key of its own, which encrypts nothing.
OwnKey(p) == IF auth THEN None ELSE p

SessionsInit ==
  /\ auth \in BOOLEAN
  /\ secret = None
  /\ keyOf = [p \in Pods |-> OwnKey(p)]
  /\ stash = 0
  /\ cookie = NoCookie
  /\ issued = 0
  /\ login = [t \in Tokens |-> 0]
  /\ live = {}
  /\ expired = {}
  /\ flight = [p \in Pods |-> [t \in Tokens |-> NoFlight]]
  /\ sess = [r \in Requests |-> Unused]
  /\ torn = FALSE
  /\ events = 0

(***************************************************************************)
(* The cookie key: read it, else generate one and create it, else read the *)
(* one that another pod created meanwhile.                                 *)
(***************************************************************************)

StoredCookieKey(p) ==
  /\ keyOf[p] = None
  /\ keyOf' = [keyOf EXCEPT ![p] = IF secret # None THEN secret ELSE "creating"]
  /\ UNCHANGED <<auth, secret, cookie, loginVars, flight, sess, torn, events>>

SharedCookieKey(p) ==
  /\ keyOf[p] = "creating"
  /\ secret' = IF secret = None THEN p ELSE secret
  /\ keyOf' = [keyOf EXCEPT ![p] = secret']
  /\ UNCHANGED <<auth, cookie, loginVars, flight, sess, torn, events>>

(***************************************************************************)
(* Signing in and out.  A second sign-in overwrites the state cookie of    *)
(* the first, whose callback is then refused.                              *)
(***************************************************************************)

AuthLogin(p) ==
  /\ auth /\ p \in Booted
  /\ issued < MaxTokens
  /\ Happens
  /\ issued' = issued + 1
  /\ stash' = issued'
  /\ UNCHANGED <<auth, secret, keyOf, cookie, login, live, expired, flight, sess, torn>>

\* exchange_code: the state that comes back must be the stashed one.
AuthCallback(p, s) ==
  /\ auth /\ p \in Booted
  /\ stash = s /\ s # 0
  /\ login' = [login EXCEPT ![s] = s]
  /\ live' = live \cup {s}
  /\ cookie' = [token |-> s, key |-> keyOf[p]]
  /\ stash' = 0
  /\ UNCHANGED <<auth, secret, keyOf, issued, expired, flight, sess, torn, events>>

AuthLogout(p) ==
  /\ auth /\ p \in Booted
  /\ cookie # NoCookie
  /\ Happens
  /\ cookie' = NoCookie
  /\ UNCHANGED <<auth, secret, keyOf, loginVars, flight, sess, torn>>

\* Time passes: an id_token reaches its expiry.
Expires(t) ==
  /\ t \in 1..issued \ expired /\ login[t] # 0
  /\ Happens
  /\ expired' = expired \cup {t}
  /\ UNCHANGED <<auth, secret, keyOf, cookie, stash, issued, login, live, flight, sess, torn>>

(***************************************************************************)
(* auth_middleware.  A request arrives with the cookie or with a machine   *)
(* key and leaves the middleware with a caller, or is answered 401.        *)
(***************************************************************************)

\* key_may_call: a machine key reads, validates, proposes and edits.
KeyMayCall(kind) == kind \in {"propose", "edit", "read"}

Into(r, p, caller, t, new) ==
  sess' = [sess EXCEPT ![r] = [at |-> "in", pod |-> p, caller |-> caller, token |-> t, new |-> new]]

\* Without web.auth the middleware is not layered: there is no caller.
Anonymous(r, p) == ~auth /\ Into(r, p, "anonymous", 0, 0)

\* A machine key that may call the route.
WithKey(r, p, kind) == auth /\ KeyMayCall(kind) /\ Into(r, p, "key", 0, 0)

\* The cookie decrypts and its id_token is valid.
WithSession(r, p) ==
  /\ auth
  /\ cookie # NoCookie /\ cookie.key = keyOf[p] /\ cookie.token \notin expired
  /\ Into(r, p, "user", cookie.token, 0)

\* The cookie decrypts and its id_token has expired: the refresh token is exchanged.
Refreshes(r, p) ==
  /\ auth
  /\ cookie # NoCookie /\ cookie.key = keyOf[p] /\ cookie.token \in expired
  /\ sess' = [sess EXCEPT ![r] = [Unused EXCEPT !.at = "refresh", !.pod = p, !.token = cookie.token]]

\* A request enters at pod p, in the first free place of the table.
Enter(r, p, kind) ==
  /\ p \in Booted
  /\ sess[r] = Unused /\ \A q \in 1..(r - 1) : sess[q] # Unused
  /\ Anonymous(r, p) \/ WithKey(r, p, kind) \/ WithSession(r, p) \/ Refreshes(r, p)
  /\ UNCHANGED <<auth, secret, keyOf, cookie, loginVars, flight, torn>>

Token(r) == sess[r].token
Flight(r) == flight[sess[r].pod][Token(r)]

\* Some pod has exchanged the token before, or is doing so.
Elsewhere(r) == \E p \in Pods \ {sess[r].pod} : flight[p][Token(r)] # NoFlight

\* Mutant: every request makes its own exchange.
StartExchangeAlone(r) ==
  /\ sess[r].at = "refresh"
  /\ sess' = [sess EXCEPT ![r].at = "exchange"]
  /\ flight' = [flight EXCEPT ![sess[r].pod][Token(r)] = Exchanging]
  /\ torn' = (torn \/ Elsewhere(r))
  /\ UNCHANGED <<auth, secret, keyOf, cookie, loginVars, events>>

\* SingleFlight::run: the first request of a token makes the exchange.
StartExchange(r) ==
  /\ sess[r].at = "refresh"
  /\ Flight(r) = NoFlight
  /\ sess' = [sess EXCEPT ![r].at = "exchange"]
  /\ flight' = [flight EXCEPT ![sess[r].pod][Token(r)] = Exchanging]
  /\ torn' = (torn \/ Elsewhere(r))
  /\ UNCHANGED <<auth, secret, keyOf, cookie, loginVars, events>>

\* exchange_refresh_token at a provider that rotates: a token is good once.
Exchange(r) ==
  /\ sess[r].at = "exchange"
  /\ LET t == Token(r) IN
       IF t \in live /\ issued < MaxTokens
       THEN /\ issued' = issued + 1
            /\ login' = [login EXCEPT ![issued'] = login[t]]
            /\ live' = (live \ {t}) \cup {issued'}
            /\ flight' = [flight EXCEPT ![sess[r].pod][t] = issued']
            /\ sess' = [sess EXCEPT ![r].at = "in", ![r].caller = "user", ![r].new = issued']
       ELSE /\ live' = IF t \in live THEN live ELSE {u \in live : login[u] # login[t]}
            /\ flight' = [flight EXCEPT ![sess[r].pod][t] = NoFlight]
            /\ sess' = [sess EXCEPT ![r] = Unused]
            /\ UNCHANGED <<issued, login>>
  /\ UNCHANGED <<auth, secret, keyOf, cookie, stash, expired, torn, events>>

\* A request that waited takes the result of the flight.
ShareExchange(r) ==
  /\ sess[r].at = "refresh"
  /\ Flight(r) \in Tokens
  /\ sess' = [sess EXCEPT ![r].at = "in", ![r].caller = "user", ![r].new = Flight(r)]
  /\ UNCHANGED <<auth, secret, keyOf, cookie, loginVars, flight, torn, events>>

\* REFRESH_REUSE_WINDOW has passed since the exchange.
ForgetFlight(p, t) ==
  /\ flight[p][t] \in Tokens
  /\ Happens
  /\ flight' = [flight EXCEPT ![p][t] = NoFlight]
  /\ torn' = TRUE
  /\ UNCHANGED <<auth, secret, keyOf, cookie, loginVars, sess>>

\* The response of a request is answered, with the refreshed cookie if there is one.
Respond(r) ==
  /\ cookie' = IF sess[r].new # 0 THEN [token |-> sess[r].new, key |-> keyOf[sess[r].pod]] ELSE cookie
  /\ sess' = [sess EXCEPT ![r] = Unused]
  /\ UNCHANGED <<auth, secret, keyOf, loginVars, flight, torn>>

\* The client goes away and the server drops the request; a token that the
\* provider has already rotated may be exchanged again.
Disconnect(r) ==
  /\ sess[r] # Unused
  /\ Happens
  /\ sess' = [sess EXCEPT ![r] = Unused]
  /\ IF sess[r].at = "exchange"
     THEN /\ flight' = [flight EXCEPT ![sess[r].pod][Token(r)] = NoFlight]
          /\ live' \in {live, live \ {Token(r)}}
          /\ torn' = TRUE
     ELSE UNCHANGED <<flight, live, torn>>
  /\ UNCHANGED <<auth, secret, keyOf, cookie, stash, issued, login, expired>>

SessionsNext ==
  \/ \E p \in Pods : StoredCookieKey(p) \/ SharedCookieKey(p) \/ AuthLogin(p) \/ AuthLogout(p)
  \/ \E p \in Pods, s \in Tokens : AuthCallback(p, s) \/ ForgetFlight(p, s)
  \/ \E t \in Tokens : Expires(t)
  \/ \E r \in Requests : StartExchange(r) \/ Exchange(r) \/ ShareExchange(r)

-----------------------------------------------------------------------------

\* The cookie one pod issued is good at every other, whichever of them made the
\* key first, and a session is not revoked under its user: as long as no exchange
\* is abandoned, forgotten or made on another pod, the provider sees a token once
\* (shared_cookie_key, SingleFlight::run).
SessionSurvives ==
  /\ cookie # NoCookie => \A p \in Booted : keyOf[p] = cookie.key
  /\ ~torn /\ cookie # NoCookie => \E t \in live : login[t] = login[cookie.token]

=============================================================================
