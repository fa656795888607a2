------------------------------- MODULE Clients -------------------------------
(***************************************************************************)
(* ClientRegistry (core/src/client_registry.rs): tasks of one worker with    *)
(* the same credentials share one client under one key.  get_or_init takes a *)
(* lock per map access and a guard per key; remove takes two locks after     *)
(* each other, so every access is a step of its own.                        *)
(*                                                                         *)
(* Clients and guards are numbered as they are made.  A subscriber that      *)
(* loses its connection removes the key and starts over (the run loops of    *)
(* the NATS, Salesforce and MongoDB sources); the other tasks keep the       *)
(* client they got.                                                         *)
(***************************************************************************)
EXTENDS Naturals, FiniteSets

CONSTANTS Subscribers,  \* tasks that remove the key when the connection is lost
          Others,       \* tasks that do not
          MaxFaults     \* bound: clients that die and inits that fail

ASSUME ClientsAssumption == Subscribers \cap Others = {} /\ MaxFaults \in Nat

VARIABLES clients,   \* the number of the client under the key, 0 for none
          guards,    \* the number of the guard under the key, 0 for none
          locked,    \* guards that are locked
          made,      \* clients and guards made so far
          caller,    \* each task: its pc, client and guard
          dead,      \* clients whose connection is gone
          faults,    \* faults so far
          removes,   \* history: keys removed
          served     \* history: clients a subscriber has run on

clientVars == <<clients, guards, locked, made, caller, dead, faults, removes, served>>

Callers == Subscribers \cup Others
NewCaller == [pc |-> "get", client |-> 0, guard |-> 0]

ClientsInit ==
  /\ clients = 0 /\ guards = 0
  /\ locked = {}
  /\ made = [clients |-> 0, guards |-> 0]
  /\ caller = [c \in Callers |-> NewCaller]
  /\ dead = {}
  /\ faults = 0 /\ removes = 0 /\ served = {}

CallerAt(c, pc) == caller[c].pc = pc
CallerGoes(c, pc) == caller' = [caller EXCEPT ![c].pc = pc]
Has(c, client) == caller' = [caller EXCEPT ![c] = [pc |-> "setup", client |-> client, guard |-> 0]]
Fault == faults < MaxFaults /\ faults' = faults + 1

-----------------------------------------------------------------------------
(* get_or_init                                                              *)

\* The fast path: the client is there.
Lookup(c) ==
  /\ CallerAt(c, "get")
  /\ IF clients # 0 THEN Has(c, clients) ELSE CallerGoes(c, "guard")
  /\ UNCHANGED <<clients, guards, locked, made, dead, faults, removes, served>>

\* guards.entry(key).or_default()
TakeGuard(c) ==
  /\ CallerAt(c, "guard")
  /\ IF guards # 0 THEN UNCHANGED <<guards, made>>
     ELSE guards' = made.guards + 1 /\ made' = [made EXCEPT !.guards = @ + 1]
  /\ caller' = [caller EXCEPT ![c].pc = "lock", ![c].guard = guards']
  /\ UNCHANGED <<clients, locked, dead, faults, removes, served>>

Lock(c) ==
  /\ CallerAt(c, "lock") /\ caller[c].guard \notin locked
  /\ locked' = locked \cup {caller[c].guard}
  /\ CallerGoes(c, "check")
  /\ UNCHANGED <<clients, guards, made, dead, faults, removes, served>>

\* The double-check: somebody may have made it while this one waited.
Check(c) ==
  /\ CallerAt(c, "check")
  /\ IF clients # 0 THEN Has(c, clients) /\ locked' = locked \ {caller[c].guard}
     ELSE CallerGoes(c, "init") /\ UNCHANGED locked
  /\ UNCHANGED <<clients, guards, made, dead, faults, removes, served>>

\* init() connects; an error drops the lock and leaves the guard in its map, and the
\* task tries again after its delay.
Login(c) ==
  /\ CallerAt(c, "init")
  /\ made' = [made EXCEPT !.clients = @ + 1]
  /\ caller' = [caller EXCEPT ![c].pc = "insert", ![c].client = made.clients + 1]
  /\ UNCHANGED <<clients, guards, locked, dead, faults, removes, served>>
LoginFails(c) ==
  /\ CallerAt(c, "init")
  /\ Fault
  /\ locked' = locked \ {caller[c].guard}
  /\ CallerGoes(c, "get")
  /\ UNCHANGED <<clients, guards, made, dead, removes, served>>

Insert(c) ==
  /\ CallerAt(c, "insert")
  /\ clients' = caller[c].client
  /\ CallerGoes(c, "unguard")
  /\ UNCHANGED <<guards, locked, made, dead, faults, removes, served>>

\* guards.remove(key), whoever's guard is there by now.
Unguard(c) ==
  /\ CallerAt(c, "unguard")
  /\ guards' = 0
  /\ locked' = locked \ {caller[c].guard}
  /\ Has(c, caller[c].client)
  /\ UNCHANGED <<clients, made, dead, faults, removes, served>>

-----------------------------------------------------------------------------
(* What the tasks do with their clients.                                    *)

\* The rest of the task's init uses the connection (a stream, a consumer); when it
\* fails, the task's init is tried again and asks the registry again.
Setup(c) ==
  /\ CallerAt(c, "setup")
  /\ IF caller[c].client \in dead THEN CallerGoes(c, "get") /\ UNCHANGED served
     ELSE CallerGoes(c, "use") /\ served' = served \cup {caller[d].client : d \in {c} \cap Subscribers}
  /\ UNCHANGED <<clients, guards, locked, made, dead, faults, removes>>

Dies(client) ==
  /\ client \notin dead
  /\ Fault
  /\ dead' = dead \cup {client}
  /\ UNCHANGED <<clients, guards, locked, made, caller, removes, served>>

\* handle() ends: the subscriber has lost connectivity and evicts the client.
Lost(c) ==
  /\ c \in Subscribers /\ CallerAt(c, "use") /\ caller[c].client \in dead
  /\ CallerGoes(c, "remove")
  /\ UNCHANGED <<clients, guards, locked, made, dead, faults, removes, served>>

\* Mutant: a task only forgets its own client.
RemoveOwn(c) ==
  /\ CallerAt(c, "remove")
  /\ removes' = removes + 1
  /\ CallerGoes(c, "remove_guard")
  /\ UNCHANGED <<clients, guards, locked, made, dead, faults, served>>

\* remove: the client under the key, whichever it is by now, ...
RemoveClient(c) ==
  /\ CallerAt(c, "remove")
  /\ clients' = 0
  /\ removes' = removes + 1
  /\ CallerGoes(c, "remove_guard")
  /\ UNCHANGED <<guards, locked, made, dead, faults, served>>

\* ... then the guard.
RemoveGuard(c) ==
  /\ CallerAt(c, "remove_guard")
  /\ guards' = 0
  /\ CallerGoes(c, "get")
  /\ UNCHANGED <<clients, locked, made, dead, faults, removes, served>>

CallerStep(c) ==
  \/ Lookup(c) \/ TakeGuard(c) \/ Lock(c) \/ Check(c) \/ Login(c) \/ LoginFails(c)
  \/ Insert(c) \/ Unguard(c) \/ Setup(c) \/ Lost(c) \/ RemoveClient(c) \/ RemoveGuard(c)

ClientsNext ==
  \/ \E c \in Callers : CallerStep(c)
  \/ \E client \in 1..made.clients : Dies(client)

ClientsFairness == \A c \in Callers : WF_clientVars(CallerStep(c))

-----------------------------------------------------------------------------

\* Nobody logs in twice for nothing: until a key is removed its client is made once, by
\* whoever comes first and through failed attempts, and everybody has that one
\* (get_or_init).  A removal ends the guarantee: who still waits for an older guard,
\* or finds its guard removed, makes a client of its own.
OneLogin ==
  removes = 0 =>
    /\ made.clients + Cardinality({c \in Callers : CallerAt(c, "init")}) <= 1
    /\ \A c \in Callers : CallerAt(c, "use") => caller[c].client = clients

Working(c) == CallerAt(c, "use") /\ caller[c].client \notin dead
Deserted == clients \in dead \ served

\* When connections stop dying every subscriber ends with a live one, whoever removed
\* what in between, unless the client under the key died before a subscriber had finished
\* setting up with it: that one nobody removes (the loop of Subscriber::run).
ClientsHeal == <>[](\A c \in Subscribers : Working(c)) \/ <>[]Deserted

\* The comment of the loop, without that exception.
ClientsAlwaysHeal == <>[](\A c \in Subscribers : Working(c))

=============================================================================
