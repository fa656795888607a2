------------------------------- MODULE MCTasks -------------------------------
(***************************************************************************)
(* What tasks do with events, in two parts: one event at a task of every    *)
(* type (Handling), and the tasks that change how many events there are     *)
(* (Batches).  A behaviour is about one part, the other rests in a final    *)
(* state.                                                                  *)
(***************************************************************************)
EXTENDS Handling, Batches

CONSTANTS e1, e2, k1, k2, u1, u2

VARIABLE part

\* The Salesforce publisher has a loop of its own, and a configuration.
Publisher == {"salesforce_publisher"}
AllKinds == DOMAIN Tasks \ Publisher

\* Two events of one user or of two, through a buffer of two with one key or
\* two, below an iterate or not, above up to two leaves.
MCEvents == {e1, e2}
MCKeys == {k1, k2}

OneUser == e1 :> u1 @@ e2 :> u1
TwoUsers == e1 :> u1 @@ e2 :> u2

Shape(evs, split, keyed, flush, size, below, user) ==
  [events |-> evs, split |-> split, keyed |-> keyed, flushOnCompletion |-> flush, size |-> size,
   leaves |-> below, user |-> user]

MCShapes ==
  {Shape(MCEvents, FALSE, FALSE, FALSE, 2, n, TwoUsers) : n \in 0..2}
    \cup {Shape(MCEvents, FALSE, FALSE, FALSE, 2, 1, OneUser)}
    \cup {Shape(MCEvents, FALSE, TRUE, flush, 1, 1, TwoUsers) : flush \in BOOLEAN}
    \cup {Shape({e1}, TRUE, FALSE, FALSE, 2, n, TwoUsers) : n \in 1..2}
    \cup {Shape({e1}, TRUE, TRUE, FALSE, 2, 1, TwoUsers),
          Shape(MCEvents, TRUE, FALSE, FALSE, 2, 1, TwoUsers)}

HandlingRests ==
  /\ kind = "log" /\ leaves = 0 /\ failed = FALSE /\ phase = "done" /\ rest = <<>> /\ tries = 0 /\ calls = 0
  /\ nextUp = TRUE /\ cancelled = TRUE /\ carried = <<>> /\ errors = <<>> /\ served = {}
  /\ released = TRUE /\ gaveUp = FALSE /\ remaining = 0 /\ outcome = "ok"

BatchesRest ==
  /\ shape = Shape({}, FALSE, FALSE, FALSE, 1, 1, OneUser)
  /\ input = {} /\ array = [e \in Events |-> 0] /\ number = array /\ fanIn = {}
  /\ inbox = <<>> /\ closed = TRUE /\ loop = "ended" /\ buffers = [k \in Keys |-> <<>>]
  /\ session = [k \in Keys |-> NoUser] /\ timed = {} /\ batches = {} /\ belowUp = FALSE
  /\ chan = <<>> /\ learned = [e \in Events |-> "closed"] /\ broken = {} /\ stopping = TRUE

MCInit ==
  \/ part = "handling" /\ Init /\ BatchesRest
  \/ part = "batches" /\ HandlingRests /\ BatchesInit

MCNext ==
  /\ \/ part = "handling" /\ Next /\ UNCHANGED batchVars
     \/ part = "batches" /\ BatchesNext /\ UNCHANGED vars
  /\ UNCHANGED part

MCSpec ==
  /\ MCInit /\ [][MCNext]_<<part, vars, batchVars>>
  /\ WF_vars(part = "handling" /\ Progress) /\ BatchesFairness
=============================================================================
