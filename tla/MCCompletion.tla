----------------------------- MODULE MCCompletion -----------------------------
(***************************************************************************)
(* How a source learns that an event is done, in two parts: the completion  *)
(* channel of one event (Completion), and the source tasks that move their  *)
(* place by what they learn (Sources).  A behaviour is about one part; the  *)
(* other rests in a final state, the completion after one step: a source    *)
(* that stops waiting.                                                     *)
(***************************************************************************)
EXTENDS Completion, MCSources

CONSTANTS l1, l2, l3

VARIABLE part

MCLeaves == {l1, l2, l3}

SourcesRest ==
  /\ source = SourceTask("generate", {}, "earliest", 0, "once", FALSE, 0)
  /\ topic = source.partitions /\ run = "ended"
  /\ first = [p \in Partitions |-> 0] /\ end = first /\ next = first /\ deliveries = first
  /\ stored = [p \in Partitions |-> None]
  /\ batch = [p \in Partitions |-> {}] /\ answers = batch
  /\ known = {} /\ handled = {} /\ given = {} /\ passed = {} /\ started = {}
  /\ followerUp = TRUE /\ disruptions = 0 /\ now = 0 /\ due = 0 /\ anchor = None /\ lastFire = None

MCInit ==
  /\ Init
  /\ \/ part = "completion" /\ SourcesRest
     \/ part = "sources" /\ SourcesInit

CompletionPart == part = "completion" /\ Next /\ UNCHANGED sourceVars
CompletionRests == part = "sources" /\ SourceGivesUp /\ UNCHANGED sourceVars
SourcesPart == part = "sources" /\ waiter = "gaveup" /\ SourcesNext /\ UNCHANGED vars

MCNext == (CompletionPart \/ CompletionRests \/ SourcesPart) /\ UNCHANGED part

\* Fairness of Completion, where its leaves go on.
CompletionFairness ==
  /\ \A l \in Leaves :
       /\ WF_vars(part = "completion" /\ (DropCopy(l) \/ \E v \in Verdicts : Signal(l, v)))
       /\ WF_vars(Load(l))
       /\ SF_vars(CasOk(l))
       /\ WF_vars(CasOk(l) \/ CasFail(l))
       /\ WF_vars(SendVerdict(l))
  /\ WF_vars(SourceRecv)
  /\ WF_vars(SourceClosed)
  /\ WF_vars(part = "sources" /\ SourceGivesUp)

MCSpec == MCInit /\ [][MCNext]_<<part, vars, sourceVars>> /\ CompletionFairness /\ SourcesFairness
=============================================================================
