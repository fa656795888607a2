------------------------------ MODULE Completion ------------------------------
(***************************************************************************)
(* The end-to-end acknowledgement of one source event: CompletionState of  *)
(* core/src/event.rs, shared by every copy of the event that travels down  *)
(* the flow, and the oneshot channel on which the source waits.            *)
(*                                                                         *)
(* Leaves run on different threads, so the compare-and-swap loop of        *)
(* last_leaf is modelled one atomic access at a time.  A leaf may also     *)
(* never signal: its task is aborted or its event is dropped.  When the    *)
(* last copy of the event goes away with the sender still inside, the      *)
(* oneshot channel closes and the source learns it.                        *)
(***************************************************************************)
EXTENDS Naturals, FiniteSets

CONSTANTS Leaves,     \* the events that will reach a leaf of the flow
          LeafCount   \* the leaf_count the completion channel is sized with

ASSUME LeavesAssumption == IsFiniteSet(Leaves)
ASSUME LeafCountAssumption == LeafCount \in Nat

VARIABLES remaining,  \* CompletionState.remaining
          armed,      \* CompletionState.sender still holds the oneshot sender
          outcome,    \* what was sent on the oneshot: "none", "ok" or "err"
          waiter,     \* the source: "waiting", "acked", "failed" or "gaveup"
          pc,         \* where each leaf's signal call is
          seen,       \* `current` of last_leaf, as each leaf last loaded it
          verdict     \* what each leaf reports: "none", "ok" or "err"

vars == <<remaining, armed, outcome, waiter, pc, seen, verdict>>

Verdicts == {"ok", "err"}

PCs == {"working", "load", "cas", "deliver", "counted", "late", "dropped"}

\* leaf_count.max(1): a count of zero is treated as one.
Expected == IF LeafCount = 0 THEN 1 ELSE LeafCount

\* The leaves whose compare-and-swap took one from the counter.
Counted == {l \in Leaves : pc[l] \in {"deliver", "counted"}}

\* No copy of the event is left that could still signal.
AllGone == \A l \in Leaves : pc[l] \in {"counted", "late", "dropped"}

-----------------------------------------------------------------------------

Init ==
  /\ remaining = Expected
  /\ armed = TRUE
  /\ outcome = "none"
  /\ waiter = "waiting"
  /\ pc = [l \in Leaves |-> "working"]
  /\ seen = [l \in Leaves |-> 0]
  /\ verdict = [l \in Leaves |-> "none"]

\* A leaf ends its work and calls signal_completion or
\* signal_completion_with_error.
Signal(l, v) ==
  /\ pc[l] = "working"
  /\ pc' = [pc EXCEPT ![l] = "load"]
  /\ verdict' = [verdict EXCEPT ![l] = v]
  /\ UNCHANGED <<remaining, armed, outcome, waiter, seen>>

\* The leaf's event goes away without a signal: the task was aborted.
DropCopy(l) ==
  /\ pc[l] = "working"
  /\ pc' = [pc EXCEPT ![l] = "dropped"]
  /\ UNCHANGED <<remaining, armed, outcome, waiter, seen, verdict>>

\* `current` is (re)loaded; at zero last_leaf returns false.
Observe(l) ==
  /\ seen' = [seen EXCEPT ![l] = remaining]
  /\ pc' = [pc EXCEPT ![l] = IF remaining = 0 THEN "late" ELSE "cas"]
  /\ UNCHANGED <<remaining, armed, outcome, waiter, verdict>>

Load(l) ==
  /\ pc[l] = "load"
  /\ Observe(l)

\* Mutant of CasOk: a plain store instead of a compare-and-swap.
CasOkWithoutCompare(l) ==
  /\ pc[l] = "cas"
  /\ remaining' = seen[l] - 1
  /\ pc' = [pc EXCEPT ![l] = IF seen[l] = 1 THEN "deliver" ELSE "counted"]
  /\ UNCHANGED <<armed, outcome, waiter, seen, verdict>>

\* Mutant of CasOk: the counter is read again to decide who was last.
CasOkRereads(l) ==
  /\ pc[l] = "cas"
  /\ remaining = seen[l]
  /\ remaining' = remaining - 1
  /\ pc' = [pc EXCEPT ![l] = IF seen[l] <= 2 THEN "deliver" ELSE "counted"]
  /\ UNCHANGED <<armed, outcome, waiter, seen, verdict>>

\* compare_exchange_weak succeeds: only the leaf that saw 1 is the last one.
CasOk(l) ==
  /\ pc[l] = "cas"
  /\ remaining = seen[l]
  /\ remaining' = remaining - 1
  /\ pc' = [pc EXCEPT ![l] = IF seen[l] = 1 THEN "deliver" ELSE "counted"]
  /\ UNCHANGED <<armed, outcome, waiter, seen, verdict>>

\* compare_exchange_weak fails, spuriously or because another leaf was first.
CasFail(l) ==
  /\ pc[l] = "cas"
  /\ Observe(l)

\* The last leaf takes the sender and sends its own verdict.  A source that no
\* longer waits has dropped the receiver and never reads it.
SendVerdict(l) ==
  /\ pc[l] = "deliver"
  /\ pc' = [pc EXCEPT ![l] = "counted"]
  /\ outcome' = IF armed THEN verdict[l] ELSE outcome
  /\ armed' = FALSE
  /\ UNCHANGED <<remaining, waiter, seen, verdict>>

\* The source receives the verdict of the last leaf.
SourceRecv ==
  /\ waiter = "waiting"
  /\ outcome # "none"
  /\ waiter' = IF outcome = "ok" THEN "acked" ELSE "failed"
  /\ UNCHANGED <<remaining, armed, outcome, pc, seen, verdict>>

\* Mutant of SourceClosed: the sender outlives the event's copies.
SourceClosedNever == FALSE /\ UNCHANGED vars

\* Every copy of the event is gone and the sender with it: the source's
\* receiver returns RecvError.
SourceClosed ==
  /\ waiter = "waiting"
  /\ armed
  /\ AllGone
  /\ waiter' = "failed"
  /\ armed' = FALSE
  /\ UNCHANGED <<remaining, outcome, pc, seen, verdict>>

\* The source stops waiting: its task is cancelled, or the ack_timeout runs
\* out.  The select looks at the cancellation before the verdict.
SourceGivesUp ==
  /\ waiter = "waiting"
  /\ waiter' = "gaveup"
  /\ UNCHANGED <<remaining, armed, outcome, pc, seen, verdict>>

Next ==
  \/ \E l \in Leaves : \E v \in Verdicts : Signal(l, v)
  \/ \E l \in Leaves : DropCopy(l)
  \/ \E l \in Leaves : Load(l)
  \/ \E l \in Leaves : CasOk(l)
  \/ \E l \in Leaves : CasFail(l)
  \/ \E l \in Leaves : SendVerdict(l)
  \/ SourceRecv
  \/ SourceClosed
  \/ SourceGivesUp

Spec == Init /\ [][Next]_vars

\* Threads that are inside a signal call go on, a successful
\* compare-and-swap is not postponed for ever by spurious failures, every task
\* ends its work or is dropped, and the source polls its receiver.  Giving
\* up is not assumed.
Fairness ==
  /\ \A l \in Leaves :
       /\ WF_vars(DropCopy(l) \/ \E v \in Verdicts : Signal(l, v))
       /\ WF_vars(Load(l))
       /\ SF_vars(CasOk(l))
       /\ WF_vars(CasOk(l) \/ CasFail(l))
       /\ WF_vars(SendVerdict(l))
  /\ WF_vars(SourceRecv)
  /\ WF_vars(SourceClosed)

FairSpec == Spec /\ Fairness

-----------------------------------------------------------------------------

\* Every variable has its type.
TypeOK ==
  /\ remaining \in 0..Expected
  /\ armed \in BOOLEAN
  /\ outcome \in Verdicts \cup {"none"}
  /\ waiter \in {"waiting", "acked", "failed", "gaveup"}
  /\ pc \in [Leaves -> PCs]
  /\ seen \in [Leaves -> 0..Expected]
  /\ verdict \in [Leaves -> Verdicts \cup {"none"}]

\* The source acks only once as many leaves as the channel was sized for have
\* signalled: no interleaving of the compare-and-swap loops loses or doubles a
\* count.
AckAfterEveryLeaf == waiter = "acked" => Cardinality(Counted) = Expected

\* At most one leaf ever finds itself the last one, and the sender is taken
\* only after the counter reached zero or the channel closed.
OneLastLeaf ==
  /\ \A l, m \in Leaves : pc[l] = "deliver" /\ pc[m] = "deliver" => l = m
  /\ (\E l \in Leaves : pc[l] = "deliver") => armed /\ remaining = 0

\* The source is never left waiting on a flow that has ended: a verdict
\* arrives or the channel closes, without the help of a timeout.
SourceLearns == <>(waiter # "waiting")

\* docs, concepts/flows: "Partial failures never silently ack: either every
\* leaf reports success, or the source learns the flow did not complete."
NoSilentPartialAck ==
  waiter = "acked" => \A l \in Leaves : verdict[l] # "err"

-----------------------------------------------------------------------------

\* The verdict the last leaf has decided, delivered or still on its way.
Decided ==
  IF outcome # "none" THEN outcome
  ELSE IF \E l \in Leaves : pc[l] = "deliver"
       THEN verdict[CHOOSE l \in Leaves : pc[l] = "deliver"]
       ELSE "none"

Promise == INSTANCE CompletionPromise
             WITH left <- remaining, result <- Decided, source <- waiter

\* The compare-and-swap loops implement one atomic "count a leaf, the last one
\* decides" step per signal.
ImplementsPromise == Promise!Spec

=============================================================================
