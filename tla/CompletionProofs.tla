--------------------------- MODULE CompletionProofs ---------------------------
(***************************************************************************)
(* Proofs about Completion, for every finite set of leaves and every       *)
(* leaf_count, and about Batches, where completions are split and merged,  *)
(* for any events, keys, flows and bounds.                                 *)
(***************************************************************************)
EXTENDS Completion, Batches, FiniteSetTheorems, SequenceTheorems, TLAPS

(***************************************************************************)
(* The inductive invariant.  The counter is what the leaves that passed    *)
(* their compare-and-swap have left of it; the sender leaves its slot only *)
(* when nobody can win any more; a verdict is there only after the counter *)
(* reached zero; a leaf enters the loop with a verdict and leaves it at    *)
(* zero.                                                                   *)
(***************************************************************************)
CountInv == remaining + Cardinality(Counted) = Expected

WinnerInv ==
  /\ \A l \in Leaves : pc[l] = "deliver" => remaining = 0 /\ armed
  /\ \A l, m \in Leaves : pc[l] = "deliver" /\ pc[m] = "deliver" => l = m

SenderInv ==
  /\ outcome # "none" => remaining = 0 /\ ~armed
  /\ remaining = 0 /\ armed => \E l \in Leaves : pc[l] = "deliver"
  /\ ~armed /\ remaining > 0 => AllGone
  /\ waiter = "waiting" /\ ~armed => outcome # "none"
  /\ waiter = "acked" => outcome = "ok"

SignalInv ==
  \A l \in Leaves :
    /\ pc[l] \in {"load", "cas", "deliver"} => verdict[l] \in Verdicts
    /\ pc[l] = "cas" => seen[l] >= 1

IInv == TypeOK /\ CountInv /\ WinnerInv /\ SenderInv /\ SignalInv

-----------------------------------------------------------------------------

\* The set of counted leaves is finite.
LEMMA CountedFinite == IsFiniteSet(Counted) /\ Cardinality(Counted) \in Nat
<1>1. Counted \in SUBSET Leaves
  BY DEF Counted
<1>2. IsFiniteSet(Counted)
  BY <1>1, LeavesAssumption, FS_Subset
<1> QED BY <1>2, FS_CardinalityType

LEMMA ExpectedType == Expected \in Nat /\ Expected >= 1
BY LeafCountAssumption DEF Expected

\* The initial state satisfies the invariant.
LEMMA InitInv == Init => IInv
<1> SUFFICES ASSUME Init PROVE IInv
  OBVIOUS
<1>1. TypeOK
  BY ExpectedType DEF Init, TypeOK, PCs, Verdicts
<1>2. Counted = {}
  BY DEF Init, Counted
<1>3. CountInv
  BY <1>2, FS_EmptySet, ExpectedType DEF Init, CountInv
<1>4. WinnerInv /\ SenderInv /\ SignalInv
  BY ExpectedType DEF Init, WinnerInv, SenderInv, SignalInv
<1> QED BY <1>1, <1>3, <1>4 DEF IInv

\* Every step keeps the types.
LEMMA NextType == TypeOK /\ SignalInv /\ [Next]_vars => TypeOK' /\ SignalInv'
<1> SUFFICES ASSUME TypeOK, SignalInv, [Next]_vars PROVE TypeOK' /\ SignalInv'
  OBVIOUS
<1> USE ExpectedType DEF TypeOK, SignalInv, PCs, Verdicts
<1>1. ASSUME NEW l \in Leaves, NEW v \in Verdicts, Signal(l, v)
      PROVE  TypeOK' /\ SignalInv'
  BY <1>1 DEF Signal
<1>2. ASSUME NEW l \in Leaves, DropCopy(l) PROVE TypeOK' /\ SignalInv'
  BY <1>2 DEF DropCopy
<1>3. ASSUME NEW l \in Leaves, Load(l) \/ CasFail(l) PROVE TypeOK' /\ SignalInv'
  BY <1>3 DEF Load, CasFail, Observe
<1>4. ASSUME NEW l \in Leaves, CasOk(l) PROVE TypeOK' /\ SignalInv'
  BY <1>4 DEF CasOk
<1>5. ASSUME NEW l \in Leaves, SendVerdict(l) PROVE TypeOK' /\ SignalInv'
  BY <1>5 DEF SendVerdict
<1>6. CASE SourceRecv
  BY <1>6 DEF SourceRecv
<1>7. CASE SourceClosed
  BY <1>7 DEF SourceClosed
<1>8. CASE SourceGivesUp
  BY <1>8 DEF SourceGivesUp
<1>9. CASE UNCHANGED vars
  BY <1>9 DEF vars
<1> QED BY <1>1, <1>2, <1>3, <1>4, <1>5, <1>6, <1>7, <1>8, <1>9 DEF Next

\* A successful compare-and-swap adds its leaf to the counted ones; nothing
\* else changes that set.
LEMMA NextCounted ==
  ASSUME TypeOK, Next
  PROVE  \/ Counted' = Counted /\ remaining' = remaining
         \/ \E l \in Leaves : /\ l \notin Counted
                              /\ Counted' = Counted \cup {l}
                              /\ remaining' = remaining - 1
<1> USE DEF TypeOK, Counted
<1>1. ASSUME NEW l \in Leaves, CasOk(l)
      PROVE  /\ l \notin Counted
             /\ Counted' = Counted \cup {l}
             /\ remaining' = remaining - 1
  BY <1>1 DEF CasOk
<1>2. ASSUME NEW l \in Leaves, NEW v \in Verdicts, Signal(l, v)
      PROVE  Counted' = Counted /\ remaining' = remaining
  BY <1>2 DEF Signal
<1>3. ASSUME NEW l \in Leaves, DropCopy(l)
      PROVE  Counted' = Counted /\ remaining' = remaining
  BY <1>3 DEF DropCopy
<1>4. ASSUME NEW l \in Leaves, Load(l) \/ CasFail(l)
      PROVE  Counted' = Counted /\ remaining' = remaining
  BY <1>4 DEF Load, CasFail, Observe
<1>5. ASSUME NEW l \in Leaves, SendVerdict(l)
      PROVE  Counted' = Counted /\ remaining' = remaining
  BY <1>5 DEF SendVerdict
<1>6. CASE SourceRecv \/ SourceClosed \/ SourceGivesUp
  BY <1>6 DEF SourceRecv, SourceClosed, SourceGivesUp
<1> QED BY <1>1, <1>2, <1>3, <1>4, <1>5, <1>6 DEF Next

\* Every step keeps counter and counted leaves in balance.
LEMMA NextCount == TypeOK /\ CountInv /\ [Next]_vars => CountInv'
<1> SUFFICES ASSUME TypeOK, CountInv, [Next]_vars PROVE CountInv'
  OBVIOUS
<1>1. CASE UNCHANGED vars
  <2>1. Counted' = Counted
    BY <1>1 DEF Counted, vars
  <2> QED BY <1>1, <2>1 DEF CountInv, vars
<1>2. CASE Next
  <2>1. CASE Counted' = Counted /\ remaining' = remaining
    BY <2>1 DEF CountInv
  <2>2. ASSUME NEW l \in Leaves, l \notin Counted,
               Counted' = Counted \cup {l}, remaining' = remaining - 1
        PROVE  CountInv'
    <3>1. Cardinality(Counted') = Cardinality(Counted) + 1
      BY <2>2, CountedFinite, FS_AddElement
    <3> QED BY <2>2, <3>1, CountedFinite, ExpectedType DEF CountInv, TypeOK
  <2> QED BY <1>2, <2>1, <2>2, NextCounted
<1> QED BY <1>1, <1>2

\* Every step keeps the sender with the last leaf.
LEMMA NextWinner ==
  IInv /\ [Next]_vars => WinnerInv' /\ SenderInv'
<1> SUFFICES ASSUME IInv, [Next]_vars PROVE WinnerInv' /\ SenderInv'
  OBVIOUS
<1> USE ExpectedType DEF IInv, TypeOK, WinnerInv, SenderInv, SignalInv, Verdicts,
                     AllGone
<1>1. ASSUME NEW l \in Leaves, NEW v \in Verdicts, Signal(l, v)
      PROVE  WinnerInv' /\ SenderInv'
  BY <1>1 DEF Signal
<1>2. ASSUME NEW l \in Leaves, DropCopy(l) PROVE WinnerInv' /\ SenderInv'
  BY <1>2 DEF DropCopy
<1>3. ASSUME NEW l \in Leaves, Load(l) \/ CasFail(l)
      PROVE  WinnerInv' /\ SenderInv'
  BY <1>3 DEF Load, CasFail, Observe
<1>4. ASSUME NEW l \in Leaves, CasOk(l) PROVE WinnerInv' /\ SenderInv'
  BY <1>4 DEF CasOk
<1>5. ASSUME NEW l \in Leaves, SendVerdict(l) PROVE WinnerInv' /\ SenderInv'
  BY <1>5 DEF SendVerdict
<1>6. CASE SourceRecv
  BY <1>6 DEF SourceRecv
<1>7. CASE SourceClosed
  BY <1>7 DEF SourceClosed
<1>8. CASE SourceGivesUp
  BY <1>8 DEF SourceGivesUp
<1>9. CASE UNCHANGED vars
  BY <1>9 DEF vars
<1> QED BY <1>1, <1>2, <1>3, <1>4, <1>5, <1>6, <1>7, <1>8, <1>9 DEF Next

\* The invariant holds in every reachable state.
THEOREM Invariance == Spec => []IInv
<1>1. IInv /\ [Next]_vars => IInv'
  BY NextType, NextCount, NextWinner DEF IInv
<1> QED BY InitInv, <1>1, PTL DEF Spec

\* Types are kept.
THEOREM TypeCorrect == Spec => []TypeOK
<1>1. IInv => TypeOK
  BY DEF IInv
<1> QED BY <1>1, Invariance, PTL

\* The source of an event acks it only after leaf_count leaves have signalled,
\* whatever the interleaving of the last_leaf loops.
THEOREM AckIsComplete == Spec => []AckAfterEveryLeaf
<1>1. IInv => AckAfterEveryLeaf
  BY CountedFinite, ExpectedType
  DEF IInv, TypeOK, CountInv, SenderInv, AckAfterEveryLeaf
<1> QED BY <1>1, Invariance, PTL

\* When the channel is sized for exactly the leaves that will signal, an ack
\* means that every leaf has passed its compare-and-swap.
THEOREM AckMeansAllLeaves ==
  ASSUME Cardinality(Leaves) = Expected
  PROVE  Spec => [](waiter = "acked" => Counted = Leaves)
<1>1. IInv => (waiter = "acked" => Counted = Leaves)
  <2> SUFFICES ASSUME IInv, waiter = "acked" PROVE Counted = Leaves
    OBVIOUS
  <2>1. Cardinality(Counted) = Cardinality(Leaves)
    BY CountedFinite, ExpectedType
    DEF IInv, TypeOK, CountInv, SenderInv
  <2>2. Counted \in SUBSET Leaves
    BY DEF Counted
  <2> QED BY <2>1, <2>2, LeavesAssumption, FS_Subset
<1> QED BY <1>1, Invariance, PTL

\* At most one leaf finds itself last, and it finds the sender in its slot.
THEOREM LastLeafIsUnique == Spec => []OneLastLeaf
<1>1. IInv => OneLastLeaf
  BY DEF IInv, WinnerInv, OneLastLeaf
<1> QED BY <1>1, Invariance, PTL

-----------------------------------------------------------------------------

\* While a leaf is delivering, it is the one that decides.
LEMMA DecidedByWinner ==
  ASSUME IInv, NEW l \in Leaves, pc[l] = "deliver"
  PROVE  Decided = verdict[l]
<1>1. outcome = "none"
  BY DEF IInv, WinnerInv, SenderInv
<1>2. (CHOOSE m \in Leaves : pc[m] = "deliver") = l
  BY DEF IInv, WinnerInv
<1> QED BY <1>1, <1>2 DEF Decided

\* Without a delivering leaf only the delivered verdict counts.
LEMMA DecidedByOutcome ==
  ASSUME \A l \in Leaves : pc[l] # "deliver"
  PROVE  Decided = outcome
BY DEF Decided

\* The compare-and-swap loops implement the atomic promise: the successful
\* compare-and-swap is the report, the delivery is a stutter.
THEOREM Refinement == Spec => ImplementsPromise
<1>1. Init => Promise!Init
  <2> SUFFICES ASSUME Init PROVE Promise!Init
    OBVIOUS
  <2>1. Decided = "none"
    BY DecidedByOutcome DEF Init
  <2> QED BY <2>1 DEF Init, Promise!Init, Expected
<1>2. IInv /\ IInv' /\ [Next]_vars => [Promise!Next]_(Promise!pvars)
  <2> SUFFICES ASSUME IInv, IInv', [Next]_vars
               PROVE  [Promise!Next]_(Promise!pvars)
    OBVIOUS
  <2> USE DEF IInv, TypeOK
  <2>1. ASSUME pc' = pc, verdict' = verdict, outcome' = outcome
        PROVE  Decided' = Decided
    BY <2>1 DEF Decided
  <2>2. ASSUME NEW l \in Leaves, pc[l] # "deliver", pc'[l] # "deliver",
               outcome' = outcome,
               \A m \in Leaves : m # l => pc'[m] = pc[m] /\ verdict'[m] = verdict[m]
        PROVE  Decided' = Decided
    <3>1. CASE \E m \in Leaves : pc[m] = "deliver"
      <4> PICK m \in Leaves : pc[m] = "deliver"
        BY <3>1
      <4>1. pc'[m] = "deliver" /\ verdict'[m] = verdict[m]
        BY <2>2
      <4>2. Decided = verdict[m]
        BY DecidedByWinner
      <4>3. outcome' = "none" /\ outcome = "none"
        BY <2>2 DEF WinnerInv, SenderInv
      <4>4. (CHOOSE x \in Leaves : pc'[x] = "deliver") = m
        BY <4>1 DEF WinnerInv
      <4> QED BY <4>1, <4>2, <4>3, <4>4 DEF Decided
    <3>2. CASE \A m \in Leaves : pc[m] # "deliver"
      BY <2>2, <3>2 DEF Decided
    <3> QED BY <3>1, <3>2
  <2>3. ASSUME NEW l \in Leaves, NEW v \in Verdicts, Signal(l, v)
        PROVE  UNCHANGED Promise!pvars
    BY <2>3, <2>2 DEF Signal, Promise!pvars
  <2>4. ASSUME NEW l \in Leaves, DropCopy(l) PROVE UNCHANGED Promise!pvars
    BY <2>4, <2>2 DEF DropCopy, Promise!pvars
  <2>5. ASSUME NEW l \in Leaves, Load(l) \/ CasFail(l)
        PROVE  UNCHANGED Promise!pvars
    BY <2>5, <2>2 DEF Load, CasFail, Observe, Promise!pvars
  <2>6. ASSUME NEW l \in Leaves, CasOk(l) PROVE Promise!Report(verdict[l])
    <3>1. remaining >= 1 /\ remaining' = remaining - 1 /\ waiter' = waiter
      BY <2>6 DEF CasOk, SignalInv
    <3>2. \A m \in Leaves : pc[m] # "deliver"
      BY <3>1 DEF WinnerInv
    <3>3. Decided = outcome
      BY <3>2, DecidedByOutcome
    <3>4. CASE remaining = 1
      <4>1. pc'[l] = "deliver" /\ verdict' = verdict /\ outcome' = outcome
        BY <2>6, <3>4 DEF CasOk
      <4>2. outcome' = "none"
        BY <4>1 DEF WinnerInv, SenderInv
      <4>3. (CHOOSE x \in Leaves : pc'[x] = "deliver") = l
        BY <4>1 DEF WinnerInv
      <4>4. Decided' = verdict[l]
        BY <4>1, <4>2, <4>3 DEF Decided
      <4> QED BY <3>1, <3>4, <4>4, ExpectedType DEF Promise!Report
    <3>5. CASE remaining # 1
      <4>1. Decided' = Decided
        BY <2>6, <2>2, <3>5 DEF CasOk
      <4> QED BY <3>1, <3>5, <4>1, ExpectedType DEF Promise!Report
    <3> QED BY <3>4, <3>5
  <2>7. ASSUME NEW l \in Leaves, SendVerdict(l) PROVE UNCHANGED Promise!pvars
    <3>1. Decided = verdict[l]
      BY <2>7, DecidedByWinner DEF SendVerdict
    <3>2. outcome' = verdict[l] /\ verdict[l] # "none"
      BY <2>7 DEF SendVerdict, WinnerInv, SignalInv, Verdicts
    <3> QED BY <2>7, <3>1, <3>2 DEF SendVerdict, Decided, Promise!pvars
  <2>8. CASE SourceRecv
    <3>1. Decided = outcome /\ Decided' = Decided
      BY <2>8, <2>1 DEF SourceRecv, Decided
    <3> QED BY <2>8, <3>1 DEF SourceRecv, Promise!Next, Promise!Learn
  <2>9. CASE SourceClosed
    <3>1. remaining > 0
      BY <2>9, ExpectedType DEF SourceClosed, AllGone, SenderInv
    <3>2. Decided' = Decided
      BY <2>9, <2>1 DEF SourceClosed
    <3> QED BY <2>9, <3>1, <3>2 DEF SourceClosed, Promise!Next, Promise!Abandon
  <2>10. CASE SourceGivesUp
    BY <2>10, <2>1 DEF SourceGivesUp, Promise!Next, Promise!GiveUp
  <2>11. CASE UNCHANGED vars
    BY <2>11, <2>1 DEF vars, Promise!pvars
  <2>12. ASSUME NEW l \in Leaves, CasOk(l) PROVE Promise!Next
    <3>1. verdict[l] \in {"ok", "err"}
      BY <2>12 DEF CasOk, SignalInv, Verdicts
    <3> QED BY <2>12, <2>6, <3>1 DEF Promise!Next
  <2> QED
    BY <2>3, <2>4, <2>5, <2>7, <2>8, <2>9, <2>10, <2>11, <2>12 DEF Next
<1> QED BY <1>1, <1>2, Invariance, PTL DEF Spec, ImplementsPromise, Promise!Spec

-----------------------------------------------------------------------------
(***************************************************************************)
(* Batches.  A completion is held in one place: a message in the channel   *)
(* to the buffer or in a key's buffer, or a batch.  While it is held, or   *)
(* iterate still owes its message, nothing was signalled to it; a batch    *)
(* without a proxy counts in step with its one channel; the event of an    *)
(* iterate is done only when its elements are.                             *)
(***************************************************************************)

(***************************************************************************)
(* Sequences of messages.                                                  *)
(***************************************************************************)

\* A sequence, of whatever.
IsASequence(s) == \E S : s \in Seq(S)

LEMMA MessagesLeft ==
  ASSUME NEW s, IsASequence(s), s # <<>>
  PROVE  /\ IsASequence(Tail(s)) /\ 1 \in DOMAIN s /\ Head(s) = s[1]
         /\ \A i \in DOMAIN Tail(s) : i + 1 \in DOMAIN s /\ i + 1 # 1 /\ Tail(s)[i] = s[i + 1]
         /\ \A i, j \in DOMAIN Tail(s) : i + 1 = j + 1 => i = j
<1>1. PICK S : s \in Seq(S)
  BY DEF IsASequence
<1>2. Tail(s) \in Seq(S) /\ Len(Tail(s)) = Len(s) - 1 /\ Len(s) \in Nat /\ Len(s) # 0
  BY <1>1
<1>3. DOMAIN Tail(s) = 1..(Len(s) - 1) /\ DOMAIN s = 1..Len(s)
  BY <1>1, <1>2
<1>4. \A i \in 1..(Len(s) - 1) : Tail(s)[i] = s[i + 1]
  BY <1>1, <1>2
<1> QED BY <1>1, <1>2, <1>3, <1>4 DEF IsASequence

LEMMA MessageAdded ==
  ASSUME NEW s, IsASequence(s), NEW m
  PROVE  /\ IsASequence(Append(s, m))
         /\ \A i \in DOMAIN s : i \in DOMAIN Append(s, m) /\ Append(s, m)[i] = s[i]
         /\ \E n \in DOMAIN Append(s, m) :
              /\ Append(s, m)[n] = m
              /\ \A i \in DOMAIN Append(s, m) : i = n \/ i \in DOMAIN s
<1>1. PICK S : s \in Seq(S)
  BY DEF IsASequence
<1>2. s \in Seq(S \cup {m}) /\ m \in S \cup {m}
  BY <1>1
<1>3. /\ Append(s, m) \in Seq(S \cup {m}) /\ Len(Append(s, m)) = Len(s) + 1 /\ Len(s) \in Nat
      /\ \A i \in 1..Len(s) : Append(s, m)[i] = s[i]
      /\ Append(s, m)[Len(s) + 1] = m
  BY <1>2, AppendProperties
<1>4. DOMAIN s = 1..Len(s) /\ DOMAIN Append(s, m) = 1..(Len(s) + 1)
  BY <1>2, <1>3
<1>5. Len(s) + 1 \in DOMAIN Append(s, m) /\ \A i \in DOMAIN Append(s, m) : i = Len(s) + 1 \/ i \in DOMAIN s
  BY <1>3, <1>4
<1> QED BY <1>3, <1>4, <1>5 DEF IsASequence

LEMMA NoMessages == IsASequence(<<>>) /\ \A c : ~InMessages(c, <<>>)
<1>1. <<>> \in Seq({}) /\ DOMAIN <<>> = {}
  OBVIOUS
<1> QED BY <1>1 DEF IsASequence, InMessages

-----------------------------------------------------------------------------
(***************************************************************************)
(* Events and elements on their way through iterate, buffer and proxies.   *)
(***************************************************************************)

Channel == Events \cup Elements

Judgement == [remaining : Nat, verdict : {"none", "ok", "err"}]

BatchFields == {"messages", "key", "session", "error", "upstreams", "proxy", "left", "remaining", "verdict"}

AMessage(m) == m.chan \in Channel /\ m.key \in Keys

\* The values the variables take.
BatchTypes ==
  /\ shape \in BatchSetups /\ input \subseteq Events /\ fanIn \subseteq Events
  /\ array \in [Events -> Nat] /\ number \in [Events -> Nat]
  /\ IsASequence(inbox) /\ \A i \in DOMAIN inbox : AMessage(inbox[i])
  /\ DOMAIN buffers = Keys
  /\ \A k \in Keys : IsASequence(buffers[k]) /\ \A i \in DOMAIN buffers[k] : AMessage(buffers[k][i])
  /\ \A b \in batches : DOMAIN b = BatchFields /\ b.upstreams \subseteq Channel
                        /\ b.proxy \in BOOLEAN /\ b.left \in Nat /\ b.remaining \in Nat
  /\ chan \in [Channel -> Judgement]
  /\ DOMAIN learned = Events

\* No message is twice in the channel to the buffer.
Single == \A i, j \in DOMAIN inbox : inbox[i].chan = inbox[j].chan => i = j

Fresh(c) == chan[c] = [remaining |-> BatchLeaves, verdict |-> "none"]

\* Events that nobody has sent to the buffer, and elements iterate has not made.
Unsent(c) ==
  IF c \in Events THEN c \in input \/ array[c] > 0 \/ c \in fanIn ELSE c[2] > number[c[1]]

\* A completion is held in one place.
OnePlace(c) ==
  /\ InMessages(c, inbox) => ~InBuffers(c) /\ ~InBatches(c)
  /\ InBuffers(c) => ~InBatches(c)
  /\ \A j, k \in Keys : InMessages(c, buffers[j]) /\ InMessages(c, buffers[k]) => j = k
  /\ \A a, b \in batches : c \in a.upstreams /\ c \in b.upstreams => a = b

\* A proxy keeps its upstreams waiting; without one they count as the batch does.
Follows(b, c) ==
  IF b.proxy THEN Fresh(c) /\ (b.verdict # "err" => c \notin broken)
  ELSE chan[c].remaining = b.remaining /\ chan[c].verdict = "none" /\ c \notin broken

\* Nothing was signalled to a completion that waits, and nothing follows a verdict.
Kept(c) ==
  /\ OnePlace(c)
  /\ InMessages(c, inbox) \/ InBuffers(c) \/ Unsent(c) => Fresh(c) /\ c \notin broken
  /\ \A b \in batches : c \in b.upstreams => Follows(b, c)
  /\ Unsent(c) => ~Held(c)
  /\ chan[c].verdict # "none" => chan[c].remaining = 0
  /\ chan[c].verdict = "ok" => c \notin broken

\* The leaves that are left can still count.
Counts(b) ==
  /\ b.left <= b.remaining
  /\ b.verdict # "none" => b.remaining = 0
  /\ ~b.proxy => b.left >= 1

\* An event goes through iterate once, and is done when its elements are.
Splits(e) ==
  /\ e \in input => array[e] = 0 /\ number[e] = 0 /\ e \notin fanIn
  /\ e \in fanIn => array[e] = 0
  /\ array[e] + number[e] <= MaxElements
  /\ Held(e) => number[e] = 0
  /\ chan[e].verdict = "ok" => \A i \in 1..MaxElements : ~Held(<<e, i>>)
  /\ learned[e] = "ok" => chan[e].verdict = "ok"

\* The inductive invariant.
BatchInv ==
  /\ BatchTypes /\ Single
  /\ \A c \in Channel : Kept(c)
  /\ \A b \in batches : Counts(b)
  /\ \A e \in Events : Splits(e)

-----------------------------------------------------------------------------
(***************************************************************************)
(* What a step may do to a completion.                                     *)
(***************************************************************************)

LEMMA ChannelIs ==
  /\ \A e \in Events : e \in Channel /\ \A i \in 1..MaxElements : <<e, i>> \in Channel /\ <<e, i>> \notin Events
  /\ \A c \in Channel : c \in Events \/ \E e \in Events, i \in 1..MaxElements : c = <<e, i>> /\ c \notin Events
BY ElementsAssumption DEF Channel, Elements

LEMMA LeavesCounted ==
  ASSUME shape \in BatchSetups
  PROVE  /\ shape.leaves \in Nat /\ BatchLeaves \in Nat \ {0}
         /\ shape.leaves > 0 => BatchLeaves = shape.leaves
         /\ shape.leaves = 0 => BatchLeaves = 1
BY BatchSetupsAssumption DEF BatchLeaves

LEMMA SignalledIs ==
  ASSUME NEW ch \in [Channel -> Judgement], NEW cs, NEW n \in Nat, NEW v \in {"ok", "err"}
  PROVE  /\ Signalled(ch, cs, n, v) \in [Channel -> Judgement]
         /\ \A c \in Channel : c \notin cs => Signalled(ch, cs, n, v)[c] = ch[c]
         /\ \A c \in Channel : c \in cs =>
              /\ Signalled(ch, cs, n, v)[c].remaining
                   = IF ch[c].remaining > n THEN ch[c].remaining - n ELSE 0
              /\ Signalled(ch, cs, n, v)[c].verdict
                   = IF ch[c].remaining \in 1..n THEN v ELSE ch[c].verdict
<1>1. \A c \in Channel : ch[c].remaining \in Nat /\ ch[c].verdict \in {"none", "ok", "err"} /\ ch[c] \in Judgement
  BY DEF Judgement
<1>2. DOMAIN ch = Channel
  OBVIOUS
<1>3. \A c \in Channel : (IF ch[c].remaining > n THEN ch[c].remaining - n ELSE 0) \in Nat
  BY <1>1
<1>4. \A c \in Channel :
        (IF c \notin cs THEN ch[c]
         ELSE [remaining |-> IF ch[c].remaining > n THEN ch[c].remaining - n ELSE 0,
               verdict |-> IF ch[c].remaining \in 1..n THEN v ELSE ch[c].verdict]) \in Judgement
  BY <1>1, <1>3 DEF Judgement
<1>5. Signalled(ch, cs, n, v) \in [Channel -> Judgement]
  BY <1>2, <1>4 DEF Signalled
<1> QED BY <1>2, <1>5 DEF Signalled

\* A completion that is held has no verdict.
LEMMA HeldIsOpen ==
  ASSUME NEW c \in Channel, Kept(c), Held(c)
  PROVE  chan[c].verdict = "none"
BY DEF Kept, Held, InBatches, Follows, Fresh

\* What holds c after a step held it before.
Stays(c) ==
  /\ InMessages(c, inbox') => InMessages(c, inbox)
  /\ \A k \in Keys : InMessages(c, buffers'[k]) => InMessages(c, buffers[k])
  /\ \A b \in batches' : c \in b.upstreams => b \in batches

Alone(c) ==
  /\ Stays(c)
  /\ shape' = shape /\ chan'[c] = chan[c] /\ (c \in broken' => c \in broken)
  /\ Unsent(c)' => Unsent(c)

LEMMA AloneKept ==
  ASSUME NEW c \in Channel, Kept(c), Alone(c)
  PROVE  Kept(c)'
<1>1. OnePlace(c)'
  BY DEF Kept, Alone, Stays, OnePlace, InMessages, InBuffers, InBatches
<1>2. Fresh(c)' <=> Fresh(c)
  BY DEF Alone, Fresh, BatchLeaves
<1>3. (InMessages(c, inbox) \/ InBuffers(c) \/ Unsent(c))' => Fresh(c)' /\ c \notin broken'
  <2>1. InBuffers(c)' => InBuffers(c)
    BY DEF Alone, Stays, InBuffers, InMessages
  <2>2. InMessages(c, inbox)' => InMessages(c, inbox)
    BY DEF Alone, Stays, InMessages
  <2> QED BY <1>2, <2>1, <2>2 DEF Kept, Alone
<1>4. (\A b \in batches : c \in b.upstreams => Follows(b, c))'
  BY <1>2 DEF Kept, Alone, Stays, Follows
<1>5. Held(c)' => Held(c)
  BY DEF Alone, Stays, Held, InBuffers, InBatches, InMessages
<1>6. Unsent(c)' => ~Held(c)'
  BY <1>5 DEF Kept, Alone
<1>7. (chan[c].verdict # "none" => chan[c].remaining = 0)' /\ (chan[c].verdict = "ok" => c \notin broken)'
  BY DEF Kept, Alone
<1> QED BY <1>1, <1>3, <1>4, <1>6, <1>7 DEF Kept

\* A completion that nobody holds any more.
Dropped(c) ==
  /\ ~InMessages(c, inbox') /\ \A k \in Keys : ~InMessages(c, buffers'[k])
  /\ \A b \in batches' : c \notin b.upstreams

LEMMA DroppedKept ==
  ASSUME NEW c \in Channel, Dropped(c), ~Unsent(c)',
         chan'[c].verdict # "none" => chan'[c].remaining = 0,
         chan'[c].verdict = "ok" => c \notin broken'
  PROVE  Kept(c)'
BY DEF Dropped, Kept, OnePlace, InMessages, InBuffers, InBatches

\* Nothing that was not held is held, and iterate does nothing.
LEMMA SplitsKept ==
  ASSUME NEW e \in Events, Splits(e), \A c \in Channel : Kept(c), UNCHANGED <<upVars, learned>>,
         \A c \in Channel : Held(c)' => Held(c),
         chan'[e] = chan[e] \/ Held(e)
  PROVE  Splits(e)'
<1>1. e \in Channel /\ \A i \in 1..MaxElements : <<e, i>> \in Channel /\ <<e, i>> \notin Events
  BY ChannelIs
<1>2. UNCHANGED <<input, array, number, fanIn>> /\ learned' = learned
  BY DEF upVars
<1>3. (Held(e) => number[e] = 0)'
  BY <1>1, <1>2 DEF Splits
<1>4. CASE chan'[e] = chan[e]
  BY <1>1, <1>2, <1>3, <1>4 DEF Splits
<1>5. CASE Held(e)
  <2>1. number[e] = 0 /\ chan[e].verdict = "none"
    BY <1>1, <1>5, HeldIsOpen DEF Splits
  <2>2. \A i \in 1..MaxElements : Unsent(<<e, i>>)
    BY <1>1, <2>1 DEF Unsent
  <2>3. \A i \in 1..MaxElements : ~Held(<<e, i>>)'
    BY <1>1, <2>2 DEF Kept
  <2>4. learned'[e] # "ok"
    BY <1>2, <2>1 DEF Splits
  <2> QED BY <1>2, <1>3, <2>3, <2>4 DEF Splits
<1> QED BY <1>4, <1>5

-----------------------------------------------------------------------------
(***************************************************************************)
(* The sources and iterate.                                                *)
(***************************************************************************)

LEMMA InvParts ==
  ASSUME BatchInv
  PROVE  /\ BatchTypes /\ Single /\ shape \in BatchSetups
         /\ \A c \in Channel : Kept(c)
         /\ \A b \in batches : Counts(b)
         /\ \A e \in Events : Splits(e)
BY DEF BatchInv, BatchTypes

\* An event that was not sent to the buffer is signalled, or dropped.
Settled(e) ==
  /\ UNCHANGED <<shape, inbox, buffers, batches, number, learned>>
  /\ broken' \in {broken, broken \cup {e}}
  /\ input' \subseteq input /\ e \notin input'
  /\ array' \in [Events -> Nat] /\ array'[e] = 0 /\ \A f \in Events : f # e => array'[f] = array[f]
  /\ fanIn' \subseteq fanIn /\ e \notin fanIn'

LEMMA SettledEvent ==
  ASSUME BatchInv, NEW e \in Events, Unsent(e), Settled(e),
         \/ chan' = chan
         \/ chan' = Signalled(chan, {e}, 1, "err")
         \/ /\ chan' = Signalled(chan, {e}, BatchLeaves, "ok") /\ broken' = broken
            /\ \A i \in 1..MaxElements : ~Held(<<e, i>>)
  PROVE  BatchInv'
<1>1. BatchTypes /\ Single /\ shape \in BatchSetups /\ e \in Channel /\ Kept(e) /\ BatchLeaves \in Nat \ {0}
  BY InvParts, ChannelIs, LeavesCounted
<1>2. /\ shape' = shape /\ inbox' = inbox /\ buffers' = buffers /\ batches' = batches
      /\ number' = number /\ learned' = learned /\ \A c : c # e /\ c \in broken' => c \in broken
  BY DEF Settled
<1>3. chan' \in [Channel -> Judgement] /\ \A c \in Channel : c # e => chan'[c] = chan[c]
  BY <1>1, SignalledIs DEF BatchTypes
<1>4. BatchTypes'
  BY <1>1, <1>2, <1>3 DEF BatchTypes, Settled
<1>5. Single'
  BY <1>1, <1>2 DEF Single
<1>6. \A c \in Channel : Held(c)' <=> Held(c)
  BY <1>2 DEF Held, InBuffers, InBatches, InMessages
<1>7. Fresh(e) /\ e \notin broken /\ ~Held(e) /\ chan[e] \in Judgement
  BY <1>1 DEF Kept, BatchTypes
<1>8. /\ chan'[e].verdict # "none" => chan'[e].remaining = 0
      /\ chan'[e].verdict = "ok" => e \notin broken' /\ \A i \in 1..MaxElements : ~Held(<<e, i>>)
  <2>1. CASE chan' = chan
    BY <2>1, <1>7 DEF Fresh
  <2>2. CASE chan' = Signalled(chan, {e}, 1, "err")
    <3>1. /\ chan'[e].remaining = IF chan[e].remaining > 1 THEN chan[e].remaining - 1 ELSE 0
          /\ chan'[e].verdict = IF chan[e].remaining \in 1..1 THEN "err" ELSE chan[e].verdict
      BY <1>1, <2>2, SignalledIs DEF BatchTypes
    <3>2. chan[e].remaining \in Nat /\ chan[e].verdict = "none"
      BY <1>1, <1>7 DEF Fresh
    <3> QED BY <3>1, <3>2
  <2>3. CASE /\ chan' = Signalled(chan, {e}, BatchLeaves, "ok") /\ broken' = broken
             /\ \A i \in 1..MaxElements : ~Held(<<e, i>>)
    <3>1. chan'[e].remaining = IF chan[e].remaining > BatchLeaves THEN chan[e].remaining - BatchLeaves ELSE 0
      BY <1>1, <2>3, SignalledIs DEF BatchTypes
    <3>2. chan[e].remaining = BatchLeaves
      BY <1>7 DEF Fresh
    <3> QED BY <1>1, <1>7, <2>3, <3>1, <3>2
  <2> QED BY <2>1, <2>2, <2>3
<1>9. ~Unsent(e)'
  BY DEF Unsent, Settled
<1>10. Kept(e)'
  <2>1. Dropped(e)
    BY <1>2, <1>7 DEF Dropped, Held, InBuffers, InBatches, InMessages
  <2> QED BY <1>1, <1>2, <1>7, <1>8, <1>9, <2>1, DroppedKept
<1>11. ASSUME NEW c \in Channel, c # e PROVE Kept(c)'
  <2>1. Unsent(c)' => Unsent(c)
    BY <1>2, <1>11 DEF Unsent, Settled
  <2>2. Alone(c)
    BY <1>2, <1>3, <1>11, <2>1 DEF Alone, Stays
  <2> QED BY <1>11, <2>2, InvParts, AloneKept
<1>12. \A b \in batches' : Counts(b)'
  BY <1>2, InvParts DEF Counts
<1>13. ASSUME NEW f \in Events PROVE Splits(f)'
  <2>1. Splits(f) /\ f \in Channel /\ \A i \in 1..MaxElements : <<f, i>> \in Channel
    BY InvParts, ChannelIs
  <2>2. f \in input' => array'[f] = 0 /\ number'[f] = 0 /\ f \notin fanIn'
    BY <1>2, <2>1 DEF Splits, Settled
  <2>3. (f \in fanIn' => array'[f] = 0) /\ array'[f] + number'[f] <= MaxElements
    <3>1. array[f] \in Nat /\ number[f] \in Nat /\ MaxElements \in Nat
      BY <1>1, BatchBoundsAssumption DEF BatchTypes
    <3> QED BY <1>2, <2>1, <3>1 DEF Splits, Settled
  <2>4. (Held(f) => number[f] = 0)'
    BY <1>2, <1>6, <2>1 DEF Splits
  <2>5. (chan[f].verdict = "ok" => \A i \in 1..MaxElements : ~Held(<<f, i>>))'
    <3>1. chan'[f].verdict = "ok" => \A i \in 1..MaxElements : ~Held(<<f, i>>)
      BY <1>3, <1>8, <2>1 DEF Splits
    <3> QED BY <1>6, <2>1, <3>1
  <2>6. learned'[f] = "ok" => chan'[f].verdict = "ok"
    <3>1. learned[f] = "ok" => f # e
      BY <1>7, <2>1 DEF Fresh, Splits
    <3> QED BY <1>2, <1>3, <2>1, <3>1 DEF Splits
  <2> QED BY <2>2, <2>3, <2>4, <2>5, <2>6 DEF Splits
<1> QED BY <1>4, <1>5, <1>10, <1>11, <1>12, <1>13 DEF BatchInv

\* No element of an event that iterate did not take is held.
LEMMA NoElements ==
  ASSUME BatchInv, NEW e \in Events, number[e] = 0
  PROVE  \A i \in 1..MaxElements : ~Held(<<e, i>>)
<1> SUFFICES ASSUME NEW i \in 1..MaxElements PROVE ~Held(<<e, i>>)
  OBVIOUS
<1>1. <<e, i>> \in Channel /\ <<e, i>> \notin Events
  BY ChannelIs
<1>2. Unsent(<<e, i>>)
  BY <1>1 DEF Unsent
<1> QED BY <1>1, <1>2, InvParts DEF Kept

LEMMA EventsEnd ==
  ASSUME BatchInv, NEW e \in Events,
         InboxClosed(e) \/ SplitEmpty(e) \/ SplitCancelled(e) \/ SplitFails(e) \/ FanIn(e)
  PROVE  BatchInv'
<1>1. BatchTypes /\ Splits(e) /\ e \in Channel /\ array[e] \in Nat /\ number[e] \in Nat /\ MaxElements \in Nat
  BY InvParts, ChannelIs, BatchBoundsAssumption DEF BatchTypes
<1> USE DEF bufferVars, upVars
<1>2. CASE InboxClosed(e)
  <2>1. Unsent(e) /\ Settled(e)
    BY <1>1, <1>2 DEF InboxClosed, Unsent, Settled, Splits, BatchTypes
  <2> QED BY <1>2, <2>1, SettledEvent DEF InboxClosed
<1>3. CASE SplitEmpty(e)
  <2>1. Unsent(e) /\ Settled(e)
    BY <1>1, <1>3 DEF SplitEmpty, Unsent, Settled, Splits, BatchTypes
  <2>2. number[e] = 0
    BY <1>1, <1>3 DEF SplitEmpty, Splits
  <2> QED BY <1>3, <2>1, <2>2, NoElements, SettledEvent DEF SplitEmpty
<1>4. CASE SplitCancelled(e)
  <2>1. Unsent(e) /\ Settled(e)
    BY <1>1, <1>4 DEF SplitCancelled, Leave, Unsent, Settled, Splits, BatchTypes
  <2> QED BY <1>4, <2>1, SettledEvent DEF SplitCancelled
<1>5. CASE SplitFails(e)
  <2>1. Unsent(e) /\ Settled(e)
    BY <1>1, <1>5 DEF SplitFails, Leave, Unsent, Settled, Splits, BatchTypes
  <2> QED BY <1>5, <2>1, SettledEvent DEF SplitFails
<1>6. CASE FanIn(e)
  <2>1. Unsent(e) /\ Settled(e)
    BY <1>1, <1>6 DEF FanIn, Unsent, Settled, Splits, BatchTypes
  <2>2. ASSUME NEW i \in 1..MaxElements PROVE ~Held(<<e, i>>)
    <3>1. <<e, i>> \in Channel /\ <<e, i>> \notin Events /\ Kept(<<e, i>>)
      BY ChannelIs, InvParts
    <3>2. CASE i > number[e]
      BY <3>1, <3>2 DEF Unsent, Kept
    <3>3. CASE i <= number[e]
      <4>1. Answered(<<e, i>>)
        BY <1>1, <1>6, <3>3 DEF FanIn
      <4> QED BY <3>1, <4>1, HeldIsOpen DEF Answered
    <3> QED BY <1>1, <3>2, <3>3
  <2> QED BY <1>6, <2>1, <2>2, SettledEvent DEF FanIn
<1> QED BY <1>2, <1>3, <1>4, <1>5, <1>6

\* iterate begins with an event.
LEMMA StartsSplit ==
  ASSUME BatchInv, NEW e \in Events, SplitStart(e)
  PROVE  BatchInv'
<1> USE DEF bufferVars
<1>1. BatchTypes /\ Splits(e) /\ e \in Channel /\ MaxElements \in Nat
  BY InvParts, ChannelIs, BatchBoundsAssumption
<1>2. /\ shape' = shape /\ inbox' = inbox /\ buffers' = buffers /\ batches' = batches /\ broken' = broken
      /\ number' = number /\ fanIn' = fanIn /\ chan' = chan /\ learned' = learned /\ input' = input \ {e}
      /\ e \in input
  BY DEF SplitStart
<1>3. PICK n \in 1..MaxElements : array' = [array EXCEPT ![e] = n]
  BY DEF SplitStart
<1>4. array' \in [Events -> Nat] /\ array'[e] = n /\ \A f \in Events : f # e => array'[f] = array[f]
  BY <1>1, <1>3 DEF BatchTypes
<1>5. BatchTypes'
  BY <1>1, <1>2, <1>4 DEF BatchTypes
<1>6. Single'
  BY <1>2, InvParts DEF Single
<1>7. ASSUME NEW c \in Channel PROVE Kept(c)'
  <2>1. Unsent(c)' => Unsent(c)
    BY <1>2, <1>4 DEF Unsent
  <2>2. Alone(c)
    BY <1>2, <2>1 DEF Alone, Stays
  <2> QED BY <2>2, InvParts, AloneKept
<1>8. \A b \in batches' : Counts(b)'
  BY <1>2, InvParts DEF Counts
<1>9. ASSUME NEW f \in Events PROVE Splits(f)'
  <2>1. Splits(f) /\ \A c : Held(c)' <=> Held(c)
    BY <1>2, InvParts DEF Held, InBuffers, InBatches, InMessages
  <2>2. CASE f = e
    <3>1. array'[f] + number'[f] <= MaxElements /\ f \notin input' /\ f \notin fanIn'
      BY <1>1, <1>2, <1>4, <2>1, <2>2 DEF Splits, BatchTypes
    <3> QED BY <1>2, <2>1, <3>1 DEF Splits
  <2>3. CASE f # e
    BY <1>2, <1>4, <2>1, <2>3 DEF Splits
  <2> QED BY <2>2, <2>3
<1> QED BY <1>5, <1>6, <1>7, <1>8, <1>9 DEF BatchInv

\* A message of a completion that was not sent enters the channel.
Enters(c) ==
  /\ \E m : m.chan = c /\ m.key \in Keys /\ inbox' = Append(inbox, m)
  /\ UNCHANGED <<shape, buffers, batches, chan, broken, learned>>
  /\ ~Unsent(c)' /\ \A d \in Channel : Unsent(d)' => Unsent(d)

LEMMA SentKept ==
  ASSUME BatchInv, NEW c \in Channel, Unsent(c), Enters(c)
  PROVE  /\ IsASequence(inbox') /\ \A i \in DOMAIN inbox' : AMessage(inbox'[i])
         /\ Single' /\ \A d \in Channel : Kept(d)' /\ (Held(d)' => Held(d) \/ d = c)
<1>1. PICK m : m.chan = c /\ m.key \in Keys /\ inbox' = Append(inbox, m)
  BY DEF Enters
<1>2. PICK n \in DOMAIN inbox' : inbox'[n] = m /\ \A i \in DOMAIN inbox' : i = n \/ i \in DOMAIN inbox
  BY <1>1, InvParts, MessageAdded DEF BatchTypes
<1>3. IsASequence(inbox') /\ \A i \in DOMAIN inbox : inbox'[i] = inbox[i]
  BY <1>1, InvParts, MessageAdded DEF BatchTypes
<1>4. \A i \in DOMAIN inbox' : AMessage(inbox'[i])
  BY <1>1, <1>2, <1>3, InvParts DEF BatchTypes, AMessage
<1>5. /\ shape' = shape /\ buffers' = buffers /\ batches' = batches /\ chan' = chan /\ broken' = broken
      /\ learned' = learned
  BY DEF Enters
<1>6. Kept(c) /\ ~Held(c)
  BY InvParts DEF Kept
<1>7. \A i \in DOMAIN inbox : inbox[i].chan # c
  BY <1>6 DEF Held, InMessages
<1>8. Single'
  BY <1>1, <1>2, <1>3, <1>7, InvParts DEF Single
<1>9. Kept(c)'
  <2>1. ~InBuffers(c)' /\ ~InBatches(c)'
    BY <1>5, <1>6 DEF Held, InBuffers, InBatches, InMessages
  <2>2. OnePlace(c)'
    BY <2>1 DEF OnePlace, InBuffers, InBatches
  <2>3. Fresh(c)' /\ c \notin broken'
    BY <1>5, <1>6 DEF Kept, Fresh, BatchLeaves
  <2>4. \A b \in batches' : c \notin b.upstreams
    BY <2>1 DEF InBatches
  <2> QED BY <1>5, <1>6, <2>2, <2>3, <2>4 DEF Kept, Enters
<1>10. ASSUME NEW d \in Channel PROVE d # c => Kept(d)'
  <2> SUFFICES ASSUME d # c PROVE Kept(d)'
    OBVIOUS
  <2>1. InMessages(d, inbox') => InMessages(d, inbox)
    BY <1>1, <1>2, <1>3 DEF InMessages
  <2>2. Alone(d)
    BY <1>5, <2>1 DEF Alone, Stays, Enters
  <2> QED BY <2>2, InvParts, AloneKept
<1>11. ASSUME NEW d \in Channel PROVE Held(d)' => Held(d) \/ d = c
  <2>1. InMessages(d, inbox') => InMessages(d, inbox) \/ d = c
    BY <1>1, <1>2, <1>3 DEF InMessages
  <2> QED BY <1>5, <2>1 DEF Held, InBuffers, InBatches, InMessages
<1> QED BY <1>3, <1>4, <1>8, <1>9, <1>10, <1>11

\* What is sent has a key, whatever the message.
LEMMA SendEnters ==
  ASSUME NEW c, NEW json, NEW failed, shape \in BatchSetups, Send(c, json, failed)
  PROVE  \E m : m.chan = c /\ m.key \in Keys /\ inbox' = Append(inbox, m)
<1>1. PICK k \in BufferKeys : inbox' = Append(inbox, Message(c, k, json, failed))
  BY DEF Send
<1>2. k \in Keys
  BY BatchBoundsAssumption DEF BufferKeys
<1> QED BY <1>1, <1>2 DEF Message

LEMMA EventsSent ==
  ASSUME BatchInv, NEW e \in Events, SendDirect(e) \/ SplitErrs(e)
  PROVE  BatchInv'
<1> USE DEF bufferVars
<1>1. /\ shape' = shape /\ buffers' = buffers /\ batches' = batches /\ chan' = chan /\ broken' = broken
      /\ array' = array /\ number' = number /\ fanIn' = fanIn /\ learned' = learned
      /\ e \in input /\ input' = input \ {e}
  BY DEF SendDirect, SplitErrs
<1>2. BatchTypes /\ e \in Channel /\ Splits(e) /\ Unsent(e)
  BY <1>1, InvParts, ChannelIs DEF Unsent
<1>3. \E m : m.chan = e /\ m.key \in Keys /\ inbox' = Append(inbox, m)
  BY <1>2, SendEnters DEF SendDirect, SplitErrs, BatchTypes
<1>4. ~Unsent(e)' /\ \A d \in Channel : Unsent(d)' => Unsent(d)
  BY <1>1, <1>2 DEF Unsent, Splits
<1>5. Enters(e)
  BY <1>1, <1>3, <1>4 DEF Enters
<1>6. /\ IsASequence(inbox') /\ \A i \in DOMAIN inbox' : AMessage(inbox'[i])
      /\ Single' /\ \A d \in Channel : Kept(d)' /\ (Held(d)' => Held(d) \/ d = e)
  BY <1>2, <1>5, SentKept
<1>7. BatchTypes'
  BY <1>1, <1>2, <1>6 DEF BatchTypes
<1>8. \A b \in batches' : Counts(b)'
  BY <1>1, InvParts DEF Counts
<1>9. ASSUME NEW f \in Events PROVE Splits(f)'
  <2>1. Splits(f) /\ f \in Channel /\ \A i \in 1..MaxElements : <<f, i>> \in Channel /\ <<f, i>> # e
    BY InvParts, ChannelIs
  <2>2. (Held(f) => number[f] = 0)'
    BY <1>1, <1>2, <1>6, <2>1 DEF Splits
  <2> QED BY <1>1, <1>6, <2>1, <2>2 DEF Splits
<1> QED BY <1>6, <1>7, <1>8, <1>9 DEF BatchInv

LEMMA ElementsSent ==
  ASSUME BatchInv, NEW e \in Events, SplitSend(e)
  PROVE  BatchInv'
<1> USE DEF bufferVars
<1>1. /\ shape' = shape /\ buffers' = buffers /\ batches' = batches /\ chan' = chan /\ broken' = broken
      /\ input' = input /\ learned' = learned /\ array[e] > 0
      /\ number' = [number EXCEPT ![e] = @ + 1] /\ array' = [array EXCEPT ![e] = @ - 1]
      /\ fanIn' = IF array[e] = 1 THEN fanIn \cup {e} ELSE fanIn
  BY DEF SplitSend
<1>2. BatchTypes /\ e \in Channel /\ Splits(e) /\ Kept(e) /\ Unsent(e) /\ MaxElements \in Nat
  BY <1>1, InvParts, ChannelIs, BatchBoundsAssumption DEF Unsent
<1>3. /\ array[e] \in Nat /\ number[e] \in Nat /\ array'[e] = array[e] - 1 /\ number'[e] = number[e] + 1
      /\ \A f \in Events : f # e => array'[f] = array[f] /\ number'[f] = number[f]
      /\ array' \in [Events -> Nat] /\ number' \in [Events -> Nat]
  BY <1>1, <1>2 DEF BatchTypes
<1>4. PICK c : c = <<e, number[e] + 1>>
  OBVIOUS
<1>5. number[e] + 1 \in 1..MaxElements
  BY <1>1, <1>2, <1>3 DEF Splits
<1>6. c \in Channel /\ c \notin Events /\ c[1] = e /\ c[2] = number[e] + 1
  BY <1>4, <1>5, ChannelIs
<1>7. Unsent(c) /\ ~Unsent(c)'
  BY <1>3, <1>6 DEF Unsent
<1>8. ASSUME NEW d \in Channel, Unsent(d)' PROVE Unsent(d)
  <2>1. CASE d \in Events
    BY <1>1, <1>3, <1>8, <2>1 DEF Unsent
  <2>2. CASE d \notin Events
    <3>1. PICK f \in Events, i \in 1..MaxElements : d = <<f, i>>
      BY <2>2, ChannelIs
    <3>2. i > number'[f]
      BY <1>8, <2>2, <3>1 DEF Unsent
    <3>3. i > number[f]
      BY <1>2, <1>3, <3>2 DEF BatchTypes
    <3> QED BY <2>2, <3>1, <3>3 DEF Unsent
  <2> QED BY <2>1, <2>2
<1>9. \E m : m.chan = c /\ m.key \in Keys /\ inbox' = Append(inbox, m)
  <2>1. Send(c, TRUE, FALSE)
    BY <1>4 DEF SplitSend
  <2> QED BY <1>2, <2>1, SendEnters DEF BatchTypes
<1>10. Enters(c)
  BY <1>1, <1>7, <1>8, <1>9 DEF Enters
<1>11. /\ IsASequence(inbox') /\ \A i \in DOMAIN inbox' : AMessage(inbox'[i])
       /\ Single' /\ \A d \in Channel : Kept(d)' /\ (Held(d)' => Held(d) \/ d = c)
  BY <1>6, <1>7, <1>10, SentKept
<1>12. BatchTypes'
  BY <1>1, <1>2, <1>3, <1>11 DEF BatchTypes
<1>13. \A b \in batches' : Counts(b)'
  BY <1>1, InvParts DEF Counts
<1>14. ASSUME NEW f \in Events PROVE Splits(f)'
  <2>1. Splits(f) /\ f \in Channel /\ f # c /\ \A i \in 1..MaxElements : <<f, i>> \in Channel
    BY <1>6, InvParts, ChannelIs
  <2>2. CASE f = e
    <3>1. ~Held(f)' /\ chan'[f].verdict # "ok"
      BY <1>1, <1>2, <1>11, <2>1, <2>2 DEF Kept, Fresh
    <3>2. array'[f] + number'[f] <= MaxElements /\ (f \in fanIn' => array'[f] = 0) /\ f \notin input'
      BY <1>1, <1>2, <1>3, <2>2 DEF Splits
    <3> QED BY <1>1, <2>1, <3>1, <3>2 DEF Splits
  <2>3. CASE f # e
    <3>1. \A i \in 1..MaxElements : <<f, i>> # c
      BY <1>4, <2>3
    <3>2. f \in fanIn' <=> f \in fanIn
      BY <1>1, <2>3
    <3> QED BY <1>1, <1>3, <1>11, <2>1, <2>3, <3>1, <3>2 DEF Splits
  <2> QED BY <2>2, <2>3
<1> QED BY <1>11, <1>12, <1>13, <1>14 DEF BatchInv

\* What is held is dropped, or stays where it is; nothing is signalled.
LEMMA DroppedOrKept ==
  ASSUME BatchInv, UNCHANGED <<shape, upVars, chan, broken>>,
         inbox' = inbox \/ inbox' = <<>>,
         buffers' = buffers \/ buffers' = [k \in Keys |-> <<>>],
         batches' \subseteq batches, DOMAIN learned' = Events,
         \A e \in Events : learned'[e] = "ok" => learned[e] = "ok" \/ chan[e].verdict = "ok"
  PROVE  BatchInv'
<1>1. /\ shape' = shape /\ input' = input /\ array' = array /\ number' = number /\ fanIn' = fanIn
      /\ chan' = chan /\ broken' = broken /\ BatchTypes
  BY InvParts DEF upVars
<1>2. DOMAIN <<>> = {} /\ IsASequence(<<>>) /\ \A c : ~InMessages(c, <<>>)
  BY NoMessages
<1>3. IsASequence(inbox') /\ \A i \in DOMAIN inbox' : AMessage(inbox'[i])
  BY <1>1, <1>2 DEF BatchTypes
<1>4. /\ DOMAIN buffers' = Keys
      /\ \A k \in Keys : IsASequence(buffers'[k]) /\ \A i \in DOMAIN buffers'[k] : AMessage(buffers'[k][i])
  <2>1. CASE buffers' = buffers
    BY <1>1, <2>1 DEF BatchTypes
  <2>2. CASE buffers' = [k \in Keys |-> <<>>]
    BY <1>2, <2>2
  <2> QED BY <2>1, <2>2
<1>5. BatchTypes'
  BY <1>1, <1>3, <1>4 DEF BatchTypes
<1>6. Single'
  BY <1>2, InvParts DEF Single
<1>7. ASSUME NEW c \in Channel PROVE Stays(c)
  <2>1. \A k \in Keys : InMessages(c, buffers'[k]) => InMessages(c, buffers[k])
    BY <1>2
  <2>2. InMessages(c, inbox') => InMessages(c, inbox)
    BY <1>2
  <2> QED BY <2>1, <2>2 DEF Stays
<1>8. ASSUME NEW c \in Channel PROVE Kept(c)'
  <2>1. Alone(c)
    BY <1>1, <1>7 DEF Alone, Unsent
  <2> QED BY <2>1, InvParts, AloneKept
<1>9. \A b \in batches' : Counts(b)'
  BY InvParts DEF Counts
<1>10. \A c \in Channel : Held(c)' => Held(c)
  BY <1>7 DEF Stays, Held, InBuffers, InBatches, InMessages
<1>11. ASSUME NEW e \in Events PROVE Splits(e)'
  <2>1. Splits(e) /\ e \in Channel /\ \A i \in 1..MaxElements : <<e, i>> \in Channel
    BY InvParts, ChannelIs
  <2> QED BY <1>1, <1>10, <2>1 DEF Splits
<1> QED BY <1>5, <1>6, <1>8, <1>9, <1>11 DEF BatchInv

\* Steps that signal nothing.
LEMMA QuietSteps ==
  ASSUME BatchInv,
         \/ \E e \in Events : SourceHears(e)
         \/ LoopTop \/ ReceiveOther \/ ChannelClosed \/ CloseChannel \/ BelowEnds \/ CancelBuffer
         \/ \E b \in batches : ProxyClosed(b)
         \/ UNCHANGED batchVars
  PROVE  BatchInv'
<1> USE DEF bufferVars
<1>1. BatchTypes
  BY InvParts
<1>2. ASSUME NEW e \in Events, SourceHears(e) PROVE BatchInv'
  <2>1. DOMAIN learned' = Events
    BY <1>1, <1>2 DEF SourceHears, BatchTypes
  <2>2. \A f \in Events : learned'[f] = "ok" => learned[f] = "ok" \/ chan[f].verdict = "ok"
    BY <1>1, <1>2 DEF SourceHears, BatchTypes
  <2> QED BY <1>2, <2>1, <2>2, DroppedOrKept DEF SourceHears
<1>3. CASE LoopTop
  BY <1>1, <1>3, DroppedOrKept DEF LoopTop, BatchTypes
<1>4. CASE ReceiveOther
  BY <1>1, <1>4, DroppedOrKept DEF ReceiveOther, BatchTypes
<1>5. CASE ChannelClosed
  BY <1>1, <1>5, DroppedOrKept DEF ChannelClosed, BatchTypes
<1>6. CASE CloseChannel
  BY <1>1, <1>6, DroppedOrKept DEF CloseChannel, BatchTypes
<1>7. CASE BelowEnds
  BY <1>1, <1>7, DroppedOrKept DEF BelowEnds, BatchTypes
<1>8. CASE CancelBuffer
  BY <1>1, <1>8, DroppedOrKept DEF CancelBuffer, BatchTypes
<1>9. ASSUME NEW b \in batches, ProxyClosed(b) PROVE BatchInv'
  BY <1>1, <1>9, DroppedOrKept DEF ProxyClosed, BatchTypes
<1>10. CASE UNCHANGED batchVars
  BY <1>1, <1>10, DroppedOrKept DEF batchVars, BatchTypes
<1> QED BY <1>2, <1>3, <1>4, <1>5, <1>6, <1>7, <1>8, <1>9, <1>10

-----------------------------------------------------------------------------
(***************************************************************************)
(* The buffer.                                                             *)
(***************************************************************************)

\* A step that touches the completions in T only, which were held.
LEMMA Touched ==
  ASSUME BatchInv, BatchTypes', Single', UNCHANGED <<shape, upVars, learned>>, NEW T,
         \A c \in Channel : c \in T => Held(c) /\ Kept(c)',
         \A c \in Channel : c \notin T => Stays(c) /\ chan'[c] = chan[c] /\ (c \in broken' => c \in broken),
         \A b \in batches' : Counts(b)'
  PROVE  BatchInv'
<1>1. \A c \in Channel : Kept(c) /\ (Unsent(c)' <=> Unsent(c))
  BY InvParts DEF Unsent, upVars
<1>2. \A c \in Channel : c \notin T => Alone(c)
  BY <1>1 DEF Alone
<1>3. \A c \in Channel : Kept(c)'
  BY <1>1, <1>2, AloneKept
<1>4. \A c \in Channel : Held(c)' => Held(c)
  BY DEF Stays, Held, InBuffers, InBatches, InMessages
<1>5. \A e \in Events : Splits(e) /\ (chan'[e] = chan[e] \/ Held(e))
  BY InvParts, ChannelIs
<1>6. \A e \in Events : Splits(e)'
  BY <1>1, <1>4, <1>5, SplitsKept
<1> QED BY <1>3, <1>6 DEF BatchInv

\* The completions of messages that leave the buffer are with a batch or signalled
\* by the leaf, and with nobody else.
Passed(messages, k, user, error, v) ==
  \/ shape.leaves > 0 /\ batches' = batches \cup {Batch(messages, k, user, error)} /\ chan' = chan
  \/ batches' = batches /\ (chan' = chan \/ chan' = Signalled(chan, Channels(messages), 1, v))

LEMMA Flushed ==
  ASSUME BatchInv, NEW messages, NEW k, NEW user, NEW error \in BOOLEAN, NEW v \in {"ok", "err"},
         Passed(messages, k, user, error, v),
         UNCHANGED <<shape, upVars, broken>>,
         \A i \in DOMAIN messages :
           LET c == messages[i].chan IN
             /\ c \in Channel /\ (InMessages(c, inbox) \/ InBuffers(c))
             /\ ~InMessages(c, inbox') /\ \A j \in Keys : ~InMessages(c, buffers'[j])
  PROVE  /\ chan' \in [Channel -> Judgement]
         /\ \A b \in batches' : /\ DOMAIN b = BatchFields /\ b.upstreams \subseteq Channel
                                /\ b.proxy \in BOOLEAN /\ b.left \in Nat /\ b.remaining \in Nat
                                /\ Counts(b)'
         /\ \A c \in Channel : c \in Channels(messages) => Held(c) /\ Kept(c)'
         /\ \A c \in Channel : c \notin Channels(messages) =>
              chan'[c] = chan[c] /\ \A b \in batches' : c \in b.upstreams => b \in batches
<1>a. PICK cs : cs = Channels(messages)
  OBVIOUS
<1>b. PICK new : new = Batch(messages, k, user, error)
  OBVIOUS
<1>1. BatchTypes /\ shape' = shape /\ broken' = broken /\ shape.leaves \in Nat /\ BatchLeaves \in Nat \ {0}
      /\ (shape.leaves > 0 => BatchLeaves = shape.leaves) /\ (shape.leaves = 0 => BatchLeaves = 1)
  BY InvParts, LeavesCounted
<1>2. \A c \in cs : /\ c \in Channel /\ (InMessages(c, inbox) \/ InBuffers(c))
                    /\ ~InMessages(c, inbox') /\ \A j \in Keys : ~InMessages(c, buffers'[j])
  BY <1>a DEF Channels
<1>3. /\ DOMAIN new = BatchFields /\ new.upstreams = cs /\ new.proxy = (Cardinality(cs) > 1)
      /\ new.left = shape.leaves /\ new.remaining = BatchLeaves /\ new.verdict = "none"
  BY <1>a, <1>b DEF Batch, BatchFields
<1>4. \/ shape.leaves > 0 /\ batches' = batches \cup {new} /\ chan' = chan
      \/ batches' = batches /\ (chan' = chan \/ chan' = Signalled(chan, cs, 1, v))
  BY <1>a, <1>b DEF Passed
<1>6. chan' \in [Channel -> Judgement] /\ \A c \in Channel : c \notin cs => chan'[c] = chan[c]
  BY <1>1, <1>4, SignalledIs DEF BatchTypes
<1>7. ASSUME NEW b \in batches'
      PROVE  /\ DOMAIN b = BatchFields /\ b.upstreams \subseteq Channel
             /\ b.proxy \in BOOLEAN /\ b.left \in Nat /\ b.remaining \in Nat
             /\ Counts(b)'
  <2>1. CASE b \in batches
    BY <1>1, <2>1, InvParts DEF BatchTypes, Counts
  <2>2. CASE b = new /\ shape.leaves > 0
    <3>1. cs \subseteq Channel /\ (Cardinality(cs) > 1) \in BOOLEAN
      BY <1>2
    <3>2. b.left = shape.leaves /\ b.remaining = BatchLeaves /\ b.verdict = "none"
      BY <1>3, <2>2
    <3>3. b.left \in Nat /\ b.remaining \in Nat /\ b.left >= 1 /\ b.left <= b.remaining
      BY <1>1, <2>2, <3>2
    <3>4. Counts(b)'
      BY <3>2, <3>3 DEF Counts
    <3>5. b.upstreams \subseteq Channel /\ b.proxy \in BOOLEAN /\ DOMAIN b = BatchFields
      BY <1>3, <2>2, <3>1
    <3> QED BY <3>3, <3>4, <3>5
  <2> QED BY <1>4, <2>1, <2>2
<1>8. ASSUME NEW c \in cs PROVE Held(c) /\ Kept(c)'
  <2>1. /\ Kept(c) /\ c \in Channel /\ (InMessages(c, inbox) \/ InBuffers(c))
        /\ ~InMessages(c, inbox') /\ \A j \in Keys : ~InMessages(c, buffers'[j])
    BY <1>2, InvParts
  <2>2. Held(c) /\ ~Unsent(c) /\ Fresh(c) /\ c \notin broken /\ \A b \in batches : c \notin b.upstreams
    BY <2>1 DEF Kept, Held, OnePlace, InBatches
  <2>3. ~Unsent(c)'
    BY <2>2 DEF Unsent, upVars
  <2>4. CASE batches' = batches
    <3>1. Dropped(c)
      BY <2>1, <2>2, <2>4 DEF Dropped
    <3>2. chan'[c].verdict # "none" => chan'[c].remaining = 0
      <4>1. CASE chan' = chan
        BY <2>2, <4>1 DEF Fresh
      <4>2. CASE chan' = Signalled(chan, cs, 1, v)
        <5>1. /\ chan'[c].remaining = IF chan[c].remaining > 1 THEN chan[c].remaining - 1 ELSE 0
              /\ chan'[c].verdict = IF chan[c].remaining \in 1..1 THEN v ELSE chan[c].verdict
          BY <1>1, <1>8, <2>1, <4>2, SignalledIs DEF BatchTypes
        <5>2. chan[c].remaining \in Nat /\ chan[c].verdict = "none"
          BY <1>1, <2>2 DEF Fresh
        <5> QED BY <5>1, <5>2
      <4> QED BY <1>1, <1>4, <2>4, <4>1, <4>2
    <3> QED BY <1>1, <2>1, <2>2, <2>3, <3>1, <3>2, DroppedKept
  <2>5. CASE shape.leaves > 0 /\ batches' = batches \cup {new} /\ chan' = chan
    <3>1. chan' = chan /\ Fresh(c)' /\ chan[c].remaining = BatchLeaves /\ chan[c].verdict = "none"
      BY <1>1, <2>2, <2>5 DEF Fresh, BatchLeaves
    <3>2. \A b \in batches' : c \in b.upstreams => b = new
      BY <2>2, <2>5
    <3>3. ~InMessages(c, inbox)' /\ ~InBuffers(c)'
      BY <2>1 DEF InMessages, InBuffers
    <3>4. OnePlace(c)'
      BY <2>1, <3>2, <3>3 DEF OnePlace, InMessages
    <3>5. Follows(new, c)'
      BY <1>1, <1>3, <2>2, <3>1 DEF Follows
    <3>6. (\A b \in batches : c \in b.upstreams => Follows(b, c))'
      BY <3>2, <3>5
    <3> QED BY <1>1, <2>2, <2>3, <3>1, <3>3, <3>4, <3>6 DEF Kept
  <2> QED BY <1>4, <2>2, <2>4, <2>5
<1>9. \A c \in Channel : c \notin cs => \A b \in batches' : c \in b.upstreams => b \in batches
  BY <1>3, <1>4
<1> QED BY <1>a, <1>6, <1>7, <1>8, <1>9


\* What leaves the buffer leaves the rest as it was.
LEMMA PassedOn ==
  ASSUME BatchInv, NEW messages, NEW k, NEW user, NEW error \in BOOLEAN, NEW v \in {"ok", "err"},
         Passed(messages, k, user, error, v),
         UNCHANGED <<shape, upVars, learned, broken>>,
         IsASequence(inbox'), \A i \in DOMAIN inbox' : AMessage(inbox'[i]), Single',
         DOMAIN buffers' = Keys,
         \A j \in Keys : IsASequence(buffers'[j]) /\ \A i \in DOMAIN buffers'[j] : AMessage(buffers'[j][i]),
         \A c : /\ InMessages(c, inbox') => InMessages(c, inbox)
                /\ \A j \in Keys : InMessages(c, buffers'[j]) => InMessages(c, buffers[j]),
         \A i \in DOMAIN messages :
           LET c == messages[i].chan IN
             /\ c \in Channel /\ (InMessages(c, inbox) \/ InBuffers(c))
             /\ ~InMessages(c, inbox') /\ \A j \in Keys : ~InMessages(c, buffers'[j])
  PROVE  BatchInv'
<1>1. /\ chan' \in [Channel -> Judgement]
      /\ \A b \in batches' : /\ DOMAIN b = BatchFields /\ b.upstreams \subseteq Channel
                             /\ b.proxy \in BOOLEAN /\ b.left \in Nat /\ b.remaining \in Nat
                             /\ Counts(b)'
      /\ \A c \in Channel : c \in Channels(messages) => Held(c) /\ Kept(c)'
      /\ \A c \in Channel : c \notin Channels(messages) =>
           chan'[c] = chan[c] /\ \A b \in batches' : c \in b.upstreams => b \in batches
  BY Flushed
<1>2. BatchTypes /\ UNCHANGED <<input, array, number, fanIn>>
  BY InvParts DEF upVars
<1>3. BatchTypes'
  BY <1>1, <1>2 DEF BatchTypes
<1>4. \A c \in Channel : c \notin Channels(messages) =>
        Stays(c) /\ chan'[c] = chan[c] /\ (c \in broken' => c \in broken)
  BY <1>1 DEF Stays
<1>5. \A b \in batches' : Counts(b)'
  BY <1>1
<1> QED BY <1>1, <1>3, <1>4, <1>5, Touched

LEMMA FlushPasses ==
  ASSUME NEW messages, NEW k, NEW user, shape \in BatchSetups, Flush(messages, k, user)
  PROVE  Passed(messages, k, user, FALSE, "ok")
<1>1. shape.leaves \in Nat
  BY LeavesCounted
<1>2. CASE shape.leaves = 0
  <2>1. batches' = batches
    BY <1>2 DEF Flush
  <2>2. chan' = Signalled(chan, Channels(messages), 1, "ok")
    BY <1>2 DEF Flush
  <2> QED BY <2>1, <2>2 DEF Passed
<1>3. CASE shape.leaves > 0
  <2>1. chan' = chan
    BY <1>1, <1>3 DEF Flush
  <2>2. batches' = batches \/ batches' = batches \cup {Batch(messages, k, user, FALSE)}
    BY DEF Flush
  <2> QED BY <1>3, <2>1, <2>2 DEF Passed
<1>4. shape.leaves = 0 \/ shape.leaves > 0
  BY <1>1
<1> QED BY <1>2, <1>3, <1>4

\* A key's buffer that is emptied.
LEMMA Emptied ==
  ASSUME BatchInv, NEW k \in Keys, buffers' = [buffers EXCEPT ![k] = <<>>]
  PROVE  /\ DOMAIN buffers' = Keys
         /\ \A j \in Keys : IsASequence(buffers'[j]) /\ \A i \in DOMAIN buffers'[j] : AMessage(buffers'[j][i])
         /\ \A c : ~InMessages(c, buffers'[k])
         /\ \A j \in Keys : j # k => buffers'[j] = buffers[j]
         /\ \A c : \A j \in Keys : InMessages(c, buffers'[j]) => InMessages(c, buffers[j])
<1>1. /\ DOMAIN buffers = Keys
      /\ \A j \in Keys : IsASequence(buffers[j]) /\ \A i \in DOMAIN buffers[j] : AMessage(buffers[j][i])
  BY InvParts DEF BatchTypes
<1>2. DOMAIN buffers' = Keys /\ buffers'[k] = <<>> /\ \A j \in Keys : j # k => buffers'[j] = buffers[j]
  BY <1>1
<1>3. IsASequence(<<>>) /\ DOMAIN <<>> = {} /\ \A c : ~InMessages(c, <<>>)
  BY NoMessages
<1>4. \A c : ~InMessages(c, buffers'[k])
  BY <1>2, <1>3
<1>5. ASSUME NEW j \in Keys
      PROVE  IsASequence(buffers'[j]) /\ \A i \in DOMAIN buffers'[j] : AMessage(buffers'[j][i])
  BY <1>1, <1>2, <1>3
<1>6. ASSUME NEW c, NEW j \in Keys PROVE InMessages(c, buffers'[j]) => InMessages(c, buffers[j])
  BY <1>2, <1>4
<1> QED BY <1>2, <1>4, <1>5, <1>6

\* The completions of the messages of one key are nowhere else.
LEMMA InOneBuffer ==
  ASSUME BatchInv, NEW k \in Keys, NEW i \in DOMAIN buffers[k]
  PROVE  LET c == buffers[k][i].chan IN
           /\ c \in Channel /\ InBuffers(c) /\ ~InMessages(c, inbox)
           /\ \A j \in Keys : j # k => ~InMessages(c, buffers[j])
<1> DEFINE c == buffers[k][i].chan
<1>1. c \in Channel /\ InMessages(c, buffers[k])
  BY InvParts DEF BatchTypes, AMessage, InMessages
<1> HIDE DEF c
<1>2. OnePlace(c) /\ InBuffers(c)
  BY <1>1, InvParts DEF Kept, InBuffers
<1>3. ~InMessages(c, inbox) /\ \A j \in Keys : j # k => ~InMessages(c, buffers[j])
  BY <1>1, <1>2 DEF OnePlace
<1> QED BY <1>1, <1>2, <1>3 DEF c

LEMMA KeyFlushed ==
  ASSUME BatchInv, NEW k \in Keys, Timeout(k) \/ ShutdownFlush(k)
  PROVE  BatchInv'
<1>1. /\ UNCHANGED <<shape, upVars, learned, broken>> /\ inbox' = inbox
      /\ Flush(buffers[k], k, session[k]) /\ buffers' = [buffers EXCEPT ![k] = <<>>]
  BY DEF Timeout, ShutdownFlush, FlushKey
<1>2. Passed(buffers[k], k, session[k], FALSE, "ok")
  BY <1>1, InvParts, FlushPasses
<1>3. /\ DOMAIN buffers' = Keys
      /\ \A j \in Keys : IsASequence(buffers'[j]) /\ \A i \in DOMAIN buffers'[j] : AMessage(buffers'[j][i])
      /\ \A c : ~InMessages(c, buffers'[k])
      /\ \A j \in Keys : j # k => buffers'[j] = buffers[j]
      /\ \A c : \A j \in Keys : InMessages(c, buffers'[j]) => InMessages(c, buffers[j])
  BY <1>1, Emptied
<1>4. IsASequence(inbox') /\ (\A i \in DOMAIN inbox' : AMessage(inbox'[i])) /\ Single'
  BY <1>1, InvParts DEF BatchTypes, Single
<1>5. ASSUME NEW i \in DOMAIN buffers[k]
      PROVE  LET c == buffers[k][i].chan IN
               /\ c \in Channel /\ (InMessages(c, inbox) \/ InBuffers(c))
               /\ ~InMessages(c, inbox') /\ \A j \in Keys : ~InMessages(c, buffers'[j])
  <2>1. PICK c : c = buffers[k][i].chan
    OBVIOUS
  <2>2. /\ c \in Channel /\ InBuffers(c) /\ ~InMessages(c, inbox)
        /\ \A j \in Keys : j # k => ~InMessages(c, buffers[j])
    BY <2>1, InOneBuffer
  <2>3. ASSUME NEW j \in Keys PROVE ~InMessages(c, buffers'[j])
    BY <1>3, <2>2
  <2> QED BY <1>1, <2>1, <2>2, <2>3
<1> QED BY <1>1, <1>2, <1>3, <1>4, <1>5, PassedOn

\* The first message of the channel is taken.
LEMMA HeadTaken ==
  ASSUME BatchInv, inbox # <<>>, inbox' = Tail(inbox)
  PROVE  /\ IsASequence(inbox') /\ (\A i \in DOMAIN inbox' : AMessage(inbox'[i])) /\ Single'
         /\ \A c : InMessages(c, inbox') => InMessages(c, inbox)
         /\ AMessage(Head(inbox)) /\ InMessages(Head(inbox).chan, inbox)
         /\ ~InMessages(Head(inbox).chan, inbox')
<1>1. /\ IsASequence(Tail(inbox)) /\ 1 \in DOMAIN inbox /\ Head(inbox) = inbox[1]
      /\ \A i \in DOMAIN Tail(inbox) : i + 1 \in DOMAIN inbox /\ i + 1 # 1 /\ Tail(inbox)[i] = inbox[i + 1]
      /\ \A i, j \in DOMAIN Tail(inbox) : i + 1 = j + 1 => i = j
  BY InvParts, MessagesLeft DEF BatchTypes
<1>2. Single /\ \A i \in DOMAIN inbox : AMessage(inbox[i])
  BY InvParts DEF BatchTypes
<1>3. Single'
  BY <1>1, <1>2 DEF Single
<1>4. \A i \in DOMAIN inbox' : AMessage(inbox'[i])
  BY <1>1, <1>2
<1>5. \A c : InMessages(c, inbox') => InMessages(c, inbox)
  BY <1>1 DEF InMessages
<1>6. AMessage(Head(inbox)) /\ InMessages(Head(inbox).chan, inbox)
  BY <1>1, <1>2 DEF InMessages
<1>7. ~InMessages(Head(inbox).chan, inbox')
  BY <1>1, <1>2 DEF InMessages, Single
<1> QED BY <1>1, <1>3, <1>4, <1>5, <1>6, <1>7

LEMMA FailurePassed ==
  ASSUME BatchInv, ReceiveFailed
  PROVE  BatchInv'
<1>1. PICK m : m = Head(inbox)
  OBVIOUS
<1>2. /\ IsASequence(inbox') /\ (\A i \in DOMAIN inbox' : AMessage(inbox'[i])) /\ Single'
      /\ \A c : InMessages(c, inbox') => InMessages(c, inbox)
      /\ AMessage(m) /\ InMessages(m.chan, inbox) /\ ~InMessages(m.chan, inbox')
  BY <1>1, HeadTaken DEF ReceiveFailed
<1>3. UNCHANGED <<shape, upVars, learned, broken>> /\ buffers' = buffers
  BY DEF ReceiveFailed
<1>4. DOMAIN <<m>> = {1} /\ <<m>>[1] = m
  OBVIOUS
<1>5. Channels(<<m>>) = {m.chan}
  BY <1>4 DEF Channels
<1>6. Passed(<<m>>, m.key, NoUser, TRUE, "err")
  <2>1. CASE shape.leaves > 0 /\ belowUp
    <3>1. batches' = batches \cup {Batch(<<m>>, m.key, NoUser, TRUE)} /\ chan' = chan
      BY <1>1, <2>1 DEF ReceiveFailed
    <3> QED BY <2>1, <3>1 DEF Passed
  <2>2. CASE ~(shape.leaves > 0 /\ belowUp)
    <3>1. batches' = batches /\ chan' = Signalled(chan, {m.chan}, 1, "err")
      BY <1>1, <2>2 DEF ReceiveFailed
    <3> QED BY <1>5, <3>1 DEF Passed
  <2> QED BY <2>1, <2>2
<1>7. /\ DOMAIN buffers' = Keys
      /\ \A j \in Keys : IsASequence(buffers'[j]) /\ \A i \in DOMAIN buffers'[j] : AMessage(buffers'[j][i])
      /\ \A c : \A j \in Keys : InMessages(c, buffers'[j]) => InMessages(c, buffers[j])
  BY <1>3, InvParts DEF BatchTypes
<1>8. m.chan \in Channel /\ \A j \in Keys : ~InMessages(m.chan, buffers'[j])
  <2>1. m.chan \in Channel /\ OnePlace(m.chan)
    BY <1>2, InvParts DEF AMessage, Kept
  <2> QED BY <1>2, <1>3, <2>1 DEF OnePlace, InBuffers
<1>9. ASSUME NEW i \in DOMAIN <<m>>
      PROVE  LET c == <<m>>[i].chan IN
               /\ c \in Channel /\ (InMessages(c, inbox) \/ InBuffers(c))
               /\ ~InMessages(c, inbox') /\ \A j \in Keys : ~InMessages(c, buffers'[j])
  <2>1. <<m>>[i].chan = m.chan
    BY <1>4
  <2> QED BY <1>2, <1>8, <2>1
<1> QED BY <1>2, <1>3, <1>6, <1>7, <1>9, PassedOn

\* A message that joins its buffer.
LEMMA Collected ==
  ASSUME BatchInv, inbox # <<>>, inbox' = Tail(inbox),
         buffers' = [buffers EXCEPT ![Head(inbox).key] = Append(buffers[Head(inbox).key], Head(inbox))],
         UNCHANGED <<shape, upVars, batches, chan, learned, broken>>
  PROVE  BatchInv'
<1>1. PICK m : m = Head(inbox)
  OBVIOUS
<1>2. /\ IsASequence(inbox') /\ (\A i \in DOMAIN inbox' : AMessage(inbox'[i])) /\ Single'
      /\ \A c : InMessages(c, inbox') => InMessages(c, inbox)
      /\ AMessage(m) /\ InMessages(m.chan, inbox) /\ ~InMessages(m.chan, inbox')
  BY <1>1, HeadTaken
<1>3. PICK k \in Keys : k = m.key
  BY <1>2 DEF AMessage
<1>4. BatchTypes /\ m.chan \in Channel /\ Kept(m.chan)
  BY <1>2, InvParts DEF AMessage
<1>5. PICK messages : messages = Append(buffers[k], m)
  OBVIOUS
<1>6. /\ IsASequence(messages)
      /\ \A i \in DOMAIN buffers[k] : i \in DOMAIN messages /\ messages[i] = buffers[k][i]
      /\ \E n \in DOMAIN messages : messages[n] = m /\ \A i \in DOMAIN messages : i = n \/ i \in DOMAIN buffers[k]
  <2>1. IsASequence(buffers[k])
    BY <1>4 DEF BatchTypes
  <2> QED BY <1>5, <2>1, MessageAdded
<1>7. (\A i \in DOMAIN messages : AMessage(messages[i])) /\ \A c : InMessages(c, messages) => InMessages(c, buffers[k]) \/ c = m.chan
  BY <1>2, <1>4, <1>6 DEF BatchTypes, InMessages
<1>8. DOMAIN buffers' = Keys /\ buffers'[k] = messages /\ \A j \in Keys : j # k => buffers'[j] = buffers[j]
  BY <1>1, <1>3, <1>4, <1>5 DEF BatchTypes
<1>9. \A j \in Keys : IsASequence(buffers'[j]) /\ \A i \in DOMAIN buffers'[j] : AMessage(buffers'[j][i])
  BY <1>4, <1>6, <1>7, <1>8 DEF BatchTypes
<1>10. UNCHANGED <<input, array, number, fanIn>> /\ shape' = shape /\ batches' = batches /\ chan' = chan /\ broken' = broken
  BY DEF upVars
<1>11. BatchTypes'
  BY <1>2, <1>4, <1>8, <1>9, <1>10 DEF BatchTypes
<1>12. Held(m.chan) /\ Kept(m.chan)'
  <2>1. PICK c : c = m.chan
    OBVIOUS
  <2>2. Kept(c) /\ InMessages(c, inbox) /\ ~InMessages(c, inbox') /\ ~InBuffers(c) /\ ~InBatches(c)
    BY <1>2, <1>4, <2>1 DEF Kept, OnePlace
  <2>3. Held(c) /\ Fresh(c) /\ c \notin broken /\ ~Unsent(c)
    BY <2>2 DEF Kept, Held
  <2>4. Fresh(c)' /\ c \notin broken' /\ ~Unsent(c)'
    BY <1>10, <2>3 DEF Fresh, BatchLeaves, Unsent
  <2>5. \A j \in Keys : InMessages(c, buffers'[j]) => j = k
    BY <1>8, <2>2 DEF InBuffers
  <2>6. \A b \in batches' : c \notin b.upstreams
    BY <1>10, <2>2 DEF InBatches
  <2>7. OnePlace(c)'
    BY <2>2, <2>5, <2>6 DEF OnePlace, InMessages, InBuffers, InBatches
  <2>8. chan'[c].verdict = "none"
    BY <1>10, <2>3 DEF Fresh
  <2> QED BY <2>1, <2>3, <2>4, <2>6, <2>7, <2>8 DEF Kept
<1>13. ASSUME NEW c \in Channel, c # m.chan PROVE Stays(c)
  <2>1. \A j \in Keys : InMessages(c, buffers'[j]) => InMessages(c, buffers[j])
    BY <1>7, <1>8, <1>13
  <2> QED BY <1>2, <1>10, <2>1 DEF Stays
<1>14. \A b \in batches' : Counts(b)'
  BY <1>10, InvParts DEF Counts
<1>15. PICK T : T = {m.chan}
  OBVIOUS
<1>16. \A c \in Channel : c \in T => Held(c) /\ Kept(c)'
  BY <1>12, <1>15
<1>17. \A c \in Channel : c \notin T => Stays(c) /\ chan'[c] = chan[c] /\ (c \in broken' => c \in broken)
  BY <1>10, <1>13, <1>15
<1> QED BY <1>2, <1>11, <1>14, <1>16, <1>17, Touched

LEMMA EventReceived ==
  ASSUME BatchInv, Receive
  PROVE  BatchInv'
<1>1. PICK m : m = Head(inbox)
  OBVIOUS
<1>2. inbox # <<>> /\ inbox' = Tail(inbox) /\ UNCHANGED <<shape, upVars, learned, broken>>
  BY DEF Receive
<1>3. /\ IsASequence(inbox') /\ (\A i \in DOMAIN inbox' : AMessage(inbox'[i])) /\ Single'
      /\ \A c : InMessages(c, inbox') => InMessages(c, inbox)
      /\ AMessage(m) /\ InMessages(m.chan, inbox) /\ ~InMessages(m.chan, inbox')
  BY <1>1, <1>2, HeadTaken
<1>4. PICK k \in Keys : k = m.key
  BY <1>3 DEF AMessage
<1>5. PICK messages : messages = Append(buffers[k], m)
  OBVIOUS
<1>6. \/ buffers' = [buffers EXCEPT ![k] = messages] /\ UNCHANGED <<batches, chan>>
      \/ buffers' = [buffers EXCEPT ![k] = <<>>] /\ \E user : Flush(messages, k, user)
  BY <1>1, <1>4, <1>5 DEF Receive
<1>7. CASE buffers' = [buffers EXCEPT ![k] = messages] /\ UNCHANGED <<batches, chan>>
  BY <1>1, <1>2, <1>4, <1>5, <1>7, Collected
<1>8. CASE buffers' = [buffers EXCEPT ![k] = <<>>] /\ \E user : Flush(messages, k, user)
  <2>1. PICK user : Flush(messages, k, user)
    BY <1>8
  <2>2. Passed(messages, k, user, FALSE, "ok")
    BY <2>1, InvParts, FlushPasses
  <2>3. /\ DOMAIN buffers' = Keys
        /\ \A j \in Keys : IsASequence(buffers'[j]) /\ \A i \in DOMAIN buffers'[j] : AMessage(buffers'[j][i])
        /\ \A c : ~InMessages(c, buffers'[k])
        /\ \A j \in Keys : j # k => buffers'[j] = buffers[j]
        /\ \A c : \A j \in Keys : InMessages(c, buffers'[j]) => InMessages(c, buffers[j])
    BY <1>8, Emptied
  <2>4. \A i \in DOMAIN messages : messages[i] = m \/ (i \in DOMAIN buffers[k] /\ messages[i] = buffers[k][i])
    BY <1>5, InvParts, MessageAdded DEF BatchTypes
  <2>5. m.chan \in Channel /\ ~InBuffers(m.chan)
    BY <1>3, InvParts DEF AMessage, Kept, OnePlace
  <2>6. \A j \in Keys : ~InMessages(m.chan, buffers'[j])
    BY <2>3, <2>5 DEF InBuffers
  <2>7. ASSUME NEW i \in DOMAIN messages
        PROVE  LET c == messages[i].chan IN
                 /\ c \in Channel /\ (InMessages(c, inbox) \/ InBuffers(c))
                 /\ ~InMessages(c, inbox') /\ \A j \in Keys : ~InMessages(c, buffers'[j])
    <3>1. CASE messages[i] = m
      BY <1>3, <2>5, <2>6, <3>1
    <3>2. CASE i \in DOMAIN buffers[k] /\ messages[i] = buffers[k][i]
      <4>1. PICK c : c = messages[i].chan
        OBVIOUS
      <4>2. /\ c \in Channel /\ InBuffers(c) /\ ~InMessages(c, inbox)
            /\ \A j \in Keys : j # k => ~InMessages(c, buffers[j])
        BY <3>2, <4>1, InOneBuffer
      <4>3. ASSUME NEW j \in Keys PROVE ~InMessages(c, buffers'[j])
        BY <2>3, <4>2
      <4> QED BY <1>3, <4>1, <4>2, <4>3
    <3> QED BY <2>4, <3>1, <3>2
  <2> QED BY <1>2, <1>3, <2>2, <2>3, <2>7, PassedOn
<1> QED BY <1>6, <1>7, <1>8

-----------------------------------------------------------------------------
(***************************************************************************)
(* The leaves below the buffer and the proxies.                            *)
(***************************************************************************)

LEMMA HeldByBatch ==
  ASSUME BatchInv, NEW b \in batches, NEW c \in b.upstreams
  PROVE  /\ c \in Channel /\ Held(c) /\ ~Unsent(c) /\ Follows(b, c)
         /\ ~InMessages(c, inbox) /\ \A k \in Keys : ~InMessages(c, buffers[k])
         /\ \A a \in batches : c \in a.upstreams => a = b
<1>1. c \in Channel
  BY InvParts DEF BatchTypes
<1>2. Kept(c) /\ InBatches(c)
  BY <1>1, InvParts DEF InBatches
<1>3. ~InMessages(c, inbox) /\ ~InBuffers(c)
  BY <1>2 DEF Kept, OnePlace
<1>4. \A k \in Keys : ~InMessages(c, buffers[k])
  BY <1>3 DEF InBuffers
<1>5. \A a \in batches : c \in a.upstreams => a = b
  BY <1>2 DEF Kept, OnePlace
<1>6. Held(c) /\ ~Unsent(c) /\ Follows(b, c)
  BY <1>2 DEF Kept, Held
<1> QED BY <1>1, <1>3, <1>4, <1>5, <1>6

LEMMA ProxyAnswers ==
  ASSUME BatchInv, NEW b \in batches, Proxy(b)
  PROVE  BatchInv'
<1> USE DEF bufferVars, upVars
<1>1. /\ b.proxy /\ batches' = batches \ {b}
      /\ chan' = IF b.verdict = "ok" THEN Signalled(chan, b.upstreams, 1, "ok") ELSE chan
      /\ UNCHANGED <<shape, input, array, number, fanIn, inbox, buffers, learned, broken>>
  BY DEF Proxy
<1>2. BatchTypes /\ shape \in BatchSetups /\ BatchLeaves \in Nat \ {0}
  BY InvParts, LeavesCounted
<1>3. chan' \in [Channel -> Judgement] /\ \A c \in Channel : c \notin b.upstreams => chan'[c] = chan[c]
  BY <1>1, <1>2, SignalledIs DEF BatchTypes
<1>4. BatchTypes'
  BY <1>1, <1>2, <1>3 DEF BatchTypes
<1>5. Single'
  BY <1>1, InvParts DEF Single
<1>6. ASSUME NEW c \in Channel, c \in b.upstreams PROVE Held(c) /\ Kept(c)'
  <2>1. /\ Held(c) /\ ~Unsent(c) /\ Follows(b, c)
        /\ ~InMessages(c, inbox) /\ \A k \in Keys : ~InMessages(c, buffers[k])
        /\ \A a \in batches : c \in a.upstreams => a = b
    BY <1>6, HeldByBatch
  <2>2. Dropped(c)
    BY <1>1, <2>1 DEF Dropped
  <2>3. ~Unsent(c)'
    BY <1>1, <2>1 DEF Unsent
  <2>4. Fresh(c) /\ (b.verdict # "err" => c \notin broken)
    BY <1>1, <2>1 DEF Follows
  <2>5. CASE b.verdict = "ok"
    <3>1. /\ chan'[c].remaining = IF chan[c].remaining > 1 THEN chan[c].remaining - 1 ELSE 0
          /\ chan'[c].verdict = IF chan[c].remaining \in 1..1 THEN "ok" ELSE chan[c].verdict
      BY <1>1, <1>2, <1>6, <2>5, SignalledIs DEF BatchTypes
    <3>2. chan[c].remaining \in Nat /\ chan[c].verdict = "none" /\ c \notin broken'
      BY <1>1, <1>2, <2>4, <2>5 DEF Fresh
    <3> QED BY <2>1, <2>2, <2>3, <3>1, <3>2, DroppedKept
  <2>6. CASE b.verdict # "ok"
    <3>1. chan'[c].verdict = "none"
      BY <1>1, <2>4, <2>6 DEF Fresh
    <3> QED BY <2>1, <2>2, <2>3, <3>1, DroppedKept
  <2> QED BY <2>5, <2>6
<1>7. \A c \in Channel : c \notin b.upstreams =>
        Stays(c) /\ chan'[c] = chan[c] /\ (c \in broken' => c \in broken)
  BY <1>1, <1>3 DEF Stays
<1>8. \A a \in batches' : Counts(a)'
  BY <1>1, InvParts DEF Counts
<1>9. UNCHANGED <<shape, upVars, learned>>
  BY <1>1
<1>10. PICK T : T = b.upstreams
  OBVIOUS
<1> QED BY <1>4, <1>5, <1>6, <1>7, <1>8, <1>9, <1>10, Touched

LEMMA LeafAnswers ==
  ASSUME BatchInv, NEW b \in batches, NEW v \in {"ok", "err", "lost"}, LeafSignals(b, v)
  PROVE  BatchInv'
<1> USE DEF bufferVars, upVars
<1>1. PICK signals : signals = (v # "lost")
  OBVIOUS
<1>2. PICK last : last = (signals /\ b.remaining = 1)
  OBVIOUS
<1>3. PICK next : next = [b EXCEPT !.left = @ - 1,
                                   !.remaining = IF signals THEN @ - 1 ELSE @,
                                   !.verdict = IF last THEN v ELSE @]
  OBVIOUS
<1>4. /\ signals \in BOOLEAN /\ last \in BOOLEAN
      /\ (signals <=> v # "lost") /\ (last <=> signals /\ b.remaining = 1)
  BY <1>1, <1>2
<1>5. /\ b.left > 0
      /\ broken' = IF last /\ v = "err" THEN broken \cup b.upstreams ELSE broken
      /\ batches' = (batches \ {b}) \cup (IF b.proxy \/ b.left > 1 THEN {next} ELSE {})
      /\ chan' = IF b.proxy \/ ~signals THEN chan ELSE Signalled(chan, b.upstreams, 1, v)
      /\ UNCHANGED <<shape, input, array, number, fanIn, inbox, buffers, learned>>
  BY <1>1, <1>2, <1>3 DEF LeafSignals
<1>6. /\ BatchTypes /\ shape \in BatchSetups
      /\ DOMAIN b = BatchFields /\ b.upstreams \subseteq Channel
      /\ b.proxy \in BOOLEAN /\ b.left \in Nat /\ b.remaining \in Nat
  BY InvParts DEF BatchTypes
<1>7. b.left <= b.remaining /\ b.remaining >= 1 /\ b.left >= 1 /\ b.verdict = "none" /\ (last => v # "lost")
  <2>1. Counts(b) /\ b.left >= 1
    BY <1>5, <1>6, InvParts
  <2>2. b.left <= b.remaining /\ b.remaining >= 1
    BY <1>6, <2>1 DEF Counts
  <2>3. b.verdict = "none"
    BY <2>1, <2>2 DEF Counts
  <2> QED BY <1>4, <2>1, <2>2, <2>3
<1>8. /\ DOMAIN next = BatchFields /\ next.upstreams = b.upstreams /\ next.proxy = b.proxy
      /\ next.left = b.left - 1 /\ next.remaining = (IF signals THEN b.remaining - 1 ELSE b.remaining)
      /\ next.verdict = IF last THEN v ELSE "none"
  BY <1>3, <1>6, <1>7 DEF BatchFields
<1>9. next.left \in Nat /\ next.remaining \in Nat /\ next.left <= next.remaining
  BY <1>4, <1>6, <1>7, <1>8
<1>10. ASSUME next \in batches' PROVE next \in batches \ {b} \/ Counts(next)
  <2>1. next \in batches \ {b} \/ b.proxy \/ b.left > 1
    BY <1>5, <1>10
  <2>2. next.verdict # "none" => next.remaining = 0
    <3>1. next.verdict # "none" => last
      BY <1>8
    <3>2. last => next.remaining = 0
      BY <1>4, <1>8
    <3> QED BY <3>1, <3>2
  <2>3. b.proxy \/ b.left > 1 => (~next.proxy => next.left >= 1)
    BY <1>6, <1>8
  <2> QED BY <1>9, <2>1, <2>2, <2>3 DEF Counts
<1>11. \A a \in batches' : (a \in batches /\ a # b) \/ (a = next /\ (b.proxy \/ b.left > 1))
  BY <1>5
<1>12. \A a \in batches' : Counts(a)'
  BY <1>10, <1>11, InvParts DEF Counts
<1>13. chan' \in [Channel -> Judgement] /\ \A c \in Channel : c \notin b.upstreams => chan'[c] = chan[c]
  <2>1. CASE b.proxy \/ ~signals
    BY <1>5, <1>6, <2>1 DEF BatchTypes
  <2>2. CASE ~b.proxy /\ signals
    <3>1. v \in {"ok", "err"} /\ chan' = Signalled(chan, b.upstreams, 1, v)
      BY <1>1, <1>5, <2>2
    <3> QED BY <1>6, <3>1, SignalledIs DEF BatchTypes
  <2> QED BY <1>4, <1>6, <2>1, <2>2
<1>14. BatchTypes'
  <2>1. \A a \in batches' : /\ DOMAIN a = BatchFields /\ a.upstreams \subseteq Channel
                            /\ a.proxy \in BOOLEAN /\ a.left \in Nat /\ a.remaining \in Nat
    BY <1>6, <1>8, <1>9, <1>11 DEF BatchTypes
  <2> QED BY <1>5, <1>6, <1>13, <2>1 DEF BatchTypes
<1>15. Single'
  BY <1>5, InvParts DEF Single
<1>16. ASSUME NEW c \in Channel, c \in b.upstreams PROVE Held(c) /\ Kept(c)'
  <2>1. /\ Held(c) /\ ~Unsent(c) /\ Follows(b, c)
        /\ ~InMessages(c, inbox) /\ \A k \in Keys : ~InMessages(c, buffers[k])
        /\ \A a \in batches : c \in a.upstreams => a = b
    BY <1>16, HeldByBatch
  <2>2. ~Unsent(c)'
    BY <1>5, <2>1 DEF Unsent
  <2>3. /\ ~InMessages(c, inbox') /\ \A k \in Keys : ~InMessages(c, buffers'[k])
        /\ \A a \in batches' : c \in a.upstreams => a = next /\ (b.proxy \/ b.left > 1)
    BY <1>5, <1>11, <2>1
  <2>4. OnePlace(c)'
    BY <2>3 DEF OnePlace, InMessages, InBuffers
  <2>5. CASE b.proxy
    <3>1. chan' = chan /\ Fresh(c)' /\ chan[c].verdict = "none" /\ (b.verdict # "err" => c \notin broken)
      BY <1>5, <2>1, <2>5 DEF Follows, Fresh, BatchLeaves
    <3>2. next.verdict # "err" => c \notin broken'
      BY <1>4, <1>5, <1>7, <1>8, <3>1
    <3>3. \A a \in batches' : c \in a.upstreams => Follows(a, c)'
      BY <1>8, <2>3, <2>5, <3>1, <3>2 DEF Follows
    <3>4. ~InMessages(c, inbox)' /\ ~InBuffers(c)'
      BY <2>3 DEF InMessages, InBuffers
    <3> QED BY <2>1, <2>2, <2>4, <3>1, <3>3, <3>4 DEF Kept
  <2>6. CASE ~b.proxy
    <3>1. chan[c].remaining = b.remaining /\ chan[c].verdict = "none" /\ c \notin broken
      BY <2>1, <2>6 DEF Follows
    <3>2. /\ chan'[c].remaining = next.remaining
          /\ chan'[c].verdict = IF last THEN v ELSE "none"
      <4>1. CASE ~signals
        BY <1>2, <1>5, <1>8, <3>1, <4>1
      <4>2. CASE signals
        <5>1. v \in {"ok", "err"} /\ chan' = Signalled(chan, b.upstreams, 1, v)
          BY <1>1, <1>5, <2>6, <4>2
        <5>2. /\ chan'[c].remaining = IF chan[c].remaining > 1 THEN chan[c].remaining - 1 ELSE 0
              /\ chan'[c].verdict = IF chan[c].remaining \in 1..1 THEN v ELSE chan[c].verdict
          BY <1>6, <1>16, <5>1, SignalledIs DEF BatchTypes
        <5>3. chan'[c].remaining = b.remaining - 1
          BY <1>6, <1>7, <3>1, <5>2
        <5>4. chan'[c].verdict = IF b.remaining = 1 THEN v ELSE "none"
          BY <1>6, <3>1, <5>2
        <5> QED BY <1>2, <1>8, <4>2, <5>3, <5>4
      <4> QED BY <1>4, <4>1, <4>2
    <3>3. chan'[c].verdict # "none" => chan'[c].remaining = 0 /\ last
      <4>1. chan'[c].verdict # "none" => last
        BY <3>2
      <4>2. last => next.remaining = 0
        BY <1>4, <1>8
      <4> QED BY <3>2, <4>1, <4>2
    <3>4. c \in broken' => last /\ v = "err"
      BY <1>5, <3>1
    <3>5. chan'[c].verdict = "ok" => c \notin broken'
      BY <3>2, <3>3, <3>4
    <3>6. CASE b.left > 1
      <4>1. ~last /\ c \notin broken'
        BY <1>4, <1>6, <1>7, <3>4, <3>6
      <4>2. \A a \in batches' : c \in a.upstreams => Follows(a, c)'
        BY <1>8, <2>3, <2>6, <3>2, <4>1 DEF Follows
      <4>3. ~InMessages(c, inbox)' /\ ~InBuffers(c)'
        BY <2>3 DEF InMessages, InBuffers
      <4> QED BY <2>1, <2>2, <2>4, <3>3, <3>5, <4>2, <4>3 DEF Kept
    <3>7. CASE ~(b.left > 1)
      <4>1. Dropped(c)
        BY <2>3, <2>6, <3>7 DEF Dropped
      <4> QED BY <2>1, <2>2, <3>3, <3>5, <4>1, DroppedKept
    <3> QED BY <3>6, <3>7
  <2> QED BY <1>6, <2>5, <2>6
<1>17. ASSUME NEW c \in Channel, c \notin b.upstreams
       PROVE Stays(c) /\ chan'[c] = chan[c] /\ (c \in broken' => c \in broken)
  <2>1. \A a \in batches' : c \in a.upstreams => a \in batches
    BY <1>8, <1>11, <1>17
  <2>2. c \in broken' => c \in broken
    BY <1>5, <1>17
  <2> QED BY <1>5, <1>13, <1>17, <2>1, <2>2 DEF Stays
<1>18. UNCHANGED <<shape, upVars, learned>>
  BY <1>5
<1>19. PICK T : T = b.upstreams
  OBVIOUS
<1> QED BY <1>12, <1>14, <1>15, <1>16, <1>17, <1>18, <1>19, Touched

-----------------------------------------------------------------------------
(***************************************************************************)
(* The invariant, and what a source is told.                               *)
(***************************************************************************)

LEMMA BatchesStart == BatchesInit => BatchInv
<1> SUFFICES ASSUME BatchesInit PROVE BatchInv
  OBVIOUS
<1>1. /\ shape \in BatchSetups /\ input = shape.events /\ input \subseteq Events /\ BatchLeaves \in Nat \ {0}
      /\ MaxElements \in Nat
  BY LeavesCounted, BatchSetupsAssumption, BatchBoundsAssumption DEF BatchesInit
<1>2. inbox = <<>> /\ batches = {} /\ fanIn = {} /\ broken = {}
  BY DEF BatchesInit
<1>3. DOMAIN buffers = Keys /\ \A k \in Keys : buffers[k] = <<>>
  BY DEF BatchesInit
<1>4. DOMAIN chan = Channel /\ \A c \in Channel : chan[c] = [remaining |-> BatchLeaves, verdict |-> "none"]
  BY DEF BatchesInit, Channel
<1>5. IsASequence(<<>>) /\ DOMAIN <<>> = {} /\ \A c : ~InMessages(c, <<>>)
  BY NoMessages
<1>6. array \in [Events -> Nat] /\ number \in [Events -> Nat] /\ \A e \in Events : array[e] = 0 /\ number[e] = 0
  BY DEF BatchesInit
<1>7. DOMAIN learned = Events /\ \A e \in Events : learned[e] = "none"
  BY DEF BatchesInit
<1>8. [remaining |-> BatchLeaves, verdict |-> "none"] \in Judgement
  BY <1>1 DEF Judgement
<1>9. chan \in [Channel -> Judgement]
  <2>1. chan = [c \in Channel |-> [remaining |-> BatchLeaves, verdict |-> "none"]]
    BY DEF BatchesInit, Channel
  <2> QED BY <1>8, <2>1
<1>10. BatchTypes
  BY <1>1, <1>2, <1>3, <1>5, <1>6, <1>7, <1>9 DEF BatchTypes
<1>11. Single
  BY <1>2, <1>5 DEF Single
<1>12. \A c : ~InMessages(c, inbox) /\ ~InBuffers(c) /\ ~InBatches(c) /\ ~Held(c)
  BY <1>2, <1>3, <1>5 DEF InBuffers, InBatches, Held
<1>13. ASSUME NEW c \in Channel PROVE Kept(c)
  <2>1. OnePlace(c)
    BY <1>2, <1>12, <1>3, <1>5 DEF OnePlace
  <2> QED BY <1>2, <1>4, <1>12, <2>1 DEF Kept, Fresh
<1>14. \A e \in Events : Splits(e)
  BY <1>1, <1>2, <1>4, <1>6, <1>7, <1>12, ChannelIs DEF Splits
<1> QED BY <1>2, <1>10, <1>11, <1>13, <1>14 DEF BatchInv

LEMMA BatchesStep == BatchInv /\ [BatchesNext]_batchVars => BatchInv'
<1> SUFFICES ASSUME BatchInv, [BatchesNext]_batchVars PROVE BatchInv'
  OBVIOUS
<1>1. ASSUME NEW e \in Events, Upstream(e) PROVE BatchInv'
  <2>1. CASE SendDirect(e) \/ SplitErrs(e)
    BY <2>1, EventsSent
  <2>2. CASE InboxClosed(e) \/ SplitEmpty(e) \/ SplitCancelled(e) \/ SplitFails(e) \/ FanIn(e)
    BY <2>2, EventsEnd
  <2>3. CASE SplitStart(e)
    BY <2>3, StartsSplit
  <2>4. CASE SplitSend(e)
    BY <2>4, ElementsSent
  <2>5. CASE SourceHears(e)
    BY <2>5, QuietSteps
  <2> QED BY <1>1, <2>1, <2>2, <2>3, <2>4, <2>5 DEF Upstream, Iterates
<1>2. CASE Buffer
  <2>1. CASE LoopTop \/ ReceiveOther \/ ChannelClosed
    BY <2>1, QuietSteps
  <2>2. CASE Receive
    BY <2>2, EventReceived
  <2>3. CASE ReceiveFailed
    BY <2>3, FailurePassed
  <2>4. ASSUME NEW k \in Keys, Timeout(k) \/ ShutdownFlush(k) PROVE BatchInv'
    BY <2>4, KeyFlushed
  <2> QED BY <1>2, <2>1, <2>2, <2>3, <2>4 DEF Buffer
<1>3. CASE Downstream
  <2>1. ASSUME NEW b \in batches, Proxy(b) PROVE BatchInv'
    BY <2>1, ProxyAnswers
  <2>2. ASSUME NEW b \in batches, ProxyClosed(b) PROVE BatchInv'
    BY <2>2, QuietSteps
  <2>3. ASSUME NEW b \in batches, NEW v \in {"ok", "err", "lost"}, LeafSignals(b, v) PROVE BatchInv'
    BY <2>3, LeafAnswers
  <2> QED BY <1>3, <2>1, <2>2, <2>3 DEF Downstream
<1>4. CASE CloseChannel \/ BelowEnds \/ CancelBuffer \/ UNCHANGED batchVars
  BY <1>4, QuietSteps
<1> QED BY <1>1, <1>2, <1>3, <1>4 DEF BatchesNext

LEMMA AckedWhenDone == BatchInv => AckedIsDone
<1> SUFFICES ASSUME BatchInv, NEW e \in Events, learned[e] = "ok"
             PROVE  ~InFlight(e) /\ array[e] = 0 /\ e \notin broken
  BY DEF AckedIsDone
<1>1. BatchTypes /\ Splits(e) /\ e \in Channel /\ Kept(e)
  BY InvParts, ChannelIs
<1>2. chan[e].verdict = "ok"
  BY <1>1 DEF Splits
<1>3. e \notin broken /\ ~Held(e) /\ ~Unsent(e)
  BY <1>1, <1>2, HeldIsOpen DEF Kept, Fresh
<1>4. array[e] = 0
  BY <1>1, <1>3 DEF Unsent, BatchTypes
<1>5. \A i \in 1..MaxElements : ~Held(<<e, i>>)
  BY <1>1, <1>2 DEF Splits
<1>6. ASSUME NEW c \in DOMAIN chan, Source(c) = e PROVE ~Held(c)
  <2>1. c \in Channel
    BY <1>1 DEF BatchTypes
  <2>2. CASE c \in Events
    BY <1>3, <1>6, <2>2 DEF Source
  <2>3. CASE c \notin Events
    <3>1. PICK f \in Events, i \in 1..MaxElements : c = <<f, i>>
      BY <2>1, <2>3, ChannelIs
    <3>2. f = e
      BY <1>6, <2>3, <3>1 DEF Source
    <3> QED BY <1>5, <3>1, <3>2
  <2> QED BY <2>2, <2>3
<1>7. ~InFlight(e)
  BY <1>6 DEF InFlight, Held, InBatches
<1> QED BY <1>3, <1>4, <1>7

LEMMA BatchInvAlways == BatchesSpec => []BatchInv
BY BatchesStart, BatchesStep, PTL DEF BatchesSpec

\* A source that learns of a success has nothing left in the buffer or at a leaf,
\* its own batch did not fail, and an iterate sent its array to the end: whatever
\* iterate and buffer make of the events, a completion is in one place until it is
\* signalled (spawn_completion_proxy, spawn_fan_in_completion).  How the elements
\* of an array ended is not part of it: the fan-in drops their verdicts.
THEOREM BatchesAckWhenDone == BatchesSpec => []AckedIsDone
<1>1. BatchInv => AckedIsDone
  BY AckedWhenDone
<1> QED BY <1>1, BatchInvAlways, PTL
=============================================================================
