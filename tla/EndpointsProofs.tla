---------------------------- MODULE EndpointsProofs ----------------------------
(***************************************************************************)
(* Proofs about Endpoints, with Listings and Admission, for any flows,     *)
(* sessions, requests, offers and capacities.                              *)
(***************************************************************************)
EXTENDS Endpoints, FiniteSetTheorems, SequenceTheorems, TLAPS

Frames == {"open", "chunk", "ok", "error"}
Steps == {"new", "done"} \cup HandlerSteps \cup StreamSteps

ListTypes ==
  /\ session \in [Sessions -> {"none", "open", "left"}]
  /\ queue \in [Sessions -> Seq(Lists)]
  /\ toList \in [Sessions -> SUBSET Lists] /\ missed \in [Sessions -> SUBSET Lists]
  /\ listed = [s \in Sessions |-> [l \in Lists |-> listed[s][l]]]
  /\ \A a \in announcing : a.list \in Lists
  /\ table = [t \in Tables |-> table[t]]

RequestTypes ==
  /\ setup \in Setups
  /\ input \in [Tenures -> Seq(Asked)]
  /\ pc \in [Requests -> Steps]
  /\ reg = [r \in Requests |-> reg[r]]
  /\ query = [r \in Requests |-> query[r]] /\ caller = [r \in Requests |-> caller[r]]
  /\ client \in [Requests -> {"there", "gone"}]
  /\ work \in [Requests -> {"none", "queued", "busy", "sending", "done"}]
  /\ result \in [Requests -> {"none", "ok", "failed", "dropped"}]
  /\ accepted \in [Requests -> Nat] /\ progress \in [Requests -> Nat] /\ told \in [Requests -> Nat]
  /\ body \in [Requests -> Seq(Frames)]
  /\ answer = [r \in Requests |-> answer[r]]

\* A request waits once, in the channel of the tenure whose registration it found.
Queued ==
  /\ \A t \in Tenures : \A i \in DOMAIN input[t] : work[input[t][i]] = "queued" /\ reg[input[t][i]] = t
  /\ \A t \in Tenures : \A i, j \in DOMAIN input[t] : input[t][i] = input[t][j] => i = j

\* The chunks in a response body's channel.
Chunks(b) == Cardinality({i \in DOMAIN b : b[i] = "chunk"})

\* What a request was let in with.
LetIn(r) ==
  /\ Admits(Role(r), Ask(r).guard, query[r]) /\ query[r] \in Queries
  /\ caller[r] = CallerOf(Role(r), Ask(r).guard, query[r])

\* A completion that is answered with a success.
Succeeds(r) == result[r] = "ok" \/ (Role(r) = "proxy" /\ Streams(r) /\ result[r] = "dropped")

\* Stages of the handler and of the stream task.
Unsent == {"new", "check", "insert", "send"}
Door(r) ==
  /\ pc[r] \in Unsent => work[r] = "none"
  /\ work[r] # "none" \/ pc[r] \notin {"new", "check", "done"} => LetIn(r)

Stage(r) ==
  /\ pc[r] \in StreamSteps \cup {"insert"} => Streams(r)
  /\ pc[r] = "await" => ~ Streams(r)
  /\ pc[r] \in {"remove", "drain", "final"} => result[r] # "none"
  /\ pc[r] = "final" => progress[r] = 0

\* The flow sends no more once its completion is there.
Settled(r) == result[r] # "none" => work[r] = "done"

\* No chunk is lost on the way to a client that stays.
Counted(r) ==
  Streams(r) /\ client[r] = "there" =>
    accepted[r] = told[r] + Chunks(body[r]) + (IF pc[r] = "put" THEN 1 ELSE 0) + progress[r]

\* A success comes last.
Closing(r) ==
  /\ \A i \in DOMAIN body[r] : body[r][i] = "ok" =>
       /\ i = Len(body[r]) /\ Succeeds(r) /\ progress[r] = 0 /\ pc[r] \in {"exit", "done"} /\ Streams(r)
  /\ answer[r] = "ok" =>
       /\ Succeeds(r)
       /\ Streams(r) => client[r] = "there" /\ body[r] = << >> /\ progress[r] = 0 /\ pc[r] \in {"exit", "done"}

\* A client that left is told nothing any more.
Left(r) ==
  client[r] = "gone" => answer[r] = "cut" /\ body[r] = << >> /\ pc[r] \in StreamSteps \cup {"done"}

Served(r) == Door(r) /\ Stage(r) /\ Settled(r) /\ Counted(r) /\ Closing(r) /\ Left(r)

\* The inductive invariant of the requests.
EndInv == RequestTypes /\ Queued /\ \A r \in Asked : Served(r)
-----------------------------------------------------------------------------
(* Chunks in a body. *)

Places(b) == {i \in DOMAIN b : b[i] = "chunk"}

LEMMA PlacesAreFinite ==
  ASSUME NEW b \in Seq(Frames)
  PROVE  IsFiniteSet(Places(b)) /\ Chunks(b) \in Nat /\ Chunks(b) = Cardinality(Places(b))
<1>1. Len(b) \in Nat /\ DOMAIN b = 1..Len(b)
  BY LenProperties
<1>2. IsFiniteSet(1..Len(b))
  BY <1>1, FS_Interval
<1>3. IsFiniteSet(Places(b))
  BY <1>1, <1>2, FS_Subset DEF Places
<1> QED
  BY <1>3, FS_CardinalityType DEF Chunks, Places

LEMMA NoChunks == Chunks(<< >>) = 0
BY FS_EmptySet DEF Chunks

LEMMA ChunkAppended ==
  ASSUME NEW b \in Seq(Frames), NEW f \in Frames
  PROVE  Chunks(Append(b, f)) = IF f = "chunk" THEN Chunks(b) + 1 ELSE Chunks(b)
<1>1. /\ Append(b, f) \in Seq(Frames) /\ Len(b) \in Nat /\ DOMAIN b = 1..Len(b)
      /\ DOMAIN Append(b, f) = 1..(Len(b) + 1)
      /\ Append(b, f)[Len(b) + 1] = f
      /\ \A i \in 1..Len(b) : Append(b, f)[i] = b[i]
  BY LenProperties, AppendProperties
<1>2. Places(Append(b, f)) = IF f = "chunk" THEN Places(b) \cup {Len(b) + 1} ELSE Places(b)
  BY <1>1 DEF Places
<1>3. Len(b) + 1 \notin Places(b)
  BY <1>1 DEF Places
<1>4. IsFiniteSet(Places(b)) /\ Chunks(b) \in Nat /\ Chunks(b) = Cardinality(Places(b))
  BY PlacesAreFinite
<1>5. Chunks(Append(b, f)) = Cardinality(Places(Append(b, f)))
  BY <1>1, PlacesAreFinite
<1>6. Cardinality(Places(b) \cup {Len(b) + 1}) = Cardinality(Places(b)) + 1
  BY <1>3, <1>4, FS_AddElement
<1> QED
  BY <1>2, <1>4, <1>5, <1>6

LEMMA ChunkRead ==
  ASSUME NEW b \in Seq(Frames), b # << >>
  PROVE  Chunks(b) = IF Head(b) = "chunk" THEN Chunks(Tail(b)) + 1 ELSE Chunks(Tail(b))
<1>1. /\ Len(b) \in Nat /\ Len(b) # 0 /\ DOMAIN b = 1..Len(b) /\ Head(b) = b[1]
      /\ Tail(b) \in Seq(Frames) /\ DOMAIN Tail(b) = 1..(Len(b) - 1)
      /\ \A i \in 1..(Len(b) - 1) : Tail(b)[i] = b[i + 1]
  BY LenProperties, HeadTailProperties, EmptySeq
<1> DEFINE S == Places(Tail(b))
           T == Places(b) \ {1}
           next == [i \in S |-> i + 1]
<1>2. next \in Bijection(S, T)
  <2>1. next \in [S -> T]
    BY <1>1 DEF Places
  <2>2. \A i, j \in S : next[i] = next[j] => i = j
    BY <1>1 DEF Places
  <2>3. \A k \in T : \E i \in S : next[i] = k
    <3> SUFFICES ASSUME NEW k \in T PROVE \E i \in S : next[i] = k
      OBVIOUS
    <3>1. k - 1 \in S /\ next[k - 1] = k
      BY <1>1 DEF Places
    <3> QED BY <3>1
  <2> QED BY <2>1, <2>2, <2>3 DEF Bijection, Injection, IsInjective, Surjection
<1>3. Cardinality(S) = Cardinality(T)
  <2>1. IsFiniteSet(S)
    BY <1>1, PlacesAreFinite
  <2>2. ExistsBijection(S, T)
    BY <1>2 DEF ExistsBijection
  <2> HIDE DEF S, T
  <2> QED BY <2>1, <2>2, FS_Bijection
<1>4. 1 \in Places(b) <=> Head(b) = "chunk"
  BY <1>1 DEF Places
<1>5. Cardinality(T) = IF 1 \in Places(b) THEN Cardinality(Places(b)) - 1 ELSE Cardinality(Places(b))
  BY PlacesAreFinite, FS_RemoveElement
<1>6. Chunks(b) \in Nat /\ Chunks(b) = Cardinality(Places(b))
  BY PlacesAreFinite
<1>7. Chunks(Tail(b)) \in Nat /\ Chunks(Tail(b)) = Cardinality(S)
  BY <1>1, PlacesAreFinite
<1> HIDE DEF S, T
<1> QED
  BY <1>3, <1>4, <1>5, <1>6, <1>7
-----------------------------------------------------------------------------
(* What a step leaves alone. *)

Row(q) == <<pc[q], reg[q], query[q], caller[q], client[q], work[q], result[q],
            accepted[q], progress[q], told[q], body[q], answer[q]>>

LEMMA AskedAreRequests == ASSUME setup \in Setups PROVE Asked \subseteq Requests
BY SetupsAssumption DEF Asked

LEMMA SameRowIsServed ==
  ASSUME setup' = setup, NEW q, Row(q)' = Row(q), Served(q)
  PROVE  Served(q)'
<1>1. /\ pc'[q] = pc[q] /\ query'[q] = query[q] /\ caller'[q] = caller[q] /\ client'[q] = client[q]
      /\ work'[q] = work[q] /\ result'[q] = result[q] /\ accepted'[q] = accepted[q]
      /\ progress'[q] = progress[q] /\ told'[q] = told[q] /\ body'[q] = body[q]
      /\ answer'[q] = answer[q]
  BY DEF Row
<1>2. /\ Role(q)' = Role(q) /\ Streams(q)' = Streams(q) /\ Ask(q)' = Ask(q)
  BY DEF Role, Streams, Ask
<1>3. Door(q)' /\ Stage(q)'
  BY <1>1, <1>2 DEF Served, Door, Stage, LetIn
<1>4. Settled(q)' /\ Counted(q)' /\ Left(q)'
  BY <1>1, <1>2 DEF Served, Settled, Counted, Left, Chunks
<1>5. Closing(q)'
  BY <1>1, <1>2 DEF Served, Closing, Succeeds
<1> QED BY <1>3, <1>4, <1>5 DEF Served

\* A request that waits does so until its tenure takes it.
LEMMA QueuesStay ==
  ASSUME EndInv, input' = input,
         \A q \in Asked : work[q] = "queued" => work'[q] = "queued" /\ reg'[q] = reg[q]
  PROVE  Queued'
<1>1. \A t \in Tenures : \A i \in DOMAIN input[t] : input[t][i] \in Asked
  BY ElementOfSeq, LenProperties DEF EndInv, RequestTypes
<1> QED BY <1>1 DEF EndInv, Queued

\* What a step may do to the row of a request.
Touches(r) ==
  /\ pc' = [pc EXCEPT ![r] = pc'[r]] /\ reg' = [reg EXCEPT ![r] = reg'[r]]
  /\ query' = [query EXCEPT ![r] = query'[r]] /\ caller' = [caller EXCEPT ![r] = caller'[r]]
  /\ client' = [client EXCEPT ![r] = client'[r]] /\ work' = [work EXCEPT ![r] = work'[r]]
  /\ result' = [result EXCEPT ![r] = result'[r]] /\ accepted' = [accepted EXCEPT ![r] = accepted'[r]]
  /\ progress' = [progress EXCEPT ![r] = progress'[r]] /\ told' = [told EXCEPT ![r] = told'[r]]
  /\ body' = [body EXCEPT ![r] = body'[r]] /\ answer' = [answer EXCEPT ![r] = answer'[r]]

RowTypes(r) ==
  /\ pc[r] \in Steps /\ client[r] \in {"there", "gone"}
  /\ work[r] \in {"none", "queued", "busy", "sending", "done"}
  /\ result[r] \in {"none", "ok", "failed", "dropped"}
  /\ accepted[r] \in Nat /\ progress[r] \in Nat /\ told[r] \in Nat
  /\ body[r] \in Seq(Frames)

\* A step of one request.
LEMMA OneRequest ==
  ASSUME EndInv, NEW r \in Asked, setup' = setup, input' \in [Tenures -> Seq(Asked)], Queued',
         Touches(r), RowTypes(r)', Served(r)'
  PROVE  EndInv'
<1>1. Asked' = Asked
  BY DEF Asked
<1>2. Asked \subseteq Requests
  BY AskedAreRequests DEF EndInv, RequestTypes
<1>3. RequestTypes'
  <2>1. /\ pc' \in [Requests -> Steps] /\ client' \in [Requests -> {"there", "gone"}]
        /\ work' \in [Requests -> {"none", "queued", "busy", "sending", "done"}]
        /\ result' \in [Requests -> {"none", "ok", "failed", "dropped"}]
    BY <1>2 DEF EndInv, RequestTypes, Touches, RowTypes
  <2>2. /\ accepted' \in [Requests -> Nat] /\ progress' \in [Requests -> Nat]
        /\ told' \in [Requests -> Nat] /\ body' \in [Requests -> Seq(Frames)]
    BY <1>2 DEF EndInv, RequestTypes, Touches, RowTypes
  <2>3. /\ reg' = [q \in Requests |-> reg'[q]] /\ query' = [q \in Requests |-> query'[q]]
        /\ caller' = [q \in Requests |-> caller'[q]] /\ answer' = [q \in Requests |-> answer'[q]]
    BY <1>2 DEF EndInv, RequestTypes, Touches
  <2> QED BY <1>1, <2>1, <2>2, <2>3 DEF EndInv, RequestTypes
<1>4. ASSUME NEW q \in Asked, q # r PROVE Served(q)'
  <2>1. Row(q)' = Row(q)
    BY <1>2, <1>4 DEF EndInv, RequestTypes, Touches, Row
  <2> QED BY <1>4, <2>1, SameRowIsServed DEF EndInv
<1> QED BY <1>1, <1>3, <1>4 DEF EndInv

\* A step that leaves the requests alone.
LEMMA NoRequest ==
  ASSUME EndInv, UNCHANGED <<setup, input, handlerVars, jobVars, progress, result, body, clientVars>>
  PROVE  EndInv'
<1> USE DEF handlerVars, doorVars, jobVars, clientVars
<1>1. Asked' = Asked
  BY DEF Asked
<1>2. RequestTypes'
  BY <1>1 DEF EndInv, RequestTypes
<1>3. Queued'
  BY QueuesStay
<1>4. ASSUME NEW q \in Asked PROVE Served(q)'
  <2>1. Row(q)' = Row(q)
    BY DEF Row
  <2> QED BY <2>1, SameRowIsServed DEF EndInv
<1> QED BY <1>1, <1>2, <1>3, <1>4 DEF EndInv
-----------------------------------------------------------------------------
(* The handler, up to the send. *)

\* What is known of a request that is served.
LEMMA Known ==
  ASSUME EndInv, NEW r \in Asked
  PROVE  r \in Requests /\ RequestTypes /\ RowTypes(r) /\ Served(r)
BY AskedAreRequests DEF EndInv, RequestTypes, RowTypes

LEMMA SameAsk ==
  ASSUME setup' = setup, NEW r
  PROVE  Role(r)' = Role(r) /\ Streams(r)' = Streams(r) /\ Ask(r)' = Ask(r)
BY DEF Role, Streams, Ask

LEMMA OthersWait ==
  ASSUME EndInv, NEW r \in Asked, input' = input, Touches(r),
         work[r] = "queued" => work'[r] = "queued" /\ reg'[r] = reg[r]
  PROVE  Queued'
BY Known, QueuesStay, AskedAreRequests DEF RequestTypes, Touches

LEMMA ArriveStep ==
  ASSUME EndInv, NEW r \in Asked, Arrive(r)
  PROVE  EndInv'
<1> USE DEF Arrive, AnswerWith, Unchanged, doorVars, jobVars
<1>1. r \in Requests /\ setup' = setup /\ input' = input /\ RequestTypes /\ RowTypes(r) /\ Served(r)
  BY Known
<1>2. work[r] = "none" /\ pc[r] = "new"
  BY <1>1 DEF Served, Door, Unsent
<1>3. Touches(r)
  BY <1>1 DEF RequestTypes, Touches
<1>4. /\ pc'[r] \in {"done", "check"} /\ work'[r] = work[r] /\ result'[r] = result[r] /\ client'[r] = client[r]
      /\ accepted'[r] = accepted[r] /\ progress'[r] = progress[r] /\ told'[r] = told[r]
      /\ body'[r] = body[r] /\ query'[r] = query[r] /\ caller'[r] = caller[r]
      /\ answer'[r] \in {answer[r], "unknown", "stopped"}
  BY <1>1 DEF RequestTypes
<1>5. RowTypes(r)'
  BY <1>1, <1>4 DEF RowTypes, Steps, HandlerSteps
<1>6. Served(r)'
  <2>1. Door(r)' /\ Stage(r)'
    BY <1>1, <1>2, <1>4, SameAsk DEF Served, Door, Stage, Unsent, StreamSteps
  <2>2. Settled(r)' /\ Counted(r)'
    BY <1>1, <1>2, <1>4, SameAsk DEF Served, Settled, Counted, Chunks
  <2>3. Closing(r)' /\ Left(r)'
    BY <1>1, <1>2, <1>4, SameAsk DEF Served, Closing, Succeeds, Left, StreamSteps
  <2> QED BY <2>1, <2>2, <2>3 DEF Served
<1>7. Queued'
  BY <1>1, <1>2, <1>3, OthersWait
<1> QED BY <1>1, <1>3, <1>5, <1>6, <1>7, OneRequest DEF RequestTypes

LEMMA CheckStep ==
  ASSUME EndInv, NEW r \in Asked, Check(r)
  PROVE  EndInv'
<1>1. r \in Requests /\ RequestTypes /\ RowTypes(r) /\ Served(r)
  BY Known
<1>2. /\ pc[r] = "check" /\ setup' = setup /\ input' = input
      /\ UNCHANGED <<reg, jobVars, progress, result, body, client, told>>
  BY DEF Check, Unchanged
<1>3. work[r] = "none"
  BY <1>1, <1>2 DEF Served, Door, Unsent
<1>4. \/ AnswerWith(r, "rejected") /\ UNCHANGED doorVars
      \/ \E q \in setup.shown :
           /\ Admits(Role(r), Ask(r).guard, q)
           /\ query' = [query EXCEPT ![r] = q]
           /\ caller' = [caller EXCEPT ![r] = CallerOf(Role(r), Ask(r).guard, q)]
           /\ pc' = [pc EXCEPT ![r] = IF Streams(r) THEN "insert" ELSE "send"]
           /\ UNCHANGED answer
  BY DEF Check
<1>5. Touches(r)
  BY <1>1, <1>2, <1>4 DEF RequestTypes, Touches, AnswerWith, doorVars, jobVars
<1>6. /\ pc'[r] \in {"done", "insert", "send"} /\ (pc'[r] = "insert" => Streams(r))
      /\ answer'[r] \in {answer[r], "rejected"} /\ (answer'[r] # answer[r] => pc'[r] = "done")
  BY <1>1, <1>4 DEF RequestTypes, AnswerWith
<1>7. pc'[r] # "done" => LetIn(r)'
  <2>1. setup.shown \subseteq Queries
    BY <1>1, SetupsAssumption DEF RequestTypes
  <2> QED
    BY <1>1, <1>2, <1>4, <2>1, SameAsk DEF RequestTypes, AnswerWith, LetIn
<1>8. /\ work'[r] = "none" /\ result'[r] = result[r] /\ client'[r] = client[r]
      /\ accepted'[r] = accepted[r] /\ progress'[r] = progress[r] /\ told'[r] = told[r]
      /\ body'[r] = body[r]
  BY <1>2, <1>3 DEF jobVars
<1>9. RowTypes(r)'
  BY <1>1, <1>6, <1>8 DEF RowTypes, Steps, HandlerSteps
<1>10. Served(r)'
  <2>1. Door(r)' /\ Stage(r)'
    BY <1>6, <1>7, <1>8, <1>2, SameAsk DEF Door, Stage, Unsent, StreamSteps
  <2>2. Settled(r)' /\ Counted(r)'
    BY <1>1, <1>2, <1>3, <1>6, <1>8, SameAsk DEF Served, Settled, Counted, Chunks
  <2>3. Closing(r)' /\ Left(r)'
    BY <1>1, <1>2, <1>6, <1>8, SameAsk DEF Served, Closing, Succeeds, Left, StreamSteps
  <2> QED BY <2>1, <2>2, <2>3 DEF Served
<1>11. Queued'
  BY <1>2, <1>3, <1>5, OthersWait
<1> QED BY <1>1, <1>2, <1>5, <1>9, <1>10, <1>11, OneRequest DEF RequestTypes
-----------------------------------------------------------------------------
(* The stream task. *)

\* A step of a stream moves chunks and frames, and changes nothing else.
Moves(r, to, p, b) ==
  /\ pc[r] \in StreamSteps /\ to \in StreamSteps \cup {"done"} /\ p \in Nat /\ b \in Seq(Frames)
  /\ pc' = [pc EXCEPT ![r] = to] /\ progress' = [progress EXCEPT ![r] = p]
  /\ body' = [body EXCEPT ![r] = b]
  /\ to \in {"remove", "drain", "final"} => result[r] # "none"
  /\ to = "final" => p = 0
  /\ client[r] = "there" =>
       accepted[r] = told[r] + Chunks(b) + (IF to = "put" THEN 1 ELSE 0) + p
  /\ \A i \in DOMAIN b : b[i] = "ok" =>
       i = Len(b) /\ Succeeds(r) /\ p = 0 /\ to \in {"exit", "done"}
  /\ answer[r] = "ok" => b = << >> /\ p = 0 /\ to \in {"exit", "done"}
  /\ client[r] = "gone" => b = << >>

LEMMA StreamStep ==
  ASSUME EndInv, NEW r \in Asked, StreamUnchanged, NEW to, NEW p, NEW b, Moves(r, to, p, b)
  PROVE  EndInv'
<1>1. r \in Requests /\ RequestTypes /\ RowTypes(r) /\ Served(r)
  BY Known
<1>2. /\ setup' = setup /\ input' = input
      /\ UNCHANGED <<reg, query, caller, client, work, result, left, accepted, told, answer>>
  BY DEF StreamUnchanged, Unchanged, doorVars, jobVars, clientVars
<1> USE DEF Moves
<1>3. pc'[r] = to /\ progress'[r] = p /\ body'[r] = b
  BY <1>1 DEF RequestTypes
<1>4. Touches(r)
  BY <1>1, <1>2, <1>3 DEF RequestTypes, Touches
<1>5. RowTypes(r)'
  BY <1>1, <1>2, <1>3 DEF RowTypes, Steps
<1>6. Streams(r)
  BY <1>1 DEF Served, Stage
<1>7. Served(r)'
  <2>1. Door(r)'
    BY <1>1, <1>2, <1>3, SameAsk DEF Served, Door, Unsent, StreamSteps, LetIn
  <2>2. Stage(r)' /\ Settled(r)'
    BY <1>1, <1>2, <1>3, <1>6, SameAsk DEF Served, Stage, Settled, StreamSteps
  <2>3. Counted(r)'
    BY <1>2, <1>3, SameAsk DEF Counted, Chunks
  <2>4. Closing(r)'
    BY <1>1, <1>2, <1>3, <1>6, SameAsk DEF Served, Closing, Succeeds
  <2>5. Left(r)'
    BY <1>1, <1>2, <1>3 DEF Served, Left
  <2> QED BY <2>1, <2>2, <2>3, <2>4, <2>5 DEF Served
<1>8. Queued'
  BY <1>2, <1>4, OthersWait
<1> QED BY <1>1, <1>2, <1>4, <1>5, <1>7, <1>8, OneRequest DEF RequestTypes

LEMMA OnStream ==
  ASSUME EndInv, NEW r \in Asked, pc[r] \in StreamSteps
  PROVE  /\ r \in Requests /\ RequestTypes /\ RowTypes(r) /\ Streams(r)
         /\ client[r] = "gone" => body[r] = << >>
         /\ pc[r] # "exit" => answer[r] # "ok" /\ \A i \in DOMAIN body[r] : body[r][i] # "ok"
         /\ pc[r] = "final" => progress[r] = 0
         /\ client[r] = "there" =>
              accepted[r] = told[r] + Chunks(body[r]) + (IF pc[r] = "put" THEN 1 ELSE 0) + progress[r]
         /\ pc[r] \in {"remove", "drain", "final"} => result[r] # "none"
         /\ Chunks(body[r]) \in Nat
<1>1. r \in Requests /\ RequestTypes /\ RowTypes(r) /\ Served(r)
  BY Known
<1>2. Streams(r) /\ (pc[r] \in {"remove", "drain", "final"} => result[r] # "none")
      /\ (pc[r] = "final" => progress[r] = 0)
  BY <1>1 DEF Served, Stage
<1>3. client[r] = "gone" => body[r] = << >>
  BY <1>1 DEF Served, Left
<1>4. pc[r] # "exit" => answer[r] # "ok" /\ \A i \in DOMAIN body[r] : body[r][i] # "ok"
  BY <1>1, <1>2 DEF Served, Closing, StreamSteps
<1>5. client[r] = "there" =>
        accepted[r] = told[r] + Chunks(body[r]) + (IF pc[r] = "put" THEN 1 ELSE 0) + progress[r]
  BY <1>1, <1>2 DEF Served, Counted
<1> QED BY <1>1, <1>2, <1>3, <1>4, <1>5, PlacesAreFinite DEF RowTypes

\* A frame that is put in the body of a client that stays.
LEMMA FramePut ==
  ASSUME EndInv, NEW r \in Asked, pc[r] \in StreamSteps, pc[r] # "exit",
         NEW f \in Frames, PutsIfThere(r, f)
  PROVE  /\ body'[r] \in Seq(Frames) /\ body' = [body EXCEPT ![r] = body'[r]]
         /\ client[r] = "gone" => body'[r] = << >>
         /\ client[r] = "there" =>
              Chunks(body'[r]) = Chunks(body[r]) + (IF f = "chunk" THEN 1 ELSE 0)
         /\ \A i \in DOMAIN body'[r] : body'[r][i] = "ok" => i = Len(body'[r]) /\ f = "ok"
<1>1. /\ RequestTypes /\ body[r] \in Seq(Frames) /\ (client[r] = "gone" => body[r] = << >>)
      /\ \A i \in DOMAIN body[r] : body[r][i] # "ok"
      /\ Chunks(body[r]) \in Nat
  BY OnStream DEF RowTypes
<1>2. CASE client[r] = "there" /\ Puts(r, f)
  <2>1. body' = [body EXCEPT ![r] = Append(body[r], f)] /\ body'[r] = Append(body[r], f)
    BY <1>1, <1>2, OnStream DEF Puts, RequestTypes
  <2>2. Append(body[r], f) \in Seq(Frames)
    BY <1>1, AppendProperties
  <2>3. Chunks(Append(body[r], f)) = Chunks(body[r]) + (IF f = "chunk" THEN 1 ELSE 0)
    BY <1>1, ChunkAppended
  <2>4. \A i \in DOMAIN Append(body[r], f) :
          Append(body[r], f)[i] = "ok" => i = Len(Append(body[r], f)) /\ f = "ok"
    BY <1>1, AppendProperties, LenProperties
  <2> QED BY <1>2, <2>1, <2>2, <2>3, <2>4
<1>3. CASE client[r] = "gone" /\ UNCHANGED body
  <2>1. body' = [body EXCEPT ![r] = body[r]]
    BY <1>1, <1>3 DEF RequestTypes
  <2> QED BY <1>1, <1>3, <2>1
<1> QED BY <1>2, <1>3 DEF PutsIfThere

\* Open, and the frame of a deadline: no chunk moves.
LEMMA FrameStep ==
  ASSUME EndInv, NEW r \in Asked, StreamUnchanged, pc[r] \in StreamSteps \ {"exit", "put"},
         NEW f \in Frames \ {"chunk", "ok"}, PutsIfThere(r, f), progress' = progress,
         NEW to \in (StreamSteps \cup {"done"}) \ {"put", "remove", "drain", "final"},
         pc' = [pc EXCEPT ![r] = to]
  PROVE  EndInv'
<1>1. /\ body'[r] \in Seq(Frames) /\ body' = [body EXCEPT ![r] = body'[r]]
      /\ client[r] = "gone" => body'[r] = << >>
      /\ client[r] = "there" => Chunks(body'[r]) = Chunks(body[r])
      /\ \A i \in DOMAIN body'[r] : body'[r][i] # "ok"
  <2>1. Chunks(body[r]) \in Nat /\ Chunks(body[r]) + 0 = Chunks(body[r])
    BY OnStream
  <2> QED BY <2>1, FramePut
<1>2. /\ progress[r] \in Nat /\ progress' = [progress EXCEPT ![r] = progress[r]] /\ answer[r] # "ok"
      /\ client[r] = "there" =>
           accepted[r] = told[r] + Chunks(body'[r]) + (IF to = "put" THEN 1 ELSE 0) + progress[r]
  BY <1>1, OnStream DEF RowTypes, RequestTypes
<1>3. Moves(r, to, progress[r], body'[r])
  BY <1>1, <1>2 DEF Moves
<1> QED BY <1>3, StreamStep

\* A step of the task alone: neither the channel nor the body changes.
LEMMA TaskStep ==
  ASSUME EndInv, NEW r \in Asked, StreamUnchanged, pc[r] \in StreamSteps \ {"put"},
         NEW to \in (StreamSteps \cup {"done"}) \ {"put"},
         pc' = [pc EXCEPT ![r] = to], UNCHANGED <<progress, body>>,
         pc[r] = "exit" => to = "done",
         to \in {"remove", "drain", "final"} => result[r] # "none",
         to = "final" => progress[r] = 0
  PROVE  EndInv'
<1>1. /\ progress[r] \in Nat /\ progress' = [progress EXCEPT ![r] = progress[r]]
      /\ body[r] \in Seq(Frames) /\ body' = [body EXCEPT ![r] = body[r]]
      /\ client[r] = "gone" => body[r] = << >>
      /\ client[r] = "there" =>
           accepted[r] = told[r] + Chunks(body[r]) + (IF to = "put" THEN 1 ELSE 0) + progress[r]
  BY OnStream DEF RowTypes, RequestTypes
<1>2. /\ \A i \in DOMAIN body[r] : body[r][i] = "ok" =>
           i = Len(body[r]) /\ Succeeds(r) /\ progress[r] = 0 /\ to \in {"exit", "done"}
      /\ answer[r] = "ok" => body[r] = << >> /\ progress[r] = 0 /\ to \in {"exit", "done"}
  BY Known, OnStream DEF Served, Closing
<1>3. Moves(r, to, progress[r], body[r])
  BY <1>1, <1>2 DEF Moves
<1> QED BY <1>3, StreamStep

LEMMA OpenStep ==
  ASSUME EndInv, NEW r \in Asked, Open(r)
  PROVE  EndInv'
<1>1. StreamUnchanged /\ progress' = progress /\ pc[r] = "open" /\ "open" \in Frames
  BY DEF Open, Frames
<1>2. PutsIfThere(r, "open")
  BY DEF Open, PutsIfThere
<1>3. pc' = [pc EXCEPT ![r] = "select"] \/ pc' = [pc EXCEPT ![r] = "done"]
  BY DEF Open, Goes
<1> QED BY <1>1, <1>2, <1>3, FrameStep DEF StreamSteps

LEMMA TimedOutStep ==
  ASSUME EndInv, NEW r \in Asked, TimedOut(r)
  PROVE  EndInv'
<1>1. StreamUnchanged /\ progress' = progress /\ pc[r] = "select" /\ "error" \in Frames
  BY DEF TimedOut, Frames
<1>2. pc' = [pc EXCEPT ![r] = "late"] \/ pc' = [pc EXCEPT ![r] = "again"]
  BY DEF TimedOut, Goes
<1>3. PutsIfThere(r, "error") \/ UNCHANGED body
  BY DEF TimedOut
<1>4. CASE PutsIfThere(r, "error")
  BY <1>1, <1>2, <1>4, FrameStep DEF StreamSteps
<1>5. CASE UNCHANGED body
  BY <1>1, <1>2, <1>5, TaskStep DEF StreamSteps
<1> QED BY <1>3, <1>4, <1>5

LEMMA ReceiveStep ==
  ASSUME EndInv, NEW r \in Asked, Receive(r)
  PROVE  EndInv'
<1>1. StreamUnchanged /\ pc[r] = "select" /\ pc[r] \in StreamSteps
  BY DEF Receive, StreamSteps
<1>2. /\ progress[r] \in Nat /\ progress[r] - 1 \in Nat
      /\ progress' = [progress EXCEPT ![r] = progress[r] - 1]
      /\ pc' = [pc EXCEPT ![r] = "put"] /\ body' = [body EXCEPT ![r] = body[r]]
  BY <1>1, OnStream DEF Receive, Goes, RowTypes, RequestTypes
<1>3. client[r] = "there" => accepted[r] = told[r] + Chunks(body[r]) + 1 + (progress[r] - 1)
  <2>1. /\ client[r] = "there" => accepted[r] = told[r] + Chunks(body[r]) + 0 + progress[r]
        /\ Chunks(body[r]) \in Nat /\ told[r] \in Nat /\ progress[r] \in Nat
    BY <1>1, OnStream DEF RowTypes
  <2> QED BY <2>1
<1>4. Moves(r, "put", progress[r] - 1, body[r])
  BY <1>1, <1>2, <1>3, OnStream DEF Moves, RowTypes, StreamSteps
<1> QED BY <1>1, <1>4, StreamStep

LEMMA PutStep ==
  ASSUME EndInv, NEW r \in Asked, PutChunk(r)
  PROVE  EndInv'
<1>1. StreamUnchanged /\ pc[r] = "put" /\ pc[r] \in StreamSteps /\ "chunk" \in Frames
  BY DEF PutChunk, StreamSteps, Frames
<1>2. PutsIfThere(r, "chunk") /\ progress' = [progress EXCEPT ![r] = progress[r]]
  BY <1>1, OnStream DEF PutChunk, PutsIfThere, RequestTypes
<1>3. PICK to \in {"select", "exit", "quit"} : pc' = [pc EXCEPT ![r] = to]
  BY DEF PutChunk, Goes
<1>4. /\ body'[r] \in Seq(Frames) /\ body' = [body EXCEPT ![r] = body'[r]]
      /\ client[r] = "gone" => body'[r] = << >>
      /\ client[r] = "there" => Chunks(body'[r]) = Chunks(body[r]) + 1
      /\ \A i \in DOMAIN body'[r] : body'[r][i] # "ok"
  BY <1>1, <1>2, FramePut
<1>5. client[r] = "there" => accepted[r] = told[r] + Chunks(body'[r]) + 0 + progress[r]
  <2>1. /\ client[r] = "there" => accepted[r] = told[r] + Chunks(body[r]) + 1 + progress[r]
        /\ Chunks(body[r]) \in Nat /\ told[r] \in Nat /\ progress[r] \in Nat
    BY <1>1, OnStream DEF RowTypes
  <2> QED BY <1>4, <2>1
<1>6. Moves(r, to, progress[r], body'[r])
  BY <1>1, <1>2, <1>3, <1>4, <1>5, OnStream DEF Moves, RowTypes, StreamSteps
<1> QED BY <1>1, <1>6, StreamStep

LEMMA DrainStep ==
  ASSUME EndInv, NEW r \in Asked, Drain(r)
  PROVE  EndInv'
<1>1. StreamUnchanged /\ pc[r] \in {"drain", "late"} /\ pc[r] \in StreamSteps /\ "chunk" \in Frames
  BY DEF Drain, StreamSteps, Frames
<1>2. CASE progress[r] > 0 /\ progress' = [progress EXCEPT ![r] = @ - 1] /\ PutsIfThere(r, "chunk") /\ pc' = pc
  <2>1. /\ progress[r] - 1 \in Nat /\ progress' = [progress EXCEPT ![r] = progress[r] - 1]
        /\ pc' = [pc EXCEPT ![r] = pc[r]]
    BY <1>1, <1>2, OnStream DEF RowTypes, RequestTypes
  <2>2. /\ body'[r] \in Seq(Frames) /\ body' = [body EXCEPT ![r] = body'[r]]
        /\ client[r] = "gone" => body'[r] = << >>
        /\ client[r] = "there" => Chunks(body'[r]) = Chunks(body[r]) + 1
        /\ \A i \in DOMAIN body'[r] : body'[r][i] # "ok"
    BY <1>1, <1>2, FramePut
  <2>3. client[r] = "there" => accepted[r] = told[r] + Chunks(body'[r]) + 0 + (progress[r] - 1)
    <3>1. /\ client[r] = "there" => accepted[r] = told[r] + Chunks(body[r]) + 0 + progress[r]
          /\ Chunks(body[r]) \in Nat /\ told[r] \in Nat /\ progress[r] \in Nat
      BY <1>1, OnStream DEF RowTypes
    <3>2. client[r] = "there" => Chunks(body'[r]) = Chunks(body[r]) + 1
      BY <2>2
    <3> QED BY <3>1, <3>2
  <2>4. Moves(r, pc[r], progress[r] - 1, body'[r])
    BY <1>1, <2>1, <2>2, <2>3, OnStream DEF Moves
  <2> QED BY <1>1, <2>4, StreamStep
<1>3. CASE progress[r] = 0 /\ UNCHANGED <<progress, body>>
           /\ Goes(r, IF pc[r] = "drain" THEN "final"
                      ELSE IF Role(r) = "endpoint" THEN "exit" ELSE "done")
  <2>1. PICK to \in {"final", "exit", "done"} :
          pc' = [pc EXCEPT ![r] = to] /\ (to = "final" => pc[r] = "drain")
    BY <1>3 DEF Goes
  <2>2. to = "final" => result[r] # "none"
    BY <1>1, <2>1, OnStream
  <2> QED BY <1>1, <1>3, <2>1, <2>2, TaskStep DEF StreamSteps
<1> QED BY <1>2, <1>3 DEF Drain, Drained

LEMMA FinalStep ==
  ASSUME EndInv, NEW r \in Asked, Final(r)
  PROVE  EndInv'
<1>1. /\ StreamUnchanged /\ pc[r] = "final" /\ pc[r] \in StreamSteps /\ FinalFrame(r) \in Frames
      /\ UNCHANGED progress
  BY DEF Final, StreamSteps, Frames, FinalFrame, Told
<1>2. PICK to \in {"exit", "done"} : pc' = [pc EXCEPT ![r] = to]
  BY DEF Final, Goes
<1>3. progress[r] = 0 /\ progress' = [progress EXCEPT ![r] = 0]
  BY <1>1, OnStream DEF RequestTypes
<1>4. FinalFrame(r) = "ok" => Succeeds(r)
  BY <1>1, OnStream DEF FinalFrame, Told, Succeeds
<1>5. CASE PutsIfThere(r, FinalFrame(r))
  <2>1. /\ body'[r] \in Seq(Frames) /\ body' = [body EXCEPT ![r] = body'[r]]
        /\ client[r] = "gone" => body'[r] = << >>
        /\ client[r] = "there" => Chunks(body'[r]) = Chunks(body[r]) + 0
        /\ \A i \in DOMAIN body'[r] : body'[r][i] = "ok" => i = Len(body'[r]) /\ FinalFrame(r) = "ok"
    <3>1. FinalFrame(r) # "chunk"
      BY DEF FinalFrame, Told
    <3> QED BY <1>1, <1>5, <3>1, FramePut
  <2>2. client[r] = "there" => accepted[r] = told[r] + Chunks(body'[r]) + 0 + 0
    BY <1>1, <1>3, <2>1, OnStream DEF RowTypes
  <2>3. Moves(r, to, 0, body'[r])
    BY <1>1, <1>2, <1>3, <1>4, <2>1, <2>2, OnStream DEF Moves, StreamSteps
  <2> QED BY <1>1, <2>3, StreamStep
<1>6. CASE UNCHANGED body
  BY <1>1, <1>2, <1>6, TaskStep DEF StreamSteps
<1> QED BY <1>5, <1>6 DEF Final

\* The steps that move the task on and nothing else.
LEMMA TaskSteps ==
  ASSUME EndInv, NEW r \in Asked, ClientGone(r) \/ Completed(r) \/ Remove(r) \/ Exit(r)
  PROVE  EndInv'
<1>1. StreamUnchanged /\ UNCHANGED <<progress, body>>
  BY DEF ClientGone, Completed, Remove, Exit
<1>2. PICK to \in {"exit", "drain", "remove", "late", "done"} :
        /\ pc' = [pc EXCEPT ![r] = to] /\ pc[r] \in {"select", "remove", "again", "quit", "exit"}
        /\ pc[r] = "exit" => to = "done"
        /\ to \in {"remove", "drain"} => result[r] # "none" \/ pc[r] = "remove"
  BY DEF ClientGone, Completed, Remove, Exit, Goes
<1>3. pc[r] = "remove" => result[r] # "none"
  BY <1>2, OnStream DEF StreamSteps
<1> QED BY <1>1, <1>2, <1>3, TaskStep DEF StreamSteps
-----------------------------------------------------------------------------
(* The flow. *)

\* What the flow does with a request it has: more chunks, or a completion.
LEMMA FlowServes ==
  ASSUME EndInv, NEW q \in Asked, setup' = setup,
         work[q] \in {"queued", "busy", "sending"}, work'[q] # "none",
         result'[q] # "none" => work'[q] = "done",
         \/ accepted'[q] = accepted[q] /\ progress'[q] = progress[q]
         \/ accepted'[q] = accepted[q] + 1 /\ progress'[q] = progress[q] + 1,
         /\ pc'[q] = pc[q] /\ query'[q] = query[q] /\ caller'[q] = caller[q]
         /\ client'[q] = client[q] /\ told'[q] = told[q] /\ body'[q] = body[q]
         /\ answer'[q] = answer[q]
  PROVE  Served(q)'
<1>1. RowTypes(q) /\ Served(q) /\ Chunks(body[q]) \in Nat
  BY Known, PlacesAreFinite DEF RowTypes
<1>2. result[q] = "none" /\ ~ Succeeds(q)
  BY <1>1 DEF Served, Settled, Succeeds
<1>3. pc[q] \notin Unsent \cup {"remove", "drain", "final"}
  BY <1>1, <1>2 DEF Served, Door, Stage
<1>4. Door(q)' /\ Stage(q)'
  BY <1>1, <1>3, SameAsk DEF Served, Door, Stage, LetIn, Unsent
<1>5. Counted(q)'
  <2>1. Streams(q) /\ client[q] = "there" =>
          accepted[q] = told[q] + Chunks(body[q]) + (IF pc[q] = "put" THEN 1 ELSE 0) + progress[q]
    BY <1>1 DEF Served, Counted
  <2>2. Streams(q) /\ client[q] = "there" =>
          accepted'[q] = told[q] + Chunks(body[q]) + (IF pc[q] = "put" THEN 1 ELSE 0) + progress'[q]
    <3>1. PICK n \in Nat : n = IF pc[q] = "put" THEN 1 ELSE 0
      OBVIOUS
    <3>2. /\ Chunks(body[q]) \in Nat /\ told[q] \in Nat /\ progress[q] \in Nat /\ accepted[q] \in Nat
          /\ Streams(q) /\ client[q] = "there" =>
               accepted[q] = told[q] + Chunks(body[q]) + n + progress[q]
      BY <1>1, <2>1, <3>1 DEF RowTypes
    <3>3. Streams(q) /\ client[q] = "there" =>
            accepted'[q] = told[q] + Chunks(body[q]) + n + progress'[q]
      BY <3>2
    <3> QED BY <3>1, <3>3
  <2>3. (Streams(q) <=> Streams(q)') /\ Chunks(body[q])' = Chunks(body[q])
    BY SameAsk DEF Chunks
  <2> QED BY <2>2, <2>3 DEF Counted
<1>6. Settled(q)' /\ Left(q)'
  BY <1>1 DEF Served, Settled, Left
<1>7. Closing(q)'
  BY <1>1, <1>2 DEF Served, Closing
<1> QED BY <1>4, <1>5, <1>6, <1>7 DEF Served

LEMMA FlowSteps ==
  ASSUME EndInv, NEW r \in Asked, SendProgress(r) \/ SendsOn(r) \/ FlowEnds(r)
  PROVE  EndInv'
<1>1. r \in Requests /\ RequestTypes /\ RowTypes(r) /\ Served(r)
  BY Known
<1>2. /\ setup' = setup /\ input' = input
      /\ UNCHANGED <<pc, reg, query, caller, client, told, body, answer>>
  BY DEF SendProgress, SendsOn, FlowEnds, flowVars, handlerVars, doorVars, clientVars
<1>3. /\ work[r] \in {"busy", "sending"} /\ work' = [work EXCEPT ![r] = work'[r]]
      /\ work'[r] \in {"busy", "sending", "done"}
      /\ result' = [result EXCEPT ![r] = result'[r]]
      /\ result'[r] \in {"none", "ok", "failed", "dropped"} /\ (result'[r] # "none" => work'[r] = "done")
  <2>1. CASE SendProgress(r)
    BY <1>1, <2>1 DEF SendProgress, RequestTypes, RowTypes, Served, Settled
  <2>2. CASE SendsOn(r)
    BY <1>1, <2>2 DEF SendsOn, RequestTypes, RowTypes, Served, Settled
  <2>3. CASE FlowEnds(r)
    BY <1>1, <2>3 DEF FlowEnds, RequestTypes, RowTypes, Served, Settled
  <2> QED BY <2>1, <2>2, <2>3
<1>4. \/ UNCHANGED <<accepted, progress>>
      \/ /\ accepted' = [accepted EXCEPT ![r] = @ + 1]
         /\ progress' = [progress EXCEPT ![r] = @ + 1]
  BY DEF SendProgress, SendsOn, FlowEnds
<1>5. /\ accepted' = [accepted EXCEPT ![r] = accepted'[r]]
      /\ progress' = [progress EXCEPT ![r] = progress'[r]]
      /\ accepted'[r] \in Nat /\ progress'[r] \in Nat
      /\ \/ accepted'[r] = accepted[r] /\ progress'[r] = progress[r]
         \/ accepted'[r] = accepted[r] + 1 /\ progress'[r] = progress[r] + 1
  BY <1>1, <1>4 DEF RequestTypes, RowTypes
<1>6. Touches(r)
  BY <1>1, <1>2, <1>3, <1>5 DEF RequestTypes, Touches
<1>7. RowTypes(r)'
  BY <1>1, <1>2, <1>3, <1>5 DEF RowTypes
<1>8. Served(r)'
  BY <1>2, <1>3, <1>5, FlowServes
<1>9. Queued'
  BY <1>2, <1>3, <1>6, OthersWait
<1> QED BY <1>1, <1>2, <1>6, <1>7, <1>8, <1>9, OneRequest DEF RequestTypes

\* A request in a tenure's channel.
LEMMA Waiting ==
  ASSUME EndInv, NEW t \in Tenures, NEW i \in DOMAIN input[t]
  PROVE  /\ input[t][i] \in Asked /\ input[t][i] \in Requests
         /\ work[input[t][i]] = "queued" /\ reg[input[t][i]] = t
<1>1. input[t] \in Seq(Asked) /\ Asked \subseteq Requests
  BY AskedAreRequests DEF EndInv, RequestTypes
<1>2. input[t][i] \in Asked
  BY <1>1, ElementOfSeq
<1> QED BY <1>1, <1>2 DEF EndInv, Queued

\* The tasks of a stopped tenure end: what they had is dropped.
LEMMA TasksEndStep ==
  ASSUME EndInv, NEW t \in Tenures, TasksEnd(t)
  PROVE  EndInv'
<1>1. /\ setup' = setup /\ Asked' = Asked /\ Asked \subseteq Requests /\ RequestTypes
      /\ UNCHANGED <<pc, reg, query, caller, client, accepted, progress, told, body, answer>>
  BY AskedAreRequests DEF EndInv, RequestTypes, TasksEnd, handlerVars, doorVars, clientVars, Asked
<1>2. /\ input' = [input EXCEPT ![t] = << >>]
      /\ work' = [r \in Requests |-> IF r \in Held(t) THEN "done" ELSE work[r]]
      /\ result' = [r \in Requests |-> IF r \in Held(t) THEN "dropped" ELSE result[r]]
  BY DEF TasksEnd
<1>3. << >> \in Seq(Asked)
  OBVIOUS
<1>4. RequestTypes'
  <2>1. /\ work' \in [Requests -> {"none", "queued", "busy", "sending", "done"}]
        /\ result' \in [Requests -> {"none", "ok", "failed", "dropped"}]
        /\ input' \in [Tenures -> Seq(Asked)]
    BY <1>1, <1>2, <1>3 DEF RequestTypes
  <2> QED BY <1>1, <2>1 DEF RequestTypes
<1>5. Queued'
  <2>1. ASSUME NEW u \in Tenures, u # t PROVE input'[u] = input[u]
    BY <1>1, <1>2, <2>1 DEF RequestTypes
  <2>2. input'[t] = << >>
    BY <1>1, <1>2 DEF RequestTypes
  <2>3. ASSUME NEW u \in Tenures, u # t, NEW i \in DOMAIN input[u]
        PROVE  work'[input[u][i]] = "queued" /\ reg'[input[u][i]] = u
    <3>1. /\ input[u][i] \in Requests /\ work[input[u][i]] = "queued" /\ reg[input[u][i]] = u
          /\ input[u][i] \notin Held(t)
      BY <2>3, Waiting DEF Held
    <3> QED BY <1>1, <1>2, <3>1
  <2> QED BY <2>1, <2>2, <2>3 DEF EndInv, Queued
<1>6. ASSUME NEW q \in Asked PROVE Served(q)'
  <2>1. CASE q \in Held(t)
    <3>1. work[q] \in {"queued", "busy", "sending"} /\ work'[q] = "done"
      BY <1>1, <1>2, <2>1 DEF Held
    <3> QED BY <1>1, <3>1, FlowServes
  <2>2. CASE q \notin Held(t)
    <3>1. Row(q)' = Row(q)
      BY <1>1, <1>2, <2>2 DEF Row
    <3> QED BY <1>1, <3>1, SameRowIsServed DEF EndInv
  <2> QED BY <2>1, <2>2
<1> QED BY <1>1, <1>4, <1>5, <1>6 DEF EndInv

\* The flow takes the request that is first.
LEMMA TakeStep ==
  ASSUME EndInv, NEW t \in Tenures, Take(t)
  PROVE  EndInv'
<1>1. input[t] \in Seq(Asked) /\ input[t] # << >> /\ RequestTypes
  BY DEF EndInv, RequestTypes, Take
<1>2. PICK r : r = Head(input[t])
  OBVIOUS
<1>3. /\ Len(input[t]) \in Nat /\ Len(input[t]) # 0 /\ DOMAIN input[t] = 1..Len(input[t]) /\ r = input[t][1]
      /\ Tail(input[t]) \in Seq(Asked) /\ DOMAIN Tail(input[t]) = 1..(Len(input[t]) - 1)
      /\ \A i \in 1..(Len(input[t]) - 1) : Tail(input[t])[i] = input[t][i + 1]
  BY <1>1, <1>2, LenProperties, HeadTailProperties, EmptySeq
<1>4. r \in Asked /\ work[r] = "queued" /\ reg[r] = t
  BY <1>1, <1>3, ElementOfSeq DEF EndInv, Queued
<1>5. /\ setup' = setup /\ input' = [input EXCEPT ![t] = Tail(input[t])]
      /\ work' = [work EXCEPT ![r] = IF t \in cancelled THEN "done" ELSE "busy"]
      /\ result' = [result EXCEPT ![r] = IF t \in cancelled THEN "dropped" ELSE result[r]]
      /\ UNCHANGED <<pc, reg, query, caller, client, accepted, progress, told, body, answer>>
  BY <1>2 DEF Take, handlerVars, doorVars, clientVars
<1>6. r \in Requests /\ RowTypes(r) /\ result[r] = "none"
  BY <1>4, Known DEF Served, Settled, RowTypes
<1>7. /\ work'[r] \in {"busy", "done"} /\ result'[r] \in {"none", "dropped"}
      /\ (result'[r] # "none" => work'[r] = "done")
  BY <1>1, <1>5, <1>6 DEF RequestTypes
<1>8. Touches(r)
  BY <1>1, <1>5, <1>6, <1>7 DEF RequestTypes, Touches
<1>9. RowTypes(r)'
  BY <1>5, <1>6, <1>7 DEF RowTypes
<1>10. Served(r)'
  BY <1>4, <1>5, <1>7, FlowServes
<1>11. input' \in [Tenures -> Seq(Asked)] /\ input'[t] = Tail(input[t])
  BY <1>1, <1>3, <1>5 DEF RequestTypes
<1>12. Queued'
  <2>1. ASSUME NEW u \in Tenures, NEW i \in DOMAIN input[u], input[u][i] # r
        PROVE  work'[input[u][i]] = "queued" /\ reg'[input[u][i]] = u
    <3>1. input[u][i] \in Requests /\ work[input[u][i]] = "queued" /\ reg[input[u][i]] = u
      BY Waiting
    <3> QED BY <1>1, <1>5, <2>1, <3>1 DEF RequestTypes
  <2>2. ASSUME NEW u \in Tenures, u # t
        PROVE  input'[u] = input[u] /\ \A i \in DOMAIN input[u] : input[u][i] # r
    <3>1. input'[u] = input[u]
      BY <1>1, <1>5, <2>2 DEF RequestTypes
    <3>2. \A i \in DOMAIN input[u] : reg[input[u][i]] = u
      BY Waiting
    <3> QED BY <1>4, <2>2, <3>1, <3>2
  <2>3. \A i \in 1..(Len(input[t]) - 1) : i + 1 \in DOMAIN input[t] /\ input[t][i + 1] # r
    BY <1>3 DEF EndInv, Queued
  <2>4. \A i, j \in 1..(Len(input[t]) - 1) : input[t][i + 1] = input[t][j + 1] => i = j
    BY <1>3 DEF EndInv, Queued
  <2>5. ASSUME NEW u \in Tenures, NEW i \in DOMAIN input'[u]
        PROVE  work'[input'[u][i]] = "queued" /\ reg'[input'[u][i]] = u
    <3>1. CASE u = t
      <4>1. i \in 1..(Len(input[t]) - 1) /\ input'[u][i] = input[t][i + 1]
        BY <1>3, <1>11, <2>5, <3>1
      <4> QED BY <2>1, <2>3, <3>1, <4>1
    <3>2. CASE u # t
      BY <2>1, <2>2, <2>5, <3>2
    <3> QED BY <3>1, <3>2
  <2>6. ASSUME NEW u \in Tenures, NEW i \in DOMAIN input'[u], NEW j \in DOMAIN input'[u],
               input'[u][i] = input'[u][j]
        PROVE  i = j
    <3>1. CASE u = t
      <4>1. \A k \in DOMAIN input'[t] : k \in 1..(Len(input[t]) - 1) /\ input'[t][k] = input[t][k + 1]
        BY <1>3, <1>11
      <4> QED BY <2>4, <2>6, <3>1, <4>1
    <3>2. CASE u # t
      BY <2>2, <2>6, <3>2 DEF EndInv, Queued
    <3> QED BY <3>1, <3>2
  <2> QED BY <2>5, <2>6 DEF Queued
<1> QED BY <1>4, <1>5, <1>8, <1>9, <1>10, <1>11, <1>12, OneRequest
-----------------------------------------------------------------------------
(* The rest of the handler, and the client. *)

LEMMA EntrySteps ==
  ASSUME EndInv, NEW r \in Asked, Insert(r) \/ Undo(r)
  PROVE  EndInv'
<1>1. r \in Requests /\ RequestTypes /\ RowTypes(r) /\ Served(r)
  BY Known
<1>2. /\ setup' = setup /\ input' = input
      /\ UNCHANGED <<reg, query, caller, client, work, result, accepted, progress, told, body, answer>>
  BY DEF Insert, Undo, Unchanged, doorVars, jobVars, clientVars
<1>3. \/ pc[r] = "insert" /\ pc' = [pc EXCEPT ![r] = "send"]
      \/ pc[r] = "undo" /\ pc' = [pc EXCEPT ![r] = "done"]
  BY DEF Insert, Undo
<1>4. \/ pc[r] = "insert" /\ pc'[r] = "send"
      \/ pc[r] = "undo" /\ pc'[r] = "done"
  BY <1>1, <1>3 DEF RequestTypes
<1>5. Touches(r)
  BY <1>1, <1>2, <1>3 DEF RequestTypes, Touches
<1>6. RowTypes(r)'
  BY <1>1, <1>2, <1>4 DEF RowTypes, Steps, HandlerSteps
<1>7. Served(r)'
  <2>1. Door(r)' /\ Stage(r)'
    BY <1>1, <1>2, <1>4, SameAsk DEF Served, Door, Stage, LetIn, Unsent, StreamSteps
  <2>2. Settled(r)' /\ Counted(r)'
    BY <1>1, <1>2, <1>4, SameAsk DEF Served, Settled, Counted, Chunks
  <2>3. Closing(r)' /\ Left(r)'
    BY <1>1, <1>2, <1>4, SameAsk DEF Served, Closing, Succeeds, Left, StreamSteps
  <2> QED BY <2>1, <2>2, <2>3 DEF Served
<1>8. Queued'
  BY <1>2, <1>5, OthersWait
<1> QED BY <1>1, <1>2, <1>5, <1>6, <1>7, <1>8, OneRequest DEF RequestTypes

LEMMA SendStep ==
  ASSUME EndInv, NEW r \in Asked, Send(r)
  PROVE  EndInv'
<1>1. r \in Requests /\ RequestTypes /\ RowTypes(r) /\ Served(r)
  BY Known
<1>2. /\ setup' = setup /\ pc[r] = "send" /\ work[r] = "none"
      /\ UNCHANGED <<reg, query, caller, client, result, accepted, progress, told, body>>
  BY <1>1 DEF Send, Unchanged, doorVars, Served, Door, Unsent
<1>3. PICK to \in {"await", "open", "select", "undo", "done"}, how \in {"queued", "none"} :
        /\ pc' = [pc EXCEPT ![r] = to] /\ work' = [work EXCEPT ![r] = how]
        /\ to \in {"open", "select"} => Streams(r)
        /\ to = "await" => ~ Streams(r)
        /\ \/ how = "queued" /\ input' = [input EXCEPT ![reg[r]] = Append(@, r)]
           \/ how = "none" /\ input' = input
        /\ UNCHANGED answer \/ \E a \in {"busy", "undelivered"} : answer' = [answer EXCEPT ![r] = a]
  <2>1. CASE \E a \in {"busy", "undelivered"} : answer' = [answer EXCEPT ![r] = a] /\ UNCHANGED <<input, work>>
    <3>1. work' = [work EXCEPT ![r] = "none"]
      BY <1>1, <1>2, <2>1 DEF RequestTypes
    <3>2. pc' = [pc EXCEPT ![r] = "undo"] \/ pc' = [pc EXCEPT ![r] = "done"]
      BY <1>1, <1>2, <2>1, <3>1 DEF Send, RequestTypes, AfterSend
    <3> QED BY <2>1, <3>1, <3>2
  <2>2. CASE /\ input' = [input EXCEPT ![reg[r]] = Append(@, r)]
             /\ work' = [work EXCEPT ![r] = "queued"]
             /\ pc' = [pc EXCEPT ![r] = AfterSend(r)] /\ UNCHANGED answer
    BY <2>2 DEF AfterSend
  <2> QED BY <2>1, <2>2 DEF Send
<1>4. /\ pc'[r] = to /\ work'[r] = how /\ (answer'[r] = answer[r] \/ answer'[r] \in {"busy", "undelivered"})
  BY <1>1, <1>3 DEF RequestTypes
<1>5. Touches(r)
  BY <1>1, <1>2, <1>3, <1>4 DEF RequestTypes, Touches
<1>6. RowTypes(r)'
  BY <1>1, <1>2, <1>4 DEF RowTypes, Steps, HandlerSteps, StreamSteps
<1>7. client[r] = "there"
  BY <1>1, <1>2 DEF Served, Left, StreamSteps, RowTypes
<1>8. Served(r)'
  <2>1. Door(r)'
    BY <1>1, <1>2, <1>4, SameAsk DEF Served, Door, LetIn, Unsent
  <2>2. Stage(r)'
    BY <1>3, <1>4, SameAsk, <1>2 DEF Stage, StreamSteps
  <2>3. Settled(r)'
    BY <1>1, <1>2, <1>4 DEF Served, Settled, RowTypes
  <2>4. Counted(r)'
    BY <1>1, <1>2, <1>4, SameAsk DEF Served, Counted, Chunks
  <2>5. Closing(r)'
    BY <1>1, <1>2, <1>4, SameAsk DEF Served, Closing, Succeeds
  <2>6. Left(r)'
    BY <1>2, <1>7 DEF Left
  <2> QED BY <2>1, <2>2, <2>3, <2>4, <2>5, <2>6 DEF Served
<1>9. CASE input' = input
  <2>1. Queued'
    BY <1>2, <1>5, <1>9, OthersWait
  <2> QED BY <1>1, <1>2, <1>5, <1>6, <1>8, <1>9, <2>1, OneRequest DEF RequestTypes
<1>10. CASE reg[r] \in Tenures /\ how = "queued" /\ input' = [input EXCEPT ![reg[r]] = Append(@, r)]
  <2> DEFINE t == reg[r]
             b == input[t]
  <2>1. b \in Seq(Asked)
    BY <1>1, <1>10 DEF RequestTypes
  <2>2. /\ Append(b, r) \in Seq(Asked) /\ Len(b) \in Nat /\ DOMAIN b = 1..Len(b)
        /\ DOMAIN Append(b, r) = 1..(Len(b) + 1)
        /\ Append(b, r)[Len(b) + 1] = r
        /\ \A i \in 1..Len(b) : Append(b, r)[i] = b[i]
    BY <2>1, LenProperties, AppendProperties
  <2>3. input' \in [Tenures -> Seq(Asked)]
    BY <1>1, <1>10, <2>2 DEF RequestTypes
  <2>4. input'[t] = Append(b, r) /\ \A u \in Tenures : u # t => input'[u] = input[u]
    BY <1>1, <1>10 DEF RequestTypes
  <2>5. ASSUME NEW u \in Tenures, NEW i \in DOMAIN input[u]
        PROVE  /\ input[u][i] # r
               /\ work'[input[u][i]] = "queued" /\ reg'[input[u][i]] = u
    <3>1. input[u][i] \in Requests /\ work[input[u][i]] = "queued" /\ reg[input[u][i]] = u
      BY Waiting
    <3> QED BY <1>1, <1>2, <1>3, <3>1 DEF RequestTypes
  <2>6. work'[r] = "queued" /\ reg'[r] = t
    BY <1>2, <1>4, <1>10
  <2> HIDE DEF t, b
  <2>7. ASSUME NEW u \in Tenures, NEW i \in DOMAIN input'[u]
        PROVE  work'[input'[u][i]] = "queued" /\ reg'[input'[u][i]] = u
    <3>1. CASE u = t /\ i = Len(b) + 1
      BY <2>2, <2>4, <2>6, <3>1
    <3>2. CASE u # t
      BY <2>4, <2>5, <2>7, <3>2
    <3>3. CASE u = t /\ i # Len(b) + 1
      <4>1. i \in DOMAIN input[t] /\ input'[t][i] = input[t][i]
        BY <2>2, <2>4, <2>7, <3>3 DEF b
      <4> QED BY <2>5, <3>3, <4>1
    <3> QED BY <3>1, <3>2, <3>3
  <2>8. ASSUME NEW u \in Tenures, NEW i \in DOMAIN input'[u], NEW j \in DOMAIN input'[u],
               input'[u][i] = input'[u][j]
        PROVE  i = j
    <3>1. CASE u # t
      BY <2>4, <2>8, <3>1 DEF EndInv, Queued
    <3>2. CASE u = t
      <4>1. /\ i \in 1..(Len(b) + 1) /\ j \in 1..(Len(b) + 1)
            /\ Append(b, r)[i] = Append(b, r)[j]
        BY <2>2, <2>4, <2>8, <3>2
      <4>2. \A k \in 1..Len(b) : b[k] # r
        BY <2>2, <2>5, <3>2 DEF b
      <4>3. \A k, l \in 1..Len(b) : b[k] = b[l] => k = l
        BY <2>2, <3>2 DEF b, EndInv, Queued
      <4> QED BY <2>2, <4>1, <4>2, <4>3
    <3> QED BY <3>1, <3>2
  <2>9. Queued'
    BY <2>7, <2>8 DEF Queued
  <2> QED BY <1>2, <1>5, <1>6, <1>8, <2>3, <2>9, OneRequest
<1>11. reg[r] \notin Tenures /\ input' # input => FALSE
  BY <1>1, <1>3 DEF RequestTypes
<1> QED BY <1>3, <1>9, <1>10, <1>11

LEMMA AwaitStep ==
  ASSUME EndInv, NEW r \in Asked, Await(r)
  PROVE  EndInv'
<1>1. r \in Requests /\ RequestTypes /\ RowTypes(r) /\ Served(r)
  BY Known
<1>2. /\ setup' = setup /\ input' = input /\ pc[r] = "await"
      /\ pc' = [pc EXCEPT ![r] = "done"] /\ answer' = [answer EXCEPT ![r] = Told(r)]
      /\ UNCHANGED <<reg, query, caller, client, work, result, accepted, progress, told, body>>
  BY DEF Await, AnswerWith, Unchanged, doorVars, jobVars
<1>3. pc'[r] = "done" /\ answer'[r] = Told(r)
  BY <1>1, <1>2 DEF RequestTypes
<1>4. Touches(r)
  BY <1>1, <1>2, <1>3 DEF RequestTypes, Touches
<1>5. RowTypes(r)'
  BY <1>1, <1>2, <1>3 DEF RowTypes, Steps
<1>6. ~ Streams(r) /\ client[r] = "there" /\ (Told(r) = "ok" => Succeeds(r))
  BY <1>1, <1>2 DEF Served, Stage, Left, StreamSteps, RowTypes, Told, Succeeds
<1>7. Served(r)'
  <2>1. Door(r)' /\ Stage(r)'
    BY <1>1, <1>2, <1>3, SameAsk DEF Served, Door, Stage, LetIn, Unsent, StreamSteps
  <2>2. Settled(r)' /\ Counted(r)' /\ Left(r)'
    BY <1>1, <1>2, <1>3, <1>6, SameAsk DEF Served, Settled, Counted, Left
  <2>3. Closing(r)'
    BY <1>1, <1>2, <1>3, <1>6, SameAsk DEF Served, Closing, Succeeds
  <2> QED BY <2>1, <2>2, <2>3 DEF Served
<1>8. Queued'
  BY <1>2, <1>4, OthersWait
<1> QED BY <1>1, <1>2, <1>4, <1>5, <1>7, <1>8, OneRequest DEF RequestTypes

LEMMA ReadStep ==
  ASSUME EndInv, NEW r \in Asked, Read(r)
  PROVE  EndInv'
<1>1. r \in Requests /\ RequestTypes /\ RowTypes(r) /\ Served(r)
  BY Known
<1>2. PICK frame : frame = Head(body[r])
  OBVIOUS
<1>3. /\ setup' = setup /\ input' = input /\ client[r] = "there" /\ body[r] # << >>
      /\ body' = [body EXCEPT ![r] = Tail(body[r])]
      /\ told' = [told EXCEPT ![r] = IF frame = "chunk" THEN told[r] + 1 ELSE told[r]]
      /\ answer' = [answer EXCEPT ![r] = IF frame \in {"ok", "error"} THEN frame ELSE answer[r]]
      /\ UNCHANGED <<pc, reg, query, caller, client, work, result, accepted, progress>>
  BY <1>2 DEF Read, flowVars, handlerVars, doorVars, jobVars
<1>4. /\ Len(body[r]) \in Nat /\ Len(body[r]) # 0 /\ DOMAIN body[r] = 1..Len(body[r]) /\ frame = body[r][1]
      /\ Tail(body[r]) \in Seq(Frames) /\ DOMAIN Tail(body[r]) = 1..(Len(body[r]) - 1)
      /\ Len(Tail(body[r])) = Len(body[r]) - 1
      /\ \A i \in 1..(Len(body[r]) - 1) : Tail(body[r])[i] = body[r][i + 1]
  BY <1>1, <1>2, <1>3, LenProperties, HeadTailProperties, EmptySeq DEF RowTypes
<1>5. /\ body'[r] = Tail(body[r]) /\ told'[r] = (IF frame = "chunk" THEN told[r] + 1 ELSE told[r])
      /\ answer'[r] = (IF frame \in {"ok", "error"} THEN frame ELSE answer[r])
  BY <1>1, <1>3 DEF RequestTypes
<1>6. Touches(r)
  BY <1>1, <1>3, <1>5 DEF RequestTypes, Touches
<1>7. RowTypes(r)'
  BY <1>1, <1>3, <1>4, <1>5 DEF RowTypes
<1>8. Counted(r)'
  <2>1. Chunks(body[r]) = IF frame = "chunk" THEN Chunks(Tail(body[r])) + 1 ELSE Chunks(Tail(body[r]))
    BY <1>1, <1>2, <1>3, ChunkRead DEF RowTypes
  <2>2. Chunks(body[r]) \in Nat /\ Chunks(Tail(body[r])) \in Nat /\ told[r] \in Nat /\ told'[r] \in Nat
    BY <1>1, <1>4, <1>7, PlacesAreFinite DEF RowTypes
  <2>3. told'[r] + Chunks(Tail(body[r])) = told[r] + Chunks(body[r])
    BY <1>5, <2>1, <2>2
  <2>4. (Streams(r)' <=> Streams(r)) /\ Chunks(body[r])' = Chunks(Tail(body[r]))
    BY <1>3, <1>5, SameAsk DEF Chunks
  <2>5. Streams(r) => accepted[r] = told'[r] + Chunks(Tail(body[r])) + (IF pc[r] = "put" THEN 1 ELSE 0) + progress[r]
    BY <1>1, <1>3, <2>3 DEF Served, Counted
  <2> QED BY <1>3, <2>4, <2>5 DEF Counted
<1>9. Closing(r)'
  <2>1. ASSUME NEW i \in DOMAIN body'[r], body'[r][i] = "ok"
        PROVE  /\ i = Len(body'[r]) /\ Succeeds(r) /\ progress[r] = 0
               /\ pc[r] \in {"exit", "done"} /\ Streams(r)
    <3>1. /\ i \in 1..(Len(body[r]) - 1) /\ i + 1 \in DOMAIN body[r] /\ body[r][i + 1] = "ok"
      BY <1>4, <1>5, <2>1
    <3>2. /\ i + 1 = Len(body[r]) /\ Succeeds(r) /\ progress[r] = 0
          /\ pc[r] \in {"exit", "done"} /\ Streams(r)
      BY <1>1, <3>1 DEF Served, Closing
    <3> QED BY <1>4, <1>5, <3>1, <3>2
  <2>2. ASSUME answer'[r] = "ok", frame = "ok"
        PROVE  /\ Succeeds(r) /\ body'[r] = << >> /\ progress[r] = 0 /\ pc[r] \in {"exit", "done"}
    <3>1. 1 \in DOMAIN body[r] /\ body[r][1] = "ok"
      BY <1>4, <2>2
    <3>2. 1 = Len(body[r]) /\ Succeeds(r) /\ progress[r] = 0 /\ pc[r] \in {"exit", "done"}
      BY <1>1, <3>1 DEF Served, Closing
    <3>3. body'[r] \in Seq(Frames) /\ Len(body'[r]) = 0
      BY <1>4, <1>5, <3>2
    <3> QED BY <3>2, <3>3, EmptySeq
  <2>3. answer'[r] = "ok" /\ frame # "ok" => answer[r] = "ok" /\ ~ Streams(r) /\ Succeeds(r)
    BY <1>1, <1>3, <1>5 DEF Served, Closing
  <2>4. (Succeeds(r)' <=> Succeeds(r)) /\ (Streams(r)' <=> Streams(r))
    BY <1>3, SameAsk DEF Succeeds
  <2> QED BY <1>3, <2>1, <2>2, <2>3, <2>4 DEF Closing
<1>10. Served(r)'
  <2>1. Door(r)' /\ Stage(r)'
    BY <1>1, <1>3, SameAsk DEF Served, Door, Stage, LetIn
  <2>2. Settled(r)' /\ Left(r)'
    BY <1>1, <1>3 DEF Served, Settled, Left
  <2> QED BY <1>8, <1>9, <2>1, <2>2 DEF Served
<1>11. Queued'
  BY <1>3, <1>6, OthersWait
<1> QED BY <1>1, <1>3, <1>6, <1>7, <1>10, <1>11, OneRequest DEF RequestTypes

LEMMA EndsStep ==
  ASSUME EndInv, NEW r \in Asked, StreamEnds(r) \/ Leave(r)
  PROVE  EndInv'
<1>1. r \in Requests /\ RequestTypes /\ RowTypes(r) /\ Served(r)
  BY Known
<1>2. /\ setup' = setup /\ input' = input
      /\ UNCHANGED <<reg, query, caller, work, result, accepted, progress, told>>
  BY DEF StreamEnds, Leave, flowVars, handlerVars, doorVars, jobVars
<1>3. \/ /\ answer' = [answer EXCEPT ![r] = "ended"] /\ UNCHANGED <<pc, client, body>> /\ client[r] = "there"
      \/ /\ client' = [client EXCEPT ![r] = "gone"] /\ answer' = [answer EXCEPT ![r] = "cut"]
         /\ body' = [body EXCEPT ![r] = << >>]
         /\ pc' = [pc EXCEPT ![r] = IF pc[r] \in StreamSteps THEN pc[r] ELSE "done"]
  BY DEF StreamEnds, Leave, Streaming, handlerVars
<1>4. \/ /\ answer'[r] = "ended" /\ pc'[r] = pc[r] /\ client'[r] = "there" /\ client[r] = "there" /\ body'[r] = body[r]
      \/ /\ client'[r] = "gone" /\ answer'[r] = "cut" /\ body'[r] = << >>
         /\ pc'[r] \in StreamSteps \cup {"done"} /\ pc'[r] \in {pc[r], "done"}
  BY <1>1, <1>3 DEF RequestTypes
<1>5. Touches(r)
  BY <1>1, <1>2, <1>3, <1>4 DEF RequestTypes, Touches
<1>6. << >> \in Seq(Frames)
  OBVIOUS
<1>7. RowTypes(r)'
  BY <1>1, <1>2, <1>4, <1>6 DEF RowTypes, Steps
<1>8. Served(r)'
  <2>1. Door(r)' /\ Stage(r)'
    BY <1>1, <1>2, <1>4, SameAsk DEF Served, Door, Stage, LetIn, Unsent, StreamSteps
  <2>2. Settled(r)' /\ Counted(r)'
    BY <1>1, <1>2, <1>4, SameAsk DEF Served, Settled, Counted, Chunks
  <2>3. Closing(r)' /\ Left(r)'
    BY <1>1, <1>2, <1>4, SameAsk DEF Served, Closing, Succeeds, Left
  <2> QED BY <2>1, <2>2, <2>3 DEF Served
<1>9. Queued'
  BY <1>2, <1>5, OthersWait
<1> QED BY <1>1, <1>2, <1>5, <1>7, <1>8, <1>9, OneRequest DEF RequestTypes
-----------------------------------------------------------------------------
(* The invariant. *)

LEMMA EndInit == Init => EndInv
<1> SUFFICES ASSUME Init PROVE EndInv
  OBVIOUS
<1>1. Asked \subseteq Requests /\ << >> \in Seq(Asked) /\ << >> \in Seq(Frames) /\ DOMAIN << >> = {}
  BY AskedAreRequests DEF Init
<1>2. RequestTypes
  BY <1>1 DEF Init, RequestTypes, Steps
<1>3. Queued
  BY <1>1 DEF Init, Queued
<1>4. ASSUME NEW r \in Asked PROVE Served(r)
  <2>1. /\ pc[r] = "new" /\ work[r] = "none" /\ result[r] = "none" /\ client[r] = "there"
        /\ accepted[r] = 0 /\ told[r] = 0 /\ progress[r] = 0 /\ body[r] = << >> /\ answer[r] = "none"
    BY <1>1, <1>4 DEF Init
  <2>2. Door(r) /\ Stage(r) /\ Settled(r)
    BY <2>1 DEF Door, Stage, Settled, Unsent, StreamSteps
  <2>3. Counted(r) /\ Closing(r) /\ Left(r)
    BY <1>1, <2>1, NoChunks DEF Counted, Closing, Left
  <2> QED BY <2>2, <2>3 DEF Served
<1> QED BY <1>2, <1>3, <1>4 DEF EndInv

LEMMA EndNext == EndInv /\ [Next]_vars => EndInv'
<1> SUFFICES ASSUME EndInv, [Next]_vars PROVE EndInv'
  OBVIOUS
<1>1. CASE UNCHANGED vars
  BY <1>1, NoRequest DEF vars, requestVars, flowVars
<1>2. CASE \E f \in Flows : Start(f) \/ Cancel(f) \/ Deregister(f) \/ \E t \in Tables : Claim(f, t)
  BY <1>2, NoRequest DEF Start, Cancel, Deregister, Claim, requestVars, flowVars
<1>3. CASE SessionStep
  BY <1>3, NoRequest DEF SessionStep, requestVars, flowVars
<1>4. CASE \E t \in Tenures : TasksEnd(t) \/ Take(t)
  BY <1>4, TasksEndStep, TakeStep
<1>5. ASSUME NEW r \in Asked, Expire(r) PROVE EndInv'
  BY <1>5, NoRequest DEF Expire, flowVars
<1>6. ASSUME NEW r \in Asked, HandlerStep(r) PROVE EndInv'
  BY <1>6, ArriveStep, CheckStep, SendStep, AwaitStep, OpenStep, ReceiveStep, PutStep, TaskSteps,
     DrainStep, FinalStep DEF HandlerStep
<1>7. ASSUME NEW r \in Asked, LockStep(r) PROVE EndInv'
  BY <1>7, EntrySteps, TaskSteps, TimedOutStep, FlowSteps DEF LockStep
<1>8. ASSUME NEW r \in Asked, FlowStep(r) \/ Read(r) \/ StreamEnds(r) \/ Leave(r) PROVE EndInv'
  BY <1>8, FlowSteps, ReadStep, EndsStep DEF FlowStep
<1> QED BY <1>1, <1>2, <1>3, <1>4, <1>5, <1>6, <1>7, <1>8 DEF Next

\* What is known of every request in every state of the servers: the invariant that
\* the theorems below rest on (server.rs of the HTTP, MCP and AI gateway servers).
THEOREM EndInvariance == Spec => []EndInv
BY EndInit, EndNext, PTL DEF Spec

\* Whoever is told of a success has every chunk the flow streamed, for a completion
\* that succeeded: dispatch_stream, execute_tool_call and dispatch_streaming lose no
\* chunk between the entry's channel, the drain and the last frame, whatever the
\* capacities of the channels and however many requests are served.
THEOREM SuccessesAreComplete == Spec => []SuccessIsComplete
<1>1. EndInv => SuccessIsComplete
  <2> SUFFICES ASSUME EndInv, NEW r \in Asked, answer[r] = "ok"
               PROVE  /\ result[r] = "ok" \/ (Role(r) = "proxy" /\ Streams(r) /\ result[r] = "dropped")
                      /\ Streams(r) => told[r] = accepted[r]
    BY DEF SuccessIsComplete
  <2>1. Served(r) /\ RowTypes(r)
    BY Known
  <2>2. Succeeds(r)
    BY <2>1 DEF Served, Closing
  <2>3. ASSUME Streams(r) PROVE told[r] = accepted[r]
    <3>1. client[r] = "there" /\ body[r] = << >> /\ progress[r] = 0 /\ pc[r] \in {"exit", "done"}
      BY <2>1, <2>3 DEF Served, Closing
    <3>2. accepted[r] = told[r] + Chunks(<< >>) + 0 + 0
      BY <2>1, <2>3, <3>1 DEF Served, Counted
    <3> QED BY <2>1, <3>2, NoChunks DEF RowTypes
  <2> QED BY <2>2, <2>3 DEF Succeeds
<1> QED BY <1>1, EndInvariance, PTL

\* An event that reached a flow was let in as its source task is configured, at each
\* door and for every guard and query (validate_endpoint_auth, validate_auth,
\* validate_user_auth, optional_user, headers_satisfy), and it still carries the user
\* it was let in with.
THEOREM DoorsAreKept == Spec => []AdmittedAsConfigured
<1>1. EndInv => AdmittedAsConfigured
  <2> SUFFICES ASSUME EndInv, NEW r \in Asked, work[r] # "none", Role(r) # "inproc"
               PROVE  LET g == Ask(r).guard
                          a == query[r].auth
                          guarded == IF Role(r) = "tool" THEN ChecksKey(g) ELSE g.own
                      IN  /\ guarded => ShowsKey(g, a)
                          /\ g.required => caller[r] = "user"
                          /\ guarded /\ ~ g.required => caller[r] = "none"
                          /\ g.scoped /\ Role(r) # "endpoint" => query[r].headers
    BY DEF AdmittedAsConfigured
  <2>1. /\ Admits(Role(r), Ask(r).guard, query[r]) /\ query[r] \in Queries
        /\ caller[r] = CallerOf(Role(r), Ask(r).guard, query[r])
    BY Known DEF Served, Door, LetIn
  <2>2. Role(r) \in {"endpoint", "proxy", "tool"} /\ Ask(r).guard \in Guards
    BY SetupsAssumption DEF EndInv, RequestTypes, Role, Ask, Asked
  <2>3. PICK g \in Guards, q \in Queries : g = Ask(r).guard /\ q = query[r]
    BY <2>1, <2>2
  <2>4. CASE Role(r) = "endpoint"
    <3>1. WebhookAdmits(g, q) /\ caller[r] = WebhookUser(g, q.auth)
      BY <2>1, <2>3, <2>4 DEF Admits, CallerOf
    <3> QED BY <2>3, <2>4, <3>1 DEF WebhookAdmits, WebhookAuth, RequiredUser, WebhookUser, BearerToken,
               IsKey, Validates, BasicAuth, ShowsKey, Guards
  <2>5. CASE Role(r) = "proxy"
    <3>1. ProxyAdmits(g, q) /\ caller[r] = ProxyUser(g, q.auth)
      BY <2>1, <2>3, <2>5 DEF Admits, CallerOf
    <3> QED BY <2>3, <2>5, <3>1 DEF ProxyAdmits, ResolveRegistration, HeadersSatisfy, ProxyAuth,
               RequiredUser, ProxyUser, BearerToken, IsKey, Validates, ShowsKey, Guards
  <2>6. CASE Role(r) = "tool"
    <3>1. ToolAdmits(g, q) /\ caller[r] = ToolUser(g, q.auth)
      BY <2>1, <2>3, <2>6 DEF Admits, CallerOf
    <3> QED BY <2>3, <2>6, <3>1 DEF ToolAdmits, ToolAuth, ChecksKey, HeadersSatisfy, RequiredUser,
               ToolUser, BearerToken, IsKey, Validates, ShowsKey, Guards
  <2> QED BY <2>2, <2>4, <2>5, <2>6
<1> QED BY <1>1, EndInvariance, PTL
-----------------------------------------------------------------------------
(* The response registries. *)

OwnerTypes ==
  /\ entries \in [0..MaxChanges -> SUBSET Requests] /\ reg \in [Requests -> 0..MaxChanges]
  /\ tenure \in [Flows -> 0..MaxChanges] /\ changes \in Nat
  /\ table \in [Tables -> Flows \cup {NoFlow}]

\* An entry is in the registry its request inserts in, from the insert on, and those
\* who remove it before the drain have done so by then.
Owned(r) ==
  \A g \in 0..MaxChanges : r \in entries[g] =>
    /\ g = RegistryOf(r) /\ Streams(r)
    /\ pc[r] \notin {"new", "check", "insert"}
    /\ pc[r] = "done" => client[r] = "gone"
    /\ pc[r] \in {"drain", "late", "final"} => Role(r) = "endpoint"

OwnInv == OwnerTypes /\ \A r \in Asked : Owned(r)

\* Where a request with an entry may go.
Keeps(r, to) ==
  \/ to \in {"send", "undo", "open", "select", "put", "exit", "quit", "remove"}
  \/ to = "done" /\ client'[r] = "gone"
  \/ to \in {"drain", "late", "final"} /\ Role(r) = "endpoint"
  \/ to = pc[r] /\ to # "done"

LEMMA OwnersStay ==
  ASSUME OwnInv, setup' = setup, NEW r, \A q \in Asked \ {r} : UNCHANGED <<pc[q], reg[q], client[q]>>,
         \A q \in Asked \ {r} : \A g \in 0..MaxChanges : q \in entries'[g] => q \in entries[g],
         r \in Asked => Owned(r)'
  PROVE  \A q \in Asked' : Owned(q)'
<1>1. Asked' = Asked
  BY DEF Asked
<1>2. ASSUME NEW q \in Asked, q # r PROVE Owned(q)'
  <2>1. /\ pc'[q] = pc[q] /\ reg'[q] = reg[q] /\ client'[q] = client[q]
        /\ Role(q)' = Role(q) /\ Streams(q)' = Streams(q)
    BY <1>2, SameAsk
  <2>2. RegistryOf(q)' = RegistryOf(q)
    BY <2>1 DEF RegistryOf
  <2> QED BY <1>2, <2>1, <2>2 DEF OwnInv, Owned
<1> QED BY <1>1, <1>2

\* A request goes on, and its entry stays.
LEMMA OwnerMoves ==
  ASSUME EndInv, OwnInv, NEW r \in Asked, NEW to, setup' = setup, reg' = reg, entries' = entries,
         client' = client \/ client' = [client EXCEPT ![r] = "gone"],
         pc' = [pc EXCEPT ![r] = to],
         \A g \in 0..MaxChanges : r \in entries[g] => Keeps(r, to)
  PROVE  \A q \in Asked' : Owned(q)'
<1>1. r \in Requests /\ RequestTypes
  BY Known
<1>2. pc'[r] = to /\ (client'[r] = client[r] \/ client'[r] = "gone")
  BY <1>1 DEF RequestTypes
<1>3. Asked \subseteq Requests
  BY <1>1, AskedAreRequests DEF RequestTypes
<1>4. \A q \in Asked \ {r} : UNCHANGED <<pc[q], reg[q], client[q]>>
  BY <1>1, <1>3 DEF RequestTypes
<1>5. Owned(r)'
  <2>1. Role(r)' = Role(r) /\ Streams(r)' = Streams(r)
    BY SameAsk
  <2>2. RegistryOf(r)' = RegistryOf(r)
    BY <2>1 DEF RegistryOf
  <2> QED BY <1>2, <2>1, <2>2 DEF OwnInv, Owned, Keeps
<1> QED BY <1>4, <1>5, OwnersStay

\* A request goes on without an entry.
LEMMA OwnerLeaves ==
  ASSUME EndInv, OwnInv, NEW r \in Asked, NEW to, setup' = setup, reg' = reg, client' = client,
         RemoveEntry(r), pc' = [pc EXCEPT ![r] = to]
  PROVE  \A q \in Asked' : Owned(q)'
<1>1. r \in Requests /\ RequestTypes
  BY Known
<1>2. Asked \subseteq Requests
  BY <1>1, AskedAreRequests DEF RequestTypes
<1>3. \A q \in Asked \ {r} : UNCHANGED <<pc[q], reg[q], client[q]>>
  BY <1>1, <1>2 DEF RequestTypes
<1>4. ASSUME NEW g \in 0..MaxChanges
      PROVE  entries'[g] = IF g = RegistryOf(r) THEN entries[g] \ {r} ELSE entries[g]
  BY DEF RemoveEntry, OwnInv, OwnerTypes
<1>5. \A g \in 0..MaxChanges : r \notin entries'[g]
  BY <1>4 DEF OwnInv, Owned
<1> QED BY <1>3, <1>4, <1>5, OwnersStay DEF Owned

\* A step that leaves the registries and the stages alone.
LEMMA OwnersRest ==
  ASSUME OwnInv, UNCHANGED <<setup, pc, reg, client, entries>>
  PROVE  \A q \in Asked' : Owned(q)'
<1>1. PICK r : r \notin Asked
  BY NoSetContainsEverything
<1> QED BY <1>1, OwnersStay

LEMMA OwnedSteps ==
  ASSUME EndInv, OwnInv, NEW r \in Asked,
         HandlerStep(r) \/ LockStep(r) \/ FlowStep(r) \/ Expire(r) \/ Read(r) \/ StreamEnds(r) \/ Leave(r)
  PROVE  \A q \in Asked' : Owned(q)'
<1>1. r \in Requests /\ RequestTypes /\ RowTypes(r) /\ Served(r)
  BY Known
<1>2. CASE Arrive(r)
  <2>1. /\ setup' = setup /\ pc[r] = "new" /\ UNCHANGED <<client, entries>>
        /\ pc' = [pc EXCEPT ![r] = "done"] \/ pc' = [pc EXCEPT ![r] = "check"]
        /\ reg' = reg \/ reg' = [reg EXCEPT ![r] = tenure[table[Role(r)]]]
    BY <1>2 DEF Arrive, AnswerWith, Unchanged, registryVars
  <2>2. \A g \in 0..MaxChanges : r \notin entries'[g]
    BY <2>1 DEF OwnInv, Owned
  <2>3. \A q \in Asked \ {r} : UNCHANGED <<pc[q], reg[q], client[q]>>
    BY <1>1, <2>1, AskedAreRequests DEF RequestTypes
  <2> QED BY <2>1, <2>2, <2>3, OwnersStay DEF Owned
<1>3. CASE Check(r)
  <2>1. /\ setup' = setup /\ pc[r] = "check" /\ UNCHANGED <<reg, client, entries>>
        /\ \E to \in Steps : pc' = [pc EXCEPT ![r] = to]
    BY <1>3 DEF Check, AnswerWith, Unchanged, registryVars, Steps, HandlerSteps
  <2>2. \A g \in 0..MaxChanges : r \notin entries[g]
    BY <2>1 DEF OwnInv, Owned
  <2> QED BY <2>1, <2>2, OwnerMoves
<1>4. CASE Send(r)
  <2>1. /\ setup' = setup /\ UNCHANGED <<reg, client, entries>>
        /\ \E to \in Steps : /\ pc' = [pc EXCEPT ![r] = to]
                             /\ Streams(r) => to \in {"open", "select", "undo"}
    BY <1>4 DEF Send, AfterSend, Unchanged, registryVars, Steps, HandlerSteps, StreamSteps
  <2>2. \A g \in 0..MaxChanges : r \in entries[g] => Streams(r)
    BY DEF OwnInv, Owned
  <2> QED BY <2>1, <2>2, OwnerMoves DEF Keeps
<1>5. CASE Await(r)
  <2>1. /\ setup' = setup /\ pc[r] = "await" /\ UNCHANGED <<reg, client, entries>>
        /\ pc' = [pc EXCEPT ![r] = "done"]
    BY <1>5 DEF Await, AnswerWith, Unchanged, registryVars
  <2>2. \A g \in 0..MaxChanges : r \notin entries[g]
    BY <1>1, <2>1 DEF OwnInv, Owned, Served, Stage
  <2> QED BY <2>1, <2>2, OwnerMoves
<1>6. CASE Open(r) \/ Receive(r) \/ PutChunk(r) \/ ClientGone(r) \/ Completed(r)
  <2>1. /\ setup' = setup /\ UNCHANGED <<reg, client, entries>>
        /\ \E to \in Steps : pc' = [pc EXCEPT ![r] = to] /\ Keeps(r, to)
    BY <1>6 DEF Open, Receive, PutChunk, ClientGone, Completed, Goes, StreamUnchanged, Unchanged,
       registryVars, clientVars, Steps, StreamSteps, Keeps
  <2> QED BY <2>1, OwnerMoves
<1>7. CASE Drain(r)
  <2>1. setup' = setup /\ UNCHANGED <<reg, client, entries>> /\ pc[r] \in {"drain", "late"}
    BY <1>7 DEF Drain, StreamUnchanged, Unchanged, registryVars, clientVars
  <2>2. pc' = pc \/ pc' = [pc EXCEPT ![r] = IF pc[r] = "drain" THEN "final"
                                         ELSE IF Role(r) = "endpoint" THEN "exit" ELSE "done"]
    BY <1>7 DEF Drain, Drained, Goes
  <2>3. CASE pc' = pc
    BY <2>1, <2>3, OwnersRest
  <2>4. CASE pc' # pc
    <3>1. \A g \in 0..MaxChanges : r \in entries[g] => Role(r) = "endpoint"
      BY <2>1 DEF OwnInv, Owned
    <3> QED BY <2>1, <2>2, <2>4, <3>1, OwnerMoves DEF Keeps
  <2> QED BY <2>3, <2>4
<1>8. CASE Final(r)
  <2>1. /\ setup' = setup /\ UNCHANGED <<reg, client, entries>> /\ pc[r] = "final"
        /\ pc' = [pc EXCEPT ![r] = IF Role(r) = "endpoint" THEN "exit" ELSE "done"]
    BY <1>8 DEF Final, Goes, StreamUnchanged, Unchanged, registryVars, clientVars
  <2>2. \A g \in 0..MaxChanges : r \in entries[g] => Role(r) = "endpoint"
    BY <2>1 DEF OwnInv, Owned
  <2> QED BY <2>1, <2>2, OwnerMoves DEF Keeps
<1>9. CASE Insert(r)
  <2>1. /\ setup' = setup /\ UNCHANGED <<reg, client>> /\ pc[r] = "insert"
        /\ pc' = [pc EXCEPT ![r] = "send"]
        /\ entries' = [entries EXCEPT ![RegistryOf(r)] = entries[RegistryOf(r)] \cup {r}]
    BY <1>9 DEF Insert, Unchanged, clientVars
  <2>2. Asked \subseteq Requests
    BY <1>1, AskedAreRequests DEF RequestTypes
  <2>3. (\A q \in Asked \ {r} : UNCHANGED <<pc[q], reg[q], client[q]>>) /\ pc'[r] = "send"
    BY <1>1, <2>1, <2>2 DEF RequestTypes
  <2>4. ASSUME NEW g \in 0..MaxChanges
        PROVE  entries'[g] = IF g = RegistryOf(r) THEN entries[g] \cup {r} ELSE entries[g]
    BY <2>1 DEF OwnInv, OwnerTypes
  <2>5. Streams(r) /\ \A g \in 0..MaxChanges : r \notin entries[g]
    BY <1>1, <2>1 DEF OwnInv, Owned, Served, Stage, StreamSteps
  <2>6. Role(r)' = Role(r) /\ Streams(r)' = Streams(r)
    BY <2>1, SameAsk
  <2>7. RegistryOf(r)' = RegistryOf(r)
    BY <2>1, <2>6 DEF RegistryOf
  <2>8. Owned(r)'
    BY <2>3, <2>4, <2>5, <2>6, <2>7 DEF Owned
  <2> QED BY <2>1, <2>3, <2>4, <2>8, OwnersStay
<1>10. CASE Undo(r) \/ Remove(r) \/ Exit(r)
  <2>1. /\ setup' = setup /\ UNCHANGED <<reg, client>> /\ RemoveEntry(r)
        /\ \E to : pc' = [pc EXCEPT ![r] = to]
    BY <1>10 DEF Undo, Remove, Exit, Goes, StreamUnchanged, Unchanged, clientVars
  <2> QED BY <2>1, OwnerLeaves
<1>11. CASE TimedOut(r)
  <2>1. /\ setup' = setup /\ UNCHANGED <<reg, client>>
        /\ pc' = [pc EXCEPT ![r] = IF Role(r) = "endpoint" THEN "late" ELSE "again"]
        /\ IF Role(r) = "endpoint" THEN UNCHANGED entries ELSE RemoveEntry(r)
    BY <1>11 DEF TimedOut, Goes, StreamUnchanged, Unchanged, clientVars
  <2>2. CASE Role(r) = "endpoint"
    BY <2>1, <2>2, OwnerMoves DEF Keeps
  <2>3. CASE Role(r) # "endpoint"
    BY <2>1, <2>3, OwnerLeaves
  <2> QED BY <2>2, <2>3
<1>12. CASE SendProgress(r) \/ FlowStep(r) \/ Expire(r) \/ Read(r) \/ StreamEnds(r)
  BY <1>12, OwnersRest DEF SendProgress, FlowStep, SendsOn, FlowEnds, Expire, Read, StreamEnds,
     registryVars, handlerVars, clientVars
<1>13. CASE Leave(r)
  <2>1. /\ setup' = setup /\ UNCHANGED <<reg, entries>> /\ client' = [client EXCEPT ![r] = "gone"]
        /\ pc' = [pc EXCEPT ![r] = IF pc[r] \in StreamSteps THEN pc[r] ELSE "done"]
    BY <1>13 DEF Leave, Streaming, registryVars
  <2>2. client'[r] = "gone"
    BY <1>1, <2>1 DEF RequestTypes
  <2>3. Keeps(r, "done")
    BY <2>2 DEF Keeps
  <2>4. CASE pc[r] \in StreamSteps
    <3>1. pc[r] # "done" /\ pc' = [pc EXCEPT ![r] = pc[r]]
      BY <2>1, <2>4 DEF StreamSteps
    <3> QED BY <2>1, <2>2, <3>1, OwnerMoves DEF Keeps
  <2>5. CASE pc[r] \notin StreamSteps
    BY <2>1, <2>3, <2>5, OwnerMoves
  <2> QED BY <2>4, <2>5
<1> QED BY <1>2, <1>3, <1>4, <1>5, <1>6, <1>7, <1>8, <1>9, <1>10, <1>11, <1>12, <1>13
        DEF HandlerStep, LockStep

LEMMA RemovedIsTyped ==
  ASSUME OwnerTypes, NEW r, RemoveEntry(r)
  PROVE  entries' \in [0..MaxChanges -> SUBSET Requests]
BY DEF RemoveEntry, OwnerTypes

LEMMA OwnerTypesKept ==
  ASSUME EndInv, OwnerTypes, [Next]_vars
  PROVE  OwnerTypes'
<1>1. RequestTypes /\ Asked \subseteq Requests
  BY AskedAreRequests DEF EndInv, RequestTypes
<1>2. CASE UNCHANGED <<entries, reg, tenure, changes, table>>
  BY <1>2 DEF OwnerTypes
<1>3. ASSUME NEW f \in Flows, Start(f) PROVE OwnerTypes'
  <2>1. /\ UNCHANGED <<entries, reg, table>> /\ changes' = changes + 1 /\ changes < MaxChanges
        /\ tenure' = [tenure EXCEPT ![f] = changes + 1]
    BY <1>3 DEF Start, StartFlow, registryVars, handlerVars
  <2>2. changes + 1 \in 0..MaxChanges
    BY <2>1, ListingsAssumption DEF OwnerTypes
  <2> QED BY <2>1, <2>2 DEF OwnerTypes
<1>4. ASSUME NEW f \in Flows, Cancel(f) \/ Deregister(f) \/ \E t \in Tables : Claim(f, t)
      PROVE  OwnerTypes'
  <2>1. UNCHANGED <<entries, reg, tenure, changes>>
    BY <1>4 DEF Cancel, Deregister, StopFlow, Claim, Register, requestVars, flowVars, registryVars,
       handlerVars, listVars
  <2>2. table' \in [Tables -> Flows \cup {NoFlow}]
    BY <1>4 DEF Cancel, Deregister, StopFlow, Claim, Register, Put, TryPut, OwnerTypes, listVars, tableVars
  <2> QED BY <2>1, <2>2 DEF OwnerTypes
<1>5. CASE SessionStep
  BY <1>2, <1>5 DEF SessionStep, OfSession, OpenSession, ReadNotification, LeaveSession, List,
     Broadcast, requestVars, flowVars,
     registryVars, handlerVars, tableVars
<1>6. ASSUME NEW t \in Tenures, TasksEnd(t) \/ Take(t) PROVE OwnerTypes'
  BY <1>2, <1>6 DEF TasksEnd, Take, registryVars, handlerVars, listVars, tableVars
<1>7. ASSUME NEW r \in Asked, Arrive(r) PROVE OwnerTypes'
  <2>1. /\ UNCHANGED <<entries, tenure, changes, table>>
        /\ \/ reg' = reg
           \/ table[Role(r)] # NoFlow /\ reg' = [reg EXCEPT ![r] = tenure[table[Role(r)]]]
    BY <1>7 DEF Arrive, Unchanged, registryVars, listVars, tableVars
  <2>2. Role(r) \in Tables
    BY <1>1, <1>7, SetupsAssumption DEF RequestTypes, Role, Ask, Asked, Tables
  <2>3. table[Role(r)] # NoFlow => tenure[table[Role(r)]] \in 0..MaxChanges
    BY <2>2 DEF OwnerTypes
  <2> QED BY <2>1, <2>3 DEF OwnerTypes
<1>8. ASSUME NEW r \in Asked, Check(r) \/ Send(r) \/ Await(r) PROVE OwnerTypes'
  BY <1>2, <1>8 DEF Check, Send, Await, Unchanged, registryVars, listVars, tableVars
<1>9. ASSUME NEW r \in Asked,
             Open(r) \/ Receive(r) \/ PutChunk(r) \/ ClientGone(r) \/ Completed(r) \/ Drain(r) \/ Final(r)
      PROVE  OwnerTypes'
  BY <1>2, <1>9 DEF Open, Receive, PutChunk, ClientGone, Completed, Drain, Final, StreamUnchanged, Unchanged,
     registryVars, listVars, tableVars
<1>10. ASSUME NEW r \in Asked, LockStep(r) PROVE OwnerTypes'
  <2>1. UNCHANGED <<reg, tenure, changes, table>>
    BY <1>10 DEF LockStep, Insert, Undo, Remove, Exit, TimedOut, SendProgress, StreamUnchanged, Unchanged,
       flowVars, handlerVars, listVars, tableVars
  <2>2. CASE UNCHANGED entries
    BY <1>2, <2>1, <2>2
  <2>3. CASE RemoveEntry(r)
    BY <2>1, <2>3, RemovedIsTyped DEF OwnerTypes
  <2>4. CASE Insert(r)
    <3>1. entries' \in [0..MaxChanges -> SUBSET Requests]
      BY <1>1, <2>4 DEF Insert, OwnerTypes
    <3> QED BY <2>1, <3>1 DEF OwnerTypes
  <2> QED BY <1>10, <2>2, <2>3, <2>4 DEF LockStep, Undo, Remove, Exit, TimedOut, SendProgress
<1>11. ASSUME NEW r \in Asked, FlowStep(r) \/ Expire(r) \/ Read(r) \/ StreamEnds(r) \/ Leave(r)
       PROVE  OwnerTypes'
  BY <1>2, <1>11 DEF FlowStep, SendsOn, FlowEnds, Expire, Read, StreamEnds, Leave, flowVars, registryVars,
     handlerVars, listVars, tableVars
<1>12. CASE UNCHANGED vars
  BY <1>2, <1>12 DEF vars, requestVars, flowVars, registryVars, handlerVars, listVars, tableVars
<1> QED BY <1>3, <1>4, <1>5, <1>6, <1>7, <1>8, <1>9, <1>10, <1>11, <1>12 DEF Next, HandlerStep

LEMMA OwnNext == EndInv /\ OwnInv /\ [Next]_vars => OwnInv'
<1> SUFFICES ASSUME EndInv, OwnInv, [Next]_vars PROVE OwnInv'
  OBVIOUS
<1>1. OwnerTypes'
  BY OwnerTypesKept DEF OwnInv
<1>2. CASE UNCHANGED vars
  BY <1>1, <1>2, OwnersRest DEF OwnInv, vars, requestVars, registryVars, handlerVars, clientVars
<1>3. ASSUME NEW f \in Flows, Start(f) \/ Cancel(f) \/ Deregister(f) \/ \E t \in Tables : Claim(f, t)
      PROVE  OwnInv'
  BY <1>1, <1>3, OwnersRest DEF OwnInv, Start, Cancel, Deregister, Claim, requestVars, registryVars,
     handlerVars, clientVars
<1>4. CASE SessionStep
  BY <1>1, <1>4, OwnersRest DEF OwnInv, SessionStep, requestVars, registryVars, handlerVars, clientVars
<1>5. ASSUME NEW t \in Tenures, TasksEnd(t) \/ Take(t) PROVE OwnInv'
  BY <1>1, <1>5, OwnersRest DEF OwnInv, TasksEnd, Take, registryVars, handlerVars, clientVars
<1>6. ASSUME NEW r \in Asked,
             HandlerStep(r) \/ LockStep(r) \/ FlowStep(r) \/ Expire(r) \/ Read(r) \/ StreamEnds(r) \/ Leave(r)
      PROVE  OwnInv'
  BY <1>1, <1>6, OwnedSteps DEF OwnInv
<1> QED BY <1>2, <1>3, <1>4, <1>5, <1>6 DEF Next

\* An entry of a response registry has a request that is being served: every way out
\* of a handler or of a stream task removes it, but the one of a client that left
\* (insert and remove of ResponseRegistry in core/src/registry.rs; the streams of the
\* HTTP, MCP and AI gateway servers).
THEOREM EntriesAreOwned == Spec => []EntryHasOwner
<1>1. Init => OwnInv
  <2> SUFFICES ASSUME Init PROVE OwnInv
    OBVIOUS
  <2>1. OwnerTypes
    BY ListingsAssumption DEF Init, ListingsInit, OwnerTypes
  <2>2. \A r \in Asked, g \in 0..MaxChanges : r \notin entries[g]
    BY DEF Init
  <2> QED BY <2>1, <2>2 DEF OwnInv, Owned
<1>2. EndInv /\ OwnInv => EntryHasOwner
  <2> SUFFICES ASSUME EndInv, OwnInv, NEW r \in Asked, r \in entries[RegistryOf(r)], pc[r] = "done"
               PROVE  client[r] = "gone"
    BY DEF EntryHasOwner
  <2>1. RegistryOf(r) \in 0..MaxChanges
    BY Known, ListingsAssumption DEF OwnInv, OwnerTypes, RegistryOf, Mcp
  <2> QED BY <2>1 DEF OwnInv, Owned
<1> QED BY <1>1, <1>2, OwnNext, EndInvariance, PTL DEF Spec
-----------------------------------------------------------------------------
(* The lists of an MCP client. *)

ListInv == ListTypes /\ StaleIsAnnounced

LEMMA ListsOfTables == \A t : ListOf(t) \subseteq Lists
BY DEF ListOf, Lists

LEMMA ContentKept ==
  ASSUME NEW l, \A t \in Tables : l \in ListOf(t) => table'[t] = table[t]
  PROVE  Content(l)' = Content(l)
BY DEF Content

\* A step of the tables: the clients are as they were, and for each list that has other
\* entries than before a notification is to be broadcast.
Announces ==
  /\ UNCHANGED clientsVars
  /\ announcing \subseteq announcing' /\ \A a \in announcing' : a.list \in Lists
  /\ table' = [t \in Tables |-> table'[t]]
  /\ \A l \in Lists : Content(l)' = Content(l) \/ \E a \in announcing' : a.list = l

LEMMA AnnouncesStep ==
  ASSUME ListInv, Announces
  PROVE  ListInv'
<1>1. ListTypes'
  BY DEF ListInv, ListTypes, Announces, clientsVars
<1>2. ASSUME NEW s \in Sessions, NEW l \in Lists,
             session'[s] = "open", listed'[s][l] \notin {Unlisted, Content(l)'}
      PROVE  \/ \E a \in announcing' : a.list = l
             \/ InQueue(s, l)' \/ l \in toList'[s] \/ l \in missed'[s]
  <2>1. UNCHANGED <<session, queue, toList, listed, missed>>
    BY DEF Announces, clientsVars
  <2>2. CASE Content(l)' = Content(l)
    <3>1. \/ \E a \in announcing : a.list = l
          \/ InQueue(s, l) \/ l \in toList[s] \/ l \in missed[s]
      BY <1>2, <2>1, <2>2 DEF ListInv, StaleIsAnnounced
    <3>2. InQueue(s, l)' = InQueue(s, l) /\ announcing \subseteq announcing'
      BY <2>1 DEF InQueue, Announces
    <3> QED BY <2>1, <3>1, <3>2
  <2>3. CASE \E a \in announcing' : a.list = l
    BY <2>3
  <2> QED BY <2>2, <2>3 DEF Announces
<1> QED BY <1>1, <1>2 DEF ListInv, StaleIsAnnounced

LEMMA Appended ==
  ASSUME NEW q \in Seq(Lists), NEW x \in Lists, NEW l \in Lists,
         l = x \/ \E i \in DOMAIN q : q[i] = l
  PROVE  Append(q, x) \in Seq(Lists) /\ \E i \in DOMAIN Append(q, x) : Append(q, x)[i] = l
<1>1. /\ Append(q, x) \in Seq(Lists) /\ Len(Append(q, x)) = Len(q) + 1
      /\ \A i \in 1..Len(q) : Append(q, x)[i] = q[i]
      /\ Append(q, x)[Len(q) + 1] = x
  BY AppendProperties
<1>2. Len(q) \in Nat /\ DOMAIN q = 1..Len(q) /\ DOMAIN Append(q, x) = 1..(Len(q) + 1)
  BY <1>1, LenProperties
<1>3. CASE l = x
  <2>1. Len(q) + 1 \in DOMAIN Append(q, x)
    BY <1>2
  <2> QED BY <1>1, <1>3, <2>1
<1>4. ASSUME NEW i \in DOMAIN q, q[i] = l
      PROVE  i \in DOMAIN Append(q, x) /\ Append(q, x)[i] = l
  BY <1>1, <1>2, <1>4
<1> QED BY <1>1, <1>3, <1>4

LEMMA BroadcastStep ==
  ASSUME ListInv, NEW b \in announcing, Broadcast(b)
  PROVE  ListInv'
<1>1. ASSUME NEW s \in Sessions
      PROVE  /\ session[s] \in {"none", "open", "left"} /\ queue[s] \in Seq(Lists)
             /\ missed[s] \subseteq Lists
             /\ session'[s] = (IF session[s] = "left" THEN "none" ELSE session[s])
             /\ queue'[s] = (IF session[s] = "open" /\ ~ Full(s) THEN Append(queue[s], b.list)
                             ELSE queue[s])
             /\ missed'[s] = (IF session[s] = "open" /\ Full(s) /\ ~ InQueue(s, b.list)
                              THEN missed[s] \cup {b.list} ELSE missed[s])
  BY DEF ListInv, ListTypes, Broadcast
<1>2. /\ b.list \in Lists /\ announcing' = announcing \ {b}
      /\ UNCHANGED <<toList, listed, table>>
  BY DEF ListInv, ListTypes, Broadcast, tableVars
<1>3. ListTypes'
  <2>1. ASSUME NEW s \in Sessions
        PROVE  /\ session'[s] \in {"none", "open", "left"} /\ queue'[s] \in Seq(Lists)
               /\ missed'[s] \in SUBSET Lists
    <3>1. Append(queue[s], b.list) \in Seq(Lists)
      BY <1>1, <1>2, Appended
    <3>2. queue'[s] \in Seq(Lists)
      BY <1>1, <3>1
    <3> QED BY <1>1, <1>2, <3>2
  <2>2. /\ session' = [s \in Sessions |-> session'[s]] /\ queue' = [s \in Sessions |-> queue'[s]]
        /\ missed' = [s \in Sessions |-> missed'[s]]
    BY DEF Broadcast
  <2>3. \A a \in announcing' : a.list \in Lists
    BY <1>2 DEF ListInv, ListTypes
  <2>4. /\ toList' \in [Sessions -> SUBSET Lists] /\ table' = [t \in Tables |-> table'[t]]
        /\ listed' = [s \in Sessions |-> [l \in Lists |-> listed'[s][l]]]
    BY <1>2 DEF ListInv, ListTypes
  <2> QED BY <2>1, <2>2, <2>3, <2>4 DEF ListTypes
<1>4. ASSUME NEW s \in Sessions, NEW l \in Lists,
             session'[s] = "open", listed'[s][l] \notin {Unlisted, Content(l)'}
      PROVE  \/ \E a \in announcing' : a.list = l
             \/ InQueue(s, l)' \/ l \in toList'[s] \/ l \in missed'[s]
  <2>1. session[s] = "open" /\ listed[s][l] \notin {Unlisted, Content(l)}
    <3>1. Content(l)' = Content(l)
      BY <1>2, ContentKept
    <3> QED BY <1>1, <1>2, <1>4, <3>1
  <2>2. \/ \E a \in announcing : a.list = l
        \/ InQueue(s, l) \/ l \in toList[s] \/ l \in missed[s]
    BY <2>1 DEF ListInv, StaleIsAnnounced
  <2>3. CASE \E a \in announcing \ {b} : a.list = l
    BY <1>2, <2>3
  <2>4. CASE InQueue(s, l) \/ b.list = l
    <3>1. CASE ~ Full(s)
      <4>1. queue'[s] = Append(queue[s], b.list)
        BY <1>1, <2>1, <3>1
      <4>2. \E i \in DOMAIN queue'[s] : queue'[s][i] = l
        BY <1>1, <1>2, <2>4, <4>1, Appended DEF InQueue
      <4> QED BY <4>2 DEF InQueue
    <3>2. CASE Full(s) /\ InQueue(s, l)
      BY <1>1, <3>2 DEF InQueue
    <3>3. CASE Full(s) /\ ~ InQueue(s, l)
      BY <1>1, <2>1, <2>4, <3>3
    <3> QED BY <3>1, <3>2, <3>3
  <2>5. CASE l \in toList[s] \/ l \in missed[s]
    BY <1>1, <1>2, <2>5
  <2> QED BY <2>2, <2>3, <2>4, <2>5
<1> QED BY <1>3, <1>4 DEF ListInv, StaleIsAnnounced

\* A session step leaves the tables and the other sessions alone.
LEMMA OthersAreTold ==
  ASSUME ListInv, NEW s \in Sessions, NEW u \in Sessions, NEW l \in Lists,
         UNCHANGED <<table, announcing>>,
         session'[u] = session[u], queue'[u] = queue[u], listed'[u][l] = listed[u][l],
         toList'[u] = toList[u], missed'[u] = missed[u],
         session'[u] = "open", listed'[u][l] \notin {Unlisted, Content(l)'}
  PROVE  \/ \E a \in announcing' : a.list = l
         \/ InQueue(u, l)' \/ l \in toList'[u] \/ l \in missed'[u]
<1>1. Content(l)' = Content(l) /\ InQueue(u, l)' = InQueue(u, l)
  BY ContentKept DEF InQueue
<1> QED BY <1>1 DEF ListInv, StaleIsAnnounced

LEMMA OpenOrLeft ==
  ASSUME ListInv, NEW s \in Sessions, OpenSession(s) \/ LeaveSession(s)
  PROVE  ListInv'
<1>1. /\ session' = [session EXCEPT ![s] = session'[s]] /\ session'[s] \in {"open", "left"}
      /\ queue' = [queue EXCEPT ![s] = << >>] /\ toList' = [toList EXCEPT ![s] = {}]
      /\ missed' = [missed EXCEPT ![s] = {}]
      /\ listed' = [listed EXCEPT ![s] = [l \in Lists |-> Unlisted]]
      /\ UNCHANGED <<table, announcing>>
  BY DEF OpenSession, LeaveSession, ListInv, ListTypes, tableVars
<1>2. << >> \in Seq(Lists)
  OBVIOUS
<1>3. ListTypes'
  BY <1>1, <1>2 DEF ListInv, ListTypes
<1>4. ASSUME NEW u \in Sessions, NEW l \in Lists,
             session'[u] = "open", listed'[u][l] \notin {Unlisted, Content(l)'}
      PROVE  \/ \E a \in announcing' : a.list = l
             \/ InQueue(u, l)' \/ l \in toList'[u] \/ l \in missed'[u]
  <2>1. u # s
    BY <1>1, <1>4 DEF ListInv, ListTypes
  <2>2. /\ queue'[u] = queue[u] /\ toList'[u] = toList[u] /\ missed'[u] = missed[u]
        /\ session'[u] = session[u] /\ listed'[u] = listed[u]
    BY <1>1, <2>1 DEF ListInv, ListTypes
  <2> QED BY <1>1, <1>4, <2>2, OthersAreTold
<1> QED BY <1>3, <1>4 DEF ListInv, StaleIsAnnounced

LEMMA ListStep ==
  ASSUME ListInv, NEW s \in Sessions, NEW k \in Lists, List(s, k)
  PROVE  ListInv'
<1>1. /\ listed' = [listed EXCEPT ![s] = [@ EXCEPT ![k] = Content(k)]]
      /\ toList' = [toList EXCEPT ![s] = @ \ {k}] /\ missed' = [missed EXCEPT ![s] = @ \ {k}]
      /\ UNCHANGED <<table, announcing, session, queue>>
  BY DEF List, tableVars
<1>2. ListTypes'
  BY <1>1 DEF ListInv, ListTypes
<1>3. ASSUME NEW u \in Sessions, NEW l \in Lists,
             session'[u] = "open", listed'[u][l] \notin {Unlisted, Content(l)'}
      PROVE  \/ \E a \in announcing' : a.list = l
             \/ InQueue(u, l)' \/ l \in toList'[u] \/ l \in missed'[u]
  <2>1. Content(l)' = Content(l) /\ InQueue(u, l)' = InQueue(u, l)
    BY <1>1, ContentKept DEF InQueue
  <2>2. ~ (u = s /\ l = k)
    BY <1>1, <1>3, <2>1 DEF ListInv, ListTypes
  <2>3. listed'[u][l] = listed[u][l]
    BY <1>1, <2>2 DEF ListInv, ListTypes
  <2>4. (l \in toList[u] => l \in toList'[u]) /\ (l \in missed[u] => l \in missed'[u])
    BY <1>1, <2>2 DEF ListInv, ListTypes
  <2>5. \/ \E a \in announcing : a.list = l
        \/ InQueue(u, l) \/ l \in toList[u] \/ l \in missed[u]
    BY <1>1, <1>3, <2>1, <2>3 DEF ListInv, StaleIsAnnounced
  <2> QED BY <1>1, <2>1, <2>4, <2>5
<1> QED BY <1>2, <1>3 DEF ListInv, StaleIsAnnounced

LEMMA NotifiedStep ==
  ASSUME ListInv, NEW s \in Sessions, ReadNotification(s)
  PROVE  ListInv'
<1>1. queue[s] \in Seq(Lists) /\ queue[s] # << >> /\ session[s] = "open"
  <2>1. queue \in [Sessions -> Seq(Lists)]
    BY DEF ListInv, ListTypes
  <2> QED BY <2>1 DEF ReadNotification
<1>2. PICK b \in Seq(Lists), h \in {Head(queue[s])} : b = queue[s] /\ h = Head(queue[s])
  BY <1>1
<1>3. /\ Len(b) \in Nat /\ DOMAIN b = 1..Len(b) /\ h = b[1] /\ h \in Lists
      /\ Tail(b) \in Seq(Lists) /\ DOMAIN Tail(b) = 1..(Len(b) - 1)
      /\ \A i \in 1..(Len(b) - 1) : Tail(b)[i] = b[i + 1]
  BY <1>1, <1>2, LenProperties, HeadTailProperties, EmptySeq
<1>4. /\ queue' = [queue EXCEPT ![s] = Tail(b)] /\ toList' = [toList EXCEPT ![s] = @ \cup {h}]
      /\ UNCHANGED <<table, announcing, session, listed, missed>>
  BY <1>2 DEF ReadNotification, tableVars
<1>5. ListTypes'
  BY <1>3, <1>4 DEF ListInv, ListTypes
<1>6. ASSUME NEW u \in Sessions, NEW l \in Lists,
             session'[u] = "open", listed'[u][l] \notin {Unlisted, Content(l)'}
      PROVE  \/ \E a \in announcing' : a.list = l
             \/ InQueue(u, l)' \/ l \in toList'[u] \/ l \in missed'[u]
  <2>1. CASE u # s
    <3>1. queue'[u] = queue[u] /\ toList'[u] = toList[u]
      BY <1>4, <2>1 DEF ListInv, ListTypes
    <3> QED BY <1>4, <1>6, <3>1, OthersAreTold
  <2>2. CASE u = s
    <3>1. queue'[u] = Tail(b) /\ toList'[u] = toList[u] \cup {h}
      BY <1>4, <2>2 DEF ListInv, ListTypes
    <3>2. Content(l)' = Content(l)
      BY <1>4, ContentKept
    <3>3. \/ \E a \in announcing : a.list = l
          \/ InQueue(u, l) \/ l \in toList[u] \/ l \in missed[u]
      BY <1>4, <1>6, <3>2 DEF ListInv, StaleIsAnnounced
    <3>4. CASE InQueue(u, l) /\ l # h
      <4>1. PICK i \in DOMAIN b : b[i] = l
        BY <1>2, <2>2, <3>4 DEF InQueue
      <4>2. i - 1 \in DOMAIN Tail(b) /\ Tail(b)[i - 1] = l
        BY <1>3, <3>4, <4>1
      <4>3. \E j \in DOMAIN queue'[u] : queue'[u][j] = l
        BY <3>1, <4>2
      <4> QED BY <4>3 DEF InQueue
    <3> QED BY <1>4, <3>1, <3>3, <3>4
  <2> QED BY <2>1, <2>2
<1> QED BY <1>5, <1>6 DEF ListInv, StaleIsAnnounced

\* What a start, a registration or a stop does to the tables is announced.
LEMMA RegisterAnnounces ==
  ASSUME ListInv, NEW f \in Flows, NEW t \in Tables, Register(f, t)
  PROVE  Announces
<1>1. CASE UNCHANGED <<table, sessionVars>>
  BY <1>1, ContentKept DEF Announces, sessionVars, ListInv, ListTypes
<1>2. CASE Put(f, t) /\ t \in {"endpoint", "proxy", "inproc"}
  <2>1. /\ table' = [table EXCEPT ![t] = f] /\ UNCHANGED <<clientsVars, announcing>>
    BY <1>2 DEF Put, sessionVars
  <2>2. ASSUME NEW l \in Lists PROVE Content(l)' = Content(l)
    <3>1. ListOf(t) = {}
      BY <1>2 DEF ListOf
    <3>2. \A u \in Tables : l \in ListOf(u) => table'[u] = table[u]
      BY <2>1, <3>1 DEF ListInv, ListTypes
    <3> QED BY <3>2, ContentKept
  <2> QED BY <2>1, <2>2 DEF Announces, ListInv, ListTypes
<1>3. CASE table' = [table EXCEPT ![t] = f] /\ Announce(f, t, ListOf(t))
  <2>1. /\ announcing' = announcing \cup {[flow |-> f, by |-> t, list |-> l] : l \in ListOf(t)}
        /\ UNCHANGED clientsVars
    BY <1>3 DEF Announce
  <2>2. ASSUME NEW l \in Lists
        PROVE  Content(l)' = Content(l) \/ \E a \in announcing' : a.list = l
    <3>1. CASE l \in ListOf(t)
      <4>1. [flow |-> f, by |-> t, list |-> l] \in announcing'
        BY <2>1, <3>1
      <4> QED BY <4>1
    <3>2. CASE l \notin ListOf(t)
      <4>1. \A u \in Tables : l \in ListOf(u) => table'[u] = table[u]
        BY <1>3, <3>2 DEF ListInv, ListTypes
      <4> QED BY <4>1, ContentKept
    <3> QED BY <3>1, <3>2
  <2>3. \A a \in announcing' : a.list \in Lists
    BY <2>1, ListsOfTables DEF ListInv, ListTypes
  <2> QED BY <1>3, <2>1, <2>2, <2>3 DEF Announces, ListInv, ListTypes
<1> QED BY <1>1, <1>2, <1>3 DEF Register, TryPut

LEMMA StopAnnounces ==
  ASSUME ListInv, NEW f \in Flows, StopFlow(f)
  PROVE  Announces
<1> DEFINE owned == {t \in Tables : table[t] = f}
           lists == UNION {ListOf(t) : t \in owned}
<1>1. /\ table' = [t \in Tables |-> IF t \in owned THEN NoFlow ELSE table[t]]
      /\ announcing' = announcing \cup {[flow |-> f, by |-> "stop", list |-> l] : l \in lists}
      /\ UNCHANGED clientsVars
  BY DEF StopFlow, Announce
<1>2. ASSUME NEW l \in Lists
      PROVE  Content(l)' = Content(l) \/ \E a \in announcing' : a.list = l
  <2>1. CASE l \in lists
    <3>1. [flow |-> f, by |-> "stop", list |-> l] \in announcing'
      BY <1>1, <2>1
    <3> QED BY <3>1
  <2>2. CASE l \notin lists
    <3>1. \A u \in Tables : l \in ListOf(u) => table'[u] = table[u]
      BY <1>1, <2>2
    <3> QED BY <3>1, ContentKept
  <2> QED BY <2>1, <2>2
<1>3. \A a \in announcing' : a.list \in Lists
  BY <1>1, ListsOfTables DEF ListInv, ListTypes
<1> QED BY <1>1, <1>2, <1>3 DEF Announces

\* A step of the servers changes the tables and has it announced, broadcasts, is a
\* step of one session, or concerns neither.
LEMMA SessionsMove ==
  ASSUME EndInv, ListInv, [Next]_vars
  PROVE  ListInv'
<1>0. ASSUME UNCHANGED <<table, sessionVars>> PROVE ListInv'
  <2>1. Announces
    BY <1>0, ContentKept DEF Announces, sessionVars, ListInv, ListTypes
  <2> QED BY <2>1, AnnouncesStep
<1>1. CASE UNCHANGED vars
  BY <1>0, <1>1 DEF vars, listVars, tableVars
<1>2. ASSUME NEW f \in Flows, Start(f) \/ Cancel(f) PROVE UNCHANGED <<table, sessionVars>>
  BY <1>2 DEF Start, StartFlow, Cancel, listVars, tableVars
<1>3. ASSUME NEW f \in Flows, Deregister(f) PROVE ListInv'
  BY <1>3, StopAnnounces, AnnouncesStep DEF Deregister
<1>4. ASSUME NEW f \in Flows, NEW t \in Tables, Claim(f, t) PROVE ListInv'
  BY <1>4, RegisterAnnounces, AnnouncesStep DEF Claim
<1>5. CASE SessionStep
  <2>1. ASSUME NEW a \in announcing, Broadcast(a) PROVE ListInv'
    BY <2>1, BroadcastStep
  <2>2. ASSUME NEW s \in setup.sessions, OfSession(s) PROVE ListInv'
    <3>1. s \in Sessions
      BY SetupsAssumption DEF EndInv, RequestTypes
    <3>2. CASE OpenSession(s) \/ LeaveSession(s)
      BY <3>1, <3>2, OpenOrLeft
    <3>3. CASE ReadNotification(s)
      BY <3>1, <3>3, NotifiedStep
    <3>4. CASE \E l \in Lists : List(s, l)
      BY <3>1, <3>4, ListStep
    <3> QED BY <2>2, <3>2, <3>3, <3>4 DEF OfSession
  <2> QED BY <1>5, <2>1, <2>2 DEF SessionStep
<1>6. ASSUME NEW t \in Tenures, TasksEnd(t) \/ Take(t) PROVE UNCHANGED <<table, sessionVars>>
  BY <1>6 DEF TasksEnd, Take, listVars, tableVars
<1>7. ASSUME NEW r \in Asked, HandlerStep(r) PROVE UNCHANGED <<table, sessionVars>>
  BY <1>7 DEF HandlerStep, Arrive, Check, Send, Await, Open, Receive, PutChunk, ClientGone, Completed,
     Drain, Final, StreamUnchanged, Unchanged, listVars, tableVars
<1>8. ASSUME NEW r \in Asked, LockStep(r) PROVE UNCHANGED <<table, sessionVars>>
  BY <1>8 DEF LockStep, Insert, Undo, Remove, Exit, TimedOut, SendProgress, StreamUnchanged, Unchanged,
     listVars, tableVars
<1>9. ASSUME NEW r \in Asked, FlowStep(r) \/ Expire(r) \/ Read(r) \/ StreamEnds(r) \/ Leave(r)
      PROVE  UNCHANGED <<table, sessionVars>>
  BY <1>9 DEF FlowStep, SendsOn, FlowEnds, Expire, Read, StreamEnds, Leave, listVars, tableVars
<1> QED BY <1>0, <1>1, <1>2, <1>3, <1>4, <1>5, <1>6, <1>7, <1>8, <1>9 DEF Next

\* What the client of an open session has of a list is what the tables hold, or it is
\* going to be told, or was and lists again, or its queue was full of notifications of
\* the other list (broadcast_notification): for any number of flows and sessions, any
\* capacity of their queues and any order of changes, broadcasts and listings.
THEOREM ChangesAreAnnounced == Spec => []StaleIsAnnounced
<1>1. Init => ListInv
  BY DEF Init, ListingsInit, ListInv, ListTypes, StaleIsAnnounced, Lists
<1>2. EndInv /\ ListInv /\ [Next]_vars => ListInv'
  BY SessionsMove
<1>3. ListInv => StaleIsAnnounced
  BY DEF ListInv
<1> QED BY <1>1, <1>2, <1>3, EndInvariance, PTL DEF Spec

\* A flow that owns the key of a tool, a resource, a template or a prompt keeps it
\* until it stops itself: neither the start of a flow that claims the same key nor
\* the stop of that flow takes it away (try_register, deregister_flow).
THEOREM ClaimsAreKept == Spec => ClaimIsKept
<1> DEFINE Kept == \A t \in Exclusive :
       table[t] # NoFlow /\ table'[t] # table[t] => table[t] \in up /\ table[t] \notin up'
           Types == table = [t \in Tables |-> table[t]]
<1>1. Init => Types
  BY DEF Init, ListingsInit
<1>2. Types /\ [Next]_vars => Types' /\ [Kept]_listVars
  <2> SUFFICES ASSUME Types, [Next]_vars PROVE Types' /\ (Kept \/ UNCHANGED listVars)
    OBVIOUS
  <2>1. CASE UNCHANGED table
    BY <2>1
  <2>2. ASSUME NEW f \in Flows, Deregister(f) PROVE Types' /\ Kept
    BY <2>2 DEF Deregister, StopFlow, Exclusive
  <2>3. ASSUME NEW f \in Flows, NEW t \in Tables, Claim(f, t) PROVE Types' /\ Kept
    BY <2>3 DEF Claim, Register, Put, TryPut, Exclusive
  <2>4. CASE UNCHANGED vars
    BY <2>4 DEF vars, listVars, tableVars
  <2>5. ASSUME NEW f \in Flows, Start(f) \/ Cancel(f) PROVE UNCHANGED table
    BY <2>5 DEF Start, StartFlow, Cancel, listVars, tableVars
  <2>6. CASE SessionStep
    BY <2>1, <2>6 DEF SessionStep, OfSession, OpenSession, ReadNotification, LeaveSession, List, Broadcast,
       tableVars
  <2>7. ASSUME NEW t \in Tenures, TasksEnd(t) \/ Take(t) PROVE UNCHANGED table
    BY <2>7 DEF TasksEnd, Take, listVars, tableVars
  <2>8. ASSUME NEW r \in Asked, HandlerStep(r) PROVE UNCHANGED table
    BY <2>8 DEF HandlerStep, Arrive, Check, Send, Await, Open, Receive, PutChunk, ClientGone, Completed,
       Drain, Final, StreamUnchanged, Unchanged, listVars, tableVars
  <2>9. ASSUME NEW r \in Asked, LockStep(r) PROVE UNCHANGED table
    BY <2>9 DEF LockStep, Insert, Undo, Remove, Exit, TimedOut, SendProgress, StreamUnchanged,
       Unchanged, listVars, tableVars
  <2>10. ASSUME NEW r \in Asked, FlowStep(r) \/ Expire(r) \/ Read(r) \/ StreamEnds(r) \/ Leave(r)
         PROVE  UNCHANGED table
    BY <2>10 DEF FlowStep, SendsOn, FlowEnds, Expire, Read, StreamEnds, Leave, listVars, tableVars
  <2> HIDE DEF Types, Kept
  <2> QED BY <2>1, <2>2, <2>3, <2>4, <2>5, <2>6, <2>7, <2>8, <2>9, <2>10 DEF Next
<1> QED BY <1>1, <1>2, PTL DEF Spec, ClaimIsKept
=============================================================================
