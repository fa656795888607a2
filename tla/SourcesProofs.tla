----------------------------- MODULE SourcesProofs -----------------------------
(***************************************************************************)
(* Proofs about the places that the Kafka subscriber and generate keep in  *)
(* Sources, for any partitions, tasks and bounds, and about one event at a *)
(* task of any kind (Handling), for any leaves below it and attempts.      *)
(***************************************************************************)
EXTENDS Sources, Handling, SequenceTheorems, FiniteSetTheorems, TLAPS

Places == Nat \cup {None}

PlaceTypes ==
  /\ topic \subseteq Partitions /\ known \subseteq Partitions
  /\ first \in [Partitions -> Nat] /\ end \in [Partitions -> Nat]
  /\ stored \in [Partitions -> Places]
  /\ next \in [Partitions -> Nat]
  /\ batch \in [Partitions -> SUBSET Nat]
  /\ answers \in [Partitions -> SUBSET (Nat \X BOOLEAN)]
  /\ \A p \in Partitions : first[p] <= end[p]

\* Every record up to a place is accounted for.
Covers(p, place) == \A o \in Nat : o < place => <<p, o>> \in Accounted

\* What retention removed was given up.
Removed == \A p \in Partitions, o \in Nat : o < first[p] => <<p, o>> \in given

\* What is read next, and what the cache holds.
Covered ==
  \A p \in Partitions :
    /\ stored[p] # None => Covers(p, stored[p])
    /\ p \in known => Covers(p, next[p])

\* One record is with the flow, and an answer that it completed is true.
Delivered ==
  \A p \in Partitions :
    /\ batch[p] # {} => p \in known
    /\ batch[p] \subseteq {next[p]}
    /\ run \in {"init", "down"} => batch[p] = {}
    /\ \A a \in answers[p] : a[1] \in batch[p] /\ (a[2] => <<p, a[1]>> \in handled)

\* Without a place in the cache, Kafka has not read the partition yet.
Fresh == Is({"kafka"}) => \A p \in Partitions : p \in started => stored[p] # None

\* The inductive invariant of the tasks that keep a place for each record.
PlaceInv == Is({"kafka", "generate"}) => PlaceTypes /\ Removed /\ Covered /\ Delivered /\ Fresh

\* Its parts, for a task that keeps a place for each record.
Parts == PlaceTypes /\ Removed /\ Covered /\ Delivered /\ Fresh

LEMMA Bounds ==
  /\ MaxLog \in Nat /\ MaxBatch \in Nat /\ MaxTime \in Nat /\ Interval \in Nat
  /\ None \notin Nat /\ None < 0 /\ None \in Int
BY SourceBoundsAssumption DEF None

\* Covers, of the state after a step.
CoversNext(p, place) == \A o \in Nat : o < place => <<p, o>> \in Accounted'

LEMMA CoversGrows ==
  ASSUME NEW p, NEW place, Covers(p, place), Accounted \subseteq Accounted'
  PROVE  CoversNext(p, place)
BY DEF Covers, CoversNext

\* One record further.
LEMMA CoversMore ==
  ASSUME NEW p, NEW place \in Nat, Covers(p, place), Accounted \subseteq Accounted', <<p, place>> \in Accounted'
  PROVE  CoversNext(p, place + 1)
<1> SUFFICES ASSUME NEW o \in Nat, o < place + 1
             PROVE  <<p, o>> \in Accounted'
  BY DEF CoversNext
<1>1. CASE o = place
  BY <1>1
<1>2. CASE o < place
  BY <1>2 DEF Covers
<1> QED BY <1>1, <1>2

\* A step that leaves the places and records alone.
LEMMA PlacesStay ==
  ASSUME Parts, PlaceTypes', UNCHANGED <<source, first, stored, run, next, handled, passed, started>>,
         given \subseteq given', known' \subseteq known,
         \A p \in Partitions : \/ batch'[p] = batch[p] /\ answers'[p] \subseteq answers[p] /\ (p \in known => p \in known')
                               \/ batch'[p] = {} /\ answers'[p] = {}
  PROVE  Parts'
<1>1. Removed' /\ Fresh'
  BY DEF Parts, Removed, Fresh, Is, Kind
<1>2. Covered'
  BY DEF Parts, Covered, Covers, Accounted
<1>3. Delivered'
  BY DEF Parts, Delivered
<1> QED BY <1>1, <1>2, <1>3 DEF Parts

\* A new record is still to be read, or the place is past it already.
LEMMA ProduceStep ==
  ASSUME Parts, NEW p \in Partitions, Produce(p)
  PROVE  Parts'
<1> USE DEF Parts
<1>1. /\ end' = [end EXCEPT ![p] = @ + 1]
      /\ UNCHANGED <<source, topic, first, stored, run, known, next, batch, answers, started>>
  BY DEF Produce, partVars
<1>2. /\ end[p] \in Nat /\ first[p] \in Nat /\ first[p] <= end[p]
      /\ \A q \in Partitions : next[q] \in Nat /\ stored[q] \in Places
  BY DEF PlaceTypes
<1>3. PlaceTypes'
  <2>1. end' \in [Partitions -> Nat] /\ \A q \in Partitions : first[q] <= end'[q]
    BY <1>1, <1>2 DEF PlaceTypes
  <2> QED BY <1>1, <2>1 DEF PlaceTypes
<1>4. Fresh'
  BY <1>1 DEF Fresh, Is, Kind
<1>5. CASE Past(p, end[p])
  <2>1. passed' = passed \cup {<<p, end[p]>>} /\ handled' = handled /\ given' = given
    BY <1>5 DEF Produce
  <2>2. Removed' /\ Delivered'
    BY <1>1, <2>1 DEF Removed, Delivered
  <2>3. Covered'
    BY <1>1, <2>1 DEF Covered, Covers, Accounted
  <2> QED BY <1>3, <1>4, <2>2, <2>3
<1>6. CASE ~Past(p, end[p])
  <2>1. /\ handled' = handled \ {<<p, end[p]>>} /\ given' = given \ {<<p, end[p]>>}
        /\ passed' = passed \ {<<p, end[p]>>}
    BY <1>6 DEF Produce
  <2>2. ~(stored[p] > end[p]) /\ ~(p \in known /\ next[p] > end[p]) /\ end[p] \notin batch[p]
    BY <1>6 DEF Past
  <2>3. Removed'
    BY <1>1, <1>2, <2>1 DEF Removed
  <2>4. Delivered'
    BY <1>1, <2>1, <2>2 DEF Delivered
  <2>5. ASSUME NEW q \in Partitions, NEW place, place \in Nat, Covers(q, place), q = p => place <= end[p]
        PROVE  CoversNext(q, place)
    BY <1>2, <2>1, <2>5 DEF Covers, CoversNext, Accounted
  <2>6. ASSUME NEW q \in Partitions, stored'[q] # None PROVE CoversNext(q, stored'[q])
    BY <1>1, <1>2, <2>2, <2>5, <2>6 DEF Covered, Places
  <2>7. ASSUME NEW q \in Partitions, q \in known' PROVE CoversNext(q, next'[q])
    BY <1>1, <1>2, <2>2, <2>5, <2>7 DEF Covered
  <2>8. Covered'
    BY <2>6, <2>7 DEF Covered, Covers, CoversNext
  <2> QED BY <1>3, <1>4, <2>3, <2>4, <2>8
<1> QED BY <1>5, <1>6

LEMMA ServiceStep ==
  ASSUME Parts, Service \/ Tick
  PROVE  Parts'
<1>1. ASSUME NEW p \in Partitions, Produce(p) \/ AddPartition(p) PROVE Parts'
  <2>1. CASE Produce(p)
    BY <2>1, ProduceStep
  <2>2. CASE AddPartition(p)
    <3>1. PlaceTypes'
      BY <2>2 DEF Parts, PlaceTypes, AddPartition, partVars, histVars
    <3> QED BY <2>2, <3>1, PlacesStay DEF AddPartition, partVars, histVars
  <2> QED BY <1>1, <2>1, <2>2
<1>2. ASSUME NEW p \in Partitions, Truncate(p) PROVE Parts'
  <2>1. end' = [end EXCEPT ![p] = @ - 1] /\ first[p] < end[p]
    BY <1>2 DEF Truncate
  <2>2. end' \in [Partitions -> Nat] /\ \A q \in Partitions : first[q] <= end'[q]
    BY <2>1 DEF Parts, PlaceTypes
  <2>3. PlaceTypes'
    BY <1>2, <2>2 DEF Parts, PlaceTypes, Truncate, partVars
  <2> QED BY <1>2, <2>3, PlacesStay DEF Truncate, partVars
<1>3. ASSUME NEW p \in Partitions, Remove(p) PROVE Parts'
  <2>1. /\ first' = [first EXCEPT ![p] = @ + 1] /\ given' = given \cup {<<p, first[p]>>}
        /\ first[p] < end[p]
        /\ UNCHANGED <<source, topic, end, stored, run, known, next, batch, answers, handled, passed, started>>
    BY <1>3 DEF Remove, partVars
  <2>2. PlaceTypes'
    BY <2>1 DEF Parts, PlaceTypes
  <2>3. Removed'
    <3> SUFFICES ASSUME NEW q \in Partitions, NEW o \in Nat, o < first'[q] PROVE <<q, o>> \in given'
      BY DEF Removed
    <3>1. CASE o < first[q]
      BY <2>1, <3>1 DEF Parts, Removed
    <3>2. CASE ~(o < first[q])
      BY <2>1, <3>2 DEF Parts, PlaceTypes
    <3> QED BY <3>1, <3>2
  <2>4. Covered' /\ Delivered' /\ Fresh'
    BY <2>1 DEF Parts, Covered, Covers, Accounted, Delivered, Fresh, Is, Kind
  <2> QED BY <2>2, <2>3, <2>4 DEF Parts
<1>4. ASSUME Tick PROVE Parts'
  <2>1. UNCHANGED <<source, topic, first, end, stored, run, known, next, batch, answers, handled, given, passed, started>>
    BY <1>4 DEF Tick, logVars, partVars, histVars
  <2>2. PlaceTypes'
    BY <2>1 DEF Parts, PlaceTypes
  <2> QED BY <2>1, <2>2, PlacesStay
<1> QED BY <1>1, <1>2, <1>3, <1>4 DEF Service

\* Steps that forget what is in memory, or nothing.
LEMMA ForgetMemory ==
  ASSUME Parts,
         UNCHANGED <<source, topic, first, end, stored, next, handled, given, passed, started>>,
         \/ Drop
         \/ known' = {} /\ UNCHANGED <<batch, answers, run>> /\ run = "init"
         \/ UNCHANGED <<known, batch, answers>> /\ (run' \in {"init", "down"} => run \in {"init", "down"})
  PROVE  Parts'
<1>1. PlaceTypes'
  <2>1. known' \subseteq Partitions /\ batch' \in [Partitions -> SUBSET Nat]
    BY DEF Parts, PlaceTypes, Drop
  <2>2. answers' \in [Partitions -> SUBSET (Nat \X BOOLEAN)]
    BY DEF Parts, PlaceTypes, Drop
  <2> QED BY <2>1, <2>2 DEF Parts, PlaceTypes
<1>2. Removed' /\ Fresh'
  BY DEF Parts, Removed, Fresh, Is, Kind
<1>3. Covered'
  BY DEF Parts, Covered, Covers, Accounted, Drop
<1>4. Delivered'
  BY DEF Parts, Delivered, Drop
<1> QED BY <1>1, <1>2, <1>3, <1>4 DEF Parts

LEMMA OtherSteps ==
  ASSUME Parts, Is({"kafka", "generate"}),
         InitFails \/ StartHandling \/ FollowerEnds \/ Stop \/ Restart
  PROVE  Parts'
<1>1. /\ UNCHANGED <<source, topic, first, end, stored, next, handled, given, passed, started>>
      /\ \/ Drop
         \/ known' = {} /\ UNCHANGED <<batch, answers, run>> /\ run = "init"
         \/ UNCHANGED <<known, batch, answers>> /\ (run' \in {"init", "down"} => run \in {"init", "down"})
  BY DEF InitFails, StartHandling, FollowerEnds, Stop, Restart, Drop, logVars, partVars, histVars
<1> QED BY <1>1, ForgetMemory

LEMMA InitStep ==
  ASSUME Parts, Is({"kafka", "generate"}), NEW p \in Partitions, InitPartition(p)
  PROVE  Parts'
<1> USE DEF Parts
<1> DEFINE place == StartPlace(p)
<1>1. /\ run = "init" /\ p \in topic /\ run' = run
      /\ known' = known \cup {p} /\ next' = [next EXCEPT ![p] = place]
      /\ started' = started \cup {p}
      /\ passed' = (IF p \notin started /\ stored[p] = None THEN passed \cup RecordsBelow(p, place) ELSE passed)
      /\ UNCHANGED <<source, topic, first, end, batch, answers, handled, given>>
  BY DEF InitPartition, logVars
<1>2. stored[p] \in Places /\ first[p] \in Nat /\ end[p] \in Nat
  BY <1>1 DEF PlaceTypes
<1>3. /\ place \in Nat
      /\ stored[p] # None => (place = stored[p] \/ place = 0)
      /\ stored[p] = None => place = 0 \/ (Is({"kafka"}) /\ place \in Nat)
      /\ Is({"kafka"}) => stored' = [stored EXCEPT ![p] = place]
                          /\ (stored[p] # None => place = stored[p])
      /\ ~Is({"kafka"}) => stored' = stored \/ (stored' = [stored EXCEPT ![p] = 0])
  <2>1. CASE Kind = "kafka"
    BY <1>2, <2>1, Bounds DEF StartPlace, StoredOr, StartOf, Is, InitPartition, Places
  <2>2. CASE Kind = "generate"
    BY <1>2, <2>2, Bounds DEF StartPlace, Counter, StoredOr, Is, InitPartition, Places
  <2> QED BY <2>1, <2>2 DEF Is
<1> HIDE DEF place
<1>4. Accounted \subseteq Accounted'
  BY <1>1 DEF Accounted
<1>5. CoversNext(p, place)
  <2>1. CASE place = 0
    BY <2>1 DEF CoversNext
  <2>2. CASE stored[p] # None /\ place = stored[p]
    BY <1>4, <2>2, CoversGrows DEF Covered
  <2>3. CASE stored[p] = None /\ Is({"kafka"})
    <3>1. passed' = passed \cup RecordsBelow(p, place)
      BY <1>1, <2>3 DEF Fresh
    <3>2. \A o \in Nat : o < place => <<p, o>> \in RecordsBelow(p, place)
      BY <1>3 DEF RecordsBelow
    <3> QED BY <3>1, <3>2 DEF CoversNext, Accounted
  <2> QED BY <1>3, <2>1, <2>2, <2>3
<1>6. stored' \in [Partitions -> Places] /\ \A q \in Partitions \ {p} : stored'[q] = stored[q]
  BY <1>3 DEF PlaceTypes, Places, Is
<1>7. PlaceTypes'
  <2>1. next' \in [Partitions -> Nat]
    BY <1>1, <1>3 DEF PlaceTypes
  <2> QED BY <1>1, <1>6, <2>1 DEF PlaceTypes
<1>8. Removed'
  BY <1>1 DEF Removed
<1>9. ASSUME NEW q \in Partitions, stored'[q] # None
      PROVE  CoversNext(q, stored'[q])
  <2>1. CASE stored'[q] = stored[q]
    BY <1>4, <1>9, <2>1, CoversGrows DEF Covered
  <2>2. CASE q = p /\ stored'[p] = place
    BY <1>5, <2>2
  <2>3. CASE q = p /\ stored'[p] = 0
    BY <2>3 DEF CoversNext
  <2> QED BY <1>3, <1>6, <2>1, <2>2, <2>3 DEF PlaceTypes
<1>10. ASSUME NEW q \in Partitions, q \in known'
       PROVE  CoversNext(q, next'[q])
  <2>1. CASE q # p
    BY <1>1, <1>4, <1>10, <2>1, CoversGrows DEF Covered, PlaceTypes
  <2>2. CASE q = p
    BY <1>1, <1>5, <2>2 DEF PlaceTypes
  <2> QED BY <2>1, <2>2
<1>11. Covered'
  BY <1>9, <1>10 DEF Covered, Covers, CoversNext
<1>12. Delivered'
  <2>1. \A q \in Partitions : batch[q] = {}
    BY <1>1 DEF Delivered
  <2>2. \A q \in Partitions : batch'[q] = {} /\ answers'[q] = answers[q]
    BY <1>1, <2>1
  <2> QED BY <1>1, <2>1, <2>2 DEF Delivered
<1>13. Fresh'
  BY <1>1, <1>2, <1>3, <1>6, Bounds DEF Fresh, Is, Kind, PlaceTypes
<1> QED BY <1>7, <1>8, <1>11, <1>12, <1>13

\* What moves is the delivery of one partition, not its place.
LEMMA DeliveryStep ==
  ASSUME Parts, NEW p \in Partitions, p \in known, run = "on",
         UNCHANGED <<source, topic, first, end, stored, known, next, given, passed, started>>, handled \subseteq handled',
         run' \notin {"init", "down"},
         NEW recs, recs \subseteq {next[p]}, batch' = [batch EXCEPT ![p] = recs],
         NEW judged, answers' = [answers EXCEPT ![p] = judged], judged \subseteq Nat \X BOOLEAN,
         \A a \in judged : a[1] \in recs /\ (a[2] => <<p, a[1]>> \in handled')
  PROVE  Parts'
<1> USE DEF Parts
<1>1. PlaceTypes'
  <2>1. batch' \in [Partitions -> SUBSET Nat]
    BY DEF PlaceTypes
  <2>2. answers' \in [Partitions -> SUBSET (Nat \X BOOLEAN)]
    BY DEF PlaceTypes
  <2> QED BY <2>1, <2>2 DEF PlaceTypes
<1>2. Removed' /\ Fresh'
  BY DEF Removed, Fresh, Is, Kind
<1>3. Covered'
  <2>1. \A q \in Partitions : \A place : Covers(q, place) => CoversNext(q, place)
    BY CoversGrows DEF Accounted
  <2> QED BY <2>1 DEF Covered, Covers, CoversNext
<1>4. Delivered'
  <2>1. \A q \in Partitions : q # p => batch'[q] = batch[q] /\ answers'[q] = answers[q]
    BY DEF PlaceTypes
  <2>2. batch'[p] = recs /\ answers'[p] = judged
    BY DEF PlaceTypes
  <2> QED BY <2>1, <2>2 DEF Delivered
<1> QED BY <1>1, <1>2, <1>3, <1>4

\* A record is judged: it completed, or it is given up; the place moves behind it.
LEMMA FinishStep ==
  ASSUME Parts, NEW p \in Partitions, run = "on", run' \notin {"init", "down"}, batch[p] # {},
         UNCHANGED <<source, topic, first, end, known, handled, passed, started>>, given \subseteq given',
         <<p, next[p]>> \in handled \cup given',
         stored' \in {stored, [stored EXCEPT ![p] = next[p] + 1]},
         next' = [next EXCEPT ![p] = next[p] + 1],
         batch' = [batch EXCEPT ![p] = {}], answers' = [answers EXCEPT ![p] = {}]
  PROVE  Parts'
<1> USE DEF Parts
<1>1. p \in known /\ Covers(p, next[p]) /\ next[p] \in Nat /\ Accounted \subseteq Accounted'
  BY DEF Delivered, Covered, PlaceTypes, Accounted
<1>2. CoversNext(p, next[p] + 1)
  BY <1>1, CoversMore DEF Accounted
<1>3. PlaceTypes'
  <2>1. batch' \in [Partitions -> SUBSET Nat] /\ answers' \in [Partitions -> SUBSET (Nat \X BOOLEAN)]
    BY DEF PlaceTypes
  <2>2. next' \in [Partitions -> Nat] /\ stored' \in [Partitions -> Places]
    BY <1>1 DEF PlaceTypes, Places
  <2> QED BY <2>1, <2>2 DEF PlaceTypes
<1>4. Removed'
  BY DEF Removed
<1>5. /\ \A q \in Partitions : stored'[q] = stored[q] \/ (q = p /\ stored'[q] = next[p] + 1)
      /\ next'[p] = next[p] + 1 /\ \A q \in Partitions \ {p} : next'[q] = next[q]
  BY DEF PlaceTypes
<1>6. ASSUME NEW q \in Partitions, stored'[q] # None PROVE CoversNext(q, stored'[q])
  <2>1. CASE stored'[q] = stored[q]
    BY <1>1, <1>6, <2>1, CoversGrows DEF Covered
  <2>2. CASE q = p /\ stored'[q] = next[p] + 1
    BY <1>1, <1>2, <2>2
  <2> QED BY <1>5, <2>1, <2>2
<1>7. ASSUME NEW q \in Partitions, q \in known' PROVE CoversNext(q, next'[q])
  <2>1. CASE q = p
    BY <1>1, <1>2, <1>5, <2>1
  <2>2. CASE q # p
    BY <1>1, <1>5, <1>7, <2>2, CoversGrows DEF Covered
  <2> QED BY <2>1, <2>2
<1>8. Covered'
  BY <1>6, <1>7 DEF Covered, Covers, CoversNext
<1>9. Delivered'
  <2>1. \A q \in Partitions : q # p => batch'[q] = batch[q] /\ answers'[q] = answers[q]
    BY DEF PlaceTypes
  <2>2. batch'[p] = {} /\ answers'[p] = {}
    BY DEF PlaceTypes
  <2> QED BY <1>5, <2>1, <2>2 DEF Delivered
<1>10. Fresh'
  BY <1>1, <1>5, Bounds DEF Fresh, Is, Kind
<1> QED BY <1>3, <1>4, <1>8, <1>9, <1>10

\* The place moves to one that is covered, while nothing is with the flow.
LEMMA MoveStep ==
  ASSUME Parts, NEW p \in Partitions, p \in known, run = "on", run' \notin {"init", "down"},
         UNCHANGED <<source, topic, first, end, stored, known, handled, given, passed, started>>,
         NEW place \in Nat, Covers(p, place), next' = [next EXCEPT ![p] = place],
         batch' = [batch EXCEPT ![p] = {}], answers' = [answers EXCEPT ![p] = {}]
  PROVE  Parts'
<1> USE DEF Parts
<1>1. PlaceTypes'
  <2>1. batch' \in [Partitions -> SUBSET Nat] /\ answers' \in [Partitions -> SUBSET (Nat \X BOOLEAN)]
    BY DEF PlaceTypes
  <2>2. next' \in [Partitions -> Nat]
    BY DEF PlaceTypes
  <2> QED BY <2>1, <2>2 DEF PlaceTypes
<1>2. Removed' /\ Fresh'
  BY DEF Removed, Fresh, Is, Kind
<1>3. next'[p] = place /\ \A q \in Partitions \ {p} : next'[q] = next[q]
  BY DEF PlaceTypes
<1>4. Covered'
  BY <1>3 DEF Covered, Covers, Accounted
<1>5. Delivered'
  <2>1. \A q \in Partitions : q # p => batch'[q] = batch[q]
    BY DEF PlaceTypes
  <2>2. batch'[p] = {} /\ answers'[p] = {} /\ \A q \in Partitions : q # p => answers'[q] = answers[q]
    BY DEF PlaceTypes
  <2> QED BY <1>3, <2>1, <2>2 DEF Delivered
<1> QED BY <1>1, <1>2, <1>4, <1>5

\* The record that is with the flow.
LEMMA OneRecord ==
  ASSUME Parts, NEW p \in Partitions, Judged(p)
  PROVE  /\ run = "on" /\ batch[p] = {next[p]} /\ Last(p) = next[p] /\ next[p] \in Nat
         /\ AllOk(p) => <<p, next[p]>> \in handled
<1> USE DEF Parts
<1>1. run = "on" /\ batch[p] = {next[p]} /\ next[p] \in Nat
  BY DEF Judged, Delivered, PlaceTypes
<1>2. Last(p) = next[p]
  BY <1>1 DEF Last
<1>3. ASSUME AllOk(p) PROVE <<p, next[p]>> \in handled
  <2>1. PICK a \in answers[p] : a[1] = next[p]
    BY <1>1 DEF Judged
  <2>2. a[2]
    BY <1>3 DEF AllOk
  <2> QED BY <2>1, <2>2 DEF Delivered
<1> QED BY <1>1, <1>2, <1>3

\* run_loop of generate starts over with the count in the cache.
LEMMA AgainStep ==
  ASSUME Parts, NEW p \in Partitions, p \in known, run = "on", NEW from, LoopAgain(p, from),
         UNCHANGED <<source, topic, first, end, stored, handled, given, passed, started>>
  PROVE  Parts'
<1>1. stored[p] \in Places
  BY DEF Parts, PlaceTypes
<1>2. StoredOr(p, 0) \in Nat /\ Covers(p, StoredOr(p, 0))
  <2>1. CASE stored[p] = None
    BY <1>1, <2>1 DEF StoredOr, Covers, Places
  <2>2. CASE stored[p] # None
    BY <1>1, <2>2 DEF Parts, Covered, StoredOr, Places
  <2> QED BY <2>1, <2>2
<1>3. /\ next' = [next EXCEPT ![p] = StoredOr(p, 0)] /\ UNCHANGED known /\ run' \notin {"init", "down"}
      /\ batch' = [batch EXCEPT ![p] = {}] /\ answers' = [answers EXCEPT ![p] = {}]
  BY DEF LoopAgain
<1> HIDE DEF StoredOr
<1> QED BY <1>2, <1>3, MoveStep

LEMMA KafkaStep ==
  ASSUME Parts, Is({"kafka"}), NEW p \in Partitions,
         Deliver(p) \/ FinishRecord(p) \/ Redeliver(p) \/ RecoverOffset(p)
  PROVE  Parts'
<1> USE DEF Parts
<1>1. next[p] \in Nat /\ first[p] \in Nat /\ end[p] \in Nat
  BY DEF PlaceTypes
<1>2. ASSUME Deliver(p) PROVE Parts'
  <2>1. /\ p \in known /\ run = "on" /\ batch' = [batch EXCEPT ![p] = {next[p]}]
        /\ UNCHANGED <<source, topic, first, end, stored, run, known, next, answers, handled, given, passed, started>>
    <3>1. PICK n \in 1..1 : batch' = [batch EXCEPT ![p] = next[p]..(next[p] + n - 1)]
      BY <1>2 DEF Deliver
    <3>2. next[p]..(next[p] + n - 1) = {next[p]}
      BY <1>1
    <3> QED BY <1>2, <3>1, <3>2 DEF Deliver, Idle, logVars, histVars
  <2>2. answers' = [answers EXCEPT ![p] = answers[p]] /\ answers[p] \subseteq Nat \X BOOLEAN
    BY <2>1 DEF PlaceTypes
  <2>3. \A a \in answers[p] : a[1] \in {next[p]} /\ (a[2] => <<p, a[1]>> \in handled')
    BY <2>1 DEF Delivered
  <2> QED BY <2>1, <2>2, <2>3, DeliveryStep
<1>3. ASSUME FinishRecord(p) PROVE Parts'
  <2>1. Judged(p) /\ (AllOk(p) \/ GivesUp(p)) /\ StorePlace(p) /\ Advance(p)
        /\ given' = (IF AllOk(p) THEN given ELSE given \cup {<<p, Last(p)>>})
        /\ UNCHANGED <<source, topic, first, end, run, known, handled, passed, started>>
    BY <1>3 DEF FinishRecord, logVars
  <2>2. run = "on" /\ batch[p] = {next[p]} /\ Last(p) = next[p] /\ (AllOk(p) => <<p, next[p]>> \in handled)
    BY <2>1, OneRecord
  <2>3. <<p, next[p]>> \in handled \cup given' /\ given \subseteq given'
    BY <2>1, <2>2
  <2>4. /\ stored' \in {stored, [stored EXCEPT ![p] = next[p] + 1]} /\ next' = [next EXCEPT ![p] = next[p] + 1]
        /\ batch' = [batch EXCEPT ![p] = {}] /\ answers' = [answers EXCEPT ![p] = {}]
    BY <2>1, <2>2 DEF StorePlace, Advance
  <2> QED BY <2>1, <2>2, <2>3, <2>4, FinishStep
<1>4. ASSUME Redeliver(p) PROVE Parts'
  <2>1. run = "on" /\ batch[p] = {next[p]}
    BY <1>4, OneRecord DEF Redeliver
  <2>2. /\ answers' = [answers EXCEPT ![p] = {}]
        /\ UNCHANGED <<source, topic, first, end, stored, run, known, next, batch, handled, given, passed, started>>
    BY <1>4 DEF Redeliver, logVars, histVars
  <2>3. batch' = [batch EXCEPT ![p] = {next[p]}] /\ p \in known
    BY <2>1, <2>2 DEF PlaceTypes, Delivered
  <2> DEFINE judged == {}
  <2>4. judged \subseteq Nat \X BOOLEAN /\ \A a \in judged : a[1] \in {next[p]} /\ (a[2] => <<p, a[1]>> \in handled')
    OBVIOUS
  <2>5. handled \subseteq handled' /\ run' \notin {"init", "down"} /\ answers' = [answers EXCEPT ![p] = judged]
    BY <2>1, <2>2
  <2> HIDE DEF judged
  <2> QED BY <2>1, <2>2, <2>3, <2>4, <2>5, DeliveryStep
<1>5. ASSUME RecoverOffset(p) PROVE Parts'
  <2> DEFINE place == IF next[p] < first[p] THEN first[p] ELSE StartOf(p)
  <2>1. /\ run = "on" /\ p \in known /\ batch[p] = {} /\ next[p] \notin first[p]..end[p]
        /\ next' = [next EXCEPT ![p] = place]
        /\ UNCHANGED <<source, topic, first, end, stored, run, known, batch, answers, handled, given, passed, started>>
    BY <1>5 DEF RecoverOffset, Idle, logVars, histVars
  <2>2. place = first[p] \/ (place = end[p] /\ end[p] < next[p])
    BY <1>1, <2>1 DEF StartOf
  <2> HIDE DEF place
  <2>3. CASE place = first[p]
    <3>1. Covers(p, place)
      BY <2>3 DEF Removed, Covers, Accounted
    <3>2. batch' = [batch EXCEPT ![p] = {}] /\ answers' = [answers EXCEPT ![p] = {}]
      <4>1. answers[p] = {}
        BY <2>1 DEF Delivered
      <4> QED BY <2>1, <4>1 DEF PlaceTypes
    <3> QED BY <1>1, <2>1, <2>3, <3>1, <3>2, MoveStep
  <2>4. CASE place = end[p] /\ end[p] < next[p]
    <3>1. Covers(p, place)
      BY <1>1, <2>1, <2>4 DEF Covered, Covers
    <3>2. batch' = [batch EXCEPT ![p] = {}] /\ answers' = [answers EXCEPT ![p] = {}]
      <4>1. answers[p] = {}
        BY <2>1 DEF Delivered
      <4> QED BY <2>1, <4>1 DEF PlaceTypes
    <3> QED BY <1>1, <2>1, <2>4, <3>1, <3>2, MoveStep
  <2> QED BY <2>2, <2>3, <2>4
<1> QED BY <1>2, <1>3, <1>4, <1>5

LEMMA GenerateStep ==
  ASSUME Parts, Is({"generate"}), NEW p \in Partitions,
         DeliverGenerated(p) \/ FinishGenerated(p) \/ FailGenerated(p)
  PROVE  Parts'
<1> USE DEF Parts
<1>1. ASSUME DeliverGenerated(p) PROVE Parts'
  <2>1. /\ p \in known /\ run = "on" /\ batch' = [batch EXCEPT ![p] = {next[p]}]
        /\ UNCHANGED <<source, topic, first, end, stored, run, known, next, answers, handled, given, passed, started>>
    BY <1>1 DEF DeliverGenerated, Idle, logVars, histVars
  <2>2. answers' = [answers EXCEPT ![p] = answers[p]] /\ answers[p] \subseteq Nat \X BOOLEAN
    BY <2>1 DEF PlaceTypes
  <2>3. \A a \in answers[p] : a[1] \in {next[p]} /\ (a[2] => <<p, a[1]>> \in handled')
    BY <2>1 DEF Delivered
  <2> QED BY <2>1, <2>2, <2>3, DeliveryStep
<1>2. ASSUME FinishGenerated(p) PROVE Parts'
  <2>1. Judged(p) /\ AllOk(p) /\ StorePlace(p) /\ Advance(p) /\ run' \in {"ended", run}
        /\ UNCHANGED <<source, topic, first, end, known, handled, given, passed, started>>
    BY <1>2 DEF FinishGenerated, logVars, histVars
  <2>2. run = "on" /\ batch[p] = {next[p]} /\ Last(p) = next[p] /\ <<p, next[p]>> \in handled
    BY <2>1, OneRecord
  <2>3. run' \notin {"init", "down"}
    BY <2>1, <2>2
  <2>4. /\ stored' \in {stored, [stored EXCEPT ![p] = next[p] + 1]} /\ next' = [next EXCEPT ![p] = next[p] + 1]
        /\ batch' = [batch EXCEPT ![p] = {}] /\ answers' = [answers EXCEPT ![p] = {}]
    BY <2>1, <2>2 DEF StorePlace, Advance
  <2> QED BY <2>1, <2>2, <2>3, <2>4, FinishStep
<1>3. ASSUME FailGenerated(p) PROVE Parts'
  <2>1. run = "on" /\ p \in known
    BY <1>3, OneRecord DEF FailGenerated, Delivered, Judged
  <2>2. UNCHANGED <<source, topic, first, end, stored, handled, given, passed, started>>
    BY <1>3 DEF FailGenerated, logVars, histVars
  <2>3. CASE LoopAgain(p, anchor)
    BY <2>1, <2>2, <2>3, AgainStep
  <2>4. CASE /\ batch' = [batch EXCEPT ![p] = {}] /\ answers' = [answers EXCEPT ![p] = {}]
             /\ UNCHANGED <<run, known, next>>
    <3> DEFINE none == {}
    <3>1. none \subseteq Nat \X BOOLEAN /\ none \subseteq {next[p]} /\ \A a \in none : a[1] \in none /\ (a[2] => <<p, a[1]>> \in handled')
      OBVIOUS
    <3>2. /\ handled \subseteq handled' /\ run' \notin {"init", "down"}
          /\ batch' = [batch EXCEPT ![p] = none] /\ answers' = [answers EXCEPT ![p] = none]
      BY <2>1, <2>2, <2>4
    <3> HIDE DEF none
    <3> QED BY <2>1, <2>2, <2>4, <3>1, <3>2, DeliveryStep
  <2> QED BY <1>3, <2>3, <2>4 DEF FailGenerated
<1> QED BY <1>1, <1>2, <1>3

LEMMA HandOnStep ==
  ASSUME Parts, Is({"kafka", "generate"}), NEW p \in Partitions, HandOnFails(p)
  PROVE  Parts'
<1>1. run = "on" /\ p \in known /\ UNCHANGED <<source, topic, first, end, stored, handled, given, passed, started>>
  BY DEF HandOnFails, Idle, logVars, histVars
<1>2. CASE Kind = "kafka"
  <2>1. Drop
    BY <1>2 DEF HandOnFails, Is
  <2> QED BY <1>1, <2>1, ForgetMemory DEF Drop
<1>3. CASE Kind = "generate"
  <2>1. LoopAgain(p, anchor')
    BY <1>3 DEF HandOnFails, Is
  <2> QED BY <1>1, <2>1, AgainStep
<1> QED BY <1>2, <1>3 DEF Is

LEMMA AnswerStep ==
  ASSUME Parts, NEW p \in Partitions, Answers(p)
  PROVE  Parts'
<1> USE DEF Parts
<1>1. PICK o \in 0..MaxLog, ok \in BOOLEAN : Answer(p, o, ok)
  BY DEF Answers
<1> DEFINE judged == answers[p] \cup {<<o, ok>>}
<1>2. /\ run = "on" /\ p \in known /\ answers' = [answers EXCEPT ![p] = judged]
      /\ handled' = (IF ok THEN handled \cup {<<p, o>>} ELSE handled)
      /\ UNCHANGED <<source, topic, first, end, stored, run, known, next, batch, given, passed, started>>
  BY <1>1 DEF Answer, logVars
<1>3. judged \subseteq Nat \X BOOLEAN
  BY <1>1, Bounds DEF PlaceTypes
<1>4. \A a \in judged : a[1] \in batch[p] /\ (a[2] => <<p, a[1]>> \in handled')
  BY <1>1, <1>2 DEF Delivered, Answer
<1>5. batch' = [batch EXCEPT ![p] = batch[p]] /\ batch[p] \subseteq {next[p]} /\ handled \subseteq handled'
  BY <1>2 DEF PlaceTypes, Delivered
<1> HIDE DEF judged
<1> QED BY <1>2, <1>3, <1>4, <1>5, DeliveryStep

\* The partitions that were added start at their earliest record.
LEMMA WatchStep ==
  ASSUME Parts, WatchPartitions
  PROVE  Parts'
<1> USE DEF Parts
<1>1. PICK kept \in SUBSET (topic \ known) :
        stored' = [p \in Partitions |-> IF p \in kept THEN first[p] ELSE stored[p]]
  BY DEF WatchPartitions
<1>2. Drop /\ known' = {} /\ UNCHANGED <<source, topic, first, end, next, handled, given, passed, started>>
  BY DEF WatchPartitions, Drop, logVars, histVars
<1>3. PlaceTypes'
  <2>1. batch' \in [Partitions -> SUBSET Nat] /\ answers' \in [Partitions -> SUBSET (Nat \X BOOLEAN)]
    BY <1>2 DEF Drop
  <2>2. stored' \in [Partitions -> Places]
    BY <1>1 DEF PlaceTypes, Places
  <2> QED BY <1>2, <2>1, <2>2 DEF PlaceTypes
<1>4. Removed'
  BY <1>2 DEF Removed
<1>5. ASSUME NEW p \in Partitions, stored'[p] # None PROVE CoversNext(p, stored'[p])
  <2>1. CASE p \in kept
    <3>1. stored'[p] = first[p]
      BY <1>1, <2>1
    <3> QED BY <1>2, <3>1 DEF Removed, CoversNext, Accounted
  <2>2. CASE p \notin kept
    <3>1. stored'[p] = stored[p]
      BY <1>1, <2>2
    <3> QED BY <1>2, <1>5, <3>1, CoversGrows DEF Covered, Accounted
  <2> QED BY <2>1, <2>2
<1>6. Covered'
  BY <1>2, <1>5 DEF Covered, Covers, CoversNext
<1>7. Delivered'
  BY <1>2 DEF Delivered, Drop
<1>8. Fresh'
  <2> SUFFICES ASSUME Is({"kafka"}), NEW p \in Partitions, p \in started PROVE stored'[p] # None
    BY <1>2 DEF Fresh, Is, Kind
  <2>1. first[p] # None
    BY Bounds DEF PlaceTypes
  <2> QED BY <1>1, <2>1 DEF Fresh
<1> QED BY <1>3, <1>4, <1>6, <1>7, <1>8

LEMMA PlaceStep == PlaceInv /\ [SourcesNext]_sourceVars => PlaceInv'
<1> SUFFICES ASSUME PlaceInv, [SourcesNext]_sourceVars, Is({"kafka", "generate"})' PROVE Parts'
  BY DEF PlaceInv, Parts
<1>1. source' = source
  <2>1. CASE UNCHANGED sourceVars
    BY <2>1 DEF sourceVars
  <2>2. CASE Service \/ Tick \/ InitFails \/ StartHandling \/ StreamEnds \/ WatchPartitions
             \/ FollowerEnds \/ Stop \/ Restart
    BY <2>2 DEF Service, Produce, Remove, Truncate, AddPartition, Tick, InitFails, StartHandling, StreamEnds,
                WatchPartitions, FollowerEnds, Stop, Restart
  <2>3. ASSUME NEW p \in Partitions, Reads(p) \/ Answers(p) PROVE source' = source
    BY <2>3 DEF Reads, InitPartition, ReplayInvalid, DeliverGenerated, Deliver, Forward, HandOnFails, FinishRecord,
                Redeliver, FinishBatch, FinishGenerated, FailGenerated, RecoverOffset, Answers, Answer
  <2> QED BY <2>1, <2>2, <2>3 DEF SourcesNext
<1>2. Parts /\ Is({"kafka", "generate"})
  BY <1>1 DEF PlaceInv, Parts, Is, Kind
<1>3. ASSUME NEW p \in Partitions, Reads(p) PROVE Parts'
  <2>1. ~ReplayInvalid(p) /\ ~Forward(p) /\ ~FinishBatch(p)
    BY <1>2 DEF ReplayInvalid, Forward, FinishBatch, Is
  <2>2. CASE InitPartition(p)
    BY <1>2, <2>2, InitStep
  <2>3. CASE HandOnFails(p)
    BY <1>2, <2>3, HandOnStep
  <2>4. CASE Deliver(p) \/ FinishRecord(p) \/ Redeliver(p) \/ RecoverOffset(p)
    <3>1. Is({"kafka"})
      BY <1>2, <2>4 DEF Deliver, FinishRecord, Redeliver, RecoverOffset, Is
    <3> QED BY <1>2, <2>4, <3>1, KafkaStep
  <2>5. CASE DeliverGenerated(p) \/ FinishGenerated(p) \/ FailGenerated(p)
    <3>1. Is({"generate"})
      BY <2>5 DEF DeliverGenerated, FinishGenerated, FailGenerated
    <3> QED BY <1>2, <2>5, <3>1, GenerateStep
  <2> QED BY <1>3, <2>1, <2>2, <2>3, <2>4, <2>5 DEF Reads
<1>4. CASE UNCHANGED sourceVars
  <2>1. /\ UNCHANGED <<source, topic, first, end, stored, next, handled, given, passed, started>>
        /\ UNCHANGED <<known, batch, answers>> /\ run' = run
    BY <1>4 DEF sourceVars, logVars, partVars, histVars
  <2> QED BY <1>2, <2>1, ForgetMemory
<1>5. ~StreamEnds
  BY <1>2 DEF StreamEnds, Is
<1> QED BY <1>2, <1>3, <1>4, <1>5, ServiceStep, AnswerStep, OtherSteps, WatchStep DEF SourcesNext

LEMMA PlaceInit == SourcesInit => PlaceInv
<1> SUFFICES ASSUME SourcesInit PROVE Parts
  BY DEF PlaceInv, Parts
<1>1. PlaceTypes
  <2>1. topic \subseteq Partitions
    BY SourceSetupsAssumption DEF SourcesInit
  <2>2. end \in [Partitions -> Nat]
    BY Bounds DEF SourcesInit
  <2> QED BY <2>1, <2>2, Bounds DEF SourcesInit, PlaceTypes, Places
<1>2. Removed /\ Covered /\ Delivered /\ Fresh
  BY DEF SourcesInit, Removed, Covered, Delivered, Fresh
<1> QED BY <1>1, <1>2 DEF Parts

\* A stored place is never past a record the flow has not completed, given up, lost
\* or passed over, whatever the order of answers, restarts, cache failures,
\* retention, truncation and added partitions (process_record,
\* consume_partition, run_loop).
THEOREM PlacesAreSafe == SourcesSpec => []StoredIsHandled
<1>1. PlaceInv => StoredIsHandled
  <2> SUFFICES ASSUME PlaceInv, Is({"kafka", "generate"}), NEW p \in Partitions, stored[p] # None,
                      NEW o \in 0..(stored[p] - 1)
               PROVE  <<p, o>> \in Accounted
    BY DEF StoredIsHandled, RecordsBelow
  <2>1. Covers(p, stored[p]) /\ stored[p] \in Nat
    BY DEF PlaceInv, Covered, PlaceTypes, Places
  <2> QED BY <2>1 DEF Covers
<1> QED BY <1>1, PlaceInit, PlaceStep, PTL DEF SourcesSpec

-----------------------------------------------------------------------------
(* One event at one task, of any kind. *)

\* A sequence, of whatever.
IsASequence(s) == \E S : s \in Seq(S)

LEMMA SequenceIs ==
  ASSUME NEW s, IsASequence(s)
  PROVE  /\ Len(s) \in Nat /\ DOMAIN s = 1..Len(s)
         /\ s # <<>> => /\ IsASequence(Tail(s)) /\ 1 \in DOMAIN s /\ Head(s) = s[1]
                        /\ Len(Tail(s)) = Len(s) - 1 /\ DOMAIN Tail(s) = 1..(Len(s) - 1)
                        /\ \A i \in DOMAIN Tail(s) : i + 1 \in DOMAIN s /\ Tail(s)[i] = s[i + 1]
<1>1. PICK S : s \in Seq(S)
  BY DEF IsASequence
<1>2. Len(s) \in Nat /\ DOMAIN s = 1..Len(s)
  BY <1>1
<1>3. CASE s # <<>>
  <2>1. Tail(s) \in Seq(S) /\ Len(Tail(s)) = Len(s) - 1 /\ Len(s) # 0
    BY <1>1, <1>3
  <2>2. DOMAIN Tail(s) = 1..(Len(s) - 1)
    BY <2>1
  <2>3. \A i \in 1..(Len(s) - 1) : Tail(s)[i] = s[i + 1] /\ i + 1 \in 1..Len(s)
    BY <1>1, <1>2, <1>3
  <2> QED BY <1>1, <1>2, <1>3, <2>1, <2>2, <2>3 DEF IsASequence
<1> QED BY <1>2, <1>3

\* The order of steps that the paths have stays as they are worked off.
LEMMA TailKeeps ==
  ASSUME NEW s, IsASequence(s), s # <<>>, NEW permanent
  PROVE  /\ HandsOnLast(s) => HandsOnLast(Tail(s)) /\ (Head(s).op \in Concluding => Tail(s) = <<>>)
         /\ CallsOnce(s, permanent) => CallsOnce(Tail(s), permanent)
<1>1. /\ Len(s) \in Nat /\ DOMAIN s = 1..Len(s) /\ IsASequence(Tail(s)) /\ 1 \in DOMAIN s /\ Head(s) = s[1]
      /\ Len(Tail(s)) = Len(s) - 1 /\ DOMAIN Tail(s) = 1..(Len(s) - 1)
      /\ \A i \in DOMAIN Tail(s) : i + 1 \in DOMAIN s /\ Tail(s)[i] = s[i + 1]
  BY SequenceIs
<1>2. ASSUME HandsOnLast(s) PROVE HandsOnLast(Tail(s))
  <2> SUFFICES ASSUME NEW i \in DOMAIN Tail(s), Tail(s)[i].op \in Concluding PROVE i = Len(Tail(s))
    BY DEF HandsOnLast
  <2>1. i + 1 = Len(s)
    BY <1>1, <1>2 DEF HandsOnLast
  <2> QED BY <1>1, <2>1
<1>3. ASSUME HandsOnLast(s), Head(s).op \in Concluding PROVE Tail(s) = <<>>
  <2>1. Len(s) = 1
    BY <1>1, <1>3 DEF HandsOnLast
  <2>2. PICK S : Tail(s) \in Seq(S)
    BY <1>1 DEF IsASequence
  <2> QED BY <1>1, <2>1, <2>2
<1>4. ASSUME CallsOnce(s, permanent) PROVE CallsOnce(Tail(s), permanent)
  <2> SUFFICES ASSUME NEW i \in DOMAIN Tail(s), Tail(s)[i].op = "call", NEW j \in i..Len(Tail(s))
               PROVE  /\ j # i => Tail(s)[j].op # "call"
                      /\ Tail(s)[j].op \in {"try", "call"} => Tail(s)[j].errors \subseteq permanent
    BY DEF CallsOnce
  <2>1. i + 1 \in DOMAIN s /\ j + 1 \in (i + 1)..Len(s) /\ j \in DOMAIN Tail(s) /\ i \in Nat /\ j \in Nat
    BY <1>1
  <2>2. s[i + 1].op = "call" /\ Tail(s)[j] = s[j + 1]
    BY <1>1, <2>1
  <2>3. /\ j + 1 # i + 1 => s[j + 1].op # "call"
        /\ s[j + 1].op \in {"try", "call"} => s[j + 1].errors \subseteq permanent
    BY <1>4, <2>1, <2>2 DEF CallsOnce
  <2> QED BY <2>1, <2>2, <2>3
<1> QED BY <1>2, <1>3, <1>4

\* The values the variables take, and how the steps still to do are ordered.
HandTypes ==
  /\ TypeOK
  /\ calls \in Nat /\ nextUp \in BOOLEAN /\ cancelled \in BOOLEAN /\ released \in BOOLEAN
  /\ phase = "delay" => tries + 1 < MaxAttempts
  /\ phase = "starting" => tries < MaxAttempts
  /\ IsASequence(rest)
  /\ kind \notin WorksAfterHandOn => HandsOnLast(rest)
  /\ phase = "working" /\ ~Task_.safe => CallsOnce(rest, Task_.permanent)

\* Nothing has left the task yet.
Untold ==
  /\ \A l \in Leaf : carried[l] = 0 /\ errors[l] = 0
  /\ served = {} /\ remaining = LeafCount /\ outcome = "none"

\* Every leaf has the completion to handle or has handled it, or lost it.
HandedOn ==
  /\ \A l \in Leaf : carried[l] \in {0, 1} /\ errors[l] = 0 /\ (l \in served => carried[l] = 0)
  /\ remaining + Cardinality(served) = LeafCount
  /\ outcome = "ok" => served = Leaf

\* The leaves and the source hear of an error only.
ReportedFailed ==
  /\ \A l \in Leaf : carried[l] = 0
  /\ served = {} /\ outcome # "ok"

\* While the task works the source and the leaves know nothing; a completion is
\* handed on once, by the last step, and after an error none is.
Accounts ==
  leaves # 0 /\ ~released /\ kind \notin WorksAfterHandOn =>
    /\ phase \in {"starting", "taken", "delay", "failing"} => Untold
    /\ phase = "working" => Untold \/ (rest = <<>> /\ HandedOn)
    /\ phase = "done" => Untold \/ HandedOn \/ ReportedFailed

\* A call that must not be repeated is behind the task only where no step can
\* fail with an error that is retried.
Cautious ==
  nextUp /\ ~Task_.safe =>
    /\ calls \in {0, 1}
    /\ phase \in {"starting", "taken", "delay"} => calls = 0
    /\ phase = "working" /\ calls = 1 =>
         \A i \in DOMAIN rest :
           rest[i].op # "call" /\ (rest[i].op = "try" => rest[i].errors \subseteq Task_.permanent)

HandInv == HandTypes /\ Accounts /\ Cautious

\* What holds of the paths that a task's handler takes.
LEMMA PathOrder ==
  ASSUME NEW k \in Kinds, NEW path \in Tasks[k].paths
  PROVE  /\ IsASequence(path)
         /\ k \notin WorksAfterHandOn => HandsOnLast(path)
         /\ ~Tasks[k].safe => CallsOnce(path, Tasks[k].permanent)
BY PathsAssumption DEF IsASequence

LEMMA NothingLeft ==
  ASSUME NEW permanent
  PROVE  /\ IsASequence(<<>>) /\ HandsOnLast(<<>>) /\ CallsOnce(<<>>, permanent)
<1>1. <<>> \in Seq({}) /\ DOMAIN <<>> = {}
  OBVIOUS
<1> QED BY <1>1 DEF IsASequence, HandsOnLast, CallsOnce

LEMMA LeavesAreFinite ==
  ASSUME TypeOK
  PROVE  /\ leaves \in Nat /\ IsFiniteSet(Leaf) /\ Cardinality(Leaf) = leaves /\ IsFiniteSet(served)
         /\ LeafCount \in Nat \ {0} /\ MaxAttempts \in Nat \ {0}
<1>1. leaves \in Nat /\ MaxAttempts \in Nat \ {0}
  BY AttemptsAssumption DEF TypeOK
<1>2. IsFiniteSet(Leaf) /\ Cardinality(Leaf) = leaves
  BY <1>1, FS_Interval DEF Leaf
<1>3. IsFiniteSet(served)
  BY <1>2, FS_Subset DEF TypeOK
<1> QED BY <1>1, <1>2, <1>3 DEF LeafCount

LEMMA SignalTypes ==
  ASSUME TypeOK, NEW n \in Nat, NEW verdict \in {"ok", "err"}, Signal(n, verdict)
  PROVE  remaining' \in 0..LeafCount /\ outcome' \in {"none", "ok", "err", "closed"}
<1>1. remaining \in 0..LeafCount /\ outcome \in {"none", "ok", "err", "closed"} /\ LeafCount \in Nat
  BY LeavesAreFinite DEF TypeOK
<1> HIDE DEF LeafCount
<1> QED BY <1>1 DEF Signal

-----------------------------------------------------------------------------

LEMMA HandStarts ==
  ASSUME Init
  PROVE  HandInv
<1>1. LeafCount \in 0..LeafCount /\ MaxAttempts \in Nat \ {0}
  BY AttemptsAssumption DEF Init, LeafCount
<1>2. TypeOK
  BY <1>1 DEF Init, TypeOK
<1>3. HandTypes
  <2>1. phase = "starting" /\ rest = <<>> /\ tries = 0 /\ 0 < MaxAttempts
    BY <1>1 DEF Init
  <2>2. calls \in Nat /\ nextUp \in BOOLEAN /\ cancelled \in BOOLEAN /\ released \in BOOLEAN
    BY DEF Init
  <2>3. IsASequence(rest) /\ HandsOnLast(rest)
    BY <2>1, NothingLeft
  <2> QED BY <1>2, <2>1, <2>2, <2>3 DEF HandTypes
<1>4. Untold
  BY DEF Init, Untold
<1>5. Accounts /\ Cautious
  BY <1>4 DEF Init, Accounts, Cautious
<1> QED BY <1>3, <1>5 DEF HandInv

\* What the steps of a handler have in common.
LEMMA StepWorks ==
  ASSUME HandTypes, phase = "working", rest # <<>>
  PROVE  /\ IsASequence(Tail(rest))
         /\ kind \notin WorksAfterHandOn => HandsOnLast(Tail(rest))
         /\ kind \notin WorksAfterHandOn /\ Head(rest).op \in Concluding => Tail(rest) = <<>>
         /\ ~Task_.safe => CallsOnce(Tail(rest), Task_.permanent)
BY TailKeeps, SequenceIs DEF HandTypes

LEMMA TypesKept ==
  ASSUME HandTypes, [Next]_vars
  PROVE  HandTypes'
<1> USE LeavesAreFinite DEF HandTypes, TypeOK, taskVars, downVars, vars
<1>0. leaves' = leaves /\ kind' = kind /\ failed' = failed /\ Leaf' = Leaf /\ LeafCount' = LeafCount /\ Task_' = Task_
  <2>1. UNCHANGED taskVars
    BY DEF Next, Progress, Handle, StartFails, StartGivesUp, Take, PassOn, Begin, CheckCancelled, DoTry, DoCall,
           StepFails, DoEmit, DoHandOn, SendFails, DoSignal, Returns, Retry, DelayCancelled, ForwardFailure,
           LeafServes, LeafReportsError, SourceClosed, NextEnds, Cancel
  <2> QED BY <2>1 DEF Leaf, LeafCount, Task_
<1>1. CASE StartFails
  BY <1>0, <1>1 DEF StartFails
<1>2. CASE StartGivesUp
  BY <1>0, <1>2 DEF StartGivesUp
<1>3. CASE Take
  BY <1>0, <1>3 DEF Take
<1>4. CASE PassOn
  BY <1>0, <1>4 DEF PassOn
<1>5. CASE Begin
  BY <1>0, <1>5, PathOrder DEF Begin, Task_
<1>6. CASE CheckCancelled
  BY <1>0, <1>6, StepWorks, NothingLeft DEF CheckCancelled, At, GoOn
<1>7. CASE DoTry
  BY <1>0, <1>7, StepWorks DEF DoTry, At, GoOn
<1>8. CASE DoCall
  BY <1>0, <1>8, StepWorks DEF DoCall, At, GoOn
<1>9. CASE StepFails
  BY <1>0, <1>9, NothingLeft, SMTT(30) DEF StepFails, Fails, Retried
<1>10. CASE DoEmit
  BY <1>0, <1>10, StepWorks DEF DoEmit, At, GoOn
<1>11. CASE DoHandOn
  <2>1. remaining' \in 0..LeafCount /\ outcome' \in {"none", "ok", "err", "closed"}
    BY <1>11, SignalTypes DEF DoHandOn
  <2>2. carried' = carried \/ carried' = [l \in Leaf |-> carried[l] + 1]
    BY <1>11 DEF DoHandOn
  <2>3. carried' \in [Leaf -> Nat]
    BY <2>2
  <2>4. released' \in BOOLEAN
    BY <1>11 DEF DoHandOn
  <2> QED BY <1>0, <1>11, <2>1, <2>3, <2>4, StepWorks DEF DoHandOn, At, GoOn
<1>12. CASE SendFails
  BY <1>0, <1>12, NothingLeft DEF SendFails, Fails, Retried, At
<1>13. CASE DoSignal
  <2>1. remaining' \in 0..LeafCount /\ outcome' \in {"none", "ok", "err", "closed"}
    BY <1>13, SignalTypes DEF DoSignal
  <2> QED BY <1>0, <1>13, <2>1, StepWorks DEF DoSignal, At, GoOn
<1>14. CASE Returns
  BY <1>0, <1>14 DEF Returns
<1>15. CASE Retry
  BY <1>0, <1>15, PathOrder DEF Retry, Task_
<1>16. CASE DelayCancelled
  BY <1>0, <1>16 DEF DelayCancelled
<1>17. CASE ForwardFailure
  <2>1. /\ remaining' \in 0..LeafCount /\ outcome' \in {"none", "ok", "err", "closed"}
        /\ errors' \in [Leaf -> Nat]
    BY <1>17, SignalTypes DEF ForwardFailure
  <2> QED BY <1>0, <1>17, <2>1 DEF ForwardFailure
<1>18. ASSUME NEW l \in Leaf, LeafServes(l) PROVE HandTypes'
  <2>1. remaining' \in 0..LeafCount /\ outcome' \in {"none", "ok", "err", "closed"}
    BY <1>18, SignalTypes DEF LeafServes
  <2>2. carried' \in [Leaf -> Nat] /\ served' \subseteq Leaf
    BY <1>18 DEF LeafServes
  <2> QED BY <1>0, <1>18, <2>1, <2>2 DEF LeafServes
<1>19. ASSUME NEW l \in Leaf, LeafReportsError(l) PROVE HandTypes'
  <2>1. remaining' \in 0..LeafCount /\ outcome' \in {"none", "ok", "err", "closed"}
    BY <1>19, SignalTypes DEF LeafReportsError
  <2>2. errors' \in [Leaf -> Nat]
    BY <1>19 DEF LeafReportsError
  <2> QED BY <1>0, <1>19, <2>1, <2>2 DEF LeafReportsError
<1>20. CASE SourceClosed
  BY <1>0, <1>20 DEF SourceClosed
<1>21. CASE NextEnds
  <2>1. carried' \in [Leaf -> Nat] /\ errors' \in [Leaf -> Nat]
    BY <1>21 DEF NextEnds
  <2>2. /\ UNCHANGED <<phase, rest, tries, calls, cancelled, served, released, gaveUp, remaining, outcome>>
        /\ nextUp' = FALSE
    BY <1>21 DEF NextEnds
  <2> QED BY <1>0, <2>1, <2>2
<1>22. CASE Cancel
  BY <1>0, <1>22 DEF Cancel
<1>23. CASE UNCHANGED vars
  BY <1>0, <1>23
<1> QED BY <1>1, <1>2, <1>3, <1>4, <1>5, <1>6, <1>7, <1>8, <1>9, <1>10, <1>11, <1>12, <1>13, <1>14, <1>15,
           <1>16, <1>17, <1>18, <1>19, <1>20, <1>21, <1>22, <1>23 DEF Next, Progress, Handle

-----------------------------------------------------------------------------
\* What the leaves and the source know.

\* A step that changes nothing they see.
Quiet == UNCHANGED <<leaves, kind, carried, errors, served, remaining, outcome, released>>

LEMMA QuietKeeps ==
  ASSUME Quiet
  PROVE  /\ Untold' = Untold /\ HandedOn' = HandedOn /\ ReportedFailed' = ReportedFailed
         /\ (leaves # 0 /\ ~released /\ kind \notin WorksAfterHandOn)'
              = (leaves # 0 /\ ~released /\ kind \notin WorksAfterHandOn)
BY DEF Quiet, Untold, HandedOn, ReportedFailed, Leaf, LeafCount

LEMMA AccountsQuiet ==
  ASSUME HandTypes, Accounts, Quiet,
         \/ phase' = phase /\ rest' = rest
         \/ phase = "working" /\ rest # <<>> /\ phase' \in {"working", "delay", "failing", "done"}
         \/ phase = "working" /\ rest = <<>> /\ phase' = "done"
         \/ phase \in {"starting", "taken", "delay"}
              /\ phase' \in {"taken", "working", "delay", "failing", "done"}
  PROVE  Accounts'
<1> SUFFICES ASSUME leaves # 0 /\ ~released /\ kind \notin WorksAfterHandOn
             PROVE  /\ phase' \in {"starting", "taken", "delay", "failing"} => Untold'
                    /\ phase' = "working" => Untold' \/ (rest' = <<>> /\ HandedOn')
                    /\ phase' = "done" => Untold' \/ HandedOn' \/ ReportedFailed'
  BY QuietKeeps DEF Accounts
<1>1. Untold' = Untold /\ HandedOn' = HandedOn /\ ReportedFailed' = ReportedFailed
  BY QuietKeeps
<1>2. /\ phase \in {"starting", "taken", "delay", "failing"} => Untold
      /\ phase = "working" => Untold \/ (rest = <<>> /\ HandedOn)
      /\ phase = "done" => Untold \/ HandedOn \/ ReportedFailed
  BY DEF Accounts
<1>3. phase \in {"starting", "taken", "working", "delay", "failing", "done"}
  BY DEF HandTypes, TypeOK
<1> QED BY <1>1, <1>2, <1>3

\* No leaf has anything: the same as if each was handed the completion and lost it.
LEMMA AccountsDoHandOn ==
  ASSUME HandTypes, Accounts, DoHandOn
  PROVE  Accounts'
<1> SUFFICES ASSUME leaves # 0, ~released, kind \notin WorksAfterHandOn PROVE Accounts'
  <2>1. leaves' = leaves /\ kind' = kind /\ (released => released')
    BY DEF DoHandOn, taskVars, HandTypes
  <2> QED BY <2>1 DEF Accounts, HandTypes
<1>1. phase = "working" /\ rest # <<>> /\ Head(rest).op = "hand_on" /\ rest' = Tail(rest) /\ phase' = phase
  BY DEF DoHandOn, At, GoOn
<1>2. rest' = <<>>
  BY <1>1, StepWorks DEF Concluding
<1>3. Untold
  BY <1>1 DEF Accounts
<1>4. Leaf' = Leaf /\ LeafCount' = LeafCount
  BY DEF DoHandOn, taskVars, Leaf, LeafCount
<1>5. /\ carried' = [l \in Leaf |-> carried[l] + 1] /\ errors' = errors /\ served' = served
      /\ remaining' = remaining /\ outcome' = outcome
  BY DEF DoHandOn
<1>6. HandedOn'
  <2>1. Cardinality(served') = 0 /\ LeafCount \in Nat
    BY <1>3, <1>5, FS_EmptySet, LeavesAreFinite DEF Untold, HandTypes
  <2>2. \A l \in Leaf : carried'[l] = 1 /\ errors'[l] = 0 /\ l \notin served'
    BY <1>3, <1>5 DEF Untold
  <2>3. remaining' = LeafCount /\ outcome' = "none"
    BY <1>3, <1>5 DEF Untold
  <2> QED BY <1>4, <2>1, <2>2, <2>3 DEF HandedOn
<1> QED BY <1>1, <1>2, <1>6 DEF Accounts

LEMMA AccountsForwardFailure ==
  ASSUME HandTypes, Accounts, ForwardFailure
  PROVE  Accounts'
<1> SUFFICES ASSUME leaves # 0, ~released, kind \notin WorksAfterHandOn PROVE Accounts'
  BY DEF ForwardFailure, taskVars, Accounts
<1>1. phase = "failing" /\ phase' = "done" /\ carried' = carried /\ served' = served /\ Leaf' = Leaf
  BY DEF ForwardFailure, taskVars, Leaf
<1>2. Untold
  BY <1>1 DEF Accounts
<1>3. outcome' \in {outcome, "err"}
  BY DEF ForwardFailure, Signal
<1>4. ReportedFailed'
  BY <1>1, <1>2, <1>3 DEF Untold, ReportedFailed
<1> QED BY <1>1, <1>4 DEF Accounts

LEMMA AccountsLeafServes ==
  ASSUME HandTypes, Accounts, NEW l \in Leaf, LeafServes(l)
  PROVE  Accounts'
<1> SUFFICES ASSUME leaves # 0, ~released, kind \notin WorksAfterHandOn PROVE Accounts'
  BY DEF LeafServes, taskVars, Accounts
<1>1. /\ phase' = phase /\ rest' = rest /\ Leaf' = Leaf /\ LeafCount' = LeafCount /\ errors' = errors
      /\ carried[l] > 0 /\ carried' = [carried EXCEPT ![l] = @ - 1] /\ served' = served \cup {l}
  BY DEF LeafServes, taskVars, Leaf, LeafCount
<1>2. ~Untold /\ ~ReportedFailed
  BY <1>1 DEF Untold, ReportedFailed
<1>3. HandedOn /\ (phase = "done" \/ (phase = "working" /\ rest = <<>>))
  BY <1>2 DEF Accounts, HandTypes, TypeOK
<1>4. carried[l] = 1 /\ l \notin served /\ served \subseteq Leaf /\ carried \in [Leaf -> Nat]
  BY <1>1, <1>3 DEF HandedOn, HandTypes, TypeOK
<1>5. /\ Cardinality(served') = Cardinality(served) + 1 /\ Cardinality(served) \in Nat
      /\ IsFiniteSet(served') /\ served' \subseteq Leaf
  BY <1>1, <1>4, LeavesAreFinite, FS_AddElement, FS_CardinalityType DEF HandTypes
<1>6. Cardinality(served') <= leaves /\ (Cardinality(served') = leaves => served' = Leaf)
  BY <1>5, LeavesAreFinite, FS_Subset DEF HandTypes
<1>7. LeafCount = leaves /\ leaves \in Nat /\ remaining \in 0..LeafCount
  BY LeavesAreFinite DEF LeafCount, HandTypes, TypeOK
<1>8. remaining + Cardinality(served) = LeafCount /\ remaining >= 1
  BY <1>3, <1>5, <1>6, <1>7 DEF HandedOn
<1>9. remaining' = remaining - 1 /\ outcome' = IF remaining = 1 THEN "ok" ELSE outcome
  BY <1>7, <1>8 DEF LeafServes, Signal
<1>10. remaining' + Cardinality(served') = LeafCount
  BY <1>5, <1>7, <1>8, <1>9
<1>11. outcome' = "ok" => served' = Leaf
  <2>1. CASE remaining = 1
    BY <2>1, <1>5, <1>6, <1>7, <1>8
  <2>2. CASE remaining # 1
    BY <2>2, <1>3, <1>4, <1>9 DEF HandedOn
  <2> QED BY <2>1, <2>2
<1>12. \A m \in Leaf : carried'[m] \in {0, 1} /\ errors'[m] = 0 /\ (m \in served' => carried'[m] = 0)
  BY <1>1, <1>3, <1>4 DEF HandedOn
<1>13. HandedOn'
  BY <1>1, <1>10, <1>11, <1>12 DEF HandedOn
<1> QED BY <1>1, <1>3, <1>13 DEF Accounts

LEMMA AccountsLeafReportsError ==
  ASSUME HandTypes, Accounts, NEW l \in Leaf, LeafReportsError(l)
  PROVE  Accounts'
<1> SUFFICES ASSUME leaves # 0, ~released, kind \notin WorksAfterHandOn PROVE Accounts'
  BY DEF LeafReportsError, taskVars, Accounts
<1>1. /\ phase' = phase /\ Leaf' = Leaf /\ carried' = carried /\ served' = served /\ errors[l] > 0
      /\ outcome' \in {outcome, "err"}
  BY DEF LeafReportsError, taskVars, Leaf, Signal
<1>2. ~Untold /\ ~HandedOn
  BY <1>1 DEF Untold, HandedOn
<1>3. ReportedFailed /\ phase = "done"
  BY <1>2 DEF Accounts, HandTypes, TypeOK
<1>4. ReportedFailed'
  BY <1>1, <1>3 DEF ReportedFailed
<1> QED BY <1>1, <1>3, <1>4 DEF Accounts

LEMMA AccountsSourceClosed ==
  ASSUME HandTypes, Accounts, SourceClosed
  PROVE  Accounts'
<1> SUFFICES ASSUME leaves # 0, ~released, kind \notin WorksAfterHandOn PROVE Accounts'
  BY DEF SourceClosed, taskVars, Accounts
<1>1. /\ phase = "done" /\ phase' = phase /\ Leaf' = Leaf /\ LeafCount' = LeafCount /\ carried' = carried
      /\ errors' = errors /\ served' = served /\ remaining' = remaining /\ outcome' = "closed"
  BY DEF SourceClosed, Forgotten, taskVars, downVars, Leaf, LeafCount
<1>2. CASE Untold
  <2>1. Cardinality(served) = 0 /\ LeafCount \in Nat
    BY <1>2, FS_EmptySet, LeavesAreFinite DEF Untold, HandTypes
  <2>2. HandedOn'
    BY <1>1, <1>2, <2>1 DEF Untold, HandedOn
  <2> QED BY <1>1, <2>2 DEF Accounts
<1>3. CASE HandedOn
  <2>1. HandedOn'
    BY <1>1, <1>3 DEF HandedOn
  <2> QED BY <1>1, <2>1 DEF Accounts
<1>4. CASE ReportedFailed
  <2>1. ReportedFailed'
    BY <1>1, <1>4 DEF ReportedFailed
  <2> QED BY <1>1, <2>1 DEF Accounts
<1> QED BY <1>1, <1>2, <1>3, <1>4 DEF Accounts

LEMMA AccountsNextEnds ==
  ASSUME HandTypes, Accounts, NextEnds
  PROVE  Accounts'
<1> SUFFICES ASSUME leaves # 0, ~released, kind \notin WorksAfterHandOn PROVE Accounts'
  BY DEF NextEnds, taskVars, Accounts
<1>1. /\ phase' = phase /\ rest' = rest /\ Leaf' = Leaf /\ LeafCount' = LeafCount
      /\ \A l \in Leaf : carried'[l] = 0 /\ errors'[l] = 0
      /\ served' = served /\ remaining' = remaining /\ outcome' = outcome
  BY DEF NextEnds, taskVars, Leaf, LeafCount
<1>2. (Untold => Untold') /\ (HandedOn => HandedOn') /\ (ReportedFailed => ReportedFailed')
  BY <1>1 DEF Untold, HandedOn, ReportedFailed
<1>3. leaves' = leaves /\ released' = released /\ kind' = kind
  BY DEF NextEnds, taskVars
<1> QED BY <1>1, <1>2, <1>3 DEF Accounts

LEMMA AccountsKept ==
  ASSUME HandTypes, Accounts, [Next]_vars
  PROVE  Accounts'
<1> USE DEF taskVars, downVars, Quiet
<1>1. CASE StartFails
  BY <1>1, AccountsQuiet DEF StartFails
<1>2. CASE StartGivesUp
  BY <1>2, AccountsQuiet DEF StartGivesUp
<1>3. CASE Take
  BY <1>3, AccountsQuiet DEF Take
<1>4. CASE PassOn
  BY <1>4, AccountsQuiet DEF PassOn
<1>5. CASE Begin
  BY <1>5, AccountsQuiet DEF Begin
<1>6. CASE CheckCancelled
  BY <1>6, AccountsQuiet DEF CheckCancelled, At, GoOn
<1>7. CASE DoTry
  BY <1>7, AccountsQuiet DEF DoTry, At, GoOn
<1>8. CASE DoCall
  BY <1>8, AccountsQuiet DEF DoCall, At, GoOn
<1>9. CASE StepFails
  BY <1>9, AccountsQuiet DEF StepFails, Fails
<1>10. CASE DoEmit
  BY <1>10, AccountsQuiet DEF DoEmit, At, GoOn
<1>11. CASE DoHandOn
  BY <1>11, AccountsDoHandOn
<1>12. CASE SendFails
  BY <1>12, AccountsQuiet DEF SendFails, Fails, At
<1>13. CASE DoSignal
  BY <1>13 DEF DoSignal, Accounts
<1>14. CASE Returns
  BY <1>14, AccountsQuiet DEF Returns
<1>15. CASE Retry
  BY <1>15, AccountsQuiet DEF Retry
<1>16. CASE DelayCancelled
  BY <1>16, AccountsQuiet DEF DelayCancelled
<1>17. CASE ForwardFailure
  BY <1>17, AccountsForwardFailure
<1>18. ASSUME NEW l \in Leaf, LeafServes(l) PROVE Accounts'
  BY <1>18, AccountsLeafServes
<1>19. ASSUME NEW l \in Leaf, LeafReportsError(l) PROVE Accounts'
  BY <1>19, AccountsLeafReportsError
<1>20. CASE SourceClosed
  BY <1>20, AccountsSourceClosed
<1>21. CASE NextEnds
  BY <1>21, AccountsNextEnds
<1>22. CASE Cancel
  BY <1>22, AccountsQuiet DEF Cancel
<1>23. CASE UNCHANGED vars
  BY <1>23, AccountsQuiet DEF vars
<1> QED BY <1>1, <1>2, <1>3, <1>4, <1>5, <1>6, <1>7, <1>8, <1>9, <1>10, <1>11, <1>12, <1>13, <1>14, <1>15,
           <1>16, <1>17, <1>18, <1>19, <1>20, <1>21, <1>22, <1>23 DEF Next, Progress, Handle

-----------------------------------------------------------------------------
\* How often a task changes its service.

\* From here on no step calls the service or fails with an error that is retried.
Harmless(steps) ==
  \A i \in DOMAIN steps :
    steps[i].op # "call" /\ (steps[i].op = "try" => steps[i].errors \subseteq Task_.permanent)

LEMMA HarmlessTail ==
  ASSUME IsASequence(rest), rest # <<>>
  PROVE  /\ Harmless(rest) => /\ Harmless(Tail(rest)) /\ Head(rest).op # "call"
                              /\ Head(rest).op = "try" => Head(rest).errors \subseteq Task_.permanent
         /\ Head(rest).op = "call" /\ CallsOnce(rest, Task_.permanent) =>
              Harmless(Tail(rest)) /\ Head(rest).errors \subseteq Task_.permanent
<1> DEFINE permanent == Task_.permanent
<1> HIDE DEF permanent
<1>1. /\ Len(rest) \in Nat /\ DOMAIN rest = 1..Len(rest) /\ 1 \in DOMAIN rest /\ Head(rest) = rest[1]
      /\ Len(Tail(rest)) = Len(rest) - 1 /\ DOMAIN Tail(rest) = 1..(Len(rest) - 1)
      /\ \A i \in DOMAIN Tail(rest) : i + 1 \in DOMAIN rest /\ Tail(rest)[i] = rest[i + 1]
  BY SequenceIs
<1>2. Harmless(rest) => /\ Harmless(Tail(rest)) /\ Head(rest).op # "call"
                        /\ Head(rest).op = "try" => Head(rest).errors \subseteq Task_.permanent
  BY <1>1 DEF Harmless
<1>3. ASSUME rest[1].op = "call", CallsOnce(rest, permanent)
      PROVE  \A j \in 1..Len(rest) :
               /\ j # 1 => rest[j].op # "call"
               /\ rest[j].op \in {"try", "call"} => rest[j].errors \subseteq permanent
  BY <1>1, <1>3 DEF CallsOnce
<1>4. ASSUME rest[1].op = "call", CallsOnce(rest, permanent)
      PROVE  rest[1].errors \subseteq permanent
             /\ \A i \in DOMAIN Tail(rest) :
                  /\ Tail(rest)[i].op # "call"
                  /\ Tail(rest)[i].op = "try" => Tail(rest)[i].errors \subseteq permanent
  <2>1. \A i \in 1..(Len(rest) - 1) : i + 1 \in 1..Len(rest) /\ i + 1 # 1
    BY <1>1
  <2> QED BY <1>1, <1>3, <1>4, <2>1
<1>5. rest[1].op = "call" /\ CallsOnce(rest, permanent) =>
        Harmless(Tail(rest)) /\ rest[1].errors \subseteq permanent
  BY <1>4 DEF Harmless, permanent
<1> QED BY <1>1, <1>2, <1>5 DEF permanent

\* A step that makes no call, on the way to a later phase.
LEMMA CautiousQuiet ==
  ASSUME HandTypes, Cautious, calls' = calls, kind' = kind, nextUp' => nextUp,
         \/ phase' = phase /\ rest' = rest
         \/ phase = "working" /\ rest # <<>> /\ phase' = "working" /\ rest' = Tail(rest)
         \/ phase' \in {"failing", "done"}
         \/ phase \in {"starting", "taken", "delay"} /\ phase' \in {"taken", "working"}
  PROVE  Cautious'
<1> SUFFICES ASSUME nextUp, nextUp', ~Task_.safe
             PROVE  /\ calls' \in {0, 1}
                    /\ phase' \in {"starting", "taken", "delay"} => calls' = 0
                    /\ phase' = "working" /\ calls' = 1 => Harmless(rest')
  <2>1. Task_' = Task_
    BY DEF Task_
  <2> QED BY <2>1 DEF Cautious, Harmless
<1>1. /\ calls \in {0, 1} /\ (phase \in {"starting", "taken", "delay"} => calls = 0)
      /\ phase = "working" /\ calls = 1 => Harmless(rest)
  BY DEF Cautious, Harmless
<1>2. rest # <<>> /\ Harmless(rest) => Harmless(Tail(rest))
  BY HarmlessTail DEF HandTypes
<1>3. CASE phase' = phase /\ rest' = rest
  BY <1>1, <1>3 DEF Harmless
<1>4. CASE phase = "working" /\ rest # <<>> /\ phase' = "working" /\ rest' = Tail(rest)
  BY <1>1, <1>2, <1>4 DEF Harmless
<1>5. CASE phase' \in {"failing", "done"}
  BY <1>1, <1>5
<1>6. CASE phase \in {"starting", "taken", "delay"} /\ phase' \in {"taken", "working"}
  BY <1>1, <1>6
<1> QED BY <1>3, <1>4, <1>5, <1>6

LEMMA CautiousDoCall ==
  ASSUME HandTypes, Cautious, DoCall
  PROVE  Cautious'
<1>1. /\ phase = "working" /\ rest # <<>> /\ Head(rest).op = "call" /\ rest' = Tail(rest) /\ phase' = phase
      /\ calls' = calls + 1 /\ nextUp' = nextUp /\ kind' = kind /\ Task_' = Task_
  BY DEF DoCall, At, GoOn, taskVars, Task_
<1> SUFFICES ASSUME nextUp, ~Task_.safe
             PROVE  calls' = 1 /\ Harmless(rest')
  BY <1>1 DEF Cautious, Harmless
<1>2. Head(rest).op = "call" /\ CallsOnce(rest, Task_.permanent)
  BY <1>1 DEF HandTypes
<1>3. ~Harmless(rest) /\ Harmless(Tail(rest))
  BY <1>1, <1>2, HarmlessTail DEF HandTypes
<1>4. calls = 0
  BY <1>1, <1>3 DEF Cautious, Harmless
<1> QED BY <1>1, <1>3, <1>4

LEMMA CautiousStepFails ==
  ASSUME HandTypes, Cautious, StepFails
  PROVE  Cautious'
<1>1. /\ phase = "working" /\ rest # <<>> /\ Head(rest).op \in {"try", "call"}
      /\ nextUp' = nextUp /\ kind' = kind /\ Task_' = Task_
      /\ calls' = calls \/ (Head(rest).op = "call" /\ calls' = calls + 1)
  BY DEF StepFails, taskVars, Task_
<1>2. PICK error \in Head(rest).errors : phase' = IF Retried(error) THEN "delay" ELSE "failing"
  BY DEF StepFails, Fails
<1>3. phase' \in {"delay", "failing"}
  BY <1>2
<1> SUFFICES ASSUME nextUp, ~Task_.safe
             PROVE  calls' \in {0, 1} /\ (phase' = "delay" => calls' = 0)
  BY <1>1, <1>3 DEF Cautious
<1>4. calls \in {0, 1} /\ (calls = 1 => Harmless(rest))
  BY <1>1 DEF Cautious, Harmless
<1>5. CASE Head(rest).op = "call"
  <2>1. CallsOnce(rest, Task_.permanent)
    BY <1>1 DEF HandTypes
  <2>2. Head(rest).errors \subseteq Task_.permanent /\ ~Harmless(rest)
    BY <1>1, <1>5, <2>1, HarmlessTail DEF HandTypes
  <2>3. phase' = "failing" /\ calls = 0
    BY <1>2, <1>4, <2>2 DEF Retried
  <2> QED BY <1>1, <2>3
<1>6. CASE Head(rest).op = "try"
  <2>1. calls' = calls
    BY <1>1, <1>6
  <2>2. calls = 1 => Head(rest).errors \subseteq Task_.permanent
    BY <1>1, <1>4, <1>6, HarmlessTail DEF HandTypes
  <2>3. calls = 1 => phase' = "failing"
    BY <1>2, <2>2 DEF Retried
  <2> QED BY <1>4, <2>1, <2>3
<1> QED BY <1>1, <1>5, <1>6

LEMMA CautiousSendFails ==
  ASSUME SendFails
  PROVE  Cautious'
BY DEF SendFails, Cautious

LEMMA CautiousKept ==
  ASSUME HandTypes, Cautious, [Next]_vars
  PROVE  Cautious'
<1> USE DEF taskVars, downVars
<1>1. CASE StartFails
  BY <1>1, CautiousQuiet DEF StartFails
<1>2. CASE StartGivesUp
  BY <1>2, CautiousQuiet DEF StartGivesUp
<1>3. CASE Take
  BY <1>3, CautiousQuiet DEF Take
<1>4. CASE PassOn
  BY <1>4, CautiousQuiet DEF PassOn
<1>5. CASE Begin
  BY <1>5, CautiousQuiet DEF Begin
<1>6. CASE CheckCancelled
  BY <1>6, CautiousQuiet DEF CheckCancelled, At, GoOn
<1>7. CASE DoTry
  BY <1>7, CautiousQuiet DEF DoTry, At, GoOn
<1>8. CASE DoCall
  BY <1>8, CautiousDoCall
<1>9. CASE StepFails
  BY <1>9, CautiousStepFails
<1>10. CASE DoEmit
  BY <1>10, CautiousQuiet DEF DoEmit, At, GoOn
<1>11. CASE DoHandOn
  BY <1>11, CautiousQuiet DEF DoHandOn, At, GoOn
<1>12. CASE SendFails
  BY <1>12, CautiousSendFails
<1>13. CASE DoSignal
  BY <1>13, CautiousQuiet DEF DoSignal, At, GoOn
<1>14. CASE Returns
  BY <1>14, CautiousQuiet DEF Returns
<1>15. CASE Retry
  BY <1>15, CautiousQuiet DEF Retry
<1>16. CASE DelayCancelled
  BY <1>16, CautiousQuiet DEF DelayCancelled
<1>17. CASE ForwardFailure
  BY <1>17, CautiousQuiet DEF ForwardFailure
<1>18. ASSUME NEW l \in Leaf, LeafServes(l) PROVE Cautious'
  BY <1>18, CautiousQuiet DEF LeafServes
<1>19. ASSUME NEW l \in Leaf, LeafReportsError(l) PROVE Cautious'
  BY <1>19, CautiousQuiet DEF LeafReportsError
<1>20. CASE SourceClosed
  BY <1>20, CautiousQuiet DEF SourceClosed
<1>21. CASE NextEnds
  BY <1>21 DEF NextEnds, Cautious
<1>22. CASE Cancel
  BY <1>22, CautiousQuiet DEF Cancel
<1>23. CASE UNCHANGED vars
  BY <1>23, CautiousQuiet DEF vars
<1> QED BY <1>1, <1>2, <1>3, <1>4, <1>5, <1>6, <1>7, <1>8, <1>9, <1>10, <1>11, <1>12, <1>13, <1>14, <1>15,
           <1>16, <1>17, <1>18, <1>19, <1>20, <1>21, <1>22, <1>23 DEF Next, Progress, Handle

-----------------------------------------------------------------------------

LEMMA HandInvariance == Spec => []HandInv
<1>1. Init => HandInv
  BY HandStarts
<1>2. HandInv /\ [Next]_vars => HandInv'
  BY TypesKept, AccountsKept, CautiousKept DEF HandInv
<1> QED BY <1>1, <1>2, PTL DEF Spec

\* A task that does not retry safely changes its service at most once for an event,
\* for any number of attempts: no error that may come after the call is one
\* is_retryable lets through (retries_safely, handle_with_retry).
THEOREM UnsafeCallsOnce == Spec => []UnsafeCallOnce
<1>1. HandInv => UnsafeCallOnce
  BY DEF HandInv, Cautious, UnsafeCallOnce
<1> QED BY <1>1, HandInvariance, PTL
-----------------------------------------------------------------------------
\* What is told of an event that failed.

\* Neither a leaf nor the source has a completion while one can still fail, nor
\* after it did.
Truthful ==
  /\ kind \notin WorksAfterHandOn =>
       /\ phase \in {"starting", "taken", "delay", "failing"} => ReportedFailed
       /\ phase = "working" /\ rest # <<>> => ReportedFailed
       /\ gaveUp => phase \in {"failing", "done"} /\ ReportedFailed
  /\ failed /\ kind \notin HandlesFailed => phase \notin {"working", "delay"} /\ ReportedFailed

\* A step after which the leaves and the source have no completion either.
LEMMA TruthfulQuiet ==
  ASSUME HandTypes, Truthful, UNCHANGED <<kind, failed>>, ReportedFailed => ReportedFailed',
         \/ phase' = phase /\ rest' = rest /\ gaveUp' = gaveUp
         \/ phase = "working" /\ rest # <<>> /\ phase' \in {"working", "done"} /\ gaveUp' = gaveUp
         \/ phase = "working" /\ rest # <<>> /\ phase' \in {"delay", "failing"}
              /\ (gaveUp' <=> phase' = "failing")
         \/ phase = "working" /\ phase' = "done" /\ gaveUp' = gaveUp
         \/ phase = "delay" /\ phase' = "working" /\ gaveUp' = gaveUp
         \/ phase = "delay" /\ phase' = "failing"
         \/ phase \in {"starting", "taken"} /\ phase' \in {"starting", "taken", "failing", "done"} /\ gaveUp' = gaveUp
         \/ phase = "taken" /\ phase' = "working" /\ gaveUp' = gaveUp /\ (failed => kind \in HandlesFailed)
         \/ phase = "failing" /\ phase' = "done" /\ gaveUp' = gaveUp
  PROVE  Truthful'
BY DEF Truthful

LEMMA ErrorsStay ==
  ASSUME HandTypes, ReportedFailed, Leaf' = Leaf, served' = served,
         \A l \in Leaf : carried'[l] = carried[l] \/ carried'[l] = 0,
         outcome' = outcome \/ outcome' \in {"err", "closed"}
  PROVE  ReportedFailed'
BY DEF ReportedFailed

\* The last step of a handler tells what it was through with.
LEMMA TruthfulConcludes ==
  ASSUME HandTypes, Truthful, At("hand_on") \/ At("signal_once") \/ At("signal_leaves"),
         GoOn, UNCHANGED <<kind, failed, gaveUp>>
  PROVE  Truthful'
<1>1. phase = "working" /\ phase' = phase /\ rest # <<>> /\ rest' = Tail(rest) /\ Head(rest).op \in Concluding
  BY DEF At, GoOn, Concluding
<1>2. kind \notin WorksAfterHandOn => rest' = <<>>
  BY <1>1, StepWorks
<1> QED BY <1>1, <1>2 DEF Truthful

LEMMA TruthfulKept ==
  ASSUME HandTypes, Truthful, [Next]_vars
  PROVE  Truthful'
<1> USE DEF taskVars, downVars
<1>0. ASSUME Quiet PROVE ReportedFailed => ReportedFailed'
  BY <1>0, QuietKeeps
<1>1. CASE StartFails
  BY <1>0, <1>1, TruthfulQuiet DEF StartFails, Quiet
<1>2. CASE StartGivesUp
  BY <1>0, <1>2, TruthfulQuiet DEF StartGivesUp, Quiet
<1>3. CASE Take
  BY <1>0, <1>3, TruthfulQuiet DEF Take, Quiet
<1>4. CASE PassOn
  BY <1>0, <1>4, TruthfulQuiet DEF PassOn, Quiet
<1>5. CASE Begin
  BY <1>0, <1>5, TruthfulQuiet DEF Begin, Quiet
<1>6. CASE CheckCancelled
  BY <1>0, <1>6, TruthfulQuiet DEF CheckCancelled, At, GoOn, Quiet
<1>7. CASE DoTry
  BY <1>0, <1>7, TruthfulQuiet DEF DoTry, At, GoOn, Quiet
<1>8. CASE DoCall
  BY <1>0, <1>8, TruthfulQuiet DEF DoCall, At, GoOn, Quiet
<1>9. CASE StepFails
  <2>1. phase' \in {"delay", "failing"} /\ (gaveUp' <=> phase' = "failing")
    BY <1>9 DEF StepFails, Fails
  <2> QED BY <1>0, <1>9, <2>1, TruthfulQuiet DEF StepFails, Quiet
<1>10. CASE DoEmit
  BY <1>0, <1>10, TruthfulQuiet DEF DoEmit, At, GoOn, Quiet
<1>11. CASE DoHandOn
  BY <1>11, TruthfulConcludes DEF DoHandOn
<1>12. CASE SendFails
  <2>1. phase' \in {"delay", "failing"} /\ (gaveUp' <=> phase' = "failing")
    BY <1>12 DEF SendFails, Fails
  <2> QED BY <1>0, <1>12, <2>1, TruthfulQuiet DEF SendFails, At, Quiet
<1>13. CASE DoSignal
  BY <1>13, TruthfulConcludes DEF DoSignal
<1>14. CASE Returns
  BY <1>0, <1>14, TruthfulQuiet DEF Returns, Quiet
<1>15. CASE Retry
  BY <1>0, <1>15, TruthfulQuiet DEF Retry, Quiet
<1>16. CASE DelayCancelled
  BY <1>0, <1>16, TruthfulQuiet DEF DelayCancelled, Quiet
<1>17. CASE ForwardFailure
  <2>1. ReportedFailed => ReportedFailed'
    <3>1. Leaf' = Leaf /\ served' = served /\ carried' = carried /\ outcome' \in {outcome, "err"}
      BY <1>17 DEF ForwardFailure, Signal, Leaf
    <3> QED BY <3>1, ErrorsStay
  <2> QED BY <1>17, <2>1, TruthfulQuiet DEF ForwardFailure
<1>18. ASSUME NEW l \in Leaf, LeafServes(l) PROVE Truthful'
  <2>1. ~ReportedFailed
    BY <1>18 DEF LeafServes, ReportedFailed
  <2> QED BY <1>18, <2>1 DEF LeafServes, Truthful
<1>19. ASSUME NEW l \in Leaf, LeafReportsError(l) PROVE Truthful'
  <2>1. ReportedFailed => ReportedFailed'
    <3>1. Leaf' = Leaf /\ served' = served /\ carried' = carried /\ outcome' \in {outcome, "err"}
      BY <1>19 DEF LeafReportsError, Signal, Leaf
    <3> QED BY <3>1, ErrorsStay
  <2> QED BY <1>19, <2>1, TruthfulQuiet DEF LeafReportsError
<1>20. CASE SourceClosed
  <2>1. ReportedFailed => ReportedFailed'
    <3>1. Leaf' = Leaf /\ served' = served /\ carried' = carried /\ outcome' = "closed"
      BY <1>20 DEF SourceClosed, Leaf
    <3> QED BY <3>1, ErrorsStay
  <2> QED BY <1>20, <2>1, TruthfulQuiet DEF SourceClosed
<1>21. CASE NextEnds
  <2>1. ReportedFailed => ReportedFailed'
    <3>1. Leaf' = Leaf /\ served' = served /\ carried' = [l \in Leaf |-> 0] /\ outcome' = outcome
      BY <1>21 DEF NextEnds, Leaf
    <3> QED BY <3>1, ErrorsStay
  <2> QED BY <1>21, <2>1, TruthfulQuiet DEF NextEnds
<1>22. CASE Cancel
  BY <1>0, <1>22, TruthfulQuiet DEF Cancel, Quiet
<1>23. CASE UNCHANGED vars
  BY <1>0, <1>23, TruthfulQuiet DEF vars, Quiet
<1> QED BY <1>1, <1>2, <1>3, <1>4, <1>5, <1>6, <1>7, <1>8, <1>9, <1>10, <1>11, <1>12, <1>13, <1>14, <1>15,
           <1>16, <1>17, <1>18, <1>19, <1>20, <1>21, <1>22, <1>23 DEF Next, Progress, Handle

\* A handler that signalled in the place of the leaves is through, and no leaf has
\* or had the completion.
EndedHere ==
  leaves # 0 /\ released /\ kind \notin WorksAfterHandOn =>
    /\ phase = "done" \/ (phase = "working" /\ rest = <<>>)
    /\ served = {} /\ \A l \in Leaf : carried[l] = 0 /\ errors[l] = 0

\* The steps of a task that has not signalled.
LEMMA EndedUntouched ==
  ASSUME EndedHere, UNCHANGED <<leaves, kind, released, served>>,
         \/ phase \in {"starting", "taken", "delay", "failing"}
         \/ phase = "working" /\ rest # <<>>
         \/ /\ phase' = "done" \/ (phase' = phase /\ rest' = rest)
            /\ \A l \in Leaf : carried'[l] \in {0, carried[l]} /\ errors'[l] \in {0, errors[l]}
  PROVE  EndedHere'
<1>1. Leaf' = Leaf
  BY DEF Leaf
<1> QED BY <1>1 DEF EndedHere

LEMMA EndedKept ==
  ASSUME HandTypes, Accounts, EndedHere, [Next]_vars
  PROVE  EndedHere'
<1> USE DEF taskVars, downVars
<1>1. CASE StartFails \/ StartGivesUp \/ Take
  BY <1>1, EndedUntouched DEF StartFails, StartGivesUp, Take
<1>2. CASE PassOn \/ Begin \/ Retry \/ DelayCancelled \/ ForwardFailure
  BY <1>2, EndedUntouched DEF PassOn, Begin, Retry, DelayCancelled, ForwardFailure
<1>3. CASE CheckCancelled \/ DoTry \/ DoCall \/ StepFails \/ DoEmit \/ SendFails
  BY <1>3, EndedUntouched DEF CheckCancelled, DoTry, DoCall, StepFails, DoEmit, SendFails, At
<1>4. CASE DoHandOn
  <2>1. CASE leaves = 0
    BY <1>4, <2>1 DEF DoHandOn, EndedHere
  <2>2. CASE leaves # 0
    BY <1>4, <2>2, EndedUntouched DEF DoHandOn, At
  <2> QED BY <2>1, <2>2
<1>5. CASE DoSignal
  <2> SUFFICES ASSUME leaves # 0, kind \notin WorksAfterHandOn
               PROVE  /\ phase' = "working" /\ rest' = <<>>
                      /\ served' = {} /\ \A l \in Leaf' : carried'[l] = 0 /\ errors'[l] = 0
    BY <1>5 DEF DoSignal, EndedHere
  <2>1. phase = "working" /\ rest # <<>> /\ Head(rest).op \in Concluding /\ phase' = phase /\ rest' = Tail(rest)
    BY <1>5 DEF DoSignal, At, GoOn, Concluding
  <2>2. rest' = <<>>
    BY <2>1, StepWorks
  <2>3. ~released
    BY <2>1 DEF EndedHere, HandTypes
  <2>4. Untold
    BY <2>1, <2>3 DEF Accounts
  <2>5. Leaf' = Leaf /\ UNCHANGED <<carried, errors, served>>
    BY <1>5 DEF DoSignal, Leaf
  <2> QED BY <2>1, <2>2, <2>4, <2>5 DEF Untold
<1>6. CASE Returns
  BY <1>6, EndedUntouched DEF Returns
<1>7. ASSUME NEW l \in Leaf, LeafServes(l) \/ LeafReportsError(l) PROVE EndedHere'
  <2>1. ~(leaves # 0 /\ released /\ kind \notin WorksAfterHandOn)
    BY <1>7 DEF LeafServes, LeafReportsError, EndedHere
  <2>2. UNCHANGED <<leaves, kind, released>>
    BY <1>7 DEF LeafServes, LeafReportsError
  <2> QED BY <2>1, <2>2 DEF EndedHere
<1>8. CASE SourceClosed \/ Cancel
  BY <1>8, EndedUntouched DEF SourceClosed, Cancel
<1>9. CASE NextEnds
  <2>1. \A l \in Leaf : carried'[l] = 0 /\ errors'[l] = 0
    BY <1>9 DEF NextEnds
  <2> QED BY <1>9, <2>1, EndedUntouched DEF NextEnds
<1>10. CASE UNCHANGED vars
  BY <1>10, EndedUntouched DEF vars
<1> QED BY <1>1, <1>2, <1>3, <1>4, <1>5, <1>6, <1>7, <1>8, <1>9, <1>10 DEF Next, Progress, Handle

\* Every kind of task, with any number of leaves and attempts: the source is told
\* that its event completed only when the task is through with it and each leaf
\* below handled it, or the handler signalled for all of them and none had it,
\* whatever was retried, lost or cancelled in between (handle_with_retry,
\* EventBuilder::build).
THEOREM AcksCoverLeaves == Spec => []AckCoversEveryLeaf
<1>1. HandInv /\ Truthful /\ EndedHere => AckCoversEveryLeaf
  <2> SUFFICES ASSUME HandInv, Truthful, EndedHere, outcome = "ok", kind \notin WorksAfterHandOn
               PROVE  /\ phase = "done" \/ (phase = "working" /\ rest = <<>>)
                      /\ served = Leaf \/ (released /\ served = {} /\ \A l \in Leaf : carried[l] = 0)
    BY DEF AckCoversEveryLeaf
  <2>1. phase = "done" \/ (phase = "working" /\ rest = <<>>)
    BY DEF HandInv, HandTypes, TypeOK, Truthful, ReportedFailed
  <2>2. CASE leaves = 0
    BY <2>1, <2>2 DEF HandInv, HandTypes, TypeOK, Leaf
  <2>3. CASE leaves # 0 /\ released
    BY <2>1, <2>3 DEF EndedHere
  <2>4. CASE leaves # 0 /\ ~released
    <3>1. ~Untold /\ ~ReportedFailed
      BY DEF Untold, ReportedFailed
    <3>2. HandedOn
      BY <2>1, <2>4, <3>1 DEF HandInv, Accounts
    <3> QED BY <2>1, <3>2 DEF HandedOn
  <2> QED BY <2>2, <2>3, <2>4 DEF HandInv, HandTypes
<1>2. Init => Truthful /\ EndedHere
  BY DEF Init, Truthful, ReportedFailed, EndedHere
<1>3. HandInv /\ Truthful /\ EndedHere /\ [Next]_vars => Truthful' /\ EndedHere'
  BY TruthfulKept, EndedKept DEF HandInv
<1> QED BY <1>1, <1>2, <1>3, HandInvariance, PTL DEF Spec

\* An event whose handler gave up, or that failed upstream, is never reported as
\* completed, whatever its kind and its retries; of the tasks that handle failed
\* events only the Salesforce publisher reports them so, and it is left out here
\* (process_events, forward_failure).
THEOREM FailuresAreNotAcked ==
  ASSUME "salesforce_publisher" \notin Kinds
  PROVE  Spec => []FailureIsNotAcked
<1>1. HandTypes /\ Truthful => FailureIsNotAcked
  <2> SUFFICES ASSUME HandTypes, Truthful PROVE FailureIsNotAcked
    OBVIOUS
  <2>1. failed /\ kind # "script" => outcome # "ok"
    BY DEF HandTypes, TypeOK, Truthful, HandlesFailed, ReportedFailed
  <2> QED BY <2>1 DEF Truthful, ReportedFailed, FailureIsNotAcked
<1>2. Init => Truthful
  BY DEF Init, Truthful, ReportedFailed
<1>3. HandTypes /\ Truthful /\ [Next]_vars => Truthful'
  BY TruthfulKept
<1>4. HandInv => HandTypes
  BY DEF HandInv
<1> QED BY <1>1, <1>2, <1>3, <1>4, HandInvariance, PTL DEF Spec

-----------------------------------------------------------------------------
(* What the source is told in the end. *)

\* Nothing stopped the task, and it is not of a kind that may leave its source waiting.
Undisturbed ==
  ~cancelled /\ nextUp /\ kind \notin LeavesSourceWaiting

\* Leaves that an event with the completion is on its way to.
OnTheWay == {l \in Leaf : carried[l] + errors[l] # 0}

\* The source has its verdict, or waits for as many leaves as have an event to come.
Sent ==
  /\ outcome \in {"none", "ok", "err"}
  /\ outcome = "none" => /\ remaining # 0 /\ remaining = Cardinality(OnTheWay)
                         /\ \A l \in Leaf : carried[l] + errors[l] \in {0, 1}

Reporting ==
  Undisturbed =>
    /\ phase \in {"starting", "taken", "delay", "failing"} => Untold
    /\ phase = "working" => (Untold /\ Concludes(rest)) \/ (rest = <<>> /\ Sent)
    /\ phase = "done" => StartsInVain \/ Sent

LEMMA PathConcludes ==
  ASSUME NEW k \in Kinds, NEW path \in Tasks[k].paths, k \notin LeavesSourceWaiting
  PROVE  Concludes(path)
BY PathsAssumption

\* A step that is not the last leaves the last one to do.
LEMMA ConcludesTail ==
  ASSUME NEW s, IsASequence(s), Concludes(s), Head(s).op \notin {"hand_on", "signal_leaves"}
  PROVE  Concludes(Tail(s))
<1>1. s # <<>> /\ s[Len(s)].op \in {"hand_on", "signal_leaves"}
  BY DEF Concludes
<1>2. /\ Len(s) \in Nat /\ DOMAIN s = 1..Len(s) /\ 1 \in DOMAIN s /\ Head(s) = s[1]
      /\ Len(Tail(s)) = Len(s) - 1 /\ DOMAIN Tail(s) = 1..(Len(s) - 1)
      /\ \A i \in DOMAIN Tail(s) : i + 1 \in DOMAIN s /\ Tail(s)[i] = s[i + 1]
  BY <1>1, SequenceIs
<1>3. Len(s) # 1
  BY <1>1, <1>2
<1>4. Len(s) - 1 \in DOMAIN Tail(s) /\ (Len(s) - 1) + 1 = Len(s)
  BY <1>2, <1>3
<1>5. Tail(s)[Len(Tail(s))] = s[Len(s)]
  BY <1>2, <1>4
<1>6. Tail(s) # <<>>
  <2>1. DOMAIN Tail(s) # {}
    BY <1>4
  <2>2. DOMAIN <<>> = {}
    OBVIOUS
  <2> QED BY <2>1, <2>2
<1> QED BY <1>1, <1>5, <1>6 DEF Concludes

LEMMA StillUndisturbed ==
  ASSUME [Next]_vars, Undisturbed'
  PROVE  /\ Undisturbed /\ kind' = kind /\ leaves' = leaves /\ Leaf' = Leaf /\ LeafCount' = LeafCount
         /\ ~cancelled' /\ nextUp'
<1>1. UNCHANGED <<taskVars, cancelled, nextUp>> \/ Cancel \/ NextEnds
  BY DEF Next, Progress, Handle, StartFails, StartGivesUp, Take, PassOn, Begin, CheckCancelled, DoTry, DoCall,
         StepFails, DoEmit, DoHandOn, SendFails, DoSignal, Returns, Retry, DelayCancelled, ForwardFailure,
         LeafServes, LeafReportsError, SourceClosed, vars
<1>2. ~Cancel /\ ~NextEnds
  BY DEF Undisturbed, Cancel, NextEnds
<1>3. kind' = kind /\ leaves' = leaves /\ cancelled' = cancelled /\ nextUp' = nextUp
  BY <1>1, <1>2 DEF taskVars
<1>4. Task_' = Task_ /\ Leaf' = Leaf /\ LeafCount' = LeafCount
  BY <1>3 DEF Task_, Leaf, LeafCount
<1> QED BY <1>3, <1>4 DEF Undisturbed

\* The kinds whose handlers end as they should hand on nothing before.
LEMMA EndsInOrder ==
  ASSUME Undisturbed
  PROVE  kind \notin WorksAfterHandOn
BY DEF Undisturbed, LeavesSourceWaiting, WorksAfterHandOn

\* A step that nobody below or above sees.
LEMMA ReportingQuiet ==
  ASSUME HandTypes, Reporting, Undisturbed, Undisturbed', Quiet,
         \/ phase' = phase /\ rest' = rest /\ (phase = "done" => tries' = tries)
         \/ phase = "working" /\ rest # <<>> /\ phase' \in {"delay", "failing"}
         \/ phase = "working" /\ rest # <<>> /\ phase' = "working" /\ rest' = Tail(rest)
              /\ Head(rest).op \notin {"hand_on", "signal_leaves"}
         \/ phase = "working" /\ rest = <<>> /\ phase' = "done"
         \/ phase \in {"taken", "delay"} /\ phase' = "working" /\ Concludes(rest')
         \/ phase = "starting" /\ phase' = "done" /\ StartsInVain'
         \/ phase \in {"starting", "taken", "delay"} /\ phase' \in {"taken", "failing"}
  PROVE  Reporting'
<1>1. Untold' = Untold
  BY QuietKeeps
<1>2. Sent' = Sent
  BY DEF Quiet, Sent, OnTheWay, Leaf
<1>3. IsASequence(rest) /\ phase \in {"starting", "taken", "working", "delay", "failing", "done"}
  BY DEF HandTypes, TypeOK
<1>4. /\ phase \in {"starting", "taken", "delay", "failing"} => Untold
      /\ phase = "working" => (Untold /\ Concludes(rest)) \/ (rest = <<>> /\ Sent)
      /\ phase = "done" => StartsInVain \/ Sent
  BY DEF Reporting
<1>5. Concludes(rest)' = Concludes(rest')
  BY DEF Concludes
<1>14. tries' = tries => StartsInVain' = StartsInVain
  BY DEF StartsInVain, Quiet, Task_
<1>6. SUFFICES /\ phase' \in {"starting", "taken", "delay", "failing"} => Untold
               /\ phase' = "working" => (Untold /\ Concludes(rest')) \/ (rest' = <<>> /\ Sent)
               /\ phase' = "done" => StartsInVain' \/ Sent
  BY <1>1, <1>2, <1>5 DEF Reporting
<1>7. CASE phase' = phase /\ rest' = rest /\ (phase = "done" => tries' = tries)
  BY <1>4, <1>7, <1>14
<1>8. CASE phase = "working" /\ rest # <<>> /\ phase' \in {"delay", "failing"}
  BY <1>4, <1>8
<1>9. CASE phase = "working" /\ rest # <<>> /\ phase' = "working" /\ rest' = Tail(rest)
              /\ Head(rest).op \notin {"hand_on", "signal_leaves"}
  BY <1>3, <1>4, <1>9, ConcludesTail
<1>10. CASE phase = "working" /\ rest = <<>> /\ phase' = "done"
  BY <1>4, <1>10 DEF Concludes
<1>11. CASE phase \in {"taken", "delay"} /\ phase' = "working" /\ Concludes(rest')
  BY <1>4, <1>11
<1>12. CASE phase = "starting" /\ phase' = "done" /\ StartsInVain'
  BY <1>12
<1>13. CASE phase \in {"starting", "taken", "delay"} /\ phase' \in {"taken", "failing"}
  BY <1>4, <1>13
<1> QED BY <1>7, <1>8, <1>9, <1>10, <1>11, <1>12, <1>13

\* The last step of a handler, at a task without leaves below it and at any other.
LEMMA ReportingConcludes ==
  ASSUME HandTypes, Reporting, Undisturbed, Undisturbed', LeafCount' = LeafCount, Leaf' = Leaf, DoHandOn \/ DoSignal
  PROVE  Reporting'
<1>1. phase = "working" /\ rest # <<>> /\ phase' = "working" /\ rest' = Tail(rest)
  BY DEF DoHandOn, DoSignal, At, GoOn
<1>2. Head(rest).op \in {"hand_on", "signal_once", "signal_leaves"}
  BY DEF DoHandOn, DoSignal, At
<1>3. Untold /\ Concludes(rest)
  BY <1>1 DEF Reporting
<1>4. rest' = <<>> /\ Head(rest).op \in {"hand_on", "signal_leaves"}
  <2>1. HandsOnLast(rest) /\ IsASequence(rest)
    BY EndsInOrder DEF HandTypes
  <2>2. 1 \in DOMAIN rest /\ Head(rest) = rest[1]
    BY <1>1, <2>1, SequenceIs
  <2>3. 1 = Len(rest)
    BY <1>2, <2>1, <2>2 DEF HandsOnLast, Concluding
  <2>4. Head(rest).op \in {"hand_on", "signal_leaves"}
    BY <1>3, <2>2, <2>3 DEF Concludes
  <2>5. Tail(rest) = <<>>
    BY <1>1, <1>2, StepWorks, EndsInOrder DEF Concluding
  <2> QED BY <1>1, <2>4, <2>5
<1>5. leaves \in Nat /\ IsFiniteSet(Leaf) /\ Cardinality(Leaf) = leaves /\ LeafCount \in Nat \ {0}
  BY LeavesAreFinite DEF HandTypes
<1>6. remaining = LeafCount /\ outcome = "none" /\ \A l \in Leaf : carried[l] = 0 /\ errors[l] = 0
  BY <1>3 DEF Untold
<1>7. Sent'
  <2>1. CASE DoSignal
    <3>1. Signal(IF Head(rest).op = "signal_once" THEN 1 ELSE LeafCount, "ok")
      BY <2>1, <1>1 DEF DoSignal, At
    <3>2. Signal(LeafCount, "ok")
      BY <1>4, <3>1
    <3>3. outcome' = "ok"
      BY <1>5, <1>6, <3>2 DEF Signal
    <3> QED BY <3>3 DEF Sent
  <2>2. CASE DoHandOn /\ leaves = 0
    <3>1. Signal(1, "ok") /\ LeafCount = 1
      BY <2>2 DEF DoHandOn, LeafCount
    <3>2. outcome' = "ok"
      BY <1>6, <3>1 DEF Signal
    <3> QED BY <3>2 DEF Sent
  <2>3. CASE DoHandOn /\ leaves # 0
    <3>1. /\ carried' = [l \in Leaf |-> carried[l] + 1] /\ errors' = errors /\ remaining' = remaining /\ outcome' = outcome
      BY <2>3 DEF DoHandOn
    <3>2. \A l \in Leaf : carried'[l] + errors'[l] = 1
      BY <1>6, <3>1
    <3>3. OnTheWay' = Leaf
      BY <3>2 DEF OnTheWay
    <3>4. LeafCount = leaves
      BY <2>3 DEF LeafCount
    <3>5. \A l \in Leaf' : carried'[l] + errors'[l] \in {0, 1}
      BY <3>2
    <3>6. remaining' # 0 /\ remaining' = Cardinality(OnTheWay') /\ outcome' = "none"
      BY <1>5, <1>6, <3>1, <3>3, <3>4
    <3> QED BY <3>5, <3>6 DEF Sent
  <2> QED BY <2>1, <2>2, <2>3
<1> QED BY <1>1, <1>4, <1>7 DEF Reporting

\* forward_failure: an error for every leaf, or the signal of a leaf.
LEMMA ReportingFailure ==
  ASSUME HandTypes, Reporting, Undisturbed, Undisturbed', LeafCount' = LeafCount, Leaf' = Leaf, ForwardFailure
  PROVE  Reporting'
<1>1. phase = "failing" /\ phase' = "done" /\ carried' = carried
  BY DEF ForwardFailure
<1>2. remaining = LeafCount /\ outcome = "none" /\ \A l \in Leaf : carried[l] = 0 /\ errors[l] = 0
  BY <1>1 DEF Reporting, Untold
<1>3. leaves \in Nat /\ IsFiniteSet(Leaf) /\ Cardinality(Leaf) = leaves /\ LeafCount \in Nat \ {0}
  BY LeavesAreFinite DEF HandTypes
<1>4. CASE leaves = 0
  <2>1. Signal(1, "err") /\ LeafCount = 1
    BY <1>4 DEF ForwardFailure, LeafCount
  <2>2. outcome' = "err"
    BY <1>2, <2>1 DEF Signal
  <2> QED BY <1>1, <2>2 DEF Reporting, Sent
<1>5. CASE leaves # 0
  <2>1. errors' = [l \in Leaf |-> errors[l] + 1] /\ remaining' = remaining /\ outcome' = outcome
    BY <1>5 DEF ForwardFailure, Undisturbed
  <2>2. \A l \in Leaf : carried'[l] + errors'[l] = 1
    BY <1>1, <1>2, <2>1
  <2>3. OnTheWay' = Leaf
    BY <2>2 DEF OnTheWay
  <2>4. LeafCount = leaves
    BY <1>5 DEF LeafCount
  <2>5. \A l \in Leaf' : carried'[l] + errors'[l] \in {0, 1}
    BY <2>2
  <2>6. remaining' # 0 /\ remaining' = Cardinality(OnTheWay') /\ outcome' = "none"
    BY <1>2, <1>3, <2>1, <2>3, <2>4
  <2>7. Sent'
    BY <2>5, <2>6 DEF Sent
  <2> QED BY <1>1, <2>7 DEF Reporting
<1> QED BY <1>4, <1>5

\* A leaf handles what reached it, or reports it: the last of all is the verdict.
LEMMA ReportingLeaf ==
  ASSUME HandTypes, Reporting, Undisturbed, Undisturbed', LeafCount' = LeafCount, Leaf' = Leaf,
         NEW l \in Leaf, LeafServes(l) \/ LeafReportsError(l)
  PROVE  Reporting'
<1>1. /\ phase' = phase /\ rest' = rest /\ tries' = tries
      /\ carried[l] + errors[l] # 0
      /\ carried \in [Leaf -> Nat] /\ errors \in [Leaf -> Nat]
  BY DEF LeafServes, LeafReportsError, HandTypes, TypeOK
<1>2. ~Untold
  BY DEF LeafServes, LeafReportsError, Untold
<1>3. phase \in {"starting", "taken", "working", "delay", "failing", "done"}
  BY DEF HandTypes, TypeOK
<1>4. (phase = "working" /\ rest = <<>> /\ Sent) \/ (phase = "done" /\ (StartsInVain \/ Sent))
  BY <1>2, <1>3 DEF Reporting
<1>5. ASSUME Sent PROVE Sent'
  <2>1. PICK verdict \in {"ok", "err"} : Signal(1, verdict)
    BY DEF LeafServes, LeafReportsError
  <2>2. outcome' \in {outcome, "ok", "err"}
    BY <2>1 DEF Signal
  <2>3. CASE outcome # "none"
    BY <1>5, <2>2, <2>3 DEF Sent
  <2>4. CASE outcome = "none"
    <3>1. remaining # 0 /\ remaining = Cardinality(OnTheWay) /\ \A m \in Leaf : carried[m] + errors[m] \in {0, 1}
      BY <1>5, <2>4 DEF Sent
    <3>2. \A m \in Leaf : carried'[m] + errors'[m] = IF m = l THEN 0 ELSE carried[m] + errors[m]
      <4>1. carried[l] + errors[l] = 1
        BY <1>1, <3>1
      <4>2. CASE LeafServes(l)
        <5>1. carried' = [carried EXCEPT ![l] = carried[l] - 1] /\ errors' = errors /\ carried[l] > 0
          BY <4>2 DEF LeafServes
        <5> QED BY <1>1, <4>1, <5>1
      <4>3. CASE LeafReportsError(l)
        <5>1. errors' = [errors EXCEPT ![l] = errors[l] - 1] /\ carried' = carried /\ errors[l] > 0
          BY <4>3 DEF LeafReportsError
        <5> QED BY <1>1, <4>1, <5>1
      <4> QED BY <4>2, <4>3
    <3>3. OnTheWay' = OnTheWay \ {l} /\ l \in OnTheWay
      BY <1>1, <3>2 DEF OnTheWay
    <3>4. IsFiniteSet(OnTheWay)
      <4>1. IsFiniteSet(Leaf) /\ OnTheWay \subseteq Leaf
        BY LeavesAreFinite DEF HandTypes, OnTheWay
      <4> QED BY <4>1, FS_Subset
    <3>5. Cardinality(OnTheWay') = Cardinality(OnTheWay) - 1 /\ Cardinality(OnTheWay) \in Nat
      BY <3>3, <3>4, FS_RemoveElement, FS_CardinalityType
    <3>6. \A m \in Leaf' : carried'[m] + errors'[m] \in {0, 1}
      BY <3>1, <3>2
    <3>7. CASE remaining = 1
      <4>1. outcome' = verdict
        BY <2>1, <3>7 DEF Signal
      <4> QED BY <4>1 DEF Sent
    <3>8. CASE remaining # 1
      <4>1. remaining \in Nat /\ remaining > 1
        BY <3>1, <3>5, <3>8
      <4>2. remaining' = remaining - 1 /\ outcome' = "none"
        BY <2>1, <2>4, <4>1 DEF Signal
      <4>3. remaining' # 0 /\ remaining' = Cardinality(OnTheWay')
        BY <3>1, <3>5, <4>1, <4>2
      <4> QED BY <3>6, <4>2, <4>3 DEF Sent
    <3> QED BY <3>7, <3>8
  <2> QED BY <2>3, <2>4
<1>6. StartsInVain' = StartsInVain
  BY <1>1 DEF StartsInVain, LeafServes, LeafReportsError, taskVars, Task_
<1> QED BY <1>1, <1>4, <1>5, <1>6 DEF Reporting

\* The channel does not close on a source that still waits for a leaf.
LEMMA ReportingClosed ==
  ASSUME HandTypes, Reporting, Undisturbed, Undisturbed', SourceClosed
  PROVE  Reporting'
<1>1. /\ phase = "done" /\ phase' = "done" /\ tries' = tries /\ outcome = "none"
      /\ \A l \in Leaf : carried[l] = 0 /\ errors[l] = 0
  BY DEF SourceClosed, Forgotten
<1>2. OnTheWay = {}
  BY <1>1 DEF OnTheWay
<1>3. ~Sent
  BY <1>1, <1>2, FS_EmptySet DEF Sent
<1>4. StartsInVain
  BY <1>1, <1>3 DEF Reporting
<1>5. StartsInVain'
  BY <1>1, <1>4 DEF StartsInVain, SourceClosed, taskVars, Task_
<1> QED BY <1>1, <1>5 DEF Reporting

LEMMA ReportingKept ==
  ASSUME HandTypes, Reporting, [Next]_vars
  PROVE  Reporting'
<1> SUFFICES ASSUME Undisturbed' PROVE Reporting'
  BY DEF Reporting
<1>0. /\ Undisturbed /\ kind' = kind /\ leaves' = leaves /\ Leaf' = Leaf /\ LeafCount' = LeafCount
      /\ ~cancelled /\ ~cancelled' /\ nextUp' /\ nextUp
  BY StillUndisturbed DEF Undisturbed
<1>1. CASE StartFails
  BY <1>0, <1>1, ReportingQuiet DEF StartFails, Quiet, taskVars, downVars
<1>2. CASE StartGivesUp
  <2>1. StartsInVain'
    BY <1>0, <1>2 DEF StartGivesUp, StartsInVain, Task_
  <2> QED BY <1>0, <1>2, <2>1, ReportingQuiet DEF StartGivesUp, Quiet, taskVars, downVars
<1>3. CASE Take
  BY <1>0, <1>3, ReportingQuiet DEF Take, Quiet, taskVars, downVars
<1>4. CASE PassOn
  BY <1>0, <1>4, ReportingQuiet DEF PassOn, Quiet, taskVars, downVars
<1>5. CASE Begin \/ Retry
  <2>1. Concludes(rest')
    BY <1>0, <1>5, PathConcludes DEF Begin, Retry, Task_, Undisturbed, HandTypes, TypeOK
  <2>2. phase \in {"taken", "delay"} /\ phase' = "working"
    BY <1>5 DEF Begin, Retry
  <2>3. Quiet
    BY <1>5 DEF Begin, Retry, Quiet, taskVars, downVars
  <2> QED BY <1>0, <2>1, <2>2, <2>3, ReportingQuiet
<1>6. CASE CheckCancelled \/ DoTry \/ DoCall \/ DoEmit
  <2>1. phase = "working" /\ rest # <<>> /\ Head(rest).op \in {"cancelled", "try", "call", "emit"}
    BY <1>6 DEF CheckCancelled, DoTry, DoCall, DoEmit, At
  <2>2. phase' = "working" /\ rest' = Tail(rest)
    BY <1>0, <1>6, <2>1 DEF CheckCancelled, DoTry, DoCall, DoEmit, GoOn
  <2>3. Quiet
    BY <1>6 DEF CheckCancelled, DoTry, DoCall, DoEmit, Quiet, taskVars, downVars
  <2> QED BY <1>0, <2>1, <2>2, <2>3, ReportingQuiet
<1>7. CASE StepFails \/ SendFails
  <2>1. phase = "working" /\ rest # <<>> /\ phase' \in {"delay", "failing"}
    BY <1>7 DEF StepFails, SendFails, Fails, At
  <2>2. Quiet
    BY <1>7 DEF StepFails, SendFails, Quiet, taskVars, downVars
  <2> QED BY <1>0, <2>1, <2>2, ReportingQuiet
<1>8. CASE DoHandOn \/ DoSignal
  BY <1>0, <1>8, ReportingConcludes
<1>9. CASE Returns
  BY <1>0, <1>9, ReportingQuiet DEF Returns, Quiet, taskVars, downVars
<1>10. CASE DelayCancelled
  BY <1>0, <1>10 DEF DelayCancelled
<1>11. CASE ForwardFailure
  BY <1>0, <1>11, ReportingFailure
<1>12. ASSUME NEW l \in Leaf, LeafServes(l) \/ LeafReportsError(l) PROVE Reporting'
  BY <1>0, <1>12, ReportingLeaf
<1>13. CASE SourceClosed
  BY <1>0, <1>13, ReportingClosed
<1>14. CASE Cancel \/ NextEnds
  BY <1>0, <1>14 DEF Cancel, NextEnds
<1>15. CASE UNCHANGED vars
  BY <1>0, <1>15, ReportingQuiet DEF vars, Quiet, taskVars, downVars
<1> QED BY <1>1, <1>2, <1>3, <1>4, <1>5, <1>6, <1>7, <1>8, <1>9, <1>10, <1>11, <1>12, <1>13, <1>14, <1>15
        DEF Next, Progress, Handle

\* Handler::handle of every kind of task, with handle_with_retry and forward_failure: while
\* nothing stops the task or the next one, the source of a task that starts is told what
\* became of its event, for any number of leaves and attempts; its channel does not just close.
THEOREM SourcesAreTold == Spec => []HandledIsReported
<1>1. Init => Reporting
  BY DEF Init, Reporting, Untold
<1>2. HandTypes /\ Reporting /\ [Next]_vars => Reporting'
  BY ReportingKept
<1>3. HandTypes /\ Reporting => HandledIsReported
  <2> SUFFICES ASSUME HandTypes, Reporting, outcome = "closed", Undisturbed PROVE StartsInVain
    BY DEF HandledIsReported, Undisturbed
  <2>1. ~Untold /\ ~Sent
    BY DEF Untold, Sent
  <2> QED BY <2>1 DEF Reporting, HandTypes, TypeOK
<1>4. HandInv => HandTypes
  BY DEF HandInv
<1> QED BY <1>1, <1>2, <1>3, <1>4, HandInvariance, PTL DEF Spec

=============================================================================
