---------------------------- MODULE PipelineProofs ----------------------------
(***************************************************************************)
(* Proofs about the wiring of a flow (TaskGraph, TaskRegistry) for any task *)
(* list, and about a running flow (Pipeline) for any wiring and bounds.     *)
(***************************************************************************)
EXTENDS Pipeline, TaskRegistry, FiniteSetTheorems, WellFoundedInduction, SequenceTheorems, TLAPS

\* Every parent comes before its children.
Ordered(P) ==
  /\ \E n \in Nat : DOMAIN P = 1..n
  /\ \A t \in DOMAIN P : \A k \in DOMAIN P[t] : P[t][k] \in 1..(t - 1)

\* The leaf sets that build_dag's reverse pass propagates.
ReachStep(P, reachable, t) ==
  IF Children(P, t) = {} THEN {t} ELSE UNION {reachable[c] : c \in Children(P, t)}

Reach(P) ==
  CHOOSE reachable :
    reachable = [t \in DOMAIN P |->
                   IF Children(P, t) = {} THEN {t}
                   ELSE UNION {reachable[c] : c \in Children(P, t)}]

\* A path of n tasks from t to u, and the leaves that one leads to.
Way(P, n, p, t, u) ==
  /\ p \in [1..n -> DOMAIN P] /\ p[1] = t /\ p[n] = u
  /\ \A i \in 1..(n - 1) : p[i + 1] \in Children(P, p[i])

Led(P) ==
  [t \in DOMAIN P |->
     {u \in DOMAIN P : Children(P, u) = {} /\ \E n \in Nat \ {0} : \E p : Way(P, n, p, t, u)}]

-----------------------------------------------------------------------------
(* The wiring. *)

\* A set of natural numbers has a least one.
LEMMA LeastOf ==
  ASSUME NEW T \in SUBSET Nat, T # {}
  PROVE  \E m \in T : \A k \in T : m <= k
<1> DEFINE R == {ss \in Nat \X Nat : ss[1] < ss[2]}
<1>1. IsWellFoundedOn(R, Nat)
  BY NatLessThanWellFounded DEF OpToRel
<1>2. \E m \in T : \A k \in T : ~ (<<k, m>> \in R)
  <2> HIDE DEF R
  <2> QED BY <1>1, WFMin
<1>3. PICK m \in T : \A k \in T : ~ (<<k, m>> \in R)
  BY <1>2
<1>4. ASSUME NEW k \in T PROVE m <= k
  <2>1. k \in Nat /\ m \in Nat /\ ~ (k < m)
    BY <1>3
  <2> QED BY <2>1
<1> QED BY <1>4

\* A bounded one has a greatest.
LEMMA GreatestOf ==
  ASSUME NEW n \in Nat, NEW T \in SUBSET (1..n), T # {}
  PROVE  \E m \in T : \A k \in T : k <= m
<1> DEFINE D == {n - k : k \in T}
<1>1. D \in SUBSET Nat /\ D # {}
  <2>1. \A k \in T : n - k \in Nat
    OBVIOUS
  <2> QED BY <2>1
<1>2. PICK d \in D : \A k \in D : d <= k
  <2> HIDE DEF D
  <2> QED BY <1>1, LeastOf
<1>3. PICK m \in T : d = n - m
  OBVIOUS
<1>4. ASSUME NEW k \in T PROVE k <= m
  <2>1. n - k \in D
    OBVIOUS
  <2>2. n - m <= n - k
    BY <1>2, <1>3, <2>1
  <2>3. k \in Nat /\ m \in Nat
    OBVIOUS
  <2> QED BY <2>2, <2>3
<1> QED BY <1>4

\* The children of a task are the later tasks that name it.
LEMMA ChildrenAre ==
  ASSUME NEW P, NEW t, NEW c
  PROVE  c \in Children(P, t) <=> c \in DOMAIN P /\ \E k \in DOMAIN P[c] : P[c][k] = t
<1>1. ASSUME c \in Children(P, t) PROVE c \in DOMAIN P /\ \E k \in DOMAIN P[c] : P[c][k] = t
  <2>1. PICK b \in Branches(P, t) : c = b[1]
    BY <1>1 DEF Children
  <2>2. PICK e \in DOMAIN P : b \in {<<e, k>> : k \in {j \in DOMAIN P[e] : P[e][j] = t}}
    BY <2>1 DEF Branches
  <2>3. PICK k \in DOMAIN P[e] : P[e][k] = t /\ b = <<e, k>>
    BY <2>2
  <2>4. c = e
    BY <2>1, <2>3
  <2> QED BY <2>3, <2>4
<1>2. ASSUME c \in DOMAIN P, NEW k \in DOMAIN P[c], P[c][k] = t PROVE c \in Children(P, t)
  <2>1. <<c, k>> \in Branches(P, t)
    BY <1>2 DEF Branches
  <2>2. <<c, k>>[1] = c
    OBVIOUS
  <2> QED BY <2>1, <2>2 DEF Children
<1> QED BY <1>1, <1>2

LEMMA ChildrenLater ==
  ASSUME NEW P, Ordered(P), NEW t \in DOMAIN P, NEW c \in Children(P, t)
  PROVE  c \in DOMAIN P /\ t < c
<1>1. c \in DOMAIN P /\ \E k \in DOMAIN P[c] : P[c][k] = t
  BY ChildrenAre
<1>2. t \in 1..(c - 1)
  BY <1>1 DEF Ordered
<1>3. c \in Nat
  BY <1>1 DEF Ordered
<1> QED BY <1>1, <1>2, <1>3

\* A leaf leads to itself only.
LEMMA LeafLeads ==
  ASSUME NEW P, NEW t \in DOMAIN P, Children(P, t) = {}
  PROVE  Led(P)[t] = {t}
<1>1. Way(P, 1, [i \in 1..1 |-> t], t, t)
  BY DEF Way
<1>2. t \in Led(P)[t]
  BY <1>1 DEF Led
<1>3. ASSUME NEW u \in Led(P)[t] PROVE u = t
  <2>0. PICK n \in Nat \ {0} : \E p : Way(P, n, p, t, u)
    BY DEF Led
  <2>1. PICK p : Way(P, n, p, t, u)
    BY <2>0
  <2>2. ASSUME n # 1 PROVE FALSE
    <3>1. 1 \in 1..(n - 1)
      BY <2>2
    <3>2. p[1 + 1] \in Children(P, p[1])
      BY <2>1, <3>1 DEF Way
    <3> QED BY <2>1, <3>2 DEF Way
  <2> QED BY <2>1, <2>2 DEF Way
<1> QED BY <1>2, <1>3

\* The first task of a path can be left out, and one put before it.
LEMMA WayTail ==
  ASSUME NEW P, NEW n \in Nat, n > 1, NEW p, NEW t, NEW u, Way(P, n, p, t, u)
  PROVE  /\ p[2] \in Children(P, t)
         /\ \E q : Way(P, n - 1, q, p[2], u)
<1> DEFINE q == [i \in 1..(n - 1) |-> p[i + 1]]
<1>1. 1 \in 1..(n - 1) /\ 1 + 1 = 2 /\ p[1] = t
  BY DEF Way
<1>2. p[2] \in Children(P, t)
  BY <1>1 DEF Way
<1>3. q \in [1..(n - 1) -> DOMAIN P]
  BY DEF Way
<1>4. q[1] = p[2] /\ q[n - 1] = p[n]
  OBVIOUS
<1>5. ASSUME NEW i \in 1..((n - 1) - 1) PROVE q[i + 1] \in Children(P, q[i])
  <2>1. i + 1 \in 1..(n - 1) /\ i \in 1..(n - 1)
    OBVIOUS
  <2>2. p[(i + 1) + 1] \in Children(P, p[i + 1])
    BY <2>1 DEF Way
  <2> QED BY <2>1, <2>2
<1>6. Way(P, n - 1, q, p[2], u)
  <2> HIDE DEF q
  <2> QED BY <1>3, <1>4, <1>5 DEF Way
<1> QED BY <1>2, <1>6

LEMMA WayAhead ==
  ASSUME NEW P, NEW n \in Nat \ {0}, NEW p, NEW t \in DOMAIN P, NEW c \in Children(P, t), NEW u,
         Way(P, n, p, c, u)
  PROVE  \E q : Way(P, n + 1, q, t, u)
<1> DEFINE q == [i \in 1..(n + 1) |-> IF i = 1 THEN t ELSE p[i - 1]]
<1>1. q \in [1..(n + 1) -> DOMAIN P]
  BY DEF Way
<1>2. q[1] = t /\ q[n + 1] = u
  BY DEF Way
<1>3. ASSUME NEW i \in 1..((n + 1) - 1) PROVE q[i + 1] \in Children(P, q[i])
  <2>1. q[i + 1] = p[i]
    OBVIOUS
  <2>2. CASE i = 1
    BY <2>1, <2>2 DEF Way
  <2>3. CASE i # 1
    <3>1. q[i] = p[i - 1] /\ i - 1 \in 1..(n - 1) /\ (i - 1) + 1 = i
      BY <2>3
    <3>2. p[(i - 1) + 1] \in Children(P, p[i - 1])
      BY <3>1 DEF Way
    <3> QED BY <2>1, <3>1, <3>2
  <2> QED BY <2>2, <2>3
<1>4. Way(P, n + 1, q, t, u)
  <2> HIDE DEF q
  <2> QED BY <1>1, <1>2, <1>3 DEF Way
<1> QED BY <1>4

\* Another task leads to what its children lead to.
LEMMA InnerLeads ==
  ASSUME NEW P, Ordered(P), NEW t \in DOMAIN P, Children(P, t) # {}
  PROVE  Led(P)[t] = UNION {Led(P)[c] : c \in Children(P, t)}
<1>1. ASSUME NEW u \in Led(P)[t] PROVE \E c \in Children(P, t) : u \in Led(P)[c]
  <2>1. u \in DOMAIN P /\ Children(P, u) = {} /\ \E n \in Nat \ {0} : \E p : Way(P, n, p, t, u)
    BY DEF Led
  <2>2. PICK n \in Nat \ {0} : \E p : Way(P, n, p, t, u)
    BY <2>1
  <2>3. PICK p : Way(P, n, p, t, u)
    BY <2>2
  <2>4. n > 1
    BY <2>1, <2>3 DEF Way
  <2>5. p[2] \in Children(P, t) /\ \E q : Way(P, n - 1, q, p[2], u)
    BY <2>3, <2>4, WayTail
  <2>6. n - 1 \in Nat \ {0} /\ p[2] \in DOMAIN P
    BY <2>4, <2>5, ChildrenLater
  <2>7. u \in Led(P)[p[2]]
    BY <2>1, <2>5, <2>6 DEF Led
  <2> QED BY <2>5, <2>7
<1>2. ASSUME NEW c \in Children(P, t), NEW u \in Led(P)[c] PROVE u \in Led(P)[t]
  <2>1. c \in DOMAIN P
    BY ChildrenLater
  <2>2. u \in DOMAIN P /\ Children(P, u) = {} /\ \E n \in Nat \ {0} : \E p : Way(P, n, p, c, u)
    BY <2>1 DEF Led
  <2>3. PICK n \in Nat \ {0} : \E p : Way(P, n, p, c, u)
    BY <2>2
  <2>4. \E q : Way(P, n + 1, q, t, u)
    BY <2>3, WayAhead
  <2>5. n + 1 \in Nat \ {0}
    OBVIOUS
  <2> QED BY <2>2, <2>4, <2>5 DEF Led
<1> QED BY <1>1, <1>2

\* So the reverse pass has a result, and it satisfies its own equation.
LEMMA ReachIs ==
  ASSUME NEW P, Ordered(P)
  PROVE  Reach(P) = [t \in DOMAIN P |-> ReachStep(P, Reach(P), t)]
<1>1. Led(P) = [t \in DOMAIN P |-> ReachStep(P, Led(P), t)]
  <2>1. ASSUME NEW t \in DOMAIN P PROVE Led(P)[t] = ReachStep(P, Led(P), t)
    <3>1. CASE Children(P, t) = {}
      BY <3>1, LeafLeads DEF ReachStep
    <3>2. CASE Children(P, t) # {}
      BY <3>2, InnerLeads DEF ReachStep
    <3> QED BY <3>1, <3>2
  <2>2. Led(P) = [t \in DOMAIN P |-> Led(P)[t]]
    BY DEF Led
  <2> QED BY <2>1, <2>2
<1>2. \E reachable : reachable = [t \in DOMAIN P |-> ReachStep(P, reachable, t)]
  BY <1>1
<1>3. Reach(P) = CHOOSE reachable : reachable = [t \in DOMAIN P |-> ReachStep(P, reachable, t)]
  BY DEF Reach, ReachStep
<1> QED BY <1>2, <1>3

\* It finds the leaves that a path leads to.
LEMMA ReachIsLed ==
  ASSUME NEW P, Ordered(P)
  PROVE  Reach(P) = Led(P)
<1> DEFINE Bad == {t \in DOMAIN P : Reach(P)[t] # Led(P)[t]}
<1>1. ASSUME Bad # {} PROVE FALSE
  <2>1. PICK n \in Nat : DOMAIN P = 1..n /\ Bad \in SUBSET (1..n)
    BY DEF Ordered
  <2>2. PICK t \in Bad : \A k \in Bad : k <= t
    <3> HIDE DEF Bad
    <3> QED BY <1>1, <2>1, GreatestOf
  <2>3. t \in DOMAIN P /\ t \in Nat
    BY <2>1
  <2>4. Reach(P)[t] = ReachStep(P, Reach(P), t)
    BY <2>3, ReachIs
  <2>5. \A c \in Children(P, t) : Reach(P)[c] = Led(P)[c]
    <3> SUFFICES ASSUME NEW c \in Children(P, t) PROVE Reach(P)[c] = Led(P)[c]
      OBVIOUS
    <3>1. c \in DOMAIN P /\ t < c
      BY <2>3, ChildrenLater
    <3>2. c \in Nat
      BY <3>1 DEF Ordered
    <3>3. c \notin Bad
      BY <2>2, <2>3, <3>1, <3>2
    <3> QED BY <3>1, <3>3
  <2>6. Led(P)[t] = ReachStep(P, Led(P), t)
    <3>1. CASE Children(P, t) = {}
      BY <2>3, <3>1, LeafLeads DEF ReachStep
    <3>2. CASE Children(P, t) # {}
      BY <2>3, <3>2, InnerLeads DEF ReachStep
    <3> QED BY <3>1, <3>2
  <2>7. ReachStep(P, Reach(P), t) = ReachStep(P, Led(P), t)
    BY <2>5 DEF ReachStep
  <2> QED BY <2>4, <2>6, <2>7
<1>2. \A t \in DOMAIN P : Reach(P)[t] = Led(P)[t]
  BY <1>1
<1>3. Reach(P) = [t \in DOMAIN P |-> Reach(P)[t]] /\ Led(P) = [t \in DOMAIN P |-> Led(P)[t]]
  <2>1. Reach(P) = [t \in DOMAIN P |-> ReachStep(P, Reach(P), t)]
    BY ReachIs
  <2>2. DOMAIN Reach(P) = DOMAIN P
    BY <2>1
  <2>3. Reach(P) = [t \in DOMAIN Reach(P) |-> Reach(P)[t]]
    BY <2>1
  <2> QED BY <2>2, <2>3 DEF Led
<1> QED BY <1>2, <1>3

\* build_dag sizes the completion channels with it.
LEMMA LeavesAreCounted ==
  ASSUME NEW P
  PROVE  DownstreamLeaves(P) = [t \in DOMAIN P |-> Cardinality(Reach(P)[t])]
BY DEF DownstreamLeaves, Reach

\* Both ways of wiring name earlier tasks only.
LEMMA BuiltOrdered ==
  ASSUME NEW list, Len(list) \in Nat, DOMAIN list = 1..Len(list), BuildRegistry(list).ok
  PROVE  /\ DOMAIN BuildRegistry(list).parents = DOMAIN list
         /\ Ordered(BuildRegistry(list).parents)
<1> DEFINE P == BuildRegistry(list).parents
<1>1. CASE ~NeedsDag(list)
  <2>1. P = [i \in DOMAIN list |-> IF i = 1 THEN <<>> ELSE <<i - 1>>]
    BY <1>1 DEF BuildRegistry, LinearParents
  <2>2. ASSUME NEW t \in DOMAIN P, NEW k \in DOMAIN P[t] PROVE P[t][k] \in 1..(t - 1)
    <3>1. t \in 1..Len(list) /\ P[t] = IF t = 1 THEN <<>> ELSE <<t - 1>>
      BY <2>1
    <3>2. t # 1
      BY <3>1
    <3>3. P[t] = <<t - 1>> /\ k = 1
      BY <3>1, <3>2
    <3> QED BY <3>1, <3>2, <3>3
  <2> QED BY <2>1, <2>2 DEF Ordered
<1>2. CASE NeedsDag(list)
  <2>1. Resolves(list) /\ P = ResolveParents(list)
    BY <1>2 DEF BuildRegistry
  <2>2. DOMAIN P = DOMAIN list
    BY <2>1 DEF ResolveParents
  <2>3. ASSUME NEW t \in DOMAIN P, NEW k \in DOMAIN P[t] PROVE P[t][k] \in 1..(t - 1)
    <3>1. CASE list[t].explicit
      <4>1. P[t] = [j \in DOMAIN list[t].deps |-> IndexOf(list, list[t].deps[j])]
        BY <2>1, <2>2, <3>1 DEF ResolveParents
      <4>2. k \in DOMAIN list[t].deps /\ P[t][k] = IndexOf(list, list[t].deps[k])
        BY <4>1
      <4>3. /\ \E j \in DOMAIN list : list[j].name = list[t].deps[k]
            /\ IndexOf(list, list[t].deps[k]) < t
        BY <2>1, <2>2, <3>1, <4>2 DEF Resolves
      <4>4. IndexOf(list, list[t].deps[k]) \in DOMAIN list
        BY <4>3 DEF IndexOf
      <4>5. t \in Nat /\ P[t][k] \in 1..Len(list)
        BY <2>2, <4>2, <4>4
      <4> QED BY <4>2, <4>3, <4>5
    <3>2. CASE ~list[t].explicit
      <4>1. P[t] = IF list[t].io THEN ImplicitParent(list, t) ELSE <<>>
        BY <2>1, <2>2, <3>2 DEF ResolveParents
      <4> DEFINE before == {j \in 1..(t - 1) : list[j].io}
      <4>2. P[t] = ImplicitParent(list, t)
        BY <4>1
      <4>3. before # {}
        BY <4>2 DEF ImplicitParent
      <4>4. \E j \in before : \A i \in before : i <= j
        <5>1. t - 1 \in Nat /\ before \in SUBSET (1..(t - 1))
          BY <2>2
        <5> HIDE DEF before
        <5> QED BY <4>3, <5>1, GreatestOf
      <4>5. P[t] = <<CHOOSE j \in before : \A i \in before : i <= j>>
        BY <4>2, <4>3 DEF ImplicitParent
      <4>6. (CHOOSE j \in before : \A i \in before : i <= j) \in before
        BY <4>4
      <4>7. k = 1 /\ P[t][k] = CHOOSE j \in before : \A i \in before : i <= j
        BY <4>5
      <4> QED BY <4>6, <4>7
    <3> QED BY <3>1, <3>2
  <2> QED BY <2>2, <2>3 DEF Ordered
<1> QED BY <1>1, <1>2

\* In a line every task leads to the last one.
LEMMA LineLeads ==
  ASSUME NEW n \in Nat, NEW P, DOMAIN P = 1..n, Ordered(P),
         \A i \in 1..n : P[i] = IF i = 1 THEN <<>> ELSE <<i - 1>>
  PROVE  \A t \in 1..n : Reach(P)[t] = {n}
<1> DEFINE Bad == {t \in 1..n : Reach(P)[t] # {n}}
<1>0. \A t, c : c \in Children(P, t) <=> c \in DOMAIN P /\ \E k \in DOMAIN P[c] : P[c][k] = t
  BY ChildrenAre
<1>1. ASSUME NEW t \in 1..n, t < n PROVE Children(P, t) = {t + 1}
  <2>1. ASSUME NEW c \in Children(P, t) PROVE c = t + 1
    <3>1. c \in DOMAIN P /\ \E k \in DOMAIN P[c] : P[c][k] = t
      BY <1>0, <2>1
    <3>2. c \in 1..n /\ P[c] = IF c = 1 THEN <<>> ELSE <<c - 1>>
      BY <3>1
    <3>3. c # 1
      BY <3>1, <3>2
    <3>4. P[c] = <<c - 1>>
      BY <3>2, <3>3
    <3>5. c - 1 = t
      BY <3>1, <3>4
    <3> QED BY <3>2, <3>5
  <2>2. t + 1 \in Children(P, t)
    <3>1. t + 1 \in DOMAIN P /\ P[t + 1] = <<t>>
      BY <1>1
    <3>2. 1 \in DOMAIN P[t + 1] /\ P[t + 1][1] = t
      BY <3>1
    <3> QED BY <3>1, <3>2, ChildrenAre
  <2> QED BY <2>1, <2>2
<1>2. ASSUME n \in 1..n PROVE Children(P, n) = {}
  <2> SUFFICES ASSUME NEW c \in Children(P, n) PROVE FALSE
    OBVIOUS
  <2>1. c \in DOMAIN P /\ n < c
    BY <1>2, ChildrenLater
  <2> QED BY <2>1
<1>3. ASSUME Bad # {} PROVE FALSE
  <2>1. Bad \in SUBSET (1..n)
    OBVIOUS
  <2>2. PICK t \in Bad : \A k \in Bad : k <= t
    <3> HIDE DEF Bad
    <3> QED BY <1>3, <2>1, GreatestOf
  <2>3. t \in DOMAIN P /\ t \in 1..n /\ Reach(P)[t] # {n}
    OBVIOUS
  <2>4. Reach(P)[t] = ReachStep(P, Reach(P), t)
    BY <2>3, ReachIs
  <2>5. CASE t = n
    BY <1>2, <2>3, <2>4, <2>5 DEF ReachStep
  <2>6. CASE t < n
    <3>1. Children(P, t) = {t + 1}
      BY <1>1, <2>3, <2>6
    <3>2. Reach(P)[t] = UNION {Reach(P)[c] : c \in {t + 1}}
      BY <2>4, <3>1, Zenon DEF ReachStep
    <3>5. Reach(P)[t] = Reach(P)[t + 1]
      <4>1. \A x : x \in UNION {Reach(P)[c] : c \in {t + 1}} <=> x \in Reach(P)[t + 1]
        OBVIOUS
      <4> QED BY <3>2, <4>1
    <3>3. t + 1 \in 1..n /\ ~ (t + 1 <= t)
      BY <2>3, <2>6
    <3>4. t + 1 \notin Bad
      BY <2>2, <3>3
    <3> QED BY <2>3, <3>5, <3>3, <3>4
  <2> QED BY <2>3, <2>5, <2>6
<1> QED BY <1>3

\* The leaf counts of a registry are those of the leaf sets.
LEMMA BuiltCounts ==
  ASSUME NEW list, Len(list) \in Nat, DOMAIN list = 1..Len(list), BuildRegistry(list).ok
  PROVE  BuildRegistry(list).leaves =
           [t \in DOMAIN list |-> Cardinality(Reach(BuildRegistry(list).parents)[t])]
<1> DEFINE P == BuildRegistry(list).parents
<1>1. Ordered(P) /\ DOMAIN P = DOMAIN list
  BY BuiltOrdered
<1>2. CASE ~NeedsDag(list)
  <2>1. DOMAIN P = 1..Len(list) /\ \A i \in 1..Len(list) : P[i] = IF i = 1 THEN <<>> ELSE <<i - 1>>
    BY <1>2 DEF BuildRegistry, LinearParents
  <2>2. \A t \in 1..Len(list) : Reach(P)[t] = {Len(list)}
    <3> HIDE DEF P
    <3> QED BY <1>1, <2>1, LineLeads
  <2>3. \A t \in DOMAIN list : Cardinality(Reach(P)[t]) = 1
    BY <2>2, FS_Singleton
  <2>4. BuildRegistry(list).leaves = [t \in DOMAIN list |-> 1]
    BY <1>2 DEF BuildRegistry
  <2> QED BY <2>3, <2>4
<1>3. CASE NeedsDag(list)
  <2>1. BuildRegistry(list).leaves = DownstreamLeaves(P)
    BY <1>3 DEF BuildRegistry
  <2> QED BY <1>1, <2>1, LeavesAreCounted
<1> QED BY <1>2, <1>3

\* Tasks get larger along a path, so it is no longer than the list.
LEMMA WayIsShort ==
  ASSUME NEW P, Ordered(P), NEW n \in Nat, DOMAIN P = 1..n,
         NEW m \in Nat \ {0}, NEW p, NEW t, NEW u, Way(P, m, p, t, u)
  PROVE  m <= n
<1> DEFINE Bad == {i \in 1..m : p[i] < i}
<1>1. ASSUME Bad # {} PROVE FALSE
  <2>1. PICK i \in Bad : \A k \in Bad : i <= k
    <3>1. Bad \in SUBSET Nat
      OBVIOUS
    <3> HIDE DEF Bad
    <3> QED BY <1>1, <3>1, LeastOf
  <2>2. i \in 1..m /\ p[i] < i /\ p[i] \in 1..n
    BY DEF Way
  <2>3. CASE i = 1
    BY <2>2, <2>3
  <2>4. CASE i # 1
    <3>1. i - 1 \in 1..m /\ i - 1 \in 1..(m - 1) /\ (i - 1) + 1 = i
      BY <2>2, <2>4
    <3>2. i - 1 \notin Bad
      <4>1. ~ (i <= i - 1)
        BY <2>2
      <4> QED BY <2>1, <4>1
    <3>3. p[i - 1] \in 1..n /\ p[i - 1] >= i - 1
      BY <3>1, <3>2 DEF Way
    <3>4. p[(i - 1) + 1] \in Children(P, p[i - 1])
      BY <3>1 DEF Way
    <3>5. p[i] \in Children(P, p[i - 1])
      BY <3>1, <3>4
    <3>6. p[i - 1] < p[i]
      BY <3>3, <3>5, ChildrenLater
    <3> QED BY <2>2, <3>3, <3>6
  <2> QED BY <2>3, <2>4
<1>2. p[m] \in 1..n /\ m \in 1..m
  BY DEF Way
<1>3. m \notin Bad
  BY <1>1
<1> QED BY <1>2, <1>3

\* A sequence given as a function has the length of its domain.
LEMMA WalkLen ==
  ASSUME NEW m \in Nat, NEW S, NEW p \in [1..m -> S]
  PROVE  p \in Seq(S) /\ Len(p) = m
<1>1. p \in Seq(S)
  BY SeqDef
<1>2. Len(p) \in Nat /\ 1..Len(p) = 1..m
  BY <1>1, LenProperties
<1>3. Len(p) = m
  <2>1. CASE Len(p) < m
    BY <1>2, <2>1
  <2>2. CASE m < Len(p)
    BY <1>2, <2>2
  <2> QED BY <1>2, <2>1, <2>2
<1> QED BY <1>1, <1>3

\* The registry is what build makes of the definition.
RegistryInv == flow \in FlowConfigs /\ (registry = NotBuilt \/ registry = BuildRegistry(flow))

LEMMA RegistryInvariance == WiringSpec => []RegistryInv
<1>1. WiringInit => RegistryInv
  BY DEF WiringInit, RegistryInv
<1>2. RegistryInv /\ [WiringNext]_wiringVars => RegistryInv'
  BY DEF RegistryInv, WiringNext, Build, wiringVars
<1> QED BY <1>1, <1>2, PTL DEF WiringSpec

\* The paths of the reference definition are the ways through the wiring.
LEMMA PathsAreWays ==
  ASSUME RegistryInv, registry.ok, NEW t \in DOMAIN flow, NEW u \in DOMAIN flow
  PROVE  /\ IsLeaf(u) <=> Children(registry.parents, u) = {}
         /\ Paths(t, u) # {} <=> \E n \in Nat \ {0} : \E p : Way(registry.parents, n, p, t, u)
<1> DEFINE P == registry.parents
<1>0. Len(flow) \in Nat /\ DOMAIN flow = 1..Len(flow)
  BY FlowConfigsAssumption DEF RegistryInv
<1>1. registry = BuildRegistry(flow)
  BY DEF RegistryInv, NotBuilt
<1>2. Ordered(P) /\ DOMAIN P = DOMAIN flow
  BY <1>0, <1>1, BuiltOrdered
<1>3. IsLeaf(u) <=> Children(P, u) = {}
  <2>1. \A c : c \in Children(P, u) <=> c \in DOMAIN flow /\ \E k \in DOMAIN P[c] : P[c][k] = u
    BY <1>2, ChildrenAre
  <2> QED BY <2>1, Zenon DEF IsLeaf
<1>4. ASSUME NEW m \in Nat \ {0}, NEW p \in [1..m -> DOMAIN flow]
      PROVE  p[1] = t /\ p[Len(p)] = u /\ IsPath(p) <=> Way(P, m, p, t, u)
  <2>1. Len(p) = m
    BY WalkLen
  <2>2. ASSUME NEW i \in 1..(m - 1)
        PROVE  p[i] \in {P[p[i + 1]][k] : k \in DOMAIN P[p[i + 1]]} <=> p[i + 1] \in Children(P, p[i])
    <3>1. p[i + 1] \in DOMAIN P
      BY <1>2
    <3> QED BY <3>1, ChildrenAre
  <2>3. IsPath(p) <=> \A i \in 1..(m - 1) : p[i + 1] \in Children(P, p[i])
    BY <2>1, <2>2 DEF IsPath
  <2> QED BY <1>2, <2>1, <2>3 DEF Way
<1>5. ASSUME Paths(t, u) # {} PROVE \E n \in Nat \ {0} : \E p : Way(P, n, p, t, u)
  <2>1. PICK p \in Walks : p[1] = t /\ p[Len(p)] = u /\ IsPath(p)
    BY <1>5 DEF Paths
  <2>2. PICK m \in 1..Len(flow) : p \in [1..m -> DOMAIN flow]
    BY DEF Walks
  <2>3. m \in Nat \ {0}
    BY <1>0
  <2> QED BY <1>4, <2>1, <2>2, <2>3
<1>6. ASSUME NEW m \in Nat \ {0}, NEW p, Way(P, m, p, t, u) PROVE Paths(t, u) # {}
  <2>1. m <= Len(flow)
    BY <1>0, <1>2, <1>6, WayIsShort
  <2>2. p \in [1..m -> DOMAIN flow]
    BY <1>2, <1>6 DEF Way
  <2>3. p \in Walks
    BY <1>0, <2>1, <2>2 DEF Walks
  <2> QED BY <1>4, <1>6, <2>2, <2>3 DEF Paths
<1> QED BY <1>3, <1>5, <1>6

\* The completion channel of a task is sized by the distinct leaves a path leads
\* to (TaskRegistryBuilder::build): for every task list, however long and
\* however it forks and joins.
THEOREM LeafCountsAreRight == WiringSpec => []LeavesAreReachable
<1>1. RegistryInv => LeavesAreReachable
  <2> SUFFICES ASSUME RegistryInv, registry.ok, NEW t \in DOMAIN flow
               PROVE  registry.leaves[t] =
                        Cardinality({u \in DOMAIN flow : IsLeaf(u) /\ Paths(t, u) # {}})
    BY DEF LeavesAreReachable
  <2> DEFINE P == registry.parents
  <2>1. Len(flow) \in Nat /\ DOMAIN flow = 1..Len(flow) /\ registry = BuildRegistry(flow)
    BY FlowConfigsAssumption DEF RegistryInv, NotBuilt
  <2>2. Ordered(P) /\ DOMAIN P = DOMAIN flow
    BY <2>1, BuiltOrdered
  <2>3. registry.leaves[t] = Cardinality(Reach(P)[t])
    BY <2>1, BuiltCounts
  <2>4. Reach(P)[t] = {u \in DOMAIN P : Children(P, u) = {} /\ \E n \in Nat \ {0} : \E p : Way(P, n, p, t, u)}
    BY <2>2, ReachIsLed DEF Led
  <2>5. Reach(P)[t] = {u \in DOMAIN flow : IsLeaf(u) /\ Paths(t, u) # {}}
    BY <2>2, <2>4, PathsAreWays
  <2> QED BY <2>3, <2>5
<1> QED BY <1>1, RegistryInvariance, PTL

-----------------------------------------------------------------------------
(* The wiring of the running flow. *)

\* The leaves that an event at a task still has to reach.
Below(t) == Reach(Wiring.parents)[t]

\* Every task after the source names one parent, once: no two branches meet.
OnePath == \A t \in Processors : DOMAIN Wiring.parents[t] = {1}

LEMMA NIs == N \in Nat /\ N >= 2 /\ Len(Flow) = N /\ DOMAIN Flow = 1..N
BY FlowAssumption DEF N

LEMMA WiringIs ==
  /\ DOMAIN Wiring.parents = 1..N /\ Ordered(Wiring.parents)
  /\ Wiring.leaves = [t \in 1..N |-> Cardinality(Below(t))]
<1>1. Len(Flow) \in Nat /\ DOMAIN Flow = 1..Len(Flow) /\ BuildRegistry(Flow).ok /\ DOMAIN Flow = 1..N
  BY FlowAssumption DEF N
<1>2. DOMAIN Wiring.parents = 1..N /\ Ordered(Wiring.parents)
  BY <1>1, BuiltOrdered DEF Wiring
<1>3. Wiring.leaves = [t \in DOMAIN Flow |-> Cardinality(Reach(Wiring.parents)[t])]
  BY <1>1, BuiltCounts DEF Wiring
<1> QED BY <1>1, <1>2, <1>3 DEF Below

\* A branch leads to a later task that names this one.
LEMMA BranchIs ==
  ASSUME NEW t \in 1..N, NEW b \in Out[t]
  PROVE  /\ b[1] \in Processors /\ b[1] > t
         /\ b[2] \in DOMAIN Wiring.parents[b[1]] /\ Wiring.parents[b[1]][b[2]] = t
         /\ b = <<b[1], b[2]>>
<1>1. b \in Branches(Wiring.parents, t)
  BY DEF Out
<1>2. PICK c \in DOMAIN Wiring.parents :
        b \in {<<c, k>> : k \in {j \in DOMAIN Wiring.parents[c] : Wiring.parents[c][j] = t}}
  BY <1>1 DEF Branches
<1>3. PICK k \in DOMAIN Wiring.parents[c] : Wiring.parents[c][k] = t /\ b = <<c, k>>
  BY <1>2
<1>4. b[1] = c /\ b[2] = k
  BY <1>3
<1>5. c \in 1..N /\ t \in 1..(c - 1)
  BY <1>3, WiringIs DEF Ordered
<1>6. c \in 2..N /\ c > t
  BY <1>5, NIs
<1> QED BY <1>3, <1>4, <1>6 DEF Processors

LEMMA ChildIs ==
  ASSUME NEW t \in 1..N
  PROVE  Children(Wiring.parents, t) = {b[1] : b \in Out[t]}
BY DEF Children, Out

\* The source has a branch: the second task can only name the first.
LEMMA SourceBranches == Out[Source] # {} /\ Source \in 1..N
<1>1. 2 \in 2..N /\ 2 \in 1..N /\ 1 \in 1..N
  BY NIs
<1>2. PICK k \in DOMAIN Wiring.parents[2] : TRUE
  BY <1>1, FlowAssumption DEF Wiring
<1>3. Wiring.parents[2][k] \in 1..(2 - 1)
  BY <1>1, <1>2, WiringIs DEF Ordered
<1>4. Wiring.parents[2][k] = 1
  BY <1>3
<1>5. <<2, k>> \in Branches(Wiring.parents, 1)
  BY <1>1, <1>2, <1>4, WiringIs DEF Branches
<1> QED BY <1>1, <1>5 DEF Out, Source

LEMMA BelowIs ==
  ASSUME NEW t \in 1..N
  PROVE  /\ Out[t] = {} => Below(t) = {t}
         /\ Out[t] # {} => Below(t) = UNION {Below(b[1]) : b \in Out[t]}
<1>1. Below(t) = ReachStep(Wiring.parents, Reach(Wiring.parents), t)
  <2>1. Reach(Wiring.parents) =
          [u \in DOMAIN Wiring.parents |-> ReachStep(Wiring.parents, Reach(Wiring.parents), u)]
    BY WiringIs, ReachIs
  <2>2. t \in DOMAIN Wiring.parents
    BY WiringIs
  <2>3. Reach(Wiring.parents)[t] = ReachStep(Wiring.parents, Reach(Wiring.parents), t)
    BY <2>1, <2>2, Zenon
  <2> QED BY <2>3 DEF Below
<1>2. Children(Wiring.parents, t) = {b[1] : b \in Out[t]}
  BY ChildIs
<1>3. CASE Out[t] = {}
  BY <1>1, <1>2, <1>3 DEF ReachStep
<1>4. CASE Out[t] # {}
  <2>1. Children(Wiring.parents, t) # {}
    BY <1>2, <1>4
  <2>2. Below(t) = UNION {Reach(Wiring.parents)[c] : c \in Children(Wiring.parents, t)}
    BY <1>1, <2>1 DEF ReachStep
  <2> QED BY <1>2, <1>4, <2>2 DEF Below
<1> QED BY <1>3, <1>4

\* Each task leads to some leaf, and to later tasks only.
LEMMA BelowTypes ==
  ASSUME NEW t \in 1..N
  PROVE  Below(t) # {} /\ Below(t) \in SUBSET (t..N) /\ IsFiniteSet(Below(t))
<1> DEFINE Bad == {u \in 1..N : Below(u) = {} \/ ~ (Below(u) \subseteq u..N)}
<1>1. ASSUME Bad # {} PROVE FALSE
  <2>1. PICK u \in Bad : \A k \in Bad : k <= u
    <3>1. Bad \in SUBSET (1..N) /\ N \in Nat
      BY NIs
    <3> HIDE DEF Bad
    <3> QED BY <1>1, <3>1, GreatestOf
  <2>2. u \in 1..N /\ u \in Nat
    BY NIs
  <2>3. CASE Out[u] = {}
    <3>1. Below(u) = {u}
      BY <2>2, <2>3, BelowIs
    <3>2. u \in u..N
      BY <2>2, NIs
    <3> QED BY <2>1, <3>1, <3>2
  <2>4. CASE Out[u] # {}
    <3>1. Below(u) = UNION {Below(b[1]) : b \in Out[u]}
      BY <2>2, <2>4, BelowIs
    <3>2. ASSUME NEW b \in Out[u] PROVE Below(b[1]) # {} /\ Below(b[1]) \subseteq u..N
      <4>1. b[1] \in 2..N /\ b[1] > u
        BY <2>2, BranchIs DEF Processors
      <4>2. b[1] \in 1..N /\ ~ (b[1] <= u) /\ b[1]..N \subseteq u..N
        BY <2>2, <4>1, NIs
      <4>3. b[1] \notin Bad
        BY <2>1, <4>2
      <4> QED BY <4>2, <4>3
    <3>3. PICK b \in Out[u] : TRUE
      BY <2>4
    <3>4. Below(u) # {} /\ Below(u) \subseteq u..N
      BY <3>1, <3>2, <3>3
    <3> QED BY <3>4
  <2> QED BY <2>3, <2>4
<1>2. Below(t) # {} /\ Below(t) \subseteq t..N
  BY <1>1
<1>3. IsFiniteSet(t..N)
  BY NIs, FS_Interval
<1> QED BY <1>2, <1>3, FS_Subset

\* Two tasks with a leaf in common lie on one way, so the parent of the later is
\* not above the earlier.
LEMMA OneWay ==
  ASSUME OnePath, NEW t \in 1..N, NEW u \in 1..N, t < u, Below(t) \cap Below(u) # {}
  PROVE  Wiring.parents[u][1] >= t
<1> DEFINE Bad ==
      {s \in 1..N : \E v \in 1..N : s < v /\ Below(s) \cap Below(v) # {} /\ ~ (Wiring.parents[v][1] >= s)}
<1>1. ASSUME Bad # {} PROVE FALSE
  <2>1. PICK s \in Bad : \A k \in Bad : k <= s
    <3>1. Bad \in SUBSET (1..N) /\ N \in Nat
      BY NIs
    <3> HIDE DEF Bad
    <3> QED BY <1>1, <3>1, GreatestOf
  <2>2. PICK v \in 1..N : s < v /\ Below(s) \cap Below(v) # {} /\ ~ (Wiring.parents[v][1] >= s)
    OBVIOUS
  <2>3. PICK l \in Below(s) : l \in Below(v)
    BY <2>2
  <2>4. s \in 1..N /\ l \in v..N /\ s \in Nat /\ v \in Nat /\ N \in Nat
    BY <2>3, BelowTypes, NIs
  <2>5. Out[s] # {}
    <3> SUFFICES ASSUME Out[s] = {} PROVE FALSE
      OBVIOUS
    <3>1. l = s
      BY <2>3, <2>4, BelowIs
    <3> QED BY <2>2, <2>4, <3>1
  <2>6. PICK b \in Out[s] : l \in Below(b[1])
    BY <2>3, <2>4, <2>5, BelowIs
  <2>7. b[1] \in Processors /\ b[1] > s /\ b[2] \in DOMAIN Wiring.parents[b[1]] /\ Wiring.parents[b[1]][b[2]] = s
    BY <2>4, BranchIs
  <2>8. Wiring.parents[b[1]][1] = s
    BY <2>7 DEF OnePath
  <2>9. b[1] \in 1..N /\ b[1] \in Nat
    BY <2>7, NIs DEF Processors
  <2>10. CASE b[1] = v
    BY <2>2, <2>4, <2>8, <2>10
  <2>11. CASE b[1] < v
    <3>1. b[1] \notin Bad
      BY <2>1, <2>4, <2>7, <2>9
    <3>2. Wiring.parents[v][1] >= b[1]
      BY <2>3, <2>6, <2>9, <2>11, <3>1
    <3>3. v \in Processors
      BY <2>2, <2>4 DEF Processors
    <3>4. Wiring.parents[v][1] \in Nat
      <4>1. 1 \in DOMAIN Wiring.parents[v] /\ v \in DOMAIN Wiring.parents
        BY <3>3, <2>4, WiringIs DEF OnePath
      <4>2. Wiring.parents[v][1] \in 1..(v - 1)
        BY <4>1, WiringIs DEF Ordered
      <4> QED BY <4>2, <2>4
    <3> QED BY <2>2, <2>4, <2>7, <2>9, <3>2, <3>4
  <2>12. CASE v < b[1]
    <3>1. v \notin Bad
      BY <2>1, <2>2, <2>4
    <3>2. Wiring.parents[b[1]][1] >= v
      BY <2>3, <2>6, <2>9, <2>12, <3>1
    <3> QED BY <2>2, <2>4, <2>8, <3>2
  <2> QED BY <2>4, <2>9, <2>10, <2>11, <2>12
<1> QED BY <1>1

\* Different branches of a task lead to different leaves.
LEMMA BranchesApart ==
  ASSUME OnePath, NEW t \in 1..N, NEW b \in Out[t], NEW c \in Out[t], b # c
  PROVE  Below(b[1]) \cap Below(c[1]) = {}
<1>1. /\ b[1] \in Processors /\ b[1] > t /\ b[2] \in DOMAIN Wiring.parents[b[1]]
      /\ Wiring.parents[b[1]][b[2]] = t /\ b = <<b[1], b[2]>>
  BY BranchIs
<1>2. /\ c[1] \in Processors /\ c[1] > t /\ c[2] \in DOMAIN Wiring.parents[c[1]]
      /\ Wiring.parents[c[1]][c[2]] = t /\ c = <<c[1], c[2]>>
  BY BranchIs
<1>3. b[2] = 1 /\ c[2] = 1 /\ Wiring.parents[b[1]][1] = t /\ Wiring.parents[c[1]][1] = t
  BY <1>1, <1>2 DEF OnePath
<1>4. b[1] # c[1]
  BY <1>1, <1>2, <1>3
<1>5. b[1] \in 1..N /\ c[1] \in 1..N /\ t \in Nat /\ b[1] \in Nat /\ c[1] \in Nat
  BY <1>1, <1>2, NIs DEF Processors
<1> SUFFICES ASSUME Below(b[1]) \cap Below(c[1]) # {} PROVE FALSE
  OBVIOUS
<1>6. CASE b[1] < c[1]
  <2>1. Wiring.parents[c[1]][1] >= b[1]
    BY <1>5, <1>6, OneWay
  <2> QED BY <1>1, <1>3, <1>5, <2>1
<1>7. CASE c[1] < b[1]
  <2>1. Wiring.parents[b[1]][1] >= c[1]
    BY <1>5, <1>7, OneWay
  <2> QED BY <1>2, <1>3, <1>5, <2>1
<1> QED BY <1>4, <1>5, <1>6, <1>7

\* The node that a task's output goes to.
Base(n) == IF n \in Processors THEN n ELSE n - N

LEMMA DispatcherIs ==
  ASSUME NEW n \in Dispatchers
  PROVE  /\ n \notin Processors /\ n - N \in 1..N /\ n - N \in Forks /\ Out[n - N] # {}
         /\ n \in Nodes /\ Base(n) = n - N
<1>1. PICK t \in Forks : n = t + N
  BY DEF Dispatchers, DispatcherOf
<1>2. t \in 1..N /\ Cardinality(Out[t]) > 1
  BY DEF Forks
<1>3. n - N = t /\ n \notin 2..N
  BY <1>1, <1>2, NIs
<1>4. Out[t] # {}
  BY <1>2, FS_EmptySet
<1> QED BY <1>1, <1>2, <1>3, <1>4 DEF Base, Processors, Nodes

LEMMA OutNodeIs ==
  ASSUME NEW t \in 1..N
  PROVE  /\ Out[t] = {} => OutNode[t] = 0
         /\ Out[t] # {} => OutNode[t] \in Nodes /\ OutNode[t] # 0
<1>1. OutNode[t] = IF Out[t] = {} THEN 0
                   ELSE IF t \in Forks THEN DispatcherOf(t)
                   ELSE (CHOOSE b \in Out[t] : TRUE)[1]
  BY DEF OutNode
<1>2. ASSUME Out[t] # {}, t \in Forks PROVE OutNode[t] \in Nodes /\ OutNode[t] # 0
  <2>1. OutNode[t] = t + N /\ OutNode[t] \in Dispatchers
    BY <1>1, <1>2 DEF Dispatchers, DispatcherOf
  <2> QED BY <2>1, NIs DEF Nodes
<1>3. ASSUME Out[t] # {}, t \notin Forks PROVE OutNode[t] \in Nodes /\ OutNode[t] # 0
  <2>1. PICK b \in Out[t] : b = CHOOSE c \in Out[t] : TRUE
    BY <1>3
  <2>2. OutNode[t] = b[1] /\ b[1] \in Processors
    BY <1>1, <1>3, <2>1, BranchIs
  <2> QED BY <2>2, NIs DEF Nodes, Processors
<1> QED BY <1>1, <1>2, <1>3

\* depends_on is a list, so a task has finitely many branches.
LEMMA ParentsAreLists ==
  ASSUME NEW t \in 1..N
  PROVE  \E k \in Nat : DOMAIN Wiring.parents[t] = 1..k
<1>1. DOMAIN Flow = 1..N /\ BuildRegistry(Flow).ok /\ Len(Flow[t].deps) \in Nat /\ DOMAIN Flow[t].deps = 1..Len(Flow[t].deps)
  BY FlowAssumption
<1>2. DOMAIN <<>> = 1..0 /\ \A j : DOMAIN <<j>> = 1..1
  OBVIOUS
<1>3. CASE ~NeedsDag(Flow)
  <2>1. Wiring.parents[t] = IF t = 1 THEN <<>> ELSE <<t - 1>>
    BY <1>1, <1>3 DEF Wiring, BuildRegistry, LinearParents
  <2> QED BY <1>2, <2>1
<1>4. CASE NeedsDag(Flow)
  <2>1. Wiring.parents = ResolveParents(Flow)
    BY <1>1, <1>4 DEF Wiring, BuildRegistry
  <2>2. Wiring.parents[t] = IF Flow[t].explicit THEN [k \in DOMAIN Flow[t].deps |-> IndexOf(Flow, Flow[t].deps[k])]
                            ELSE IF Flow[t].io THEN ImplicitParent(Flow, t) ELSE <<>>
    BY <1>1, <2>1 DEF ResolveParents
  <2>3. DOMAIN ImplicitParent(Flow, t) \in {1..0, 1..1}
    BY <1>2 DEF ImplicitParent
  <2>4. CASE Flow[t].explicit
    BY <1>1, <2>2, <2>4
  <2>5. CASE ~Flow[t].explicit
    BY <1>2, <2>2, <2>3, <2>5
  <2> QED BY <2>4, <2>5
<1> QED BY <1>3, <1>4

LEMMA BranchesAreFinite ==
  ASSUME NEW t \in 1..N
  PROVE  IsFiniteSet(Out[t])
<1> DEFINE ends == [c \in 1..N |-> {<<c, k>> : k \in {j \in DOMAIN Wiring.parents[c] : Wiring.parents[c][j] = t}}]
<1>1. IsFiniteSet(1..N)
  BY NIs, FS_Interval
<1>2. ASSUME NEW c \in 1..N PROVE IsFiniteSet(ends[c])
  <2>1. PICK n \in Nat : DOMAIN Wiring.parents[c] = 1..n
    BY ParentsAreLists
  <2> DEFINE K == {j \in DOMAIN Wiring.parents[c] : Wiring.parents[c][j] = t}
  <2>2. K \in SUBSET (1..n) /\ IsFiniteSet(1..n)
    BY <2>1, FS_Interval
  <2>3. IsFiniteSet(K)
    BY <2>2, FS_Subset
  <2> DEFINE pair == [k \in K |-> <<c, k>>]
  <2>4. ends[c] = {<<c, k>> : k \in K}
    OBVIOUS
  <2>5. pair \in Surjection(K, ends[c])
    <3>1. pair \in [K -> ends[c]] /\ \A x \in ends[c] : \E k \in K : pair[k] = x
      BY <2>4
    <3> HIDE DEF K, pair, ends
    <3> QED BY <3>1 DEF Surjection
  <2> HIDE DEF K, pair, ends
  <2> QED BY <2>3, <2>5, FS_Surjection
<1> DEFINE sets == {ends[c] : c \in 1..N}
<1>3. ends \in Surjection(1..N, sets)
  <2>1. ends \in [1..N -> sets] /\ \A x \in sets : \E c \in 1..N : ends[c] = x
    OBVIOUS
  <2> HIDE DEF ends, sets
  <2> QED BY <2>1 DEF Surjection
<1>4. \A x \in sets : IsFiniteSet(x)
  <2> HIDE DEF ends
  <2> QED BY <1>2
<1>5. IsFiniteSet(sets)
  <2> HIDE DEF ends, sets
  <2> QED BY <1>1, <1>3, FS_Surjection
<1>6. IsFiniteSet(UNION sets)
  <2> HIDE DEF sets
  <2> QED BY <1>4, <1>5, FS_UNION
<1>7. Out[t] \subseteq UNION sets
  <2> SUFFICES ASSUME NEW b \in Out[t] PROVE b \in UNION sets
    OBVIOUS
  <2>1. /\ b[1] \in Processors /\ b[2] \in DOMAIN Wiring.parents[b[1]]
        /\ Wiring.parents[b[1]][b[2]] = t /\ b = <<b[1], b[2]>>
    BY BranchIs
  <2>2. b[1] \in 1..N
    BY <2>1, NIs DEF Processors
  <2>3. b \in ends[b[1]] /\ ends[b[1]] \in sets
    BY <2>1, <2>2
  <2> HIDE DEF sets
  <2> QED BY <2>3
<1> HIDE DEF sets
<1> QED BY <1>6, <1>7, FS_Subset

\* On the way out of a task no leaf is lost.
LEMMA OutNodeBelow ==
  ASSUME NEW t \in 1..N, Out[t] # {}
  PROVE  Below(Base(OutNode[t])) = Below(t)
<1>1. CASE t \in Forks
  <2>1. OutNode[t] = DispatcherOf(t) /\ DispatcherOf(t) \in Dispatchers /\ DispatcherOf(t) = t + N
    BY <1>1 DEF OutNode, Dispatchers, DispatcherOf
  <2>2. Base(OutNode[t]) = t
    BY <2>1, DispatcherIs, NIs
  <2> QED BY <2>2
<1>2. CASE t \notin Forks
  <2>1. PICK b \in Out[t] : b = CHOOSE c \in Out[t] : TRUE
    OBVIOUS
  <2>2. OutNode[t] = b[1] /\ b[1] \in Processors
    BY <1>2, <2>1, BranchIs DEF OutNode
  <2>3. Base(OutNode[t]) = b[1]
    BY <2>2 DEF Base
  <2>4. Cardinality(Out[t]) = 1 /\ IsFiniteSet(Out[t])
    <3>1. ~ (Cardinality(Out[t]) > 1)
      BY <1>2 DEF Forks
    <3>2. IsFiniteSet(Out[t]) /\ Cardinality(Out[t]) \in Nat /\ Cardinality(Out[t]) # 0
      BY BranchesAreFinite, FS_CardinalityType, FS_EmptySet
    <3> QED BY <3>1, <3>2
  <2>5. Out[t] = {b}
    BY <2>1, <2>4, FS_Singleton
  <2>6. Below(t) = UNION {Below(c[1]) : c \in {b}}
    BY <2>5, BelowIs
  <2>7. \A x : x \in UNION {Below(c[1]) : c \in {b}} <=> x \in Below(b[1])
    OBVIOUS
  <2> QED BY <2>3, <2>6, <2>7
<1> QED BY <1>1, <1>2

\* A dispatcher takes the branches in some order.
LEMMA NextBranchIs ==
  ASSUME NEW n \in Dispatchers, todo[n] \subseteq Out[n - N], todo[n] # {}
  PROVE  NextBranch(n) \in todo[n]
<1>1. \A b \in todo[n] : b[1] \in Nat /\ b[2] \in Nat
  <2> SUFFICES ASSUME NEW b \in todo[n] PROVE b[1] \in Nat /\ b[2] \in Nat
    OBVIOUS
  <2>1. n - N \in 1..N /\ b \in Out[n - N]
    BY DispatcherIs
  <2>2. b[1] \in Processors /\ b[2] \in DOMAIN Wiring.parents[b[1]]
    BY <2>1, BranchIs
  <2>3. b[1] \in 1..N /\ b[1] \in Nat
    BY <2>2, NIs DEF Processors
  <2>4. PICK k \in Nat : DOMAIN Wiring.parents[b[1]] = 1..k
    BY <2>3, ParentsAreLists
  <2> QED BY <2>2, <2>3, <2>4
<1> DEFINE Firsts == {b[1] : b \in todo[n]}
<1>2. Firsts \in SUBSET Nat /\ Firsts # {}
  BY <1>1
<1>3. PICK m \in Firsts : \A k \in Firsts : m <= k
  <2> HIDE DEF Firsts
  <2> QED BY <1>2, LeastOf
<1> DEFINE Seconds == {b[2] : b \in {c \in todo[n] : c[1] = m}}
<1>4. Seconds \in SUBSET Nat /\ Seconds # {}
  BY <1>1
<1>5. PICK l \in Seconds : \A k \in Seconds : l <= k
  <2> HIDE DEF Seconds
  <2> QED BY <1>4, LeastOf
<1>6. PICK x \in todo[n] : x[1] = m /\ x[2] = l
  OBVIOUS
<1>7. \A y \in todo[n] : x[1] < y[1] \/ (x[1] = y[1] /\ x[2] <= y[2])
  <2> SUFFICES ASSUME NEW y \in todo[n] PROVE x[1] < y[1] \/ (x[1] = y[1] /\ x[2] <= y[2])
    OBVIOUS
  <2>1. y[1] \in Firsts /\ (y[1] = m => y[2] \in Seconds)
    OBVIOUS
  <2>2. m <= y[1] /\ (y[1] = m => l <= y[2])
    BY <1>3, <1>5, <2>1
  <2> HIDE DEF Firsts, Seconds
  <2> QED BY <1>1, <1>6, <2>2
<1> QED BY <1>7 DEF NextBranch

-----------------------------------------------------------------------------
(* Types. *)

Event == [d : Deliveries, failed : BOOLEAN]
Channel == {<<>>} \cup {<<e>> : e \in Event}
Slot ==
  {Free} \cup
  {r \in [st : {"work", "send", "delay", "fail"}, d : Deliveries, tries : 1..MaxAttempts] :
     r.st = "delay" => r.tries < MaxAttempts}

\* A handler that sends has a next task, and a dispatcher owes its own branches.
PTypes ==
  /\ sourceUp \in BOOLEAN /\ cancelled \in BOOLEAN
  /\ delivery \in [Deliveries -> {"none", "sending", "waiting", "acked", "nacked", "dropped"}]
  /\ remaining \in [Deliveries -> 0..N]
  /\ outcome \in [Deliveries -> {"none", "ok", "err"}]
  /\ alive \in [Nodes -> {"init", "running", "closing", "done"}]
  /\ queue \in [Nodes -> Channel]
  /\ slots \in [Processors -> [Slots -> Slot]]
  /\ \A n \in Processors : \A s \in Slots : slots[n][s].st = "send" => n \notin Leaves
  /\ sending \in [Dispatchers -> Event \cup {NoEvent}]
  /\ DOMAIN todo = Dispatchers
  /\ \A n \in Dispatchers : todo[n] \subseteq Out[n - N]
  /\ \A n \in Dispatchers : sending[n] = NoEvent <=> todo[n] = {}
  /\ lost \subseteq Deliveries

\* A channel holds one event or none.
LEMMA OneEvent ==
  ASSUME NEW e
  PROVE  /\ Len(<<e>>) = 1 /\ Head(<<e>>) = e /\ Tail(<<e>>) = <<>> /\ <<e>> # <<>>
         /\ Append(<<>>, e) = <<e>>
         /\ EventsIn(<<e>>) = {e.d} /\ EventsIn(<<>>) = {} /\ Len(<<>>) = 0
<1>1. Len(<<e>>) = 1 /\ Head(<<e>>) = e /\ <<e>> # <<>> /\ Append(<<>>, e) = <<e>> /\ Len(<<>>) = 0
  OBVIOUS
<1>2. Tail(<<e>>) = <<>>
  OBVIOUS
<1>3. EventsIn(<<e>>) = {e.d} /\ EventsIn(<<>>) = {}
  BY DEF EventsIn
<1> QED BY <1>1, <1>2, <1>3

LEMMA ChannelIs ==
  ASSUME NEW q \in Channel
  PROVE  /\ Len(q) <= 1 /\ (Len(q) < Capacity <=> q = <<>>)
         /\ q # <<>> => Head(q) \in Event /\ Tail(q) = <<>> /\ EventsIn(q) = {Head(q).d}
         /\ q = <<>> => EventsIn(q) = {}
         /\ EventsIn(q) \subseteq Deliveries
         /\ \A e \in Event : Append(<<>>, e) \in Channel /\ EventsIn(Append(<<>>, e)) = {e.d}
<1>1. \A e \in Event : Append(<<>>, e) \in Channel /\ EventsIn(Append(<<>>, e)) = {e.d}
  BY OneEvent DEF Channel
<1>2. CASE q = <<>>
  <2>1. Len(q) = 0 /\ EventsIn(q) = {}
    BY <1>2, OneEvent
  <2> QED BY <1>1, <1>2, <2>1 DEF Capacity
<1>3. CASE q # <<>>
  <2>1. PICK e \in Event : q = <<e>>
    BY <1>3 DEF Channel
  <2>2. e.d \in Deliveries
    BY DEF Event
  <2>3. Head(q) = e /\ Tail(q) = <<>> /\ EventsIn(q) = {e.d} /\ Len(q) = 1
    BY <2>1, OneEvent
  <2> QED BY <1>1, <1>3, <2>2, <2>3 DEF Capacity
<1> QED BY <1>2, <1>3

LEMMA InitTypes == Init => PTypes
<1> SUFFICES ASSUME Init PROVE PTypes
  OBVIOUS
<1>1. queue \in [Nodes -> Channel]
  BY DEF Init, Channel
<1>2. slots \in [Processors -> [Slots -> Slot]] /\ \A n \in Processors : \A s \in Slots : slots[n][s].st = "free"
  BY DEF Init, Slot, Free
<1>3. alive \in [Nodes -> {"init", "running", "closing", "done"}]
  BY DEF Init
<1>4. remaining \in [Deliveries -> 0..N]
  BY NIs DEF Init
<1> QED BY <1>1, <1>2, <1>3, <1>4 DEF Init, PTypes

\* What a channel keeps after a step.
Appended(out, e) == queue' = [queue EXCEPT ![out] = Append(@, e)] /\ queue[out] = <<>> /\ e \in Event

LEMMA AppendedTypes ==
  ASSUME PTypes, NEW out, NEW e, Appended(out, e)
  PROVE  /\ queue' \in [Nodes -> Channel]
         /\ out \in Nodes => EventsIn(queue'[out]) = {e.d}
         /\ \A n \in Nodes \ {out} : queue'[n] = queue[n]
<1>1. Append(<<>>, e) \in Channel /\ EventsIn(Append(<<>>, e)) = {e.d}
  BY ChannelIs, OneEvent DEF Appended, Channel
<1>2. queue \in [Nodes -> Channel] /\ queue' = [queue EXCEPT ![out] = Append(<<>>, e)]
  BY DEF Appended, PTypes
<1> QED BY <1>1, <1>2

LEMMA SpaceIs ==
  ASSUME PTypes, NEW n \in Nodes, Space(n)
  PROVE  queue[n] = <<>>
<1>1. queue[n] \in Channel
  BY DEF PTypes
<1> QED BY <1>1, ChannelIs DEF Space

\* The head of a channel leaves it.
LEMMA HeadTypes ==
  ASSUME PTypes, NEW n \in Nodes, queue[n] # <<>>
  PROVE  /\ Head(queue[n]) \in Event /\ Head(queue[n]).d \in Deliveries
         /\ Tail(queue[n]) = <<>> /\ EventsIn(queue[n]) = {Head(queue[n]).d}
<1>1. queue[n] \in Channel
  BY DEF PTypes
<1> QED BY <1>1, ChannelIs DEF Event

LEMMA EmptiedTypes ==
  ASSUME PTypes, NEW n, queue' = [queue EXCEPT ![n] = <<>>]
  PROVE  /\ queue' \in [Nodes -> Channel]
         /\ n \in Nodes => queue'[n] = <<>>
         /\ \A m \in Nodes \ {n} : queue'[m] = queue[m]
<1>1. queue \in [Nodes -> Channel] /\ <<>> \in Channel
  BY DEF PTypes, Channel
<1> QED BY <1>1

LEMMA LostTypes ==
  ASSUME PTypes, NEW n \in Nodes
  PROVE  EventsIn(queue[n]) \subseteq Deliveries
<1>1. queue[n] \in Channel
  BY DEF PTypes
<1> QED BY <1>1, ChannelIs

LEMMA PullTypes ==
  ASSUME PTypes, NEW d \in Deliveries, Pull(d)
  PROVE  PTypes'
<1>1. Wiring.leaves[Source] \in 0..N
  <2>1. Source \in 1..N /\ Wiring.leaves[Source] = Cardinality(Below(Source))
    BY WiringIs, SourceBranches
  <2>2. Below(Source) \in SUBSET (1..N)
    BY <2>1, BelowTypes DEF Source
  <2>3. IsFiniteSet(1..N) /\ Cardinality(1..N) = N
    BY NIs, FS_Interval
  <2>4. Cardinality(Below(Source)) <= N /\ IsFiniteSet(Below(Source))
    BY <2>2, <2>3, FS_Subset
  <2>5. Cardinality(Below(Source)) \in Nat
    BY <2>4, FS_CardinalityType
  <2> QED BY <2>1, <2>4, <2>5, NIs
<1>2. remaining' \in [Deliveries -> 0..N]
  BY <1>1 DEF Pull, PTypes
<1>3. delivery' \in [Deliveries -> {"none", "sending", "waiting", "acked", "nacked", "dropped"}]
  BY DEF Pull, PTypes
<1> QED BY <1>2, <1>3 DEF Pull, PTypes, dispVars

LEMMA SourceSendTypes ==
  ASSUME PTypes, NEW d \in Deliveries, SourceSend(d)
  PROVE  PTypes'
<1>1. delivery' \in [Deliveries -> {"none", "sending", "waiting", "acked", "nacked", "dropped"}]
  BY DEF SourceSend, PTypes
<1>2. queue' \in [Nodes -> Channel]
  <2>1. CASE UNCHANGED queue
    BY <2>1 DEF PTypes
  <2>2. CASE ~ UNCHANGED queue
    <3> DEFINE e == [d |-> d, failed |-> FALSE]
    <3>1. /\ Space(OutNode[Source])
          /\ queue' = [queue EXCEPT ![OutNode[Source]] = Append(@, e)]
      BY <2>2 DEF SourceSend
    <3>2. OutNode[Source] \in Nodes /\ e \in Event
      BY SourceBranches, OutNodeIs DEF Event
    <3>3. Appended(OutNode[Source], e)
      <4> HIDE DEF e
      <4> QED BY <3>1, <3>2, SpaceIs DEF Appended
    <3> HIDE DEF e
    <3> QED BY <3>3, AppendedTypes
  <2> QED BY <2>1, <2>2
<1> QED BY <1>1, <1>2 DEF SourceSend, PTypes, dispVars, countVars

LEMMA AnswerTypes ==
  ASSUME PTypes, NEW d \in Deliveries, NEW reply \in {"acked", "nacked"}, Answer(d, reply)
  PROVE  PTypes'
<1>1. delivery' \in [Deliveries -> {"none", "sending", "waiting", "acked", "nacked", "dropped"}]
  BY DEF Answer, PTypes
<1> QED BY <1>1 DEF Answer, PTypes, dispVars, countVars

LEMMA CancelTypes ==
  ASSUME PTypes, Cancel \/ SourceStops
  PROVE  PTypes'
<1>1. CASE Cancel
  BY <1>1 DEF Cancel, PTypes, sourceVars, countVars, dispVars
<1>2. CASE SourceStops
  <2>1. delivery' \in [Deliveries -> {"none", "sending", "waiting", "acked", "nacked", "dropped"}]
    BY <1>2 DEF SourceStops, PTypes
  <2> QED BY <1>2, <2>1 DEF SourceStops, PTypes, countVars, dispVars
<1> QED BY <1>1, <1>2

LEMMA DispatchTakeTypes ==
  ASSUME PTypes, NEW n \in Dispatchers, DispatchTake(n)
  PROVE  PTypes'
<1> DEFINE branches == {b \in Out[n - N] : Open(b[1])}
<1>1. n \in Nodes /\ queue[n] # <<>>
  BY DispatcherIs DEF DispatchTake
<1>2. Head(queue[n]) \in Event /\ Tail(queue[n]) = <<>> /\ EventsIn(queue[n]) \subseteq Deliveries /\ Head(queue[n]).d \in Deliveries
  BY <1>1, HeadTypes, LostTypes
<1>3. queue' = [queue EXCEPT ![n] = <<>>]
  BY <1>2 DEF DispatchTake
<1>4. queue' \in [Nodes -> Channel]
  BY <1>3, EmptiedTypes
<1>5. alive' \in [Nodes -> {"init", "running", "closing", "done"}] /\ lost' \subseteq Deliveries
  BY <1>2 DEF DispatchTake, PTypes
<1>6. NoEvent \notin Event
  BY DEF NoEvent, Event, Deliveries
<1>7. sending' \in [Dispatchers -> Event \cup {NoEvent}] /\ DOMAIN todo' = Dispatchers
  BY <1>2 DEF DispatchTake, PTypes, dispVars
<1>8. ASSUME NEW m \in Dispatchers
      PROVE  todo'[m] \subseteq Out[m - N] /\ (sending'[m] = NoEvent <=> todo'[m] = {})
  <2>1. CASE branches = {}
    BY <2>1 DEF DispatchTake, PTypes, dispVars
  <2>2. CASE branches # {}
    <3>1. sending' = [sending EXCEPT ![n] = Head(queue[n])] /\ todo' = [todo EXCEPT ![n] = branches]
      BY <2>2 DEF DispatchTake
    <3>2. CASE m = n
      <4>1. sending'[m] = Head(queue[n]) /\ todo'[m] = branches
        BY <3>1, <3>2 DEF PTypes
      <4> QED BY <1>2, <1>6, <2>2, <3>2, <4>1
    <3>3. CASE m # n
      BY <3>1, <3>3 DEF PTypes
    <3> QED BY <3>2, <3>3
  <2> QED BY <2>1, <2>2
<1>9. UNCHANGED <<sourceVars, countVars, slots, cancelled>>
  BY DEF DispatchTake
<1> QED BY <1>4, <1>5, <1>7, <1>8, <1>9 DEF PTypes, sourceVars, countVars

LEMMA DispatchSendTypes ==
  ASSUME PTypes, NEW n \in Dispatchers, DispatchSend(n)
  PROVE  PTypes'
<1> DEFINE b == NextBranch(n)
           rest == todo[n] \ {b}
<1>1. todo[n] # {} /\ sending[n] \in Event /\ sending[n] # NoEvent
  BY DEF DispatchSend, PTypes
<1>2. queue' \in [Nodes -> Channel]
  <2>1. CASE UNCHANGED queue
    BY <2>1 DEF PTypes
  <2>2. CASE ~ UNCHANGED queue
    <3>1. Space(b[1]) /\ queue' = [queue EXCEPT ![b[1]] = Append(@, sending[n])]
      BY <2>2 DEF DispatchSend
    <3>2. b[1] \in Nodes
      <4> SUFFICES ASSUME b[1] \notin Nodes PROVE FALSE
        OBVIOUS
      <4>1. queue' = queue
        BY <3>1 DEF PTypes
      <4> QED BY <2>2, <4>1
    <3>3. Appended(b[1], sending[n])
      <4> HIDE DEF b
      <4> QED BY <1>1, <3>1, <3>2, SpaceIs DEF Appended
    <3> HIDE DEF b
    <3> QED BY <3>3, AppendedTypes
  <2> QED BY <2>1, <2>2
<1>3. /\ todo' = [todo EXCEPT ![n] = rest]
      /\ sending' = [sending EXCEPT ![n] = IF rest = {} THEN NoEvent ELSE @]
      /\ lost' = lost \/ lost' = lost \cup {sending[n].d}
      /\ UNCHANGED <<sourceVars, countVars, alive, slots, cancelled>>
  BY DEF DispatchSend
<1>4. sending' \in [Dispatchers -> Event \cup {NoEvent}] /\ DOMAIN todo' = Dispatchers
  BY <1>3 DEF PTypes
<1>5. ASSUME NEW m \in Dispatchers
      PROVE  todo'[m] \subseteq Out[m - N] /\ (sending'[m] = NoEvent <=> todo'[m] = {})
  <2>1. CASE m = n
    <3>1. todo'[m] = rest /\ sending'[m] = IF rest = {} THEN NoEvent ELSE sending[n]
      BY <1>3, <2>1 DEF PTypes
    <3>2. todo[n] \subseteq Out[n - N]
      BY DEF PTypes
    <3> QED BY <1>1, <2>1, <3>1, <3>2
  <2>2. CASE m # n
    BY <1>3, <2>2 DEF PTypes
  <2> QED BY <2>1, <2>2
<1>6. lost' \subseteq Deliveries
  BY <1>1, <1>3 DEF PTypes, Event
<1> HIDE DEF b, rest
<1> QED BY <1>2, <1>3, <1>4, <1>5, <1>6 DEF PTypes, sourceVars, countVars

\* What one slot of a processor becomes.
Becomes(n, s, r) ==
  slots' = [slots EXCEPT ![n][s] = r] /\ r \in Slot /\ (r.st = "send" => n \notin Leaves)

LEMMA BecomesTypes ==
  ASSUME PTypes, NEW n \in Processors, NEW s \in Slots, NEW r, Becomes(n, s, r)
  PROVE  /\ slots' \in [Processors -> [Slots -> Slot]]
         /\ \A m \in Processors : \A u \in Slots : slots'[m][u].st = "send" => m \notin Leaves
         /\ slots'[n][s] = r
         /\ \A m \in Processors : \A u \in Slots : m # n \/ u # s => slots'[m][u] = slots[m][u]
<1>1. slots \in [Processors -> [Slots -> Slot]]
  BY DEF PTypes
<1>2. slots' \in [Processors -> [Slots -> Slot]]
  BY <1>1 DEF Becomes
<1>3. slots'[n][s] = r
  BY <1>1 DEF Becomes
<1>4. \A m \in Processors : \A u \in Slots : m # n \/ u # s => slots'[m][u] = slots[m][u]
  BY <1>1 DEF Becomes
<1>5. ASSUME NEW m \in Processors, NEW u \in Slots, slots'[m][u].st = "send" PROVE m \notin Leaves
  <2>1. CASE m = n /\ u = s
    BY <1>3, <1>5, <2>1 DEF Becomes
  <2>2. CASE m # n \/ u # s
    BY <1>4, <1>5, <2>2 DEF PTypes
  <2> QED BY <2>1, <2>2
<1> QED BY <1>2, <1>3, <1>4, <1>5

LEMMA FreeIs == Free \in Slot /\ Free.st = "free" /\ Free.d = 0
BY DEF Free, Slot

\* A slot at work is an event's.
LEMMA BusyIs ==
  ASSUME PTypes, NEW n \in Processors, NEW s \in Slots, slots[n][s].st # "free"
  PROVE  /\ slots[n][s] \in [st : {"work", "send", "delay", "fail"}, d : Deliveries, tries : 1..MaxAttempts]
         /\ slots[n][s].d \in Deliveries
         /\ slots[n][s].st = "delay" => slots[n][s].tries < MaxAttempts
<1>1. slots[n][s] \in Slot
  BY DEF PTypes
<1> QED BY <1>1, FreeIs DEF Slot

LEMMA ProcessorIs ==
  ASSUME NEW n \in Processors
  PROVE  n \in Nodes /\ n \in 1..N /\ Base(n) = n /\ (n \notin Leaves => Out[n] # {} /\ OutNode[n] \in Nodes /\ OutNode[n] # 0)
                     /\ (n \in Leaves => Out[n] = {} /\ OutNode[n] = 0)
<1>1. n \in 1..N
  BY NIs DEF Processors
<1> QED BY <1>1, OutNodeIs DEF Nodes, Base, Leaves

LEMMA AliveTypes ==
  ASSUME PTypes, NEW n \in Nodes,
         DispatchEnd(n) \/ Start(n) \/ InitFails(n) \/ Close(n) \/ Finish(n)
  PROVE  PTypes'
<1>1. alive' \in [Nodes -> {"init", "running", "closing", "done"}]
  BY DEF PTypes, DispatchEnd, Start, InitFails, Close, Finish
<1>2. UNCHANGED <<sourceVars, countVars, dispVars, slots, cancelled>>
  BY DEF DispatchEnd, Start, InitFails, Close, Finish
<1>3. queue' \in [Nodes -> Channel]
  <2>1. UNCHANGED queue \/ queue' = [queue EXCEPT ![n] = <<>>]
    BY DEF DispatchEnd, Start, InitFails, Close, Finish
  <2>2. CASE UNCHANGED queue
    BY <2>2 DEF PTypes
  <2> QED BY <2>1, <2>2, EmptiedTypes
<1>4. lost' \subseteq Deliveries
  BY LostTypes DEF PTypes, DispatchEnd, Start, InitFails, Close, Finish
<1> QED BY <1>1, <1>2, <1>3, <1>4 DEF PTypes, sourceVars, countVars, dispVars

LEMMA TakeTypes ==
  ASSUME PTypes, NEW n \in Processors, NEW s \in Slots, Take(n, s)
  PROVE  /\ PTypes'
         /\ queue' = [queue EXCEPT ![n] = <<>>]
         /\ \E r : Becomes(n, s, r) /\ r.d = Head(queue[n]).d
<1> DEFINE r == [st |-> IF Head(queue[n]).failed /\ n \notin HandlesFailed THEN "fail" ELSE "work",
                 d |-> Head(queue[n]).d, tries |-> 1]
<1>1. n \in Nodes /\ queue[n] # <<>>
  BY ProcessorIs DEF Take
<1>2. Head(queue[n]).d \in Deliveries /\ Tail(queue[n]) = <<>>
  BY <1>1, HeadTypes
<1>3. r \in Slot /\ r.st # "send"
  BY <1>2, BoundsAssumption DEF Slot
<1>4. slots' = [slots EXCEPT ![n][s] = r]
  BY DEF Take
<1>5. Becomes(n, s, r)
  BY <1>3, <1>4 DEF Becomes
<1>6. queue' = [queue EXCEPT ![n] = <<>>]
  BY <1>2 DEF Take
<1>7. queue' \in [Nodes -> Channel]
  BY <1>6, EmptiedTypes
<1>8. r.d = Head(queue[n]).d
  OBVIOUS
<1>9. UNCHANGED <<sourceVars, countVars, dispVars, alive, cancelled, lost>>
  BY DEF Take
<1> HIDE DEF r
<1>10. PTypes'
  BY <1>5, <1>7, <1>9, BecomesTypes DEF PTypes, sourceVars, countVars, dispVars
<1> QED BY <1>5, <1>6, <1>8, <1>10

\* The count of signals.
LEMMA SignalTypes ==
  ASSUME PTypes, NEW d \in Deliveries, NEW v \in {"ok", "err"}, Signal(d, v)
  PROVE  remaining' \in [Deliveries -> 0..N] /\ outcome' \in [Deliveries -> {"none", "ok", "err"}]
<1>1. remaining[d] \in 0..N /\ N \in Nat
  BY NIs DEF PTypes
<1>2. (IF remaining[d] = 0 THEN 0 ELSE remaining[d] - 1) \in 0..N
  BY <1>1
<1> QED BY <1>2 DEF Signal, PTypes

LEMMA HandledTypes ==
  ASSUME PTypes, NEW n \in Processors, NEW s \in Slots, Handled(n, s)
  PROVE  /\ PTypes'
         /\ slots[n][s].d \in Deliveries
         /\ n \in Leaves => Becomes(n, s, Free)
         /\ n \notin Leaves => \E r : Becomes(n, s, r) /\ r.d = slots[n][s].d
<1>1. slots[n][s].st = "work"
  BY DEF Handled
<1>2. /\ slots[n][s] \in [st : {"work", "send", "delay", "fail"}, d : Deliveries, tries : 1..MaxAttempts]
      /\ slots[n][s].d \in Deliveries
  BY <1>1, BusyIs
<1>3. UNCHANGED <<sourceVars, dispVars, alive, queue, cancelled, lost>>
  BY DEF Handled
<1>4. CASE n \in Leaves
  <2>1. Becomes(n, s, Free)
    BY <1>4, FreeIs DEF Handled, Becomes
  <2>2. remaining' \in [Deliveries -> 0..N] /\ outcome' \in [Deliveries -> {"none", "ok", "err"}]
    BY <1>2, <1>4, SignalTypes DEF Handled
  <2> QED BY <1>2, <1>3, <1>4, <2>1, <2>2, BecomesTypes DEF PTypes, sourceVars, dispVars
<1>5. CASE n \notin Leaves
  <2> DEFINE r == [slots[n][s] EXCEPT !.st = "send"]
  <2>1. r \in Slot /\ r.d = slots[n][s].d
    BY <1>2 DEF Slot
  <2>2. slots' = [slots EXCEPT ![n][s].st = "send"]
    BY <1>5 DEF Handled
  <2>3. slots' = [slots EXCEPT ![n][s] = r]
    BY <2>2
  <2>4. Becomes(n, s, r)
    BY <1>5, <2>1, <2>3 DEF Becomes
  <2>5. UNCHANGED countVars
    BY <1>5 DEF Handled
  <2> HIDE DEF r
  <2>6. PTypes'
    BY <1>3, <2>4, <2>5, BecomesTypes DEF PTypes, sourceVars, dispVars, countVars
  <2> QED BY <1>2, <1>5, <2>1, <2>4, <2>6
<1> QED BY <1>4, <1>5

LEMMA SendTypes ==
  ASSUME PTypes, NEW n \in Processors, NEW s \in Slots, Send(n, s)
  PROVE  /\ PTypes'
         /\ slots[n][s].d \in Deliveries /\ n \notin Leaves
         /\ Becomes(n, s, Free)
         /\ Appended(OutNode[n], [d |-> slots[n][s].d, failed |-> FALSE])
<1> DEFINE e == [d |-> slots[n][s].d, failed |-> FALSE]
<1>1. slots[n][s].st = "send"
  BY DEF Send
<1>2. slots[n][s].d \in Deliveries /\ n \notin Leaves
  BY <1>1, BusyIs DEF PTypes
<1>3. Becomes(n, s, Free)
  BY FreeIs DEF Send, Becomes
<1>4. e \in Event /\ OutNode[n] \in Nodes
  BY <1>2, ProcessorIs DEF Event
<1>5. Space(OutNode[n]) /\ queue' = [queue EXCEPT ![OutNode[n]] = Append(@, e)]
  BY DEF Send
<1>6. Appended(OutNode[n], e)
  <2> HIDE DEF e
  <2> QED BY <1>4, <1>5, SpaceIs DEF Appended
<1>7. queue' \in [Nodes -> Channel]
  <2> HIDE DEF e
  <2> QED BY <1>6, AppendedTypes
<1>8. UNCHANGED <<sourceVars, countVars, dispVars, alive, cancelled, lost>>
  BY DEF Send
<1>9. PTypes'
  BY <1>3, <1>7, <1>8, BecomesTypes DEF PTypes, sourceVars, countVars, dispVars
<1> QED BY <1>2, <1>3, <1>6, <1>9

LEMMA HandleFailsTypes ==
  ASSUME PTypes, NEW n \in Processors, NEW s \in Slots, HandleFails(n, s) \/ Retry(n, s)
  PROVE  PTypes' /\ \E r : Becomes(n, s, r) /\ r.d = slots[n][s].d
<1>1. slots[n][s].st \in {"work", "send", "delay"}
  BY DEF HandleFails, Retry
<1>2. /\ slots[n][s] \in [st : {"work", "send", "delay", "fail"}, d : Deliveries, tries : 1..MaxAttempts]
      /\ slots[n][s].st = "delay" => slots[n][s].tries < MaxAttempts
  BY <1>1, BusyIs
<1>3. UNCHANGED <<sourceVars, countVars, dispVars, alive, queue, cancelled, lost>>
  BY DEF HandleFails, Retry
<1>4. \E r : Becomes(n, s, r) /\ r.d = slots[n][s].d
  <2>1. CASE slots' = [slots EXCEPT ![n][s].st = "fail"]
    <3> DEFINE r == [slots[n][s] EXCEPT !.st = "fail"]
    <3>1. r \in Slot /\ r.st # "send" /\ r.d = slots[n][s].d
      BY <1>2 DEF Slot
    <3>2. slots' = [slots EXCEPT ![n][s] = r]
      BY <2>1
    <3> HIDE DEF r
    <3> QED BY <3>1, <3>2 DEF Becomes
  <2>2. CASE slots[n][s].tries < MaxAttempts /\ slots' = [slots EXCEPT ![n][s].st = "delay"]
    <3> DEFINE r == [slots[n][s] EXCEPT !.st = "delay"]
    <3>1. r \in Slot /\ r.st # "send" /\ r.d = slots[n][s].d
      BY <1>2, <2>2 DEF Slot
    <3>2. slots' = [slots EXCEPT ![n][s] = r]
      BY <2>2
    <3> HIDE DEF r
    <3> QED BY <3>1, <3>2 DEF Becomes
  <2>3. CASE Retry(n, s)
    <3> DEFINE r == IF cancelled THEN [slots[n][s] EXCEPT !.st = "fail"]
                    ELSE [slots[n][s] EXCEPT !.st = "work", !.tries = @ + 1]
    <3>1. slots[n][s].st = "delay" /\ slots' = [slots EXCEPT ![n][s] = r]
      <4>1. CASE cancelled
        BY <2>3, <4>1 DEF Retry
      <4>2. CASE ~cancelled
        BY <2>3, <4>2 DEF Retry
      <4> QED BY <4>1, <4>2
    <3>2. slots[n][s].tries + 1 \in 1..MaxAttempts
      BY <1>2, <3>1, BoundsAssumption
    <3>3. r \in Slot /\ r.st # "send" /\ r.d = slots[n][s].d
      BY <1>2, <3>2 DEF Slot
    <3> HIDE DEF r
    <3> QED BY <3>1, <3>3 DEF Becomes
  <2> QED BY <2>1, <2>2, <2>3 DEF HandleFails
<1>5. PTypes'
  <2>1. PICK r : Becomes(n, s, r)
    BY <1>4
  <2> QED BY <1>3, <2>1, BecomesTypes DEF PTypes, sourceVars, countVars, dispVars
<1> QED BY <1>4, <1>5

LEMMA ForwardFailureTypes ==
  ASSUME PTypes, NEW n \in Processors, NEW s \in Slots, ForwardFailure(n, s)
  PROVE  /\ PTypes'
         /\ slots[n][s].d \in Deliveries
         /\ Becomes(n, s, Free)
         /\ \/ /\ n \notin Leaves /\ UNCHANGED countVars
               /\ Appended(OutNode[n], [d |-> slots[n][s].d, failed |-> TRUE])
            \/ UNCHANGED queue /\ Signal(slots[n][s].d, "err")
<1> DEFINE e == [d |-> slots[n][s].d, failed |-> TRUE]
<1>1. slots[n][s].st = "fail"
  BY DEF ForwardFailure
<1>2. slots[n][s].d \in Deliveries
  BY <1>1, BusyIs
<1>3. Becomes(n, s, Free)
  BY FreeIs DEF ForwardFailure, Becomes
<1>4. UNCHANGED <<sourceVars, dispVars, alive, cancelled, lost>>
  BY DEF ForwardFailure
<1>5. CASE OutNode[n] # 0 /\ Open(OutNode[n])
  <2>1. Space(OutNode[n]) /\ queue' = [queue EXCEPT ![OutNode[n]] = Append(@, e)] /\ UNCHANGED countVars
    BY <1>5 DEF ForwardFailure
  <2>2. e \in Event /\ OutNode[n] \in Nodes /\ n \notin Leaves
    BY <1>2, <1>5, ProcessorIs DEF Event
  <2> HIDE DEF e
  <2>3. Appended(OutNode[n], e)
    BY <2>1, <2>2, SpaceIs DEF Appended
  <2>4. queue' \in [Nodes -> Channel]
    BY <2>3, AppendedTypes
  <2>5. PTypes'
    BY <1>3, <1>4, <2>1, <2>4, BecomesTypes DEF PTypes, sourceVars, countVars, dispVars
  <2> USE DEF e
  <2> QED BY <1>2, <1>3, <2>1, <2>2, <2>3, <2>5
<1>6. CASE ~ (OutNode[n] # 0 /\ Open(OutNode[n]))
  <2>1. Signal(slots[n][s].d, "err") /\ UNCHANGED queue
    BY <1>6 DEF ForwardFailure
  <2>2. remaining' \in [Deliveries -> 0..N] /\ outcome' \in [Deliveries -> {"none", "ok", "err"}]
    BY <1>2, <2>1, SignalTypes
  <2>3. PTypes'
    BY <1>3, <1>4, <2>1, <2>2, BecomesTypes DEF PTypes, sourceVars, dispVars
  <2> QED BY <1>2, <1>3, <2>1, <2>3
<1> QED BY <1>5, <1>6

LEMMA PanicTypes ==
  ASSUME PTypes, NEW n \in Processors, NEW s \in Slots, Panic(n, s)
  PROVE  PTypes' /\ slots[n][s].d \in Deliveries /\ Becomes(n, s, Free)
<1>1. slots[n][s].d \in Deliveries
  BY BusyIs DEF Panic
<1>2. Becomes(n, s, Free)
  BY FreeIs DEF Panic, Becomes
<1>3. lost' \subseteq Deliveries
  BY <1>1 DEF Panic, PTypes
<1>4. UNCHANGED <<sourceVars, countVars, dispVars, alive, queue, cancelled>>
  BY DEF Panic
<1>5. PTypes'
  BY <1>2, <1>3, <1>4, BecomesTypes DEF PTypes, sourceVars, countVars, dispVars
<1> QED BY <1>1, <1>2, <1>5

LEMMA AbortTypes ==
  ASSUME PTypes, NEW n \in Processors, Abort(n)
  PROVE  /\ PTypes'
         /\ \A s \in Slots : slots'[n][s] = Free
         /\ \A m \in Processors \ {n} : slots'[m] = slots[m]
<1>1. slots' = [slots EXCEPT ![n] = [s \in Slots |-> Free]] /\ slots \in [Processors -> [Slots -> Slot]]
  BY DEF Abort, PTypes
<1>2. slots' \in [Processors -> [Slots -> Slot]]
  BY <1>1, FreeIs
<1>3. (\A s \in Slots : slots'[n][s] = Free) /\ \A m \in Processors \ {n} : slots'[m] = slots[m]
  BY <1>1
<1>4. \A m \in Processors : \A s \in Slots : slots'[m][s].st = "send" => m \notin Leaves
  <2> SUFFICES ASSUME NEW m \in Processors, NEW s \in Slots, slots'[m][s].st = "send" PROVE m \notin Leaves
    OBVIOUS
  <2>1. m # n
    BY <1>3, FreeIs
  <2> QED BY <1>3, <2>1 DEF PTypes
<1>5. n \in Nodes /\ queue' = [queue EXCEPT ![n] = <<>>]
  BY ProcessorIs DEF Abort
<1>6. queue' \in [Nodes -> Channel]
  BY <1>5, EmptiedTypes
<1>7. lost' \subseteq Deliveries
  <2>1. \A s \in Slots : slots[n][s].d \in Deliveries \cup {0}
    <3> SUFFICES ASSUME NEW s \in Slots PROVE slots[n][s].d \in Deliveries \cup {0}
      OBVIOUS
    <3>1. slots[n][s] \in Slot
      BY <1>1
    <3> QED BY <3>1, FreeIs DEF Slot
  <2>2. EventsIn(queue[n]) \subseteq Deliveries /\ lost \subseteq Deliveries
    BY <1>5, LostTypes DEF PTypes
  <2> QED BY <2>1, <2>2 DEF Abort
<1>8. alive' \in [Nodes -> {"init", "running", "closing", "done"}] /\ UNCHANGED <<sourceVars, countVars, dispVars, cancelled>>
  BY DEF Abort, PTypes
<1>9. PTypes'
  BY <1>2, <1>4, <1>6, <1>7, <1>8 DEF PTypes, sourceVars, countVars, dispVars
<1> QED BY <1>3, <1>9

LEMMA StutterTypes == PTypes /\ UNCHANGED vars => PTypes'
BY DEF PTypes, vars, sourceVars, countVars, dispVars

LEMMA NextTypes == PTypes /\ [Next]_vars => PTypes'
<1> SUFFICES ASSUME PTypes, Next PROVE PTypes'
  BY StutterTypes
<1>1. CASE \E d \in Deliveries : Pull(d) \/ SourceSend(d)
  BY <1>1, PullTypes, SourceSendTypes
<1>2. CASE \E d \in Deliveries : SourceResult(d) \/ SourceClosed(d) \/ SourceTimeout(d)
  <2>1. PICK d \in Deliveries : \E reply \in {"acked", "nacked"} : Answer(d, reply)
    BY <1>2 DEF SourceResult, SourceClosed, SourceTimeout
  <2> QED BY <2>1, AnswerTypes
<1>3. CASE Cancel \/ SourceStops
  BY <1>3, CancelTypes
<1>4. CASE \E n \in Dispatchers : DispatchTake(n) \/ DispatchSend(n)
  BY <1>4, DispatchTakeTypes, DispatchSendTypes
<1>5. CASE \E n \in Dispatchers : DispatchEnd(n)
  BY <1>5, DispatcherIs, AliveTypes
<1>6. CASE \E n \in Processors : Start(n) \/ InitFails(n) \/ Close(n) \/ Finish(n)
  BY <1>6, ProcessorIs, AliveTypes
<1>7. CASE \E n \in Processors : Abort(n)
  BY <1>7, AbortTypes
<1>8. CASE \E n \in Processors : \E s \in Slots : Take(n, s) \/ Handled(n, s) \/ Send(n, s)
  BY <1>8, TakeTypes, HandledTypes, SendTypes
<1>9. CASE \E n \in Processors : \E s \in Slots : HandleFails(n, s) \/ Retry(n, s) \/ ForwardFailure(n, s) \/ Panic(n, s)
  BY <1>9, HandleFailsTypes, ForwardFailureTypes, PanicTypes
<1> QED BY <1>1, <1>2, <1>3, <1>4, <1>5, <1>6, <1>7, <1>8, <1>9 DEF Next

\* Every variable of a running flow keeps its type (spawn_task, fan_out,
\* process_events): no channel holds more than CHANNEL_CAPACITY events, no event
\* gets more than MaxAttempts attempts, and a dispatcher has an event exactly
\* while it owes it to a branch.  For any task list and bounds.
THEOREM TypeCorrect == Spec => []TypeOK
<1>1. PTypes => TypeOK
  <2> SUFFICES ASSUME PTypes PROVE TypeOK
    OBVIOUS
  <2>1. \A n \in Nodes : Len(queue[n]) <= Capacity /\ EventsIn(queue[n]) \subseteq Deliveries
    BY ChannelIs DEF PTypes, Capacity
  <2>2. ASSUME NEW r \in Slot
        PROVE  r \in [st : {"free", "work", "send", "delay", "fail"}, d : 0..MaxDeliveries, tries : 0..MaxAttempts]
    <3>1. CASE r = Free
      BY <3>1, BoundsAssumption DEF Free
    <3>2. CASE r # Free
      <4>1. r \in [st : {"work", "send", "delay", "fail"}, d : Deliveries, tries : 1..MaxAttempts]
        BY <3>2 DEF Slot
      <4> QED BY <4>1 DEF Deliveries
    <3> QED BY <3>1, <3>2
  <2>3. slots \in [Processors -> [Slots -> [st : {"free", "work", "send", "delay", "fail"},
                                            d : 0..MaxDeliveries, tries : 0..MaxAttempts]]]
    BY <2>2 DEF PTypes
  <2> QED BY <2>1, <2>3 DEF PTypes, TypeOK
<1> QED BY <1>1, InitTypes, NextTypes, PTL DEF Spec

-----------------------------------------------------------------------------
(* An ack means all leaves. *)

\* Where the copies of an event can be.
Places ==
  {<<"source", 1, 1>>} \cup {<<"queue", n, 1>> : n \in Nodes} \cup {<<"dispatch", n, 1>> : n \in Dispatchers}
    \cup {<<"slot", n, s>> : n \in Processors, s \in Slots}

\* The leaves that the copy of delivery d at a place still has to reach.
AtSource(d) == IF delivery[d] = "sending" THEN Below(Source) ELSE {}
AtQueue(n, d) == IF d \in EventsIn(queue[n]) THEN Below(Base(n)) ELSE {}
AtDispatcher(n, d) == IF sending[n].d = d THEN UNION {Below(b[1]) : b \in todo[n]} ELSE {}
AtSlot(n, s, d) == IF slots[n][s].d = d THEN Below(n) ELSE {}
Owes(d, x) ==
  IF x[1] = "source" THEN AtSource(d)
  ELSE IF x[1] = "queue" THEN AtQueue(x[2], d)
  ELSE IF x[1] = "dispatch" THEN AtDispatcher(x[2], d)
  ELSE AtSlot(x[2], x[3], d)
Owed(d) == UNION {Owes(d, x) : x \in Places}

\* No two copies are on the way to the same leaf; the counter waits for every
\* leaf that a copy is on the way to, and for one more once a copy was lost.
Apart(d) == \A x, y \in Places : x # y => Owes(d, x) \cap Owes(d, y) = {}
Covered(d) == Cardinality(Owed(d)) + (IF d \in lost THEN 1 ELSE 0) <= remaining[d]
Books(d) ==
  /\ delivery[d] = "none" => remaining[d] = 0 /\ outcome[d] = "none"
  /\ Apart(d) /\ Covered(d)
  /\ outcome[d] # "none" => remaining[d] = 0
  /\ delivery[d] = "acked" => outcome[d] = "ok"

\* The inductive invariant.
PInv == PTypes /\ \A d \in Deliveries : Books(d)

\* A copy moves from x to x and y, or to neither.
Moves(d, x, y) ==
  /\ \A z \in Places \ {x, y} : Owes(d, z)' \subseteq Owes(d, z)
  /\ Owes(d, x)' \cup Owes(d, y)' \subseteq Owes(d, x)
  /\ x # y => Owes(d, x)' \cap Owes(d, y)' = {}

\* On the way a leaf is dropped from it.
Drops(d, x, y) == \E l \in Owes(d, x) : l \notin Owes(d, x)' /\ l \notin Owes(d, y)'

\* What the source does with a delivery it has.
Side(d) ==
  \/ delivery'[d] = delivery[d]
  \/ delivery[d] # "none" /\ delivery'[d] # "none" /\ (delivery'[d] = "acked" => outcome[d] = "ok")

\* A step that signals nothing for d, and one that does.
Kept(d) ==
  /\ Side(d) /\ remaining'[d] = remaining[d] /\ outcome'[d] = outcome[d]
  /\ \E x, y \in Places : Moves(d, x, y) /\ (d \in lost' => d \in lost \/ Drops(d, x, y))
Counted(d) ==
  /\ delivery'[d] = delivery[d] /\ (d \in lost' => d \in lost)
  /\ remaining'[d] = IF remaining[d] = 0 THEN 0 ELSE remaining[d] - 1
  /\ outcome'[d] = outcome[d] \/ remaining[d] = 1
  /\ \E x, y \in Places : Moves(d, x, y) /\ Drops(d, x, y)

LEMMA OwedTypes ==
  ASSUME PTypes, NEW d \in Deliveries
  PROVE  /\ \A x \in Places : Owes(d, x) \in SUBSET (1..N)
         /\ IsFiniteSet(Owed(d)) /\ Cardinality(Owed(d)) \in Nat
<1>0. \A t \in 1..N : Below(t) \subseteq 1..N
  <2> SUFFICES ASSUME NEW t \in 1..N PROVE Below(t) \subseteq 1..N
    OBVIOUS
  <2>1. Below(t) \in SUBSET (t..N)
    BY BelowTypes
  <2> QED BY <2>1, NIs
<1>1. AtSource(d) \subseteq 1..N
  BY <1>0, SourceBranches DEF AtSource
<1>2. ASSUME NEW n \in Nodes PROVE AtQueue(n, d) \subseteq 1..N
  <2>1. Base(n) \in 1..N
    BY DispatcherIs, ProcessorIs DEF Nodes
  <2> QED BY <1>0, <2>1 DEF AtQueue
<1>3. ASSUME NEW n \in Dispatchers PROVE AtDispatcher(n, d) \subseteq 1..N
  <2>1. \A b \in todo[n] : b[1] \in 1..N
    <3> SUFFICES ASSUME NEW b \in todo[n] PROVE b[1] \in 1..N
      OBVIOUS
    <3>1. n - N \in 1..N /\ b \in Out[n - N]
      BY DispatcherIs DEF PTypes
    <3>2. b[1] \in Processors
      BY <3>1, BranchIs
    <3> QED BY <3>2, ProcessorIs
  <2> QED BY <1>0, <2>1 DEF AtDispatcher
<1>4. ASSUME NEW n \in Processors, NEW s \in Slots PROVE AtSlot(n, s, d) \subseteq 1..N
  BY <1>0, ProcessorIs DEF AtSlot
<1>5. ASSUME NEW x \in Places PROVE Owes(d, x) \in SUBSET (1..N)
  BY <1>1, <1>2, <1>3, <1>4 DEF Places, Owes
<1>6. Owed(d) \in SUBSET (1..N)
  BY <1>5 DEF Owed
<1>7. IsFiniteSet(1..N)
  BY NIs, FS_Interval
<1>8. IsFiniteSet(Owed(d))
  BY <1>6, <1>7, FS_Subset
<1> QED BY <1>5, <1>8, FS_CardinalityType

LEMMA MovesKeep ==
  ASSUME NEW d, Apart(d), NEW x \in Places, NEW y \in Places, Moves(d, x, y)
  PROVE  Apart(d)' /\ Owed(d)' \subseteq Owed(d)
<1>1. \A z \in Places \ {x, y} : Owes(d, z)' \subseteq Owes(d, z)
  BY DEF Moves
<1>2. Owes(d, x)' \subseteq Owes(d, x) /\ Owes(d, y)' \subseteq Owes(d, x)
  BY DEF Moves
<1>3. ASSUME NEW z \in Places, NEW u \in Places, z # u PROVE Owes(d, z)' \cap Owes(d, u)' = {}
  <2>1. CASE {z, u} = {x, y}
    BY <1>3, <2>1 DEF Moves
  <2>2. CASE z \notin {x, y} /\ u \notin {x, y}
    BY <1>1, <1>3, <2>2 DEF Apart
  <2>3. CASE z \in {x, y} /\ u \notin {x, y}
    <3>1. Owes(d, x) \cap Owes(d, u) = {}
      BY <2>3 DEF Apart
    <3> QED BY <1>1, <1>2, <2>3, <3>1
  <2>4. CASE z \notin {x, y} /\ u \in {x, y}
    <3>1. Owes(d, x) \cap Owes(d, z) = {}
      BY <2>4 DEF Apart
    <3> QED BY <1>1, <1>2, <2>4, <3>1
  <2> QED BY <1>3, <2>1, <2>2, <2>3, <2>4
<1>4. Apart(d)'
  BY <1>3 DEF Apart, Places
<1>5. \A z \in Places : \E u \in Places : Owes(d, z)' \subseteq Owes(d, u)
  BY <1>1, <1>2
<1>6. Owed(d)' \subseteq Owed(d)
  BY <1>5 DEF Owed, Places
<1> QED BY <1>4, <1>6

LEMMA DropsSome ==
  ASSUME NEW d, Apart(d), NEW x \in Places, NEW y \in Places, Moves(d, x, y), Drops(d, x, y)
  PROVE  \E l \in Owed(d) : l \notin Owed(d)'
<1>1. PICK l \in Owes(d, x) : l \notin Owes(d, x)' /\ l \notin Owes(d, y)'
  BY DEF Drops
<1>2. ASSUME NEW z \in Places PROVE l \notin Owes(d, z)'
  <2>1. CASE z \in {x, y}
    BY <1>1, <2>1
  <2>2. CASE z \notin {x, y}
    <3>1. Owes(d, x) \cap Owes(d, z) = {} /\ Owes(d, z)' \subseteq Owes(d, z)
      BY <2>2 DEF Apart, Moves
    <3> QED BY <3>1
  <2> QED BY <2>1, <2>2
<1>3. l \in Owed(d)
  BY DEF Owed
<1>4. l \notin Owed(d)'
  BY <1>2 DEF Owed, Places
<1> QED BY <1>3, <1>4

LEMMA BooksStep ==
  ASSUME PTypes, PTypes', NEW d \in Deliveries, Books(d), Kept(d) \/ Counted(d)
  PROVE  Books(d)'
<1>0. Apart(d) /\ Covered(d)
  BY DEF Books
<1>1. PICK x \in Places, y \in Places :
        /\ Moves(d, x, y)
        /\ Kept(d) => (d \in lost' => d \in lost \/ Drops(d, x, y))
        /\ ~Kept(d) => Drops(d, x, y)
  BY DEF Kept, Counted
<1>2. Apart(d)' /\ Owed(d)' \subseteq Owed(d)
  BY <1>0, <1>1, MovesKeep
<1>3. IsFiniteSet(Owed(d)) /\ Cardinality(Owed(d)) \in Nat
  BY OwedTypes
<1>4. IsFiniteSet(Owed(d)') /\ Cardinality(Owed(d)') \in Nat /\ Cardinality(Owed(d)') <= Cardinality(Owed(d))
  <2>1. IsFiniteSet(Owed(d)') /\ Cardinality(Owed(d)') <= Cardinality(Owed(d))
    BY <1>2, <1>3, FS_Subset
  <2> QED BY <2>1, FS_CardinalityType
<1>5. Drops(d, x, y) => Cardinality(Owed(d)') < Cardinality(Owed(d))
  <2> SUFFICES ASSUME Drops(d, x, y) PROVE Cardinality(Owed(d)') < Cardinality(Owed(d))
    OBVIOUS
  <2>1. PICK l \in Owed(d) : l \notin Owed(d)'
    BY <1>0, <1>1, DropsSome
  <2>2. Owed(d)' # Owed(d)
    BY <2>1
  <2>3. Cardinality(Owed(d)) # Cardinality(Owed(d)')
    BY <1>2, <1>3, <2>2, FS_Subset
  <2> QED BY <1>3, <1>4, <2>3
<1>6. remaining[d] \in Nat /\ remaining'[d] \in Nat
  BY NIs DEF PTypes
<1>7. Cardinality(Owed(d)) + (IF d \in lost THEN 1 ELSE 0) <= remaining[d]
  BY <1>0 DEF Covered
<1>8. Cardinality(Owed(d)') + (IF d \in lost' THEN 1 ELSE 0) <= remaining'[d]
  <2>1. CASE Kept(d)
    <3>1. remaining'[d] = remaining[d] /\ (d \in lost' => d \in lost \/ Drops(d, x, y))
      BY <1>1, <2>1 DEF Kept
    <3> QED BY <1>3, <1>4, <1>5, <1>6, <1>7, <3>1
  <2>2. CASE ~Kept(d)
    <3>1. remaining'[d] = IF remaining[d] = 0 THEN 0 ELSE remaining[d] - 1
      BY <2>2 DEF Counted
    <3>2. (d \in lost' => d \in lost) /\ Drops(d, x, y)
      BY <1>1, <2>2 DEF Counted
    <3> QED BY <1>3, <1>4, <1>5, <1>6, <1>7, <3>1, <3>2
  <2> QED BY <2>1, <2>2
<1>9. Covered(d)'
  BY <1>8 DEF Covered
<1>10. outcome'[d] # "none" => remaining'[d] = 0
  <2>1. CASE Kept(d)
    BY <2>1 DEF Kept, Books
  <2>2. CASE ~Kept(d)
    BY <1>6, <2>2 DEF Counted, Books
  <2> QED BY <2>1, <2>2
<1>11. delivery'[d] = "none" => remaining'[d] = 0 /\ outcome'[d] = "none"
  <2>1. CASE Kept(d)
    BY <2>1 DEF Kept, Side, Books
  <2>2. CASE ~Kept(d)
    <3>1. Drops(d, x, y) /\ Counted(d)
      BY <1>1, <2>2
    <3> SUFFICES ASSUME delivery'[d] = "none" PROVE FALSE
      OBVIOUS
    <3>2. remaining[d] = 0
      BY <3>1 DEF Counted, Books
    <3> QED BY <1>3, <1>4, <1>5, <1>7, <3>1, <3>2
  <2> QED BY <2>1, <2>2
<1>12. delivery'[d] = "acked" => outcome'[d] = "ok"
  <2>1. CASE Kept(d)
    BY <2>1 DEF Kept, Side, Books
  <2>2. CASE ~Kept(d)
    <3>1. Drops(d, x, y) /\ Counted(d)
      BY <1>1, <2>2
    <3> SUFFICES ASSUME delivery'[d] = "acked" PROVE FALSE
      OBVIOUS
    <3>2. remaining[d] = 0
      BY <3>1 DEF Counted, Books
    <3> QED BY <1>3, <1>4, <1>5, <1>7, <3>1, <3>2
  <2> QED BY <2>1, <2>2
<1> QED BY <1>2, <1>9, <1>10, <1>11, <1>12 DEF Books

\* Outside some places no copy appears and none gets more branches.
Quiet(d, here) ==
  /\ <<"source", 1, 1>> \in here \/ (delivery'[d] = "sending" => delivery[d] = "sending")
  /\ \A n \in Nodes : <<"queue", n, 1>> \in here \/ (d \in EventsIn(queue'[n]) => d \in EventsIn(queue[n]))
  /\ \A n \in Dispatchers : \/ <<"dispatch", n, 1>> \in here
                            \/ sending'[n].d = d => sending[n].d = d /\ todo'[n] \subseteq todo[n]
  /\ \A n \in Processors : \A s \in Slots :
       <<"slot", n, s>> \in here \/ (slots'[n][s].d = d => slots[n][s].d = d)

LEMMA OwesAre ==
  /\ \A d : Owes(d, <<"source", 1, 1>>) = AtSource(d)
  /\ \A d, n : Owes(d, <<"queue", n, 1>>) = AtQueue(n, d)
  /\ \A d, n : Owes(d, <<"dispatch", n, 1>>) = AtDispatcher(n, d)
  /\ \A d, n, s : Owes(d, <<"slot", n, s>>) = AtSlot(n, s, d)
BY DEF Owes

LEMMA PlacesAre ==
  /\ <<"source", 1, 1>> \in Places
  /\ \A n \in Nodes : <<"queue", n, 1>> \in Places
  /\ \A n \in Dispatchers : <<"dispatch", n, 1>> \in Places
  /\ \A n \in Processors : \A s \in Slots : <<"slot", n, s>> \in Places
BY DEF Places

LEMMA QuietKeeps ==
  ASSUME NEW d, NEW here, Quiet(d, here), NEW z \in Places \ here
  PROVE  Owes(d, z)' \subseteq Owes(d, z)
<1>1. CASE z = <<"source", 1, 1>>
  <2>1. delivery'[d] = "sending" => delivery[d] = "sending"
    BY <1>1 DEF Quiet
  <2> QED BY <1>1, <2>1 DEF Owes, AtSource
<1>2. ASSUME NEW n \in Nodes, z = <<"queue", n, 1>> PROVE Owes(d, z)' \subseteq Owes(d, z)
  <2>1. d \in EventsIn(queue'[n]) => d \in EventsIn(queue[n])
    BY <1>2 DEF Quiet
  <2>2. Owes(d, z) = AtQueue(n, d) /\ Owes(d, z)' = AtQueue(n, d)'
    BY <1>2 DEF Owes
  <2> QED BY <2>1, <2>2 DEF AtQueue, EventsIn
<1>3. ASSUME NEW n \in Dispatchers, z = <<"dispatch", n, 1>> PROVE Owes(d, z)' \subseteq Owes(d, z)
  <2>1. sending'[n].d = d => sending[n].d = d /\ todo'[n] \subseteq todo[n]
    BY <1>3 DEF Quiet
  <2>2. Owes(d, z) = AtDispatcher(n, d) /\ Owes(d, z)' = AtDispatcher(n, d)'
    BY <1>3 DEF Owes
  <2> QED BY <2>1, <2>2 DEF AtDispatcher
<1>4. ASSUME NEW n \in Processors, NEW s \in Slots, z = <<"slot", n, s>> PROVE Owes(d, z)' \subseteq Owes(d, z)
  <2>1. slots'[n][s].d = d => slots[n][s].d = d
    BY <1>4 DEF Quiet
  <2>2. Owes(d, z) = AtSlot(n, s, d) /\ Owes(d, z)' = AtSlot(n, s, d)'
    BY <1>4 DEF Owes
  <2> QED BY <2>1, <2>2 DEF AtSlot
<1> QED BY <1>1, <1>2, <1>3, <1>4 DEF Places

\* A step that signals nothing for d.
Still(d) == Side(d) /\ remaining'[d] = remaining[d] /\ outcome'[d] = outcome[d]

\* No copy appears anywhere; one may be dropped, and is then lost.
LEMMA Stays ==
  ASSUME NEW d, Quiet(d, {}), Still(d),
         d \in lost' => d \in lost \/ \E x \in Places : Drops(d, x, x)
  PROVE  Kept(d)
<1>1. \A z \in Places : Owes(d, z)' \subseteq Owes(d, z)
  BY QuietKeeps
<1>2. \A x \in Places : Moves(d, x, x)
  BY <1>1 DEF Moves
<1>3. CASE d \in lost' /\ d \notin lost
  BY <1>2, <1>3 DEF Kept, Still
<1>4. CASE ~ (d \in lost' /\ d \notin lost)
  BY <1>2, <1>4, PlacesAre DEF Kept, Still
<1> QED BY <1>3, <1>4

\* A copy goes from x to y.
LEMMA Goes ==
  ASSUME NEW d, NEW x \in Places, NEW y \in Places, x # y, Quiet(d, {x, y}),
         Owes(d, x)' = {}, Owes(d, y)' \subseteq Owes(d, x)
  PROVE  Moves(d, x, y)
<1>1. \A z \in Places \ {x, y} : Owes(d, z)' \subseteq Owes(d, z)
  BY QuietKeeps
<1> QED BY <1>1 DEF Moves

LEMMA InitBooks ==
  ASSUME Init, NEW d \in Deliveries
  PROVE  Books(d)
<1>1. 0 \notin Deliveries
  BY DEF Deliveries
<1>2. AtSource(d) = {}
  BY DEF Init, AtSource
<1>3. \A n \in Nodes : AtQueue(n, d) = {}
  BY OneEvent DEF Init, AtQueue
<1>4. \A n \in Dispatchers : AtDispatcher(n, d) = {}
  BY <1>1 DEF Init, AtDispatcher, NoEvent
<1>5. \A n \in Processors : \A s \in Slots : AtSlot(n, s, d) = {}
  BY <1>1 DEF Init, AtSlot, Free
<1>6. \A x \in Places : Owes(d, x) = {}
  BY <1>2, <1>3, <1>4, <1>5 DEF Places, Owes
<1>7. Owed(d) = {} /\ Apart(d)
  BY <1>6 DEF Owed, Apart
<1>8. Cardinality(Owed(d)) = 0 /\ d \notin lost /\ remaining[d] = 0
  BY <1>7, FS_EmptySet DEF Init
<1>9. Covered(d)
  BY <1>8 DEF Covered
<1> QED BY <1>7, <1>9 DEF Init, Books

\* A new delivery owes all leaves of the source, which its counter is set to.
LEMMA PullBooks ==
  ASSUME PTypes, NEW p \in Deliveries, Pull(p), NEW d \in Deliveries, Books(d)
  PROVE  Books(d)'
<1>1. /\ delivery[p] = "none" /\ delivery'[p] \in {"sending", "nacked"}
      /\ \A e \in Deliveries \ {p} : delivery'[e] = delivery[e] /\ remaining'[e] = remaining[e]
      /\ remaining'[p] = Wiring.leaves[Source]
      /\ UNCHANGED <<outcome, sending, todo, queue, slots, lost>>
  BY DEF Pull, PTypes, dispVars
<1>2. PTypes'
  BY PullTypes
<1>3. CASE d # p
  <2>1. Quiet(d, {}) /\ Still(d) /\ (d \in lost' => d \in lost)
    BY <1>1, <1>3 DEF Quiet, Still, Side
  <2> QED BY <1>2, <2>1, Stays, BooksStep
<1>4. CASE d = p
  <2> DEFINE Src == <<"source", 1, 1>>
  <2>1. remaining[d] = 0 /\ outcome[d] = "none" /\ Covered(d)
    BY <1>1, <1>4 DEF Books
  <2>2. IsFiniteSet(Owed(d)) /\ Cardinality(Owed(d)) \in Nat
    BY OwedTypes
  <2>3. Cardinality(Owed(d)) = 0 /\ d \notin lost
    BY <2>1, <2>2 DEF Covered
  <2>4. Owed(d) = {}
    BY <2>2, <2>3, FS_EmptySet
  <2>5. Quiet(d, {Src})
    BY <1>1 DEF Quiet
  <2>6. \A z \in Places \ {Src} : Owes(d, z)' = {}
    <3>1. \A z \in Places : Owes(d, z) = {}
      BY <2>4 DEF Owed
    <3> QED BY <2>5, <3>1, QuietKeeps
  <2>7. Apart(d)'
    BY <2>6 DEF Apart, Places
  <2>8. Owes(d, Src)' \subseteq Below(Source)
    <3>1. Owes(d, Src)' = AtSource(d)'
      BY DEF Owes
    <3> QED BY <3>1 DEF AtSource
  <2>9. Owed(d)' \subseteq Below(Source)
    BY <2>6, <2>8 DEF Owed, Places
  <2>10. IsFiniteSet(Below(Source)) /\ remaining'[d] = Cardinality(Below(Source))
    BY <1>1, <1>4, BelowTypes, SourceBranches, WiringIs
  <2>11. Cardinality(Owed(d)') <= remaining'[d] /\ Cardinality(Owed(d)') \in Nat
    <3>1. IsFiniteSet(Owed(d)') /\ Cardinality(Owed(d)') <= Cardinality(Below(Source))
      BY <2>9, <2>10, FS_Subset
    <3> QED BY <2>10, <3>1, FS_CardinalityType
  <2>12. d \notin lost' /\ remaining'[d] \in Nat
    BY <1>1, <1>2, <2>3, NIs DEF PTypes
  <2>13. Covered(d)'
    <3>1. Cardinality(Owed(d)') + (IF d \in lost' THEN 1 ELSE 0) <= remaining'[d]
      BY <2>11, <2>12
    <3> QED BY <3>1 DEF Covered
  <2>14. delivery'[d] \notin {"none", "acked"} /\ outcome'[d] = "none"
    BY <1>1, <1>4, <2>1
  <2> QED BY <2>7, <2>13, <2>14 DEF Books
<1> QED BY <1>3, <1>4

LEMMA SourceSendKept ==
  ASSUME OnePath, PTypes, NEW p \in Deliveries, SourceSend(p), NEW d \in Deliveries
  PROVE  Kept(d)
<1> DEFINE out == OutNode[Source]
           e == [d |-> p, failed |-> FALSE]
<1>1. out \in Nodes /\ Source \in 1..N /\ Out[Source] # {}
  BY SourceBranches, OutNodeIs
<1>2. /\ delivery[p] = "sending" /\ delivery'[p] \in {"waiting", "nacked"}
      /\ \A x \in Deliveries \ {p} : delivery'[x] = delivery[x]
      /\ UNCHANGED <<remaining, outcome, sending, todo, slots, lost>>
  BY DEF SourceSend, PTypes, countVars, dispVars
<1>3. Still(d) /\ (d \in lost' => d \in lost)
  BY <1>2 DEF Still, Side
<1>4. CASE UNCHANGED queue
  <2>1. Quiet(d, {})
    BY <1>2, <1>4 DEF Quiet
  <2> QED BY <1>3, <2>1, Stays
<1>5. CASE ~ UNCHANGED queue
  <2>1. Space(out) /\ queue' = [queue EXCEPT ![out] = Append(@, e)]
    BY <1>5 DEF SourceSend
  <2>2. e \in Event /\ e.d = p
    BY DEF Event
  <2> HIDE DEF e
  <2>3. Appended(out, e)
    BY <1>1, <2>1, <2>2, SpaceIs DEF Appended
  <2> HIDE DEF out
  <2>4. EventsIn(queue'[out]) = {p} /\ \A n \in Nodes \ {out} : queue'[n] = queue[n]
    BY <1>1, <2>2, <2>3, AppendedTypes
  <2>5. CASE d # p
    <3>1. Quiet(d, {})
      BY <1>2, <2>4, <2>5 DEF Quiet
    <3> QED BY <1>3, <3>1, Stays
  <2>6. CASE d = p
    <3> DEFINE x == <<"source", 1, 1>>
               y == <<"queue", out, 1>>
    <3>1. Quiet(d, {x, y})
      BY <1>2, <2>4 DEF Quiet
    <3>2. x \in Places /\ y \in Places /\ x # y
      BY <1>1, PlacesAre
    <3>3. Owes(d, x) = Below(Source) /\ Owes(d, x)' = {}
      <4>1. Owes(d, x) = AtSource(d) /\ Owes(d, x)' = AtSource(d)'
        BY DEF Owes
      <4> QED BY <1>2, <2>6, <4>1 DEF AtSource
    <3>4. Owes(d, y)' \subseteq Below(Source)
      <4>1. Owes(d, y)' = AtQueue(out, d)'
        BY DEF Owes
      <4>2. Below(Base(out)) = Below(Source)
        <5> USE DEF out
        <5> QED BY <1>1, OutNodeBelow
      <4> QED BY <4>1, <4>2 DEF AtQueue
    <3> HIDE DEF x, y
    <3>5. Moves(d, x, y)
      BY <3>1, <3>2, <3>3, <3>4, Goes
    <3> QED BY <1>3, <3>2, <3>5 DEF Kept, Still
  <2> QED BY <2>5, <2>6
<1> QED BY <1>4, <1>5

\* What the source answers, and the end of the flow, move no copy.
LEMMA AnswerKept ==
  ASSUME PTypes, NEW p \in Deliveries, SourceResult(p) \/ SourceClosed(p) \/ SourceTimeout(p),
         NEW d \in Deliveries
  PROVE  Kept(d)
<1>1. PICK reply \in {"acked", "nacked"} : Answer(p, reply) /\ (reply = "acked" => outcome[p] = "ok")
  BY DEF SourceResult, SourceClosed, SourceTimeout
<1>2. /\ delivery[p] = "waiting" /\ delivery'[p] = reply
      /\ \A x \in Deliveries \ {p} : delivery'[x] = delivery[x]
      /\ UNCHANGED <<remaining, outcome, sending, todo, queue, slots, lost>>
  BY <1>1 DEF Answer, PTypes, countVars, dispVars
<1>3. Quiet(d, {}) /\ Still(d)
  BY <1>1, <1>2 DEF Quiet, Still, Side
<1> QED BY <1>2, <1>3, Stays

LEMMA EndsKept ==
  ASSUME PTypes, NEW d \in Deliveries,
         \/ Cancel \/ SourceStops
         \/ \E n \in Dispatchers : DispatchEnd(n)
         \/ \E n \in Processors : Start(n) \/ Close(n)
  PROVE  Kept(d)
<1>1. /\ UNCHANGED <<remaining, outcome, sending, todo, queue, slots, lost>>
      /\ UNCHANGED delivery \/ delivery' = [e \in Deliveries |-> IF Outstanding(e) THEN "dropped" ELSE delivery[e]]
  BY DEF Cancel, SourceStops, DispatchEnd, Start, Close, sourceVars, countVars, dispVars
<1>2. delivery'[d] = delivery[d] \/ (delivery[d] # "none" /\ delivery'[d] = "dropped")
  BY <1>1 DEF Outstanding
<1>3. Quiet(d, {}) /\ Still(d)
  BY <1>1, <1>2 DEF Quiet, Still, Side
<1> QED BY <1>1, <1>3, Stays

LEMMA EmptiedDrops ==
  ASSUME PTypes, NEW n \in Nodes, queue'[n] = <<>>, NEW d, d \in EventsIn(queue[n])
  PROVE  Drops(d, <<"queue", n, 1>>, <<"queue", n, 1>>)
<1>0. PICK x : x = <<"queue", n, 1>>
  OBVIOUS
<1>1. Owes(d, x) = Below(Base(n))
  BY <1>0, OwesAre DEF AtQueue
<1>2. Owes(d, x)' = {}
  <2>1. Owes(d, x)' = AtQueue(n, d)'
    BY <1>0 DEF Owes
  <2>2. EventsIn(queue'[n]) = {}
    BY OneEvent
  <2> QED BY <2>1, <2>2 DEF AtQueue
<1>3. Below(Base(n)) # {}
  <2>1. Base(n) \in 1..N
    BY DispatcherIs, ProcessorIs DEF Nodes
  <2> QED BY <2>1, BelowTypes
<1> QED BY <1>0, <1>1, <1>2, <1>3 DEF Drops

LEMMA DispatchTakeKept ==
  ASSUME OnePath, PTypes, NEW n \in Dispatchers, DispatchTake(n), NEW d \in Deliveries
  PROVE  Kept(d)
<1> DEFINE branches == {b \in Out[n - N] : Open(b[1])}
           h == Head(queue[n]).d
<1>1. n \in Nodes /\ n - N \in 1..N /\ Base(n) = n - N /\ Out[n - N] # {} /\ queue[n] # <<>>
  BY DispatcherIs DEF DispatchTake
<1>2. h \in Deliveries /\ Tail(queue[n]) = <<>> /\ EventsIn(queue[n]) = {h}
  BY <1>1, HeadTypes
<1>3. queue' = [queue EXCEPT ![n] = <<>>]
  BY <1>2 DEF DispatchTake
<1>4. queue'[n] = <<>> /\ EventsIn(queue'[n]) = {} /\ \A m \in Nodes \ {n} : queue'[m] = queue[m]
  BY <1>1, <1>3, EmptiedTypes, OneEvent
<1>5. Still(d) /\ UNCHANGED <<delivery, slots>>
  BY DEF DispatchTake, sourceVars, countVars, Still, Side
<1>6. CASE branches = {}
  <2>1. UNCHANGED <<sending, todo>> /\ lost' = lost \cup {h}
    BY <1>2, <1>6 DEF DispatchTake, dispVars
  <2>2. Quiet(d, {})
    BY <1>4, <1>5, <2>1 DEF Quiet
  <2>3. d \in lost' => d \in lost \/ \E x \in Places : Drops(d, x, x)
    BY <1>1, <1>2, <1>4, <2>1, EmptiedDrops, PlacesAre
  <2> QED BY <1>5, <2>2, <2>3, Stays
<1>7. CASE branches # {}
  <2>1. /\ sending' = [sending EXCEPT ![n] = Head(queue[n])] /\ todo' = [todo EXCEPT ![n] = branches]
        /\ lost' = IF branches = Out[n - N] THEN lost ELSE lost \cup {h}
    BY <1>7 DEF DispatchTake
  <2>2. /\ sending'[n].d = h /\ todo'[n] = branches
        /\ \A m \in Dispatchers \ {n} : sending'[m] = sending[m] /\ todo'[m] = todo[m]
    BY <2>1 DEF PTypes
  <2> HIDE DEF h
  <2>3. CASE d # h
    <3>1. Quiet(d, {})
      BY <1>4, <1>5, <2>2, <2>3 DEF Quiet
    <3> QED BY <1>5, <2>1, <2>3, <3>1, Stays
  <2>4. CASE d = h
    <3> DEFINE x == <<"queue", n, 1>>
               y == <<"dispatch", n, 1>>
    <3>1. Quiet(d, {x, y})
      BY <1>4, <1>5, <2>2 DEF Quiet
    <3>2. x \in Places /\ y \in Places /\ x # y
      BY <1>1, PlacesAre
    <3>3. Owes(d, x) = UNION {Below(b[1]) : b \in Out[n - N]} /\ Owes(d, x)' = {}
      <4>1. Owes(d, x) = AtQueue(n, d) /\ Owes(d, x)' = AtQueue(n, d)'
        BY DEF Owes
      <4>2. Below(n - N) = UNION {Below(b[1]) : b \in Out[n - N]}
        BY <1>1, BelowIs
      <4> QED BY <1>1, <1>2, <1>4, <2>4, <4>1, <4>2 DEF AtQueue
    <3>4. Owes(d, y)' = UNION {Below(b[1]) : b \in branches}
      <4>1. Owes(d, y)' = AtDispatcher(n, d)'
        BY DEF Owes
      <4> QED BY <2>2, <2>4, <4>1 DEF AtDispatcher
    <3>5. d \in lost' => d \in lost \/ Drops(d, x, y)
      <4> SUFFICES ASSUME branches # Out[n - N] PROVE Drops(d, x, y)
        BY <2>1
      <4>1. PICK c \in Out[n - N] : c \notin branches
        OBVIOUS
      <4>2. c[1] \in 1..N
        BY <1>1, BranchIs, ProcessorIs
      <4>3. PICK l \in Below(c[1]) : TRUE
        BY <4>2, BelowTypes
      <4>4. \A b \in branches : l \notin Below(b[1])
        BY <1>1, <4>1, <4>3, BranchesApart
      <4>5. l \in Owes(d, x)
        BY <3>3, <4>1, <4>3
      <4>6. l \notin Owes(d, y)'
        <5> HIDE DEF branches
        <5> QED BY <3>4, <4>4
      <4>7. l \notin Owes(d, x)'
        BY <3>3
      <4> HIDE DEF x, y
      <4> QED BY <4>5, <4>6, <4>7 DEF Drops
    <3>6. Owes(d, y)' \subseteq Owes(d, x)
      BY <3>3, <3>4
    <3>7. Owes(d, x)' = {}
      BY <3>3
    <3> HIDE DEF x, y
    <3>8. Moves(d, x, y)
      BY <3>1, <3>2, <3>6, <3>7, Goes
    <3> QED BY <1>5, <3>2, <3>5, <3>8 DEF Kept, Still
  <2> QED BY <2>3, <2>4
<1> QED BY <1>6, <1>7

LEMMA DispatchSendKept ==
  ASSUME OnePath, PTypes, NEW n \in Dispatchers, DispatchSend(n), NEW d \in Deliveries
  PROVE  Kept(d)
<1>1. PICK b : b = NextBranch(n)
  OBVIOUS
<1>2. PICK e : e = sending[n]
  OBVIOUS
<1>3. PICK rest : rest = todo[n] \ {b}
  OBVIOUS
<1>4. /\ todo[n] # {}
      /\ \/ Open(b[1]) /\ Space(b[1]) /\ queue' = [queue EXCEPT ![b[1]] = Append(@, e)] /\ UNCHANGED lost
         \/ UNCHANGED queue /\ lost' = lost \cup {e.d}
      /\ todo' = [todo EXCEPT ![n] = rest]
      /\ sending' = [sending EXCEPT ![n] = IF rest = {} THEN NoEvent ELSE @]
      /\ UNCHANGED <<delivery, remaining, outcome, slots>>
  BY <1>1, <1>2, <1>3 DEF DispatchSend, sourceVars, countVars
<1>5. e \in Event /\ e.d \in Deliveries /\ NoEvent.d = 0 /\ 0 \notin Deliveries
  <2>1. e \in Event
    BY <1>2, <1>4 DEF PTypes
  <2> QED BY <2>1 DEF Event, NoEvent, Deliveries
<1>6. n - N \in 1..N /\ todo[n] \subseteq Out[n - N]
  BY DispatcherIs DEF PTypes
<1>7. b \in todo[n] /\ b \in Out[n - N] /\ b[1] \in Processors /\ b[1] \in 1..N /\ b[1] \in Nodes /\ Base(b[1]) = b[1]
  <2>1. b \in todo[n]
    BY <1>1, <1>4, <1>6, NextBranchIs
  <2> QED BY <1>6, <2>1, BranchIs, ProcessorIs
<1>8. /\ todo'[n] = rest /\ rest \subseteq todo[n] /\ sending'[n] = IF rest = {} THEN NoEvent ELSE e
      /\ \A m \in Dispatchers \ {n} : sending'[m] = sending[m] /\ todo'[m] = todo[m]
  BY <1>2, <1>3, <1>4 DEF PTypes
<1>9. Still(d)
  BY <1>4 DEF Still, Side
<1>10. \A c \in rest : Below(c[1]) \cap Below(b[1]) = {}
  BY <1>3, <1>6, <1>7, BranchesApart
<1>11. PICK x : x = <<"dispatch", n, 1>>
  OBVIOUS
<1>12. x \in Places
  BY <1>11, PlacesAre
<1>13. ASSUME d = e.d
       PROVE  Owes(d, x) = UNION {Below(c[1]) : c \in todo[n]} /\ Owes(d, x)' = UNION {Below(c[1]) : c \in rest}
  <2>1. Owes(d, x) = AtDispatcher(n, d) /\ Owes(d, x)' = AtDispatcher(n, d)'
    BY <1>11 DEF Owes
  <2>2. Owes(d, x) = UNION {Below(c[1]) : c \in todo[n]}
    BY <1>2, <1>13, <2>1 DEF AtDispatcher
  <2>3. CASE rest = {}
    <3>1. sending'[n].d # d /\ UNION {Below(c[1]) : c \in rest} = {}
      BY <1>5, <1>8, <2>3
    <3> QED BY <2>1, <2>2, <3>1 DEF AtDispatcher
  <2>4. CASE rest # {}
    <3>1. sending'[n].d = d
      BY <1>8, <1>13, <2>4
    <3> QED BY <1>8, <2>1, <2>2, <3>1 DEF AtDispatcher
  <2> QED BY <2>3, <2>4
<1>14. CASE UNCHANGED queue /\ lost' = lost \cup {e.d}
  <2>1. Quiet(d, {})
    BY <1>2, <1>4, <1>5, <1>8, <1>14 DEF Quiet
  <2>2. ASSUME d = e.d PROVE Drops(d, x, x)
    <3>1. PICK l \in Below(b[1]) : TRUE
      BY <1>7, BelowTypes
    <3>2. l \in Owes(d, x) /\ l \notin Owes(d, x)'
      BY <1>7, <1>10, <1>13, <2>2, <3>1
    <3> QED BY <3>2 DEF Drops
  <2> QED BY <1>9, <1>12, <1>14, <2>1, <2>2, Stays
<1>15. CASE Space(b[1]) /\ queue' = [queue EXCEPT ![b[1]] = Append(@, e)] /\ UNCHANGED lost
  <2>1. Appended(b[1], e)
    BY <1>5, <1>7, <1>15, SpaceIs DEF Appended
  <2>2. EventsIn(queue'[b[1]]) = {e.d} /\ \A m \in Nodes \ {b[1]} : queue'[m] = queue[m]
    BY <1>7, <2>1, AppendedTypes
  <2>3. CASE d # e.d
    <3>1. Quiet(d, {})
      BY <1>2, <1>4, <1>5, <1>8, <2>2, <2>3 DEF Quiet
    <3> QED BY <1>9, <1>15, <3>1, Stays
  <2>4. CASE d = e.d
    <3>1. PICK y : y = <<"queue", b[1], 1>>
      OBVIOUS
    <3>2. y \in Places /\ x # y
      BY <1>7, <1>11, <3>1, PlacesAre
    <3>3. Quiet(d, {x, y})
      BY <1>4, <1>8, <1>11, <2>2, <3>1 DEF Quiet
    <3>4. Owes(d, y)' = Below(b[1])
      <4>1. Owes(d, y)' = AtQueue(b[1], d)'
        BY <3>1 DEF Owes
      <4> QED BY <1>7, <2>2, <2>4, <4>1 DEF AtQueue
    <3>5. Owes(d, x)' \cup Owes(d, y)' \subseteq Owes(d, x)
      BY <1>7, <1>8, <1>13, <2>4, <3>4
    <3>6. Owes(d, x)' \cap Owes(d, y)' = {}
      BY <1>10, <1>13, <2>4, <3>4
    <3>7. Moves(d, x, y)
      BY <3>3, <3>5, <3>6, QuietKeeps DEF Moves
    <3> QED BY <1>9, <1>12, <1>15, <3>2, <3>7 DEF Kept, Still
  <2> QED BY <2>3, <2>4
<1> QED BY <1>4, <1>14, <1>15

LEMMA SlotDrops ==
  ASSUME PTypes, NEW n \in Processors, NEW s \in Slots, slots'[n][s] = Free,
         NEW d \in Deliveries, slots[n][s].d = d
  PROVE  Drops(d, <<"slot", n, s>>, <<"slot", n, s>>)
<1>0. PICK x : x = <<"slot", n, s>>
  OBVIOUS
<1>1. Owes(d, x) = Below(n)
  BY <1>0, OwesAre DEF AtSlot
<1>2. Owes(d, x)' = {}
  <2>1. Owes(d, x)' = AtSlot(n, s, d)'
    BY <1>0 DEF Owes
  <2>2. slots'[n][s].d # d
    BY FreeIs DEF Deliveries
  <2> QED BY <2>1, <2>2 DEF AtSlot
<1>3. Below(n) # {}
  BY ProcessorIs, BelowTypes
<1> QED BY <1>0, <1>1, <1>2, <1>3 DEF Drops

LEMMA TakeKept ==
  ASSUME PTypes, NEW n \in Processors, NEW s \in Slots, Take(n, s), NEW d \in Deliveries
  PROVE  Kept(d)
<1>1. PICK r : Becomes(n, s, r) /\ r.d = Head(queue[n]).d
  BY TakeTypes
<1>2. n \in Nodes /\ Base(n) = n /\ queue[n] # <<>>
  BY ProcessorIs DEF Take
<1>3. EventsIn(queue[n]) = {r.d}
  BY <1>1, <1>2, HeadTypes
<1>4. EventsIn(queue'[n]) = {} /\ \A m \in Nodes \ {n} : queue'[m] = queue[m]
  <2>1. queue' = [queue EXCEPT ![n] = <<>>]
    BY TakeTypes
  <2> QED BY <1>2, <2>1, EmptiedTypes, OneEvent
<1>5. slots'[n][s] = r /\ \A m \in Processors : \A u \in Slots : m # n \/ u # s => slots'[m][u] = slots[m][u]
  BY <1>1, BecomesTypes
<1>6. UNCHANGED <<delivery, remaining, outcome, sending, todo, lost>> /\ Still(d)
  BY DEF Take, sourceVars, countVars, dispVars, Still, Side
<1>7. CASE d # r.d
  <2>1. Quiet(d, {})
    BY <1>4, <1>5, <1>6, <1>7 DEF Quiet
  <2> QED BY <1>6, <2>1, Stays
<1>8. CASE d = r.d
  <2>1. PICK x, y : x = <<"queue", n, 1>> /\ y = <<"slot", n, s>>
    OBVIOUS
  <2>2. x \in Places /\ y \in Places /\ x # y
    BY <1>2, <2>1, PlacesAre
  <2>3. Quiet(d, {x, y})
    BY <1>4, <1>5, <1>6, <2>1 DEF Quiet
  <2>4. Owes(d, x) = Below(n)
    BY <1>2, <1>3, <1>8, <2>1, OwesAre DEF AtQueue
  <2>5. Owes(d, x)' = {}
    <3>1. Owes(d, x)' = AtQueue(n, d)'
      BY <2>1 DEF Owes
    <3> QED BY <1>4, <3>1 DEF AtQueue
  <2>6. Owes(d, y)' \subseteq Below(n)
    <3>1. Owes(d, y)' = AtSlot(n, s, d)'
      BY <2>1 DEF Owes
    <3> QED BY <3>1 DEF AtSlot
  <2>7. Moves(d, x, y)
    BY <2>2, <2>3, <2>4, <2>5, <2>6, Goes
  <2> QED BY <1>6, <2>2, <2>7 DEF Kept, Still
<1> QED BY <1>7, <1>8

\* A handler ends with a signal, or with its event sent on.
LEMMA Signals ==
  ASSUME PTypes, NEW n \in Processors, NEW s \in Slots, slots[n][s].d \in Deliveries,
         NEW v, Signal(slots[n][s].d, v), Becomes(n, s, Free),
         UNCHANGED <<delivery, sending, todo, queue, lost>>, NEW d \in Deliveries
  PROVE  Kept(d) \/ Counted(d)
<1>1. slots'[n][s] = Free /\ \A m \in Processors : \A u \in Slots : m # n \/ u # s => slots'[m][u] = slots[m][u]
  BY BecomesTypes
<1>2. Free.d \notin Deliveries
  BY FreeIs DEF Deliveries
<1>3. Quiet(d, {})
  BY <1>1, <1>2 DEF Quiet
<1>4. CASE d # slots[n][s].d
  <2>1. Still(d)
    BY <1>4 DEF Signal, PTypes, Still, Side
  <2> QED BY <1>3, <2>1, Stays
<1>5. CASE d = slots[n][s].d
  <2>1. /\ remaining'[d] = IF remaining[d] = 0 THEN 0 ELSE remaining[d] - 1
        /\ outcome'[d] = outcome[d] \/ remaining[d] = 1
    BY <1>5 DEF Signal, PTypes
  <2>2. PICK x \in Places : Drops(d, x, x)
    BY <1>1, <1>5, SlotDrops, PlacesAre
  <2>3. \A z \in Places : Owes(d, z)' \subseteq Owes(d, z)
    BY <1>3, QuietKeeps
  <2>4. Moves(d, x, x)
    BY <2>3 DEF Moves
  <2> QED BY <2>1, <2>2, <2>4 DEF Counted
<1> QED BY <1>4, <1>5

LEMMA Forwards ==
  ASSUME OnePath, PTypes, NEW n \in Processors, NEW s \in Slots, n \notin Leaves, slots[n][s].d \in Deliveries,
         NEW e, e.d = slots[n][s].d, Appended(OutNode[n], e), Becomes(n, s, Free),
         UNCHANGED <<delivery, remaining, outcome, sending, todo, lost>>, NEW d \in Deliveries
  PROVE  Kept(d)
<1>1. n \in 1..N /\ Out[n] # {} /\ OutNode[n] \in Nodes
  BY ProcessorIs
<1>2. PICK out : out = OutNode[n]
  OBVIOUS
<1>3. slots'[n][s] = Free /\ \A m \in Processors : \A u \in Slots : m # n \/ u # s => slots'[m][u] = slots[m][u]
  BY BecomesTypes
<1>4. EventsIn(queue'[out]) = {e.d} /\ \A m \in Nodes \ {out} : queue'[m] = queue[m]
  BY <1>1, <1>2, AppendedTypes
<1>5. Free.d \notin Deliveries /\ Still(d)
  BY FreeIs DEF Deliveries, Still, Side
<1>6. CASE d # e.d
  <2>1. Quiet(d, {})
    BY <1>3, <1>4, <1>5, <1>6 DEF Quiet
  <2> QED BY <1>5, <2>1, Stays
<1>7. CASE d = e.d
  <2>1. PICK x, y : x = <<"slot", n, s>> /\ y = <<"queue", out, 1>>
    OBVIOUS
  <2>2. x \in Places /\ y \in Places /\ x # y
    BY <1>1, <1>2, <2>1, PlacesAre
  <2>3. Quiet(d, {x, y})
    BY <1>3, <1>4, <2>1 DEF Quiet
  <2>4. Owes(d, x) = Below(n)
    BY <1>7, <2>1, OwesAre DEF AtSlot
  <2>5. Owes(d, x)' = {}
    <3>1. Owes(d, x)' = AtSlot(n, s, d)'
      BY <2>1 DEF Owes
    <3> QED BY <1>3, <1>5, <3>1 DEF AtSlot
  <2>6. Owes(d, y)' \subseteq Below(n)
    <3>1. Owes(d, y)' = AtQueue(out, d)'
      BY <2>1 DEF Owes
    <3>2. Below(Base(out)) = Below(n)
      BY <1>1, <1>2, OutNodeBelow
    <3> QED BY <3>1, <3>2 DEF AtQueue
  <2>7. Moves(d, x, y)
    BY <2>2, <2>3, <2>4, <2>5, <2>6, Goes
  <2> QED BY <1>5, <2>2, <2>7 DEF Kept, Still
<1> QED BY <1>6, <1>7

\* A slot that keeps its event.
LEMMA Retains ==
  ASSUME PTypes, NEW n \in Processors, NEW s \in Slots, NEW r, Becomes(n, s, r), r.d = slots[n][s].d,
         UNCHANGED <<delivery, remaining, outcome, sending, todo, queue, lost>>, NEW d \in Deliveries
  PROVE  Kept(d)
<1>1. slots'[n][s] = r /\ \A m \in Processors : \A u \in Slots : m # n \/ u # s => slots'[m][u] = slots[m][u]
  BY BecomesTypes
<1>2. Quiet(d, {}) /\ Still(d)
  BY <1>1 DEF Quiet, Still, Side
<1> QED BY <1>2, Stays

LEMMA HandlerKept ==
  ASSUME OnePath, PTypes, NEW n \in Processors, NEW s \in Slots,
         \/ Handled(n, s) \/ Send(n, s) \/ HandleFails(n, s) \/ Retry(n, s) \/ ForwardFailure(n, s)
         \/ Panic(n, s),
         NEW d \in Deliveries
  PROVE  Kept(d) \/ Counted(d)
<1>1. CASE Handled(n, s) /\ n \in Leaves
  <2>1. Becomes(n, s, Free) /\ slots[n][s].d \in Deliveries
    BY <1>1, HandledTypes
  <2>2. Signal(slots[n][s].d, "ok") /\ UNCHANGED <<delivery, sending, todo, queue, lost>>
    BY <1>1 DEF Handled, sourceVars, dispVars
  <2> QED BY <2>1, <2>2, Signals
<1>2. CASE Handled(n, s) /\ n \notin Leaves
  <2>1. PICK r : Becomes(n, s, r) /\ r.d = slots[n][s].d
    BY <1>2, HandledTypes
  <2>2. UNCHANGED <<delivery, remaining, outcome, sending, todo, queue, lost>>
    BY <1>2 DEF Handled, sourceVars, countVars, dispVars
  <2> QED BY <2>1, <2>2, Retains
<1>3. CASE Send(n, s)
  <2>1. PICK e : e = [d |-> slots[n][s].d, failed |-> FALSE]
    OBVIOUS
  <2>2. e.d = slots[n][s].d
    BY <2>1
  <2>3. slots[n][s].d \in Deliveries /\ n \notin Leaves /\ Becomes(n, s, Free) /\ Appended(OutNode[n], e)
    BY <1>3, <2>1, SendTypes
  <2>4. UNCHANGED <<delivery, remaining, outcome, sending, todo, lost>>
    BY <1>3 DEF Send, sourceVars, countVars, dispVars
  <2> QED BY <2>2, <2>3, <2>4, Forwards
<1>4. CASE HandleFails(n, s) \/ Retry(n, s)
  <2>1. PICK r : Becomes(n, s, r) /\ r.d = slots[n][s].d
    BY <1>4, HandleFailsTypes
  <2>2. UNCHANGED <<delivery, remaining, outcome, sending, todo, queue, lost>>
    BY <1>4 DEF HandleFails, Retry, sourceVars, countVars, dispVars
  <2> QED BY <2>1, <2>2, Retains
<1>5. CASE ForwardFailure(n, s)
  <2>1. PICK e : e = [d |-> slots[n][s].d, failed |-> TRUE]
    OBVIOUS
  <2>2. e.d = slots[n][s].d
    BY <2>1
  <2>3. /\ slots[n][s].d \in Deliveries /\ Becomes(n, s, Free)
        /\ \/ n \notin Leaves /\ UNCHANGED countVars /\ Appended(OutNode[n], e)
           \/ UNCHANGED queue /\ Signal(slots[n][s].d, "err")
    BY <1>5, <2>1, ForwardFailureTypes
  <2>4. UNCHANGED <<delivery, sending, todo, lost>>
    BY <1>5 DEF ForwardFailure, sourceVars, dispVars
  <2>5. CASE n \notin Leaves /\ UNCHANGED countVars /\ Appended(OutNode[n], e)
    <3>1. UNCHANGED <<delivery, remaining, outcome, sending, todo, lost>>
      BY <2>4, <2>5 DEF countVars
    <3> QED BY <2>2, <2>3, <2>5, <3>1, Forwards
  <2>6. CASE UNCHANGED queue /\ Signal(slots[n][s].d, "err")
    <3>1. UNCHANGED <<delivery, sending, todo, queue, lost>>
      BY <2>4, <2>6
    <3> QED BY <2>3, <2>6, <3>1, Signals
  <2> QED BY <2>3, <2>5, <2>6
<1>6. CASE Panic(n, s)
  <2>1. slots[n][s].d \in Deliveries /\ Becomes(n, s, Free)
    BY <1>6, PanicTypes
  <2>2. /\ UNCHANGED <<delivery, remaining, outcome, sending, todo, queue>>
        /\ lost' = lost \cup {slots[n][s].d}
    BY <1>6 DEF Panic, sourceVars, countVars, dispVars
  <2>3. slots'[n][s] = Free /\ \A m \in Processors : \A u \in Slots : m # n \/ u # s => slots'[m][u] = slots[m][u]
    BY <2>1, BecomesTypes
  <2>4. Free.d \notin Deliveries
    BY FreeIs DEF Deliveries
  <2>5. Quiet(d, {}) /\ Still(d)
    BY <2>2, <2>3, <2>4 DEF Quiet, Still, Side
  <2>6. d \in lost' => d \in lost \/ \E x \in Places : Drops(d, x, x)
    BY <2>2, <2>3, SlotDrops, PlacesAre
  <2> QED BY <2>5, <2>6, Stays
<1> QED BY <1>1, <1>2, <1>3, <1>4, <1>5, <1>6

\* What a task's end throws away is lost.
LEMMA GoneKept ==
  ASSUME PTypes, NEW n \in Processors, InitFails(n) \/ Finish(n) \/ Abort(n), NEW d \in Deliveries
  PROVE  Kept(d)
<1>1. n \in Nodes
  BY ProcessorIs
<1>2. UNCHANGED <<delivery, remaining, outcome, sending, todo>> /\ queue' = [queue EXCEPT ![n] = <<>>] /\ Still(d)
  BY DEF InitFails, Finish, Abort, sourceVars, countVars, dispVars, Still, Side
<1>3. queue'[n] = <<>> /\ EventsIn(queue'[n]) = {} /\ \A m \in Nodes \ {n} : queue'[m] = queue[m]
  BY <1>1, <1>2, EmptiedTypes, OneEvent
<1>4. CASE InitFails(n) \/ Finish(n)
  <2>1. UNCHANGED slots /\ lost' = lost \cup EventsIn(queue[n])
    BY <1>4 DEF InitFails, Finish
  <2>2. Quiet(d, {})
    BY <1>2, <1>3, <2>1 DEF Quiet
  <2>3. d \in lost' => d \in lost \/ \E x \in Places : Drops(d, x, x)
    BY <1>1, <1>3, <2>1, EmptiedDrops, PlacesAre
  <2> QED BY <1>2, <2>2, <2>3, Stays
<1>5. CASE Abort(n)
  <2>1. (\A s \in Slots : slots'[n][s] = Free) /\ \A m \in Processors \ {n} : slots'[m] = slots[m]
    BY <1>5, AbortTypes
  <2>2. lost' = lost \cup EventsIn(queue[n]) \cup ({slots[n][s].d : s \in Slots} \ {0})
    BY <1>5 DEF Abort
  <2>3. Free.d \notin Deliveries
    BY FreeIs DEF Deliveries
  <2>4. Quiet(d, {})
    BY <1>2, <1>3, <2>1, <2>3 DEF Quiet
  <2>5. CASE d \in EventsIn(queue[n])
    BY <1>1, <1>2, <1>3, <2>4, <2>5, EmptiedDrops, PlacesAre, Stays
  <2>6. CASE \E s \in Slots : slots[n][s].d = d
    <3>1. PICK s \in Slots : slots[n][s].d = d
      BY <2>6
    <3>2. Drops(d, <<"slot", n, s>>, <<"slot", n, s>>)
      BY <2>1, <3>1, SlotDrops
    <3> QED BY <1>2, <2>4, <3>2, PlacesAre, Stays
  <2>7. CASE d \notin EventsIn(queue[n]) /\ ~ \E s \in Slots : slots[n][s].d = d
    <3>1. d \in lost' => d \in lost
      BY <2>2, <2>7
    <3> QED BY <1>2, <2>4, <3>1, Stays
  <2> QED BY <2>5, <2>6, <2>7
<1> QED BY <1>4, <1>5

LEMMA StutterBooks ==
  ASSUME NEW d, Books(d), UNCHANGED vars
  PROVE  Books(d)'
<1>1. \A x : Owes(d, x)' = Owes(d, x)
  BY DEF vars, sourceVars, dispVars, Owes, AtSource, AtQueue, AtDispatcher, AtSlot, EventsIn
<1>2. Owed(d)' = Owed(d) /\ (Apart(d) => Apart(d)')
  BY <1>1 DEF Owed, Apart, Places
<1>3. UNCHANGED <<delivery, remaining, outcome, lost>>
  BY DEF vars, sourceVars, countVars
<1> QED BY <1>2, <1>3 DEF Books, Covered

LEMMA NextBooks ==
  ASSUME OnePath
  PROVE  PInv /\ [Next]_vars => PInv'
<1> SUFFICES ASSUME PInv, [Next]_vars, NEW d \in Deliveries PROVE Books(d)'
  BY NextTypes DEF PInv, Deliveries
<1>1. PTypes /\ PTypes' /\ Books(d)
  BY NextTypes DEF PInv
<1>2. CASE \E p \in Deliveries : Pull(p)
  BY <1>1, <1>2, PullBooks
<1>3. CASE \E p \in Deliveries : SourceSend(p)
  BY <1>1, <1>3, SourceSendKept, BooksStep
<1>4. CASE \E p \in Deliveries : SourceResult(p) \/ SourceClosed(p) \/ SourceTimeout(p)
  BY <1>1, <1>4, AnswerKept, BooksStep
<1>5. CASE \/ Cancel \/ SourceStops
           \/ \E n \in Dispatchers : DispatchEnd(n)
           \/ \E n \in Processors : Start(n) \/ Close(n)
  BY <1>1, <1>5, EndsKept, BooksStep
<1>6. CASE \E n \in Dispatchers : DispatchTake(n) \/ DispatchSend(n)
  BY <1>1, <1>6, DispatchTakeKept, DispatchSendKept, BooksStep
<1>7. CASE \E n \in Processors : \E s \in Slots : Take(n, s)
  BY <1>1, <1>7, TakeKept, BooksStep
<1>8. CASE \E n \in Processors : \E s \in Slots :
             \/ Handled(n, s) \/ Send(n, s) \/ HandleFails(n, s) \/ Retry(n, s) \/ ForwardFailure(n, s)
             \/ Panic(n, s)
  BY <1>1, <1>8, HandlerKept, BooksStep
<1>9. CASE \E n \in Processors : InitFails(n) \/ Finish(n) \/ Abort(n)
  BY <1>1, <1>9, GoneKept, BooksStep
<1>10. CASE UNCHANGED vars
  BY <1>1, <1>10, StutterBooks
<1> QED BY <1>2, <1>3, <1>4, <1>5, <1>6, <1>7, <1>8, <1>9, <1>10 DEF Next

\* The source acks a message only when every leaf is through with it: no task,
\* dispatcher or channel holds a copy of its event, and none was thrown away by a
\* panic, a failed init or a shutdown (Delivery::process, CompletionState,
\* fan_out, process_events).  For every task list in which no two branches meet
\* again, any number of deliveries in flight, slots and attempts, with retries,
\* timeouts, cancellation and aborts; where branches do meet a leaf signals once
\* per copy, so OnePath is needed.
THEOREM AckIsComplete ==
  ASSUME OnePath
  PROVE  Spec => []AckAfterAllLeaves
<1>1. Init => PInv
  BY InitTypes, InitBooks DEF PInv
<1>2. PInv /\ [Next]_vars => PInv'
  BY NextBooks
<1>3. PInv => AckAfterAllLeaves
  <2> SUFFICES ASSUME PInv, NEW d \in Deliveries, delivery[d] = "acked" PROVE ~InFlow(d) /\ d \notin lost
    BY DEF AckAfterAllLeaves
  <2>1. PTypes /\ Covered(d) /\ remaining[d] = 0
    BY DEF PInv, Books
  <2>2. IsFiniteSet(Owed(d)) /\ Cardinality(Owed(d)) \in Nat
    BY <2>1, OwedTypes
  <2>3. Cardinality(Owed(d)) = 0 /\ d \notin lost
    BY <2>1, <2>2 DEF Covered
  <2>4. \A x \in Places : Owes(d, x) = {}
    BY <2>2, <2>3, FS_EmptySet DEF Owed
  <2>5. ASSUME NEW n \in Nodes, d \in EventsIn(queue[n]) PROVE FALSE
    <3>1. Base(n) \in 1..N
      BY DispatcherIs, ProcessorIs DEF Nodes
    <3>2. Owes(d, <<"queue", n, 1>>) = Below(Base(n))
      BY <2>5, OwesAre DEF AtQueue
    <3> QED BY <2>4, <3>1, <3>2, BelowTypes, PlacesAre
  <2>6. ASSUME NEW n \in Dispatchers, sending[n].d = d PROVE FALSE
    <3>1. sending[n] # NoEvent
      BY <2>6 DEF NoEvent, Deliveries
    <3>2. PICK b \in todo[n] : TRUE
      BY <2>1, <3>1 DEF PTypes
    <3>3. n - N \in 1..N /\ b \in Out[n - N]
      BY <2>1, <3>2, DispatcherIs DEF PTypes
    <3>4. b[1] \in 1..N
      BY <3>3, BranchIs, ProcessorIs
    <3>5. Owes(d, <<"dispatch", n, 1>>) = UNION {Below(c[1]) : c \in todo[n]}
      BY <2>6, OwesAre DEF AtDispatcher
    <3>6. Below(b[1]) # {}
      BY <3>4, BelowTypes
    <3>7. Owes(d, <<"dispatch", n, 1>>) # {}
      BY <3>2, <3>5, <3>6
    <3> QED BY <2>4, <3>7, PlacesAre
  <2>7. ASSUME NEW n \in Processors, NEW s \in Slots, slots[n][s].d = d PROVE FALSE
    <3>1. Owes(d, <<"slot", n, s>>) = Below(n)
      BY <2>7, OwesAre DEF AtSlot
    <3> QED BY <2>4, <3>1, ProcessorIs, BelowTypes, PlacesAre
  <2> QED BY <2>3, <2>5, <2>6, <2>7 DEF InFlow
<1> QED BY <1>1, <1>2, <1>3, PTL DEF Spec

-----------------------------------------------------------------------------
(* An event is judged: the counter waits for no leaf that nothing is on the way to. *)

AllOpen == \A n \in Nodes : Open(n)

\* While all tasks run, what the counter of a delivery still waits for is on its way.
Awaited(d) ==
  AllOpen /\ d \notin lost /\ Outstanding(d) =>
    /\ remaining[d] <= Cardinality(Owed(d))
    /\ outcome[d] = "none" => remaining[d] > 0

JInv == PTypes /\ \A d \in Deliveries : Awaited(d)

\* Outside some places no copy goes away and none loses branches.
Whole(d, here) ==
  /\ <<"source", 1, 1>> \in here \/ (delivery[d] = "sending" => delivery'[d] = "sending")
  /\ \A n \in Nodes : <<"queue", n, 1>> \in here \/ (d \in EventsIn(queue[n]) => d \in EventsIn(queue'[n]))
  /\ \A n \in Dispatchers : \/ <<"dispatch", n, 1>> \in here
                            \/ sending[n].d = d => sending'[n].d = d /\ todo[n] \subseteq todo'[n]
  /\ \A n \in Processors : \A s \in Slots :
       <<"slot", n, s>> \in here \/ (slots[n][s].d = d => slots'[n][s].d = d)

LEMMA WholeKeeps ==
  ASSUME NEW d, NEW here, Whole(d, here), NEW z \in Places \ here
  PROVE  Owes(d, z) \subseteq Owes(d, z)'
<1>1. CASE z = <<"source", 1, 1>>
  <2>1. delivery[d] = "sending" => delivery'[d] = "sending"
    BY <1>1 DEF Whole
  <2> QED BY <1>1, <2>1 DEF Owes, AtSource
<1>2. ASSUME NEW n \in Nodes, z = <<"queue", n, 1>> PROVE Owes(d, z) \subseteq Owes(d, z)'
  <2>1. d \in EventsIn(queue[n]) => d \in EventsIn(queue'[n])
    BY <1>2 DEF Whole
  <2>2. Owes(d, z) = AtQueue(n, d) /\ Owes(d, z)' = AtQueue(n, d)'
    BY <1>2 DEF Owes
  <2> QED BY <2>1, <2>2 DEF AtQueue, EventsIn
<1>3. ASSUME NEW n \in Dispatchers, z = <<"dispatch", n, 1>> PROVE Owes(d, z) \subseteq Owes(d, z)'
  <2>1. sending[n].d = d => sending'[n].d = d /\ todo[n] \subseteq todo'[n]
    BY <1>3 DEF Whole
  <2>2. Owes(d, z) = AtDispatcher(n, d) /\ Owes(d, z)' = AtDispatcher(n, d)'
    BY <1>3 DEF Owes
  <2> QED BY <2>1, <2>2 DEF AtDispatcher
<1>4. ASSUME NEW n \in Processors, NEW s \in Slots, z = <<"slot", n, s>> PROVE Owes(d, z) \subseteq Owes(d, z)'
  <2>1. slots[n][s].d = d => slots'[n][s].d = d
    BY <1>4 DEF Whole
  <2>2. Owes(d, z) = AtSlot(n, s, d) /\ Owes(d, z)' = AtSlot(n, s, d)'
    BY <1>4 DEF Owes
  <2> QED BY <2>1, <2>2 DEF AtSlot
<1> QED BY <1>1, <1>2, <1>3, <1>4 DEF Places

\* What is owed stays owed, perhaps elsewhere; or one leaf signals.
Carried(d) ==
  /\ remaining'[d] = remaining[d] /\ outcome'[d] = outcome[d]
  /\ Owed(d) \subseteq Owed(d)'
Served(d) ==
  /\ remaining'[d] = IF remaining[d] = 0 THEN 0 ELSE remaining[d] - 1
  /\ outcome'[d] = outcome[d] \/ outcome'[d] # "none"
  /\ remaining[d] = 1 => outcome'[d] # "none"
  /\ \E l : Owed(d) \subseteq Owed(d)' \cup {l}

\* Everything that x owed is owed by x and y.
LEMMA Carries ==
  ASSUME NEW d, NEW x \in Places, NEW y \in Places, Whole(d, {x}),
         Owes(d, x) \subseteq Owes(d, x)' \cup Owes(d, y)'
  PROVE  Owed(d) \subseteq Owed(d)'
<1>1. \A z \in Places \ {x} : Owes(d, z) \subseteq Owes(d, z)'
  BY WholeKeeps
<1>2. ASSUME NEW l \in Owed(d) PROVE \E z \in Places : l \in Owes(d, z)'
  <2>1. PICK z \in Places : l \in Owes(d, z)
    BY DEF Owed
  <2>2. CASE z = x
    BY <2>1, <2>2
  <2>3. CASE z # x
    BY <1>1, <2>1, <2>3
  <2> QED BY <2>2, <2>3
<1>3. Owed(d)' = UNION {Owes(d, z)' : z \in Places}
  BY DEF Owed, Places
<1>4. ASSUME NEW l \in Owed(d) PROVE l \in Owed(d)'
  BY <1>2, <1>3
<1> QED BY <1>4

LEMMA Rests ==
  ASSUME NEW d, Whole(d, {}), remaining'[d] = remaining[d], outcome'[d] = outcome[d]
  PROVE  Carried(d)
<1>1. PICK x : x = <<"source", 1, 1>>
  OBVIOUS
<1>2. x \in Places /\ Whole(d, {x})
  BY <1>1, PlacesAre DEF Whole
<1>3. Owes(d, x) \subseteq Owes(d, x)'
  BY <1>2, WholeKeeps
<1> QED BY <1>2, <1>3, Carries DEF Carried

\* The tasks only ever end.
LEMMA OpenBefore ==
  ASSUME PTypes, Next, AllOpen'
  PROVE  AllOpen
<1> SUFFICES ASSUME NEW n \in Nodes PROVE alive[n] \in {"init", "running"}
  BY DEF AllOpen, Open, Nodes
<1>1. alive'[n] \in {"init", "running"}
  BY DEF AllOpen, Open, Nodes
<1>2. CASE alive'[n] = alive[n]
  BY <1>1, <1>2
<1>3. CASE alive'[n] # alive[n]
  <2>1. \/ \E m \in Dispatchers : DispatchTake(m) \/ DispatchEnd(m)
        \/ \E m \in Processors : Start(m) \/ InitFails(m) \/ Close(m) \/ Finish(m) \/ Abort(m)
    BY <1>3 DEF Next, Pull, SourceSend, SourceResult, SourceClosed, SourceTimeout, Answer, Cancel, SourceStops,
                DispatchSend, Take, Handled, Send, HandleFails, Retry, ForwardFailure, Panic
  <2>2. \A m : alive' = [alive EXCEPT ![m] = "done"] \/ alive' = [alive EXCEPT ![m] = "closing"] => alive'[n] = alive[n] \/ alive'[n] \in {"done", "closing"}
    BY DEF PTypes
  <2>3. \A m : alive' = [alive EXCEPT ![m] = "running"] => m = n \/ alive'[n] = alive[n]
    BY DEF PTypes
  <2>4. PICK m \in Nodes : Start(m)
    BY <1>1, <1>3, <2>1, <2>2 DEF DispatchTake, DispatchEnd, InitFails, Close, Finish, Abort, Nodes
  <2> QED BY <1>3, <2>3, <2>4 DEF Start
<1> QED BY <1>2, <1>3

LEMMA AwaitedStep ==
  ASSUME PTypes, PTypes', NEW d \in Deliveries, Awaited(d), AllOpen, d \notin lost, Outstanding(d),
         Carried(d) \/ Served(d)
  PROVE  Awaited(d)'
<1>1. remaining[d] <= Cardinality(Owed(d)) /\ (outcome[d] = "none" => remaining[d] > 0)
  BY DEF Awaited
<1>2. /\ IsFiniteSet(Owed(d)) /\ Cardinality(Owed(d)) \in Nat
      /\ IsFiniteSet(Owed(d)') /\ Cardinality(Owed(d)') \in Nat
  <2>1. IsFiniteSet(Owed(d)) /\ Cardinality(Owed(d)) \in Nat
    BY OwedTypes
  <2>2. (IsFiniteSet(Owed(d)) /\ Cardinality(Owed(d)) \in Nat)'
    BY OwedTypes, PTL
  <2> QED BY <2>1, <2>2
<1>3. remaining[d] \in Nat /\ remaining'[d] \in Nat
  BY NIs DEF PTypes
<1>4. CASE Carried(d)
  <2>1. Cardinality(Owed(d)) <= Cardinality(Owed(d)')
    BY <1>2, <1>4, FS_Subset DEF Carried
  <2> QED BY <1>1, <1>2, <1>3, <1>4, <2>1 DEF Carried, Awaited
<1>5. CASE Served(d)
  <2>1. PICK l : Owed(d) \subseteq Owed(d)' \cup {l}
    BY <1>5 DEF Served
  <2>2. IsFiniteSet(Owed(d)' \cup {l}) /\ Cardinality(Owed(d)' \cup {l}) <= Cardinality(Owed(d)') + 1
    <3>1. /\ IsFiniteSet(Owed(d)' \cup {l})
          /\ Cardinality(Owed(d)' \cup {l}) = IF l \in Owed(d)' THEN Cardinality(Owed(d)') ELSE Cardinality(Owed(d)') + 1
      BY <1>2, FS_AddElement
    <3> QED BY <1>2, <3>1
  <2>3. Cardinality(Owed(d)) <= Cardinality(Owed(d)') + 1
    <3>1. Cardinality(Owed(d)) <= Cardinality(Owed(d)' \cup {l})
      BY <2>1, <2>2, FS_Subset
    <3>2. Cardinality(Owed(d)' \cup {l}) \in Nat
      BY <2>2, FS_CardinalityType
    <3> QED BY <1>2, <2>2, <3>1, <3>2
  <2>4. remaining'[d] <= Cardinality(Owed(d)')
    BY <1>1, <1>2, <1>3, <1>5, <2>3 DEF Served
  <2>5. outcome'[d] = "none" => remaining'[d] > 0
    BY <1>1, <1>3, <1>5 DEF Served
  <2> QED BY <2>4, <2>5 DEF Awaited
<1> QED BY <1>4, <1>5

\* A new delivery waits for all leaves of the source.
LEMMA PullAwaited ==
  ASSUME PTypes, NEW p \in Deliveries, Pull(p), NEW d \in Deliveries, Awaited(d),
         AllOpen, d \notin lost', Outstanding(d)'
  PROVE  Awaited(d)'
<1>1. /\ delivery'[p] \in {"sending", "nacked"}
      /\ \A e \in Deliveries \ {p} : delivery'[e] = delivery[e] /\ remaining'[e] = remaining[e]
      /\ remaining'[p] = Wiring.leaves[Source]
      /\ UNCHANGED <<outcome, sending, todo, queue, slots, lost>>
  BY DEF Pull, PTypes, dispVars
<1>2. PTypes'
  BY PullTypes
<1>3. CASE d # p
  <2>1. Whole(d, {}) /\ Outstanding(d) /\ remaining'[d] = remaining[d] /\ outcome'[d] = outcome[d]
    BY <1>1, <1>3 DEF Whole, Outstanding
  <2> QED BY <1>1, <1>2, <2>1, Rests, AwaitedStep
<1>4. CASE d = p
  <2>1. delivery'[d] = "sending"
    BY <1>1, <1>4 DEF Outstanding
  <2>2. PICK x : x = <<"source", 1, 1>>
    OBVIOUS
  <2>3. x \in Places /\ Owes(d, x)' = Below(Source)
    <3>1. Owes(d, x)' = AtSource(d)'
      BY <2>2 DEF Owes
    <3> QED BY <2>1, <2>2, <3>1, PlacesAre DEF AtSource
  <2>4. Below(Source) \subseteq Owed(d)'
    <3>1. Owed(d)' = UNION {Owes(d, z)' : z \in Places}
      BY DEF Owed, Places
    <3> QED BY <2>3, <3>1
  <2>5. IsFiniteSet(Owed(d)') /\ Cardinality(Owed(d)') \in Nat
    <3>1. (IsFiniteSet(Owed(d)) /\ Cardinality(Owed(d)) \in Nat)'
      BY <1>2, OwedTypes, PTL
    <3> QED BY <3>1
  <2>6. remaining'[d] = Cardinality(Below(Source)) /\ Below(Source) # {} /\ IsFiniteSet(Below(Source))
    BY <1>1, <1>4, BelowTypes, SourceBranches, WiringIs
  <2>7. Cardinality(Below(Source)) <= Cardinality(Owed(d)')
    BY <2>4, <2>5, FS_Subset
  <2>8. Cardinality(Below(Source)) \in Nat /\ Cardinality(Below(Source)) # 0
    BY <2>6, FS_CardinalityType, FS_EmptySet
  <2> QED BY <2>6, <2>7, <2>8 DEF Awaited
<1> QED BY <1>3, <1>4

\* The event goes into the channel of the first task, which is open.
LEMMA SourceSendCarries ==
  ASSUME AllOpen, PTypes, NEW p \in Deliveries, SourceSend(p), NEW d \in Deliveries, Outstanding(d)'
  PROVE  Carried(d) /\ Outstanding(d)
<1>1. PICK out : out = OutNode[Source]
  OBVIOUS
<1>2. PICK e : e = [d |-> p, failed |-> FALSE]
  OBVIOUS
<1>3. out \in Nodes /\ Source \in 1..N /\ Out[Source] # {} /\ Open(out)
  BY <1>1, SourceBranches, OutNodeIs DEF AllOpen
<1>4. /\ delivery[p] = "sending" /\ \A x \in Deliveries \ {p} : delivery'[x] = delivery[x]
      /\ Space(out) /\ queue' = [queue EXCEPT ![out] = Append(@, e)]
      /\ UNCHANGED <<remaining, outcome, sending, todo, slots, lost>>
  BY <1>1, <1>2, <1>3 DEF SourceSend, PTypes, countVars, dispVars
<1>5. Outstanding(d)
  BY <1>4 DEF Outstanding
<1>6. Appended(out, e) /\ e.d = p
  <2>1. e \in Event /\ e.d = p
    BY <1>2 DEF Event
  <2> QED BY <1>3, <1>4, <2>1, SpaceIs DEF Appended
<1>7. EventsIn(queue'[out]) = {p} /\ queue[out] = <<>> /\ \A n \in Nodes \ {out} : queue'[n] = queue[n]
  BY <1>3, <1>6, AppendedTypes DEF Appended
<1>8. \A n \in Nodes : d \in EventsIn(queue[n]) => d \in EventsIn(queue'[n])
  BY <1>7, OneEvent
<1>9. CASE d # p
  <2>1. Whole(d, {})
    BY <1>4, <1>8, <1>9 DEF Whole
  <2> QED BY <1>4, <1>5, <2>1, Rests
<1>10. CASE d = p
  <2>1. PICK x, y : x = <<"source", 1, 1>> /\ y = <<"queue", out, 1>>
    OBVIOUS
  <2>2. x \in Places /\ y \in Places /\ Whole(d, {x})
    BY <1>3, <1>4, <1>8, <2>1, PlacesAre DEF Whole
  <2>3. Owes(d, x) = Below(Source)
    BY <1>4, <1>10, <2>1, OwesAre DEF AtSource
  <2>4. Owes(d, y)' = Below(Source)
    <3>1. Owes(d, y)' = AtQueue(out, d)'
      BY <2>1 DEF Owes
    <3>2. Below(Base(out)) = Below(Source)
      BY <1>1, <1>3, OutNodeBelow
    <3> QED BY <1>7, <1>10, <3>1, <3>2 DEF AtQueue
  <2>5. Owed(d) \subseteq Owed(d)'
    BY <2>2, <2>3, <2>4, Carries
  <2> QED BY <1>4, <1>5, <2>5 DEF Carried
<1> QED BY <1>9, <1>10

\* A delivery that stays with the source is not the answered one.
LEMMA AnswerCarries ==
  ASSUME PTypes, NEW d \in Deliveries, Outstanding(d)',
         \/ \E p \in Deliveries : SourceResult(p) \/ SourceClosed(p) \/ SourceTimeout(p)
         \/ Cancel \/ SourceStops \/ \E n \in Processors : Start(n)
  PROVE  Carried(d) /\ Outstanding(d)
<1>1. UNCHANGED <<remaining, outcome, sending, todo, queue, slots, lost>>
  BY DEF SourceResult, SourceClosed, SourceTimeout, Answer, Cancel, SourceStops, Start, countVars, dispVars
<1>2. delivery'[d] = delivery[d]
  <2>1. CASE \E p \in Deliveries : SourceResult(p) \/ SourceClosed(p) \/ SourceTimeout(p)
    <3>1. PICK p \in Deliveries, reply \in {"acked", "nacked"} : Answer(p, reply)
      BY <2>1 DEF SourceResult, SourceClosed, SourceTimeout
    <3>2. delivery' = [delivery EXCEPT ![p] = reply]
      BY <3>1 DEF Answer
    <3> QED BY <3>2 DEF Outstanding, PTypes
  <2>2. CASE SourceStops
    BY <2>2 DEF SourceStops, Outstanding
  <2>3. CASE Cancel \/ \E n \in Processors : Start(n)
    BY <2>3 DEF Cancel, Start, sourceVars
  <2> QED BY <2>1, <2>2, <2>3
<1>3. Whole(d, {}) /\ Outstanding(d)
  BY <1>1, <1>2 DEF Whole, Outstanding
<1> QED BY <1>1, <1>3, Rests

\* The dispatcher keeps all its branches, which are open.
LEMMA DispatchTakeCarries ==
  ASSUME AllOpen, PTypes, NEW n \in Dispatchers, DispatchTake(n), NEW d \in Deliveries
  PROVE  Carried(d)
<1>1. PICK branches : branches = Out[n - N]
  OBVIOUS
<1>2. PICK e : e = Head(queue[n])
  OBVIOUS
<1>3. n \in Nodes /\ n - N \in 1..N /\ Base(n) = n - N /\ branches # {} /\ queue[n] # <<>>
  BY <1>1, DispatcherIs DEF DispatchTake
<1>4. {b \in Out[n - N] : Open(b[1])} = branches
  <2>1. \A b \in Out[n - N] : Open(b[1])
    BY <1>3, BranchIs, ProcessorIs DEF AllOpen
  <2> QED BY <1>1, <2>1
<1>5. EventsIn(queue[n]) = {e.d} /\ Tail(queue[n]) = <<>>
  BY <1>2, <1>3, HeadTypes
<1>6. sending[n] = NoEvent /\ NoEvent.d # d
  BY DEF DispatchTake, NoEvent, Deliveries
<1>7. /\ sending' = [sending EXCEPT ![n] = e] /\ todo' = [todo EXCEPT ![n] = branches]
      /\ queue' = [queue EXCEPT ![n] = <<>>]
      /\ UNCHANGED <<delivery, remaining, outcome, slots>>
  BY <1>2, <1>3, <1>4, <1>5 DEF DispatchTake, sourceVars, countVars
<1>8. \A m \in Nodes \ {n} : queue'[m] = queue[m]
  BY <1>7, EmptiedTypes
<1>9. /\ sending'[n] = e /\ todo'[n] = branches
      /\ \A m \in Dispatchers \ {n} : sending'[m] = sending[m] /\ todo'[m] = todo[m]
  BY <1>7 DEF PTypes
<1>10. CASE d # e.d
  <2>1. Whole(d, {})
    BY <1>5, <1>6, <1>7, <1>8, <1>9, <1>10 DEF Whole
  <2> QED BY <1>7, <2>1, Rests
<1>11. CASE d = e.d
  <2>1. PICK x, y : x = <<"queue", n, 1>> /\ y = <<"dispatch", n, 1>>
    OBVIOUS
  <2>2. x \in Places /\ y \in Places /\ Whole(d, {x})
    BY <1>3, <1>6, <1>7, <1>8, <1>9, <2>1, PlacesAre DEF Whole
  <2>3. Owes(d, x) = Below(n - N)
    BY <1>3, <1>5, <1>11, <2>1, OwesAre DEF AtQueue
  <2>4. Owes(d, y)' = UNION {Below(b[1]) : b \in branches}
    <3>1. Owes(d, y)' = AtDispatcher(n, d)'
      BY <2>1 DEF Owes
    <3> QED BY <1>9, <1>11, <3>1 DEF AtDispatcher
  <2>5. Owes(d, x) = Owes(d, y)'
    BY <1>1, <1>3, <2>3, <2>4, BelowIs
  <2>6. Owed(d) \subseteq Owed(d)'
    BY <2>2, <2>5, Carries
  <2> QED BY <1>7, <2>6 DEF Carried
<1> QED BY <1>10, <1>11

\* A branch gets its clone, the others are still to come.
LEMMA DispatchSendCarries ==
  ASSUME AllOpen, PTypes, NEW n \in Dispatchers, DispatchSend(n), NEW d \in Deliveries
  PROVE  Carried(d)
<1>1. PICK b : b = NextBranch(n)
  OBVIOUS
<1>2. PICK e : e = sending[n]
  OBVIOUS
<1>3. PICK rest : rest = todo[n] \ {b}
  OBVIOUS
<1>4. todo[n] # {} /\ n - N \in 1..N /\ todo[n] \subseteq Out[n - N]
  BY DispatcherIs DEF DispatchSend, PTypes
<1>5. b \in todo[n] /\ b[1] \in Nodes /\ Base(b[1]) = b[1] /\ Open(b[1])
  <2>1. b \in todo[n]
    BY <1>1, <1>4, NextBranchIs
  <2> QED BY <1>4, <2>1, BranchIs, ProcessorIs DEF AllOpen
<1>6. /\ Space(b[1]) /\ queue' = [queue EXCEPT ![b[1]] = Append(@, e)]
      /\ todo' = [todo EXCEPT ![n] = rest]
      /\ sending' = [sending EXCEPT ![n] = IF rest = {} THEN NoEvent ELSE @]
      /\ UNCHANGED <<delivery, remaining, outcome, slots>>
  BY <1>1, <1>2, <1>3, <1>5 DEF DispatchSend, sourceVars, countVars
<1>7. e \in Event
  BY <1>2, <1>4 DEF PTypes
<1>8. Appended(b[1], e)
  BY <1>5, <1>6, <1>7, SpaceIs DEF Appended
<1>9. EventsIn(queue'[b[1]]) = {e.d} /\ queue[b[1]] = <<>> /\ \A m \in Nodes \ {b[1]} : queue'[m] = queue[m]
  BY <1>5, <1>8, AppendedTypes DEF Appended
<1>10. \A m \in Nodes : d \in EventsIn(queue[m]) => d \in EventsIn(queue'[m])
  BY <1>9, OneEvent
<1>11. /\ todo'[n] = rest /\ sending'[n] = IF rest = {} THEN NoEvent ELSE e
       /\ \A m \in Dispatchers \ {n} : sending'[m] = sending[m] /\ todo'[m] = todo[m]
  BY <1>2, <1>6 DEF PTypes
<1>12. CASE d # e.d
  <2>1. Whole(d, {})
    BY <1>2, <1>6, <1>10, <1>11, <1>12 DEF Whole
  <2> QED BY <1>6, <2>1, Rests
<1>13. CASE d = e.d
  <2>1. PICK x, y : x = <<"dispatch", n, 1>> /\ y = <<"queue", b[1], 1>>
    OBVIOUS
  <2>2. x \in Places /\ y \in Places /\ Whole(d, {x})
    BY <1>5, <1>6, <1>10, <1>11, <2>1, PlacesAre DEF Whole
  <2>3. Owes(d, x) = UNION {Below(c[1]) : c \in todo[n]}
    BY <1>2, <1>13, <2>1, OwesAre DEF AtDispatcher
  <2>4. Owes(d, y)' = Below(b[1])
    <3>1. Owes(d, y)' = AtQueue(b[1], d)'
      BY <2>1 DEF Owes
    <3> QED BY <1>5, <1>9, <1>13, <3>1 DEF AtQueue
  <2>5. UNION {Below(c[1]) : c \in rest} \subseteq Owes(d, x)'
    <3>1. CASE rest = {}
      BY <3>1
    <3>2. CASE rest # {}
      <4>1. Owes(d, x)' = AtDispatcher(n, d)' /\ sending'[n].d = d
        BY <1>11, <1>13, <2>1, <3>2 DEF Owes
      <4> QED BY <1>11, <4>1 DEF AtDispatcher
    <3> QED BY <3>1, <3>2
  <2>6. Owes(d, x) \subseteq Owes(d, x)' \cup Owes(d, y)'
    BY <1>3, <2>3, <2>4, <2>5
  <2>7. Owed(d) \subseteq Owed(d)'
    BY <2>2, <2>6, Carries
  <2> QED BY <1>6, <2>7 DEF Carried
<1> QED BY <1>12, <1>13

\* The event goes from the channel into a slot.
LEMMA TakeCarries ==
  ASSUME PTypes, NEW n \in Processors, NEW s \in Slots, Take(n, s), NEW d \in Deliveries
  PROVE  Carried(d)
<1>1. PICK r : Becomes(n, s, r) /\ r.d = Head(queue[n]).d
  BY TakeTypes
<1>2. n \in Nodes /\ Base(n) = n /\ queue[n] # <<>>
  BY ProcessorIs DEF Take
<1>3. EventsIn(queue[n]) = {r.d}
  BY <1>1, <1>2, HeadTypes
<1>4. \A m \in Nodes \ {n} : queue'[m] = queue[m]
  <2>1. queue' = [queue EXCEPT ![n] = <<>>]
    BY TakeTypes
  <2> QED BY <2>1, EmptiedTypes
<1>5. slots'[n][s] = r /\ \A m \in Processors : \A u \in Slots : m # n \/ u # s => slots'[m][u] = slots[m][u]
  BY <1>1, BecomesTypes
<1>6. UNCHANGED <<delivery, remaining, outcome, sending, todo>> /\ slots[n][s].d # d
  <2>1. slots[n][s].d # d
    BY FreeIs DEF Take, Deliveries
  <2> QED BY <2>1 DEF Take, sourceVars, countVars, dispVars
<1>7. CASE d # r.d
  <2>1. Whole(d, {})
    BY <1>3, <1>4, <1>5, <1>6, <1>7 DEF Whole
  <2> QED BY <1>6, <2>1, Rests
<1>8. CASE d = r.d
  <2>1. PICK x, y : x = <<"queue", n, 1>> /\ y = <<"slot", n, s>>
    OBVIOUS
  <2>2. x \in Places /\ y \in Places /\ Whole(d, {x})
    BY <1>2, <1>4, <1>5, <1>6, <2>1, PlacesAre DEF Whole
  <2>3. Owes(d, x) = Below(n)
    BY <1>2, <1>3, <1>8, <2>1, OwesAre DEF AtQueue
  <2>4. Owes(d, y)' = Below(n)
    <3>1. Owes(d, y)' = AtSlot(n, s, d)'
      BY <2>1 DEF Owes
    <3> QED BY <1>5, <1>8, <3>1 DEF AtSlot
  <2>5. Owed(d) \subseteq Owed(d)'
    BY <2>2, <2>3, <2>4, Carries
  <2> QED BY <1>6, <2>5 DEF Carried
<1> QED BY <1>7, <1>8

\* A leaf's signal is the one that was owed there.
LEMMA SignalServes ==
  ASSUME PTypes, NEW n \in Leaves, NEW s \in Slots, NEW v \in {"ok", "err"}, Signal(slots[n][s].d, v),
         Becomes(n, s, Free), UNCHANGED <<delivery, sending, todo, queue, lost>>, NEW d \in Deliveries
  PROVE  Carried(d) \/ Served(d)
<1>1. n \in Processors /\ n \in 1..N /\ Out[n] = {}
  BY ProcessorIs DEF Leaves
<1>2. slots'[n][s] = Free /\ \A m \in Processors : \A u \in Slots : m # n \/ u # s => slots'[m][u] = slots[m][u]
  BY <1>1, BecomesTypes
<1>3. CASE d # slots[n][s].d
  <2>1. Whole(d, {})
    BY <1>2, <1>3 DEF Whole
  <2>2. remaining'[d] = remaining[d] /\ outcome'[d] = outcome[d]
    BY <1>3 DEF Signal, PTypes
  <2> QED BY <2>1, <2>2, Rests
<1>4. CASE d = slots[n][s].d
  <2>1. PICK x : x = <<"slot", n, s>>
    OBVIOUS
  <2>2. Whole(d, {x})
    BY <1>2, <2>1 DEF Whole
  <2>3. Owes(d, x) = {n}
    <3>1. Owes(d, x) = Below(n)
      BY <1>4, <2>1, OwesAre DEF AtSlot
    <3> QED BY <1>1, <3>1, BelowIs
  <2>4. \A z \in Places \ {x} : Owes(d, z) \subseteq Owes(d, z)'
    BY <2>2, WholeKeeps
  <2>5. Owed(d)' = UNION {Owes(d, z)' : z \in Places}
    BY DEF Owed, Places
  <2>6. ASSUME NEW l \in Owed(d) PROVE l \in Owed(d)' \cup {n}
    <3>1. PICK z \in Places : l \in Owes(d, z)
      BY DEF Owed
    <3>2. CASE z = x
      BY <2>3, <3>1, <3>2
    <3>3. CASE z # x
      <4>1. l \in Owes(d, z)'
        BY <2>4, <3>1, <3>3
      <4> QED BY <2>5, <4>1
    <3> QED BY <3>2, <3>3
  <2>7. /\ remaining'[d] = IF remaining[d] = 0 THEN 0 ELSE remaining[d] - 1
        /\ outcome'[d] = IF remaining[d] = 1 THEN v ELSE outcome[d]
    BY <1>4 DEF Signal, PTypes
  <2> QED BY <2>6, <2>7 DEF Served
<1> QED BY <1>3, <1>4

\* What another task sends on, its result or the failed event, is owed downstream.
LEMMA ForwardCarries ==
  ASSUME PTypes, NEW n \in Processors, NEW s \in Slots, n \notin Leaves,
         NEW e, e.d = slots[n][s].d, Appended(OutNode[n], e), Becomes(n, s, Free),
         UNCHANGED <<delivery, remaining, outcome, sending, todo, lost>>, NEW d \in Deliveries
  PROVE  Carried(d)
<1>1. n \in 1..N /\ Out[n] # {} /\ OutNode[n] \in Nodes
  BY ProcessorIs
<1>2. PICK out : out = OutNode[n]
  OBVIOUS
<1>3. slots'[n][s] = Free /\ \A m \in Processors : \A u \in Slots : m # n \/ u # s => slots'[m][u] = slots[m][u]
  BY BecomesTypes
<1>4. EventsIn(queue'[out]) = {e.d} /\ queue[out] = <<>> /\ \A m \in Nodes \ {out} : queue'[m] = queue[m]
  BY <1>1, <1>2, AppendedTypes DEF Appended
<1>5. \A m \in Nodes : d \in EventsIn(queue[m]) => d \in EventsIn(queue'[m])
  BY <1>4, OneEvent
<1>6. CASE d # e.d
  <2>1. Whole(d, {})
    BY <1>3, <1>5, <1>6 DEF Whole
  <2> QED BY <2>1, Rests
<1>7. CASE d = e.d
  <2>1. PICK x, y : x = <<"slot", n, s>> /\ y = <<"queue", out, 1>>
    OBVIOUS
  <2>2. x \in Places /\ y \in Places /\ Whole(d, {x})
    BY <1>1, <1>2, <1>3, <1>5, <2>1, PlacesAre DEF Whole
  <2>3. Owes(d, x) = Below(n)
    BY <1>7, <2>1, OwesAre DEF AtSlot
  <2>4. Owes(d, y)' = Below(n)
    <3>1. Owes(d, y)' = AtQueue(out, d)'
      BY <2>1 DEF Owes
    <3>2. Below(Base(out)) = Below(n)
      BY <1>1, <1>2, OutNodeBelow
    <3> QED BY <1>4, <1>7, <3>1, <3>2 DEF AtQueue
  <2>5. Owed(d) \subseteq Owed(d)'
    BY <2>2, <2>3, <2>4, Carries
  <2> QED BY <2>5 DEF Carried
<1> QED BY <1>6, <1>7

LEMMA RetainCarries ==
  ASSUME PTypes, NEW n \in Processors, NEW s \in Slots, NEW r, Becomes(n, s, r), r.d = slots[n][s].d,
         UNCHANGED <<delivery, remaining, outcome, sending, todo, queue, lost>>, NEW d \in Deliveries
  PROVE  Carried(d)
<1>1. slots'[n][s] = r /\ \A m \in Processors : \A u \in Slots : m # n \/ u # s => slots'[m][u] = slots[m][u]
  BY BecomesTypes
<1>2. Whole(d, {})
  BY <1>1 DEF Whole
<1> QED BY <1>2, Rests

LEMMA HandlerCarries ==
  ASSUME AllOpen, PTypes, NEW n \in Processors, NEW s \in Slots,
         \/ Handled(n, s) \/ Send(n, s) \/ HandleFails(n, s) \/ Retry(n, s) \/ ForwardFailure(n, s)
         \/ Panic(n, s),
         NEW d \in Deliveries, d \notin lost'
  PROVE  Carried(d) \/ Served(d)
<1>1. CASE Handled(n, s) /\ n \in Leaves
  <2>1. Becomes(n, s, Free)
    BY <1>1, HandledTypes
  <2>2. Signal(slots[n][s].d, "ok") /\ UNCHANGED <<delivery, sending, todo, queue, lost>>
    BY <1>1 DEF Handled, sourceVars, dispVars
  <2> QED BY <1>1, <2>1, <2>2, SignalServes
<1>2. CASE Handled(n, s) /\ n \notin Leaves
  <2>1. PICK r : Becomes(n, s, r) /\ r.d = slots[n][s].d
    BY <1>2, HandledTypes
  <2>2. UNCHANGED <<delivery, remaining, outcome, sending, todo, queue, lost>>
    BY <1>2 DEF Handled, sourceVars, countVars, dispVars
  <2> QED BY <2>1, <2>2, RetainCarries
<1>3. CASE Send(n, s)
  <2>1. PICK e : e = [d |-> slots[n][s].d, failed |-> FALSE]
    OBVIOUS
  <2>2. e.d = slots[n][s].d
    BY <2>1
  <2>3. n \notin Leaves /\ Becomes(n, s, Free) /\ Appended(OutNode[n], e)
    BY <1>3, <2>1, SendTypes
  <2>4. UNCHANGED <<delivery, remaining, outcome, sending, todo, lost>>
    BY <1>3 DEF Send, sourceVars, countVars, dispVars
  <2> QED BY <2>2, <2>3, <2>4, ForwardCarries
<1>4. CASE HandleFails(n, s) \/ Retry(n, s)
  <2>1. PICK r : Becomes(n, s, r) /\ r.d = slots[n][s].d
    BY <1>4, HandleFailsTypes
  <2>2. UNCHANGED <<delivery, remaining, outcome, sending, todo, queue, lost>>
    BY <1>4 DEF HandleFails, Retry, sourceVars, countVars, dispVars
  <2> QED BY <2>1, <2>2, RetainCarries
<1>5. CASE ForwardFailure(n, s) /\ n \in Leaves
  <2>1. Becomes(n, s, Free)
    BY <1>5, ForwardFailureTypes
  <2>2. OutNode[n] = 0
    BY <1>5, ProcessorIs
  <2>3. Signal(slots[n][s].d, "err") /\ UNCHANGED <<delivery, sending, todo, queue, lost>>
    BY <1>5, <2>2 DEF ForwardFailure, sourceVars, dispVars
  <2> QED BY <1>5, <2>1, <2>3, SignalServes
<1>6. CASE ForwardFailure(n, s) /\ n \notin Leaves
  <2>1. PICK e : e = [d |-> slots[n][s].d, failed |-> TRUE]
    OBVIOUS
  <2>2. e.d = slots[n][s].d
    BY <2>1
  <2>3. OutNode[n] \in Nodes /\ OutNode[n] # 0 /\ Open(OutNode[n])
    BY <1>6, ProcessorIs DEF AllOpen
  <2>4. /\ Space(OutNode[n]) /\ queue' = [queue EXCEPT ![OutNode[n]] = Append(@, e)]
        /\ UNCHANGED <<delivery, remaining, outcome, sending, todo, lost>>
    BY <1>6, <2>1, <2>3 DEF ForwardFailure, sourceVars, countVars, dispVars
  <2>5. slots[n][s].d \in Deliveries /\ Becomes(n, s, Free)
    BY <1>6, ForwardFailureTypes
  <2>6. e \in Event
    BY <2>1, <2>5 DEF Event
  <2>7. Appended(OutNode[n], e)
    BY <2>3, <2>4, <2>6, SpaceIs DEF Appended
  <2> QED BY <1>6, <2>2, <2>4, <2>5, <2>7, ForwardCarries
<1>7. CASE Panic(n, s)
  <2>1. Becomes(n, s, Free)
    BY <1>7, PanicTypes
  <2>2. UNCHANGED <<delivery, remaining, outcome, sending, todo, queue>> /\ slots[n][s].d # d
    BY <1>7 DEF Panic, sourceVars, countVars, dispVars
  <2>3. \A m \in Processors : \A u \in Slots : m # n \/ u # s => slots'[m][u] = slots[m][u]
    BY <2>1, BecomesTypes
  <2>4. Whole(d, {})
    BY <2>2, <2>3 DEF Whole
  <2> QED BY <2>2, <2>4, Rests
<1> QED BY <1>1, <1>2, <1>3, <1>4, <1>5, <1>6, <1>7

\* A task or dispatcher that ends is not open.
LEMMA EndsClose ==
  ASSUME PTypes, AllOpen'
  PROVE  /\ \A n \in Dispatchers : ~DispatchEnd(n)
         /\ \A n \in Processors : ~InitFails(n) /\ ~Close(n) /\ ~Finish(n) /\ ~Abort(n)
<1> SUFFICES ASSUME NEW n \in Nodes,
                    \/ alive' = [alive EXCEPT ![n] = "done"]
                    \/ alive' = [alive EXCEPT ![n] = "closing"]
             PROVE  FALSE
  BY DEF DispatchEnd, InitFails, Close, Finish, Abort, Nodes
<1>1. alive'[n] \in {"done", "closing"}
  BY DEF PTypes
<1> QED BY <1>1 DEF AllOpen, Open, Nodes

LEMMA NextAwaited ==
  ASSUME PTypes, [Next]_vars, NEW d \in Deliveries, Awaited(d)
  PROVE  Awaited(d)'
<1> SUFFICES ASSUME AllOpen', d \notin lost', Outstanding(d)' PROVE Awaited(d)'
  BY DEF Awaited
<1>1. PTypes'
  BY NextTypes
<1>2. CASE UNCHANGED vars
  <2>1. UNCHANGED <<delivery, remaining, outcome, sending, todo, queue, slots, alive, lost>>
    BY <1>2 DEF vars, sourceVars, countVars, dispVars
  <2>2. Whole(d, {}) /\ Outstanding(d) /\ AllOpen
    BY <2>1 DEF Whole, Outstanding, AllOpen, Open, Nodes
  <2> QED BY <1>1, <2>1, <2>2, Rests, AwaitedStep
<1>3. CASE Next
  <2>1. AllOpen
    BY <1>3, OpenBefore
  <2>2. d \notin lost
    BY <1>3 DEF Next, Pull, SourceSend, SourceResult, SourceClosed, SourceTimeout, Answer, Cancel, SourceStops,
                DispatchTake, DispatchSend, DispatchEnd, Start, InitFails, Take, Handled, Send, HandleFails,
                Retry, ForwardFailure, Panic, Close, Finish, Abort
  <2>3. CASE \E p \in Deliveries : Pull(p)
    BY <2>1, <2>3, PullAwaited
  <2>4. CASE \E p \in Deliveries : SourceSend(p)
    BY <1>1, <2>1, <2>2, <2>4, SourceSendCarries, AwaitedStep
  <2>5. CASE \/ \E p \in Deliveries : SourceResult(p) \/ SourceClosed(p) \/ SourceTimeout(p)
             \/ Cancel \/ SourceStops \/ \E n \in Processors : Start(n)
    BY <1>1, <2>1, <2>2, <2>5, AnswerCarries, AwaitedStep
  <2>6. CASE \E n \in Dispatchers : DispatchTake(n) \/ DispatchSend(n)
    <3>1. UNCHANGED delivery
      BY <2>6 DEF DispatchTake, DispatchSend, sourceVars
    <3>2. Outstanding(d)
      BY <3>1 DEF Outstanding
    <3> QED BY <1>1, <2>1, <2>2, <2>6, <3>2, DispatchTakeCarries, DispatchSendCarries, AwaitedStep
  <2>7. CASE \E n \in Processors : \E s \in Slots : Take(n, s)
    <3>1. UNCHANGED delivery
      BY <2>7 DEF Take, sourceVars
    <3>2. Outstanding(d)
      BY <3>1 DEF Outstanding
    <3> QED BY <1>1, <2>1, <2>2, <2>7, <3>2, TakeCarries, AwaitedStep
  <2>8. CASE \E n \in Processors : \E s \in Slots :
               \/ Handled(n, s) \/ Send(n, s) \/ HandleFails(n, s) \/ Retry(n, s) \/ ForwardFailure(n, s)
               \/ Panic(n, s)
    <3>1. UNCHANGED delivery
      BY <2>8 DEF Handled, Send, HandleFails, Retry, ForwardFailure, Panic, sourceVars
    <3>2. Outstanding(d)
      BY <3>1 DEF Outstanding
    <3> QED BY <1>1, <2>1, <2>2, <2>8, <3>2, HandlerCarries, AwaitedStep
  <2> QED BY <1>3, <2>3, <2>4, <2>5, <2>6, <2>7, <2>8, EndsClose DEF Next
<1> QED BY <1>2, <1>3

\* While all tasks of the flow run and none panics, an event never vanishes:
\* when its last copy is gone the source has a verdict, whatever failed, was
\* retried or was forwarded as failed on the way (forward_failure,
\* signal_completion, fan_out).  For every task list, whether or not its branches
\* meet again: a leaf below two copies signals at least as often as it is counted.
THEOREM EventsAreJudged == Spec => []EveryEventIsJudged
<1>1. Init => JInv
  BY InitTypes DEF Init, JInv, Awaited, Outstanding
<1>2. JInv /\ [Next]_vars => JInv'
  BY NextTypes, NextAwaited DEF JInv, Deliveries
<1>3. JInv => EveryEventIsJudged
  <2> SUFFICES ASSUME JInv, AllOpen, NEW d \in Deliveries, delivery[d] = "waiting", ~InFlow(d), d \notin lost
               PROVE  outcome[d] # "none"
    BY DEF EveryEventIsJudged, AllOpen
  <2>1. PTypes /\ remaining[d] <= Cardinality(Owed(d)) /\ (outcome[d] = "none" => remaining[d] > 0)
    BY DEF JInv, Awaited, Outstanding
  <2>2. /\ AtSource(d) = {} /\ \A n \in Nodes : AtQueue(n, d) = {}
        /\ \A n \in Dispatchers : AtDispatcher(n, d) = {}
        /\ \A n \in Processors : \A s \in Slots : AtSlot(n, s, d) = {}
    BY DEF InFlow, AtSource, AtQueue, AtDispatcher, AtSlot
  <2>3. \A x \in Places : Owes(d, x) = {}
    BY <2>2, OwesAre DEF Places
  <2>4. Owed(d) = {}
    BY <2>3 DEF Owed
  <2>5. Cardinality(Owed(d)) = 0 /\ remaining[d] \in Nat
    BY <2>1, <2>4, FS_EmptySet, NIs DEF PTypes
  <2> QED BY <2>1, <2>5
<1> QED BY <1>1, <1>2, <1>3, PTL DEF Spec
=============================================================================
