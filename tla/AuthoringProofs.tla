---------------------------- MODULE AuthoringProofs ----------------------------
(***************************************************************************)
(* Proofs about Authoring and the Sessions below it, for any pods,         *)
(* changes, paths, contents and bounds.                                    *)
(***************************************************************************)
EXTENDS Authoring, TLAPS

\* Shapes of the records; what is compared and counted has its type.
IsChange(c) ==
  /\ c = [status |-> c.status, files |-> c.files, edit |-> c.edit,
          proposer |-> c.proposer, approval |-> c.approval, rev |-> c.rev]
  /\ c.edit \in Nat /\ c.rev \in Nat

IsHandler(h) ==
  /\ h = [kind |-> h.kind, id |-> h.id, rec |-> h.rec, view |-> h.view]
  /\ IsChange(h.rec)

IsPublish(q) ==
  /\ q = [at |-> q.at, id |-> q.id, rec |-> q.rec, view |-> q.view,
          pod |-> q.pod, late |-> q.late, ok |-> q.ok]
  /\ IsChange(q.rec)

ChangeTypes == changes = [i \in Ids |-> changes[i]] /\ \A i \in Ids : IsChange(changes[i])
HandlerTypes == handler = [r \in Requests |-> handler[r]] /\ \A r \in Requests : IsHandler(handler[r])
PublishTypes ==
  publishes = [k \in Approvals |-> publishes[k]] /\ \A k \in Approvals : IsPublish(publishes[k])
ViewTypes ==
  /\ view = [i \in Ids |-> view[i]]
  /\ \A i \in Ids : view[i] = [edit |-> view[i].edit, files |-> view[i].files] /\ view[i].edit \in Nat
RunType == [at : {"none", "queued", "built", "sent", "done"}, tip : Nat, attempt : Nat]
RunTypes == runs \in [Approvals -> RunType]
BranchTypes == branch = [tip |-> branch.tip, files |-> branch.files] /\ branch.tip \in Nat

AuthTypes == ChangeTypes /\ HandlerTypes /\ PublishTypes /\ ViewTypes /\ RunTypes /\ BranchTypes

\* A change that was never written does not exist, and nobody has seen it.
Created ==
  \A i \in Ids :
    /\ changes[i].rev = 0 => changes[i] = NoChange
    /\ changes[i].status = "none" => view[i].files = NoFiles

\* What a handler is about to write follows from the change it read, as long as
\* that has not been written since.
Follows(kind, rec, c) ==
  /\ c.status \notin {"published", "rejected"}
  /\ kind = "propose" => c.rev = 0
  /\ kind = "edit" => rec.edit = c.edit + 1
  /\ kind \in {"approve", "reject"} => rec.edit = c.edit /\ rec.files = c.files

Reviewed(files, seen) == ~Issues(files) /\ (seen # NoFiles => files = seen)

Held(h) ==
  h.id # None =>
    /\ h.id \in Ids /\ h.kind \in {"propose", "edit", "approve", "reject"}
    /\ h.rec.status # "none" /\ h.rec.rev <= changes[h.id].rev
    /\ h.rec.rev = changes[h.id].rev => Follows(h.kind, h.rec, changes[h.id])
    /\ h.kind = "approve" => Reviewed(h.rec.files, h.view)

Reads == \A r \in Requests : Held(handler[r])

\* A publish task holds the record its approval wrote.
Kept(q) ==
  q.at # "none" =>
    /\ q.id \in Ids /\ q.rec.status = "publishing" /\ q.rec.rev <= changes[q.id].rev
    /\ q.rec.rev = changes[q.id].rev => changes[q.id] = q.rec
    /\ Reviewed(q.rec.files, q.view)

Keeps == \A k \in Approvals : Kept(publishes[k])

\* A page that shows the last edit shows the files as they are.
Seen ==
  \A i \in Ids : view[i].files # NoFiles =>
    /\ view[i].edit <= changes[i].edit
    /\ view[i].edit = changes[i].edit => view[i].files = changes[i].files

\* The commit of a push whose parent is still the tip replaces what it expects.
Built(k) ==
  runs[k].at = "built" =>
    /\ runs[k].tip <= branch.tip
    /\ runs[k].tip = branch.tip =>
         \A p \in DOMAIN FilesOf(k) : Expected(FilesOf(k)[p], branch.files[p])

Builds == \A k \in Approvals : Built(k)

\* The inductive invariant of what is published.
AuthInv == AuthTypes /\ Created /\ Reads /\ Keeps /\ Seen /\ Builds

-----------------------------------------------------------------------------
(* What a step may do to each part of the state. *)

\* A write of a change: a revision later, over one that was not decided; it
\* keeps the files of the last edit or comes after it.
Advances(i) ==
  /\ changes'[i].rev = changes[i].rev + 1
  /\ changes'[i].status # "none"
  /\ changes[i].status \notin {"published", "rejected"}
  /\ \/ changes[i].rev = 0
     \/ changes'[i].edit > changes[i].edit
     \/ changes'[i].edit = changes[i].edit /\ changes'[i].files = changes[i].files

\* transition, with a record that follows from the change it was read from.
LEMMA Transitions ==
  ASSUME ChangeTypes, NEW i \in Ids, NEW rec, NEW kind, IsChange(rec), Transition(i, rec),
         kind \in {"propose", "edit", "approve", "reject"}, rec.status # "none",
         rec.rev = changes[i].rev => Follows(kind, rec, changes[i])
  PROVE  ChangeTypes' /\ \A j \in Ids : changes'[j] = changes[j] \/ Advances(j)
<1>1. CASE changes[i].rev # rec.rev
  <2>1. changes' = changes
    BY <1>1 DEF Transition
  <2> QED BY <2>1 DEF ChangeTypes, IsChange
<1>2. CASE changes[i].rev = rec.rev
  <2> DEFINE new == [rec EXCEPT !.rev = rec.rev + 1]
  <2>1. IsChange(new) /\ new.rev = changes[i].rev + 1 /\ new.status = rec.status
        /\ new.edit = rec.edit /\ new.files = rec.files
    BY <1>2 DEF IsChange
  <2>2. changes' = [changes EXCEPT ![i] = new]
    BY <1>2 DEF Transition
  <2> HIDE DEF new
  <2>3. changes'[i] = new /\ \A j \in Ids \ {i} : changes'[j] = changes[j]
    BY <2>2 DEF ChangeTypes
  <2>4. ChangeTypes'
    <3>1. changes' = [j \in Ids |-> changes'[j]]
      BY <2>2 DEF ChangeTypes
    <3>2. \A j \in Ids : IsChange(changes'[j])
      BY <2>1, <2>3 DEF ChangeTypes
    <3> QED BY <3>1, <3>2 DEF ChangeTypes, IsChange
  <2>5. Follows(kind, rec, changes[i])
    BY <1>2
  <2>6. changes[i].edit \in Nat
    BY DEF ChangeTypes, IsChange
  <2>7. changes[i].rev = 0 \/ new.edit > changes[i].edit
        \/ (new.edit = changes[i].edit /\ new.files = changes[i].files)
    BY <2>1, <2>5, <2>6 DEF Follows
  <2>8. Advances(i)
    BY <2>1, <2>3, <2>5, <2>7 DEF Advances, Follows
  <2> QED BY <2>3, <2>4, <2>8
<1> QED BY <1>1, <1>2

\* The record an approval writes.
LEMMA Approved ==
  ASSUME NEW c, NEW n, IsChange(c)
  PROVE  LET rec == [c EXCEPT !.status = "publishing", !.approval = n]
         IN IsChange(rec) /\ rec.rev = c.rev /\ rec.edit = c.edit /\ rec.files = c.files
            /\ rec.status = "publishing"
<1> DEFINE rec == [c EXCEPT !.status = "publishing", !.approval = n]
<1> DEFINE mid == [c EXCEPT !.status = "publishing"]
<1>1. IsChange(mid) /\ mid.rev = c.rev /\ mid.edit = c.edit /\ mid.files = c.files /\ mid.status = "publishing"
  BY DEF IsChange
<1>2. rec = [mid EXCEPT !.approval = n]
  OBVIOUS
<1> HIDE DEF mid, rec
<1>3. IsChange(rec) /\ rec.rev = c.rev /\ rec.edit = c.edit /\ rec.files = c.files /\ rec.status = "publishing"
  BY <1>1, <1>2 DEF IsChange
<1> QED BY <1>3 DEF rec

\* Who writes a change.
LEMMA Writers ==
  ASSUME [Next]_vars, ~UNCHANGED changes
  PROVE  (\E r \in Requests : Write(r) \/ WriteApproval(r)) \/ \E k \in Approvals : Record(k)
<1>1. ASSUME NEW r \in Requests, NEW i \in Ids, NEW files \in Proposals, Propose(r, i, files) PROVE FALSE
  BY <1>1 DEF Propose, Holds
<1>2. ASSUME NEW r \in Requests, NEW i \in Ids, Edit(r, i) \/ GetChange(r, i) \/ Approve(r, i) \/ Reject(r, i)
      PROVE FALSE
  BY <1>2 DEF Edit, GetChange, Approve, Reject, Holds
<1>3. ASSUME NEW r \in Requests, Refuse(r) \/ Abandon(r) PROVE FALSE
  BY <1>3 DEF Refuse, Abandon
<1>4. ASSUME NEW k \in Approvals, Build(k) \/ Send(k) \/ Report(k) \/ ReportLost(k) PROVE FALSE
  BY <1>4 DEF Build, Send, Report, ReportLost
<1>5. ASSUME NEW k \in Approvals, TimePasses(k) \/ CallTimeout(k) \/ RecordFails(k) PROVE FALSE
  BY <1>5 DEF TimePasses, CallTimeout, RecordFails
<1>6. ASSUME NEW p \in Pods, Crash(p) PROVE FALSE
  BY <1>6 DEF Crash
<1>7. ASSUME NEW p \in Paths, Deploy(p) \/ \E c \in Contents \cup {Missing} : Commit(p, c) PROVE FALSE
  BY <1>7 DEF Deploy, Commit
<1>8. ASSUME NEW r \in Requests, NEW p \in Pods, NEW kind, Arrive(r, p, kind) PROVE FALSE
  BY <1>8 DEF Arrive
<1>9. ASSUME (SessionsNext /\ UNCHANGED authVars) \/ UNCHANGED vars PROVE FALSE
  BY <1>9 DEF authVars, vars
<1> QED BY <1>1, <1>2, <1>3, <1>4, <1>5, <1>6, <1>7, <1>8, <1>9 DEF Next, Publishing

\* A change moves from revision to revision.
LEMMA ChangeMoves ==
  ASSUME AuthInv, [Next]_vars
  PROVE  ChangeTypes' /\ \A i \in Ids : changes'[i] = changes[i] \/ Advances(i)
<1> USE DEF AuthInv, AuthTypes
<1>1. CASE UNCHANGED changes
  BY <1>1 DEF ChangeTypes, IsChange
<1>2. ASSUME NEW r \in Requests, Write(r)
      PROVE  ChangeTypes' /\ \A i \in Ids : changes'[i] = changes[i] \/ Advances(i)
  <2>1. Held(handler[r]) /\ IsHandler(handler[r])
    BY DEF Reads, HandlerTypes
  <2> QED BY <1>2, <2>1, Transitions DEF Held, IsHandler, Write
<1>3. ASSUME NEW r \in Requests, WriteApproval(r)
      PROVE  ChangeTypes' /\ \A i \in Ids : changes'[i] = changes[i] \/ Advances(i)
  <2>1. Held(handler[r]) /\ IsHandler(handler[r])
    BY DEF Reads, HandlerTypes
  <2> DEFINE rec == [handler[r].rec EXCEPT !.status = "publishing", !.approval = NextApproval]
  <2>2. IsChange(rec) /\ rec.rev = handler[r].rec.rev /\ rec.edit = handler[r].rec.edit
        /\ rec.files = handler[r].rec.files /\ rec.status # "none"
    BY <2>1, Approved DEF IsHandler
  <2>3. handler[r].kind = "approve" /\ handler[r].id # None /\ Transition(handler[r].id, rec)
    BY <1>3 DEF WriteApproval
  <2> HIDE DEF rec
  <2>4. rec.rev = changes[handler[r].id].rev => Follows("approve", rec, changes[handler[r].id])
    BY <2>1, <2>2, <2>3 DEF Held, Follows
  <2> QED BY <2>1, <2>2, <2>3, <2>4, Transitions DEF Held
<1>4. ASSUME NEW k \in Approvals, Record(k)
      PROVE  ChangeTypes' /\ \A i \in Ids : changes'[i] = changes[i] \/ Advances(i)
  <2>1. Kept(publishes[k]) /\ IsPublish(publishes[k]) /\ publishes[k].at # "none"
    BY <1>4 DEF Keeps, PublishTypes, Record
  <2> DEFINE rec == [publishes[k].rec EXCEPT !.status = IF publishes[k].ok THEN "published" ELSE "failed"]
  <2>2. IsChange(rec) /\ rec.rev = publishes[k].rec.rev /\ rec.edit = publishes[k].rec.edit
        /\ rec.files = publishes[k].rec.files /\ rec.status # "none"
    BY <2>1 DEF IsPublish, IsChange
  <2>3. Transition(publishes[k].id, rec)
    BY <1>4 DEF Record
  <2> HIDE DEF rec
  <2>4. rec.rev = changes[publishes[k].id].rev => Follows("reject", rec, changes[publishes[k].id])
    BY <2>1, <2>2 DEF Kept, Follows
  <2> QED BY <2>1, <2>2, <2>3, <2>4, Transitions DEF Kept
<1> QED BY <1>1, <1>2, <1>3, <1>4, Writers

\* A handler has just read the change it holds.
JustRead(h) ==
  /\ h.id \in Ids /\ h.kind \in {"propose", "edit", "approve", "reject"}
  /\ h.rec.status # "none" /\ h.rec.rev = changes[h.id].rev
  /\ Follows(h.kind, h.rec, changes[h.id])
  /\ h.kind = "approve" => Reviewed(h.rec.files, h.view)

HandlerMoves ==
  /\ HandlerTypes'
  /\ \A r \in Requests : \/ handler'[r] = handler[r]
                         \/ handler'[r].id = None
                         \/ changes' = changes /\ JustRead(handler'[r])

\* The handler that goes on with what it has read.
LEMMA HoldsRead ==
  ASSUME HandlerTypes, NEW r \in Requests, NEW i \in Ids, NEW rec, NEW seen, NEW kind,
         IsChange(rec), Reading(r, kind), kind \in {"propose", "edit", "approve", "reject"},
         Holds(r, i, rec, seen), rec.status # "none", rec.rev = changes[i].rev,
         Follows(kind, rec, changes[i]), kind = "approve" => Reviewed(rec.files, seen)
  PROVE  HandlerMoves
<1> DEFINE h == [handler[r] EXCEPT !.id = i, !.rec = rec, !.view = seen]
<1>1. handler' = [handler EXCEPT ![r] = h] /\ changes' = changes
  BY DEF Holds
<1>2. IsHandler(handler[r]) /\ handler[r].kind = kind
  BY DEF HandlerTypes, Reading, Idle
<1>3. IsHandler(h) /\ h.kind = kind /\ h.id = i /\ h.rec = rec /\ h.view = seen
  <2> DEFINE h1 == [handler[r] EXCEPT !.id = i]
  <2> DEFINE h2 == [h1 EXCEPT !.rec = rec]
  <2>1. IsHandler(h1) /\ h1.kind = kind /\ h1.id = i
    BY <1>2 DEF IsHandler
  <2>2. h = [h2 EXCEPT !.view = seen]
    OBVIOUS
  <2> HIDE DEF h1
  <2>3. IsHandler(h2) /\ h2.kind = kind /\ h2.id = i /\ h2.rec = rec
    BY <2>1 DEF IsHandler
  <2> HIDE DEF h2, h
  <2> QED BY <2>2, <2>3 DEF IsHandler
<1> HIDE DEF h
<1>4. handler'[r] = h /\ \A q \in Requests \ {r} : handler'[q] = handler[q]
  BY <1>1 DEF HandlerTypes
<1>5. HandlerTypes'
  <2>1. handler' = [q \in Requests |-> handler'[q]]
    BY <1>1 DEF HandlerTypes
  <2>2. \A q \in Requests : IsHandler(handler'[q])
    BY <1>3, <1>4 DEF HandlerTypes
  <2> QED BY <2>1, <2>2 DEF HandlerTypes, IsHandler, IsChange
<1>6. JustRead(handler'[r])
  BY <1>3, <1>4 DEF JustRead
<1> QED BY <1>1, <1>4, <1>5, <1>6 DEF HandlerMoves

\* A handler that starts, or is over.
LEMMA HandlerOver ==
  ASSUME HandlerTypes, NEW r \in Requests, NEW kind,
         handler' = [handler EXCEPT ![r] = [Idle EXCEPT !.kind = kind]]
  PROVE  HandlerMoves
<1> DEFINE h == [Idle EXCEPT !.kind = kind]
<1>1. IsHandler(h) /\ h.id = None
  BY DEF Idle, IsHandler, IsChange, NoChange
<1> HIDE DEF h
<1>2. handler' = [handler EXCEPT ![r] = h]
  BY DEF h
<1>3. handler'[r] = h /\ \A q \in Requests \ {r} : handler'[q] = handler[q]
  BY <1>2 DEF HandlerTypes
<1>4. handler' = [q \in Requests |-> handler'[q]]
  BY <1>2 DEF HandlerTypes
<1>5. \A q \in Requests : IsHandler(handler'[q])
  BY <1>1, <1>3 DEF HandlerTypes
<1>6. HandlerTypes'
  BY <1>4, <1>5 DEF HandlerTypes, IsHandler, IsChange
<1> QED BY <1>1, <1>3, <1>6 DEF HandlerMoves

LEMMA HandlerSame ==
  ASSUME HandlerTypes, UNCHANGED handler
  PROVE  HandlerMoves
BY DEF HandlerMoves, HandlerTypes, IsHandler, IsChange

LEMMA HandlerAnswered ==
  ASSUME HandlerTypes, NEW r \in Requests, handler' = [handler EXCEPT ![r] = Idle]
  PROVE  HandlerMoves
<1>1. Idle = [Idle EXCEPT !.kind = "idle"]
  BY DEF Idle
<1> QED BY <1>1, HandlerOver

\* What each step does to the handlers.
LEMMA HandlersMove ==
  ASSUME AuthInv, [Next]_vars
  PROVE  HandlerMoves
<1> USE DEF AuthInv, AuthTypes
<1>1. ASSUME NEW r \in Requests, NEW i \in Ids, NEW files \in Proposals, Propose(r, i, files)
      PROVE  HandlerMoves
  <2> DEFINE rec == [NoChange EXCEPT !.status = "pending", !.proposer = sess[r].caller,
                       !.files = [p \in DOMAIN files |-> [content |-> files[p], previous |-> Base(p)]]]
  <2>1. Reading(r, "propose") /\ changes[i] = NoChange /\ Holds(r, i, rec, NoFiles)
    BY <1>1 DEF Propose
  <2>2. IsChange(rec) /\ rec.status = "pending" /\ rec.rev = 0
    <3> DEFINE files2 == [p \in DOMAIN files |-> [content |-> files[p], previous |-> Base(p)]]
    <3> DEFINE c1 == [NoChange EXCEPT !.status = "pending"]
    <3> DEFINE c2 == [c1 EXCEPT !.proposer = sess[r].caller]
    <3>1. IsChange(c1) /\ c1.rev = 0 /\ c1.status = "pending"
      BY DEF NoChange, IsChange
    <3>2. rec = [c2 EXCEPT !.files = files2]
      OBVIOUS
    <3> HIDE DEF c1, files2
    <3>3. IsChange(c2) /\ c2.rev = 0 /\ c2.status = "pending"
      BY <3>1 DEF IsChange
    <3> HIDE DEF c2, rec
    <3> QED BY <3>2, <3>3 DEF IsChange
  <2> HIDE DEF rec
  <2>3. rec.rev = changes[i].rev /\ Follows("propose", rec, changes[i])
    BY <2>1, <2>2 DEF NoChange, Follows
  <2> QED BY <2>1, <2>2, <2>3, HoldsRead
<1>2. ASSUME NEW r \in Requests, NEW i \in Ids, Edit(r, i) PROVE HandlerMoves
  <2>1. Reading(r, "edit") /\ changes[i].status = "pending" /\ IsChange(changes[i])
    BY <1>2 DEF Edit, ChangeTypes
  <2>2. PICK c : /\ Holds(r, i, Touch(c), NoFiles)
                 /\ IsChange(c) /\ c.rev = changes[i].rev /\ c.edit = changes[i].edit
                 /\ c.status = "pending"
    <3>1. CASE Holds(r, i, Touch(changes[i]), NoFiles)
      BY <2>1, <3>1
    <3>2. ASSUME NEW p \in Paths, NEW x \in Contents \cup {Missing},
                 Holds(r, i, Touch(Edited(changes[i], p, x)), NoFiles)
          PROVE  \E c : /\ Holds(r, i, Touch(c), NoFiles)
                        /\ IsChange(c) /\ c.rev = changes[i].rev /\ c.edit = changes[i].edit
                        /\ c.status = "pending"
      <4> DEFINE c == Edited(changes[i], p, x)
      <4>1. PICK files : c = [changes[i] EXCEPT !.files = files]
        BY DEF Edited
      <4> HIDE DEF c
      <4>2. IsChange(c) /\ c.rev = changes[i].rev /\ c.edit = changes[i].edit /\ c.status = "pending"
        BY <2>1, <4>1 DEF IsChange
      <4>3. Holds(r, i, Touch(c), NoFiles)
        BY <3>2 DEF c
      <4> QED BY <4>2, <4>3
    <3> QED BY <1>2, <3>1, <3>2 DEF Edit
  <2> DEFINE rec == Touch(c)
  <2>3. IsChange(rec) /\ rec.rev = c.rev /\ rec.edit = c.edit + 1 /\ rec.status = "pending"
    BY <2>2 DEF Touch, IsChange
  <2> HIDE DEF rec
  <2>4. Holds(r, i, rec, NoFiles)
    BY <2>2 DEF rec
  <2>5. rec.rev = changes[i].rev /\ Follows("edit", rec, changes[i])
    BY <2>1, <2>2, <2>3 DEF Follows
  <2> QED BY <2>1, <2>3, <2>4, <2>5, HoldsRead
<1>3. ASSUME NEW r \in Requests, NEW i \in Ids, Approve(r, i) PROVE HandlerMoves
  <2>1. Reading(r, "approve") /\ ~Issues(changes[i].files) /\ CanPublish(changes[i], sess[r].pod)
    BY <1>3 DEF Approve
  <2>2. changes[i].status \in {"pending", "failed", "publishing"}
    BY <2>1 DEF CanPublish, StalledAt
  <2>3. PICK seen : Holds(r, i, changes[i], seen) /\ Reviewed(changes[i].files, seen)
    <3>1. CASE Holds(r, i, changes[i], NoFiles)
      BY <2>1, <3>1 DEF Reviewed
    <3>2. CASE view[i].files # NoFiles /\ view[i].edit = changes[i].edit /\ Holds(r, i, changes[i], view[i].files)
      <4>1. view[i].files = changes[i].files
        BY <3>2 DEF Seen
      <4> QED BY <2>1, <3>2, <4>1 DEF Reviewed
    <3> QED BY <1>3, <3>1, <3>2 DEF Approve
  <2>4. IsChange(changes[i])
    BY DEF ChangeTypes
  <2>5. Follows("approve", changes[i], changes[i])
    BY <2>2 DEF Follows
  <2> QED BY <2>1, <2>2, <2>3, <2>4, <2>5, HoldsRead
<1>4. ASSUME NEW r \in Requests, NEW i \in Ids, Reject(r, i) PROVE HandlerMoves
  <2> DEFINE rec == [changes[i] EXCEPT !.status = "rejected"]
  <2>1. Reading(r, "reject") /\ changes[i].status \in {"pending", "failed"} /\ Holds(r, i, rec, NoFiles)
    BY <1>4 DEF Reject
  <2>2. IsChange(rec) /\ rec.rev = changes[i].rev /\ rec.edit = changes[i].edit
        /\ rec.files = changes[i].files /\ rec.status = "rejected"
    BY DEF ChangeTypes, IsChange
  <2> HIDE DEF rec
  <2>3. Follows("reject", rec, changes[i])
    BY <2>1, <2>2 DEF Follows
  <2> QED BY <2>1, <2>2, <2>3, HoldsRead
<1>5. ASSUME NEW r \in Requests,
             Refuse(r) \/ Write(r) \/ WriteApproval(r) \/ Abandon(r) \/ \E i \in Ids : GetChange(r, i)
      PROVE  HandlerMoves
  <2>1. handler' = [handler EXCEPT ![r] = Idle]
    BY <1>5 DEF Refuse, Write, WriteApproval, Abandon, GetChange, Answered
  <2> QED BY <2>1, HandlerAnswered
<1>6. ASSUME NEW r \in Requests, NEW p \in Pods, NEW kind, Arrive(r, p, kind) PROVE HandlerMoves
  <2>1. handler' = [handler EXCEPT ![r] = [Idle EXCEPT !.kind = kind]]
    BY <1>6 DEF Arrive
  <2> QED BY <2>1, HandlerOver
<1>7. ASSUME NEW k \in Approvals, Publishing(k) \/ ReportLost(k) \/ RecordFails(k) PROVE HandlerMoves
  <2>1. UNCHANGED handler
    BY <1>7 DEF Publishing, Build, Send, Report, TimePasses, CallTimeout, Record, ReportLost, RecordFails
  <2> QED BY <2>1, HandlerSame
<1>8. ASSUME NEW pod \in Pods, Crash(pod) PROVE HandlerMoves
  <2>1. handler' = [r \in Requests |-> IF sess[r].pod = pod THEN Idle ELSE handler[r]]
    BY <1>8 DEF Crash
  <2>2. IsHandler(Idle) /\ Idle.id = None
    BY DEF Idle, IsHandler, IsChange, NoChange
  <2>3. \A r \in Requests : handler'[r] \in {Idle, handler[r]}
    BY <2>1
  <2>4. handler' = [r \in Requests |-> handler'[r]]
    BY <2>1
  <2>5. \A r \in Requests : IsHandler(handler'[r])
    BY <2>2, <2>3 DEF HandlerTypes
  <2>6. HandlerTypes'
    BY <2>4, <2>5 DEF HandlerTypes, IsHandler, IsChange
  <2> QED BY <2>2, <2>3, <2>6 DEF HandlerMoves
<1>9. ASSUME NEW p \in Paths, Deploy(p) \/ \E c \in Contents \cup {Missing} : Commit(p, c)
      PROVE  HandlerMoves
  <2>1. UNCHANGED handler
    BY <1>9 DEF Deploy, Commit
  <2> QED BY <2>1, HandlerSame
<1>10. ASSUME (SessionsNext /\ UNCHANGED authVars) \/ UNCHANGED vars PROVE HandlerMoves
  <2>1. UNCHANGED handler
    BY <1>10 DEF vars, authVars
  <2> QED BY <2>1, HandlerSame
<1> QED BY <1>1, <1>2, <1>3, <1>4, <1>5, <1>6, <1>7, <1>8, <1>9, <1>10 DEF Next

\* A publish task stays with what it holds, or has just been spawned.
Stays(k) ==
  /\ publishes'[k].id = publishes[k].id /\ publishes'[k].rec = publishes[k].rec
  /\ publishes'[k].view = publishes[k].view
  /\ publishes[k].at = "none" => publishes'[k].at = "none"

JustSpawned(q) ==
  /\ q.id \in Ids /\ q.rec = changes'[q.id] /\ q.rec.status = "publishing"
  /\ Reviewed(q.rec.files, q.view)

PublishMoves ==
  PublishTypes' /\ \A k \in Approvals : Stays(k) \/ JustSpawned(publishes'[k])

LEMMA PublishSame ==
  ASSUME PublishTypes, UNCHANGED publishes
  PROVE  PublishMoves
BY DEF PublishMoves, PublishTypes, IsPublish, IsChange, Stays

LEMMA AtOnly ==
  ASSUME NEW q0, NEW at, IsPublish(q0)
  PROVE  LET q == [q0 EXCEPT !.at = at]
         IN IsPublish(q) /\ q.id = q0.id /\ q.rec = q0.rec /\ q.view = q0.view
BY DEF IsPublish

LEMMA LateOnly ==
  ASSUME NEW q0, NEW late, IsPublish(q0)
  PROVE  LET q == [q0 EXCEPT !.late = late]
         IN IsPublish(q) /\ q.id = q0.id /\ q.rec = q0.rec /\ q.view = q0.view
BY DEF IsPublish

\* A task that goes on differs in its progress only.
LEMMA PublishGoesOn ==
  ASSUME PublishTypes, NEW k \in Approvals, publishes[k].at # "none", NEW q, IsPublish(q),
         q.id = publishes[k].id, q.rec = publishes[k].rec, q.view = publishes[k].view,
         publishes' = [publishes EXCEPT ![k] = q]
  PROVE  PublishMoves
<1>1. publishes'[k] = q /\ \A j \in Approvals \ {k} : publishes'[j] = publishes[j]
  BY DEF PublishTypes
<1>2. publishes' = [j \in Approvals |-> publishes'[j]]
  BY DEF PublishTypes
<1>3. \A j \in Approvals : IsPublish(publishes'[j])
  BY <1>1 DEF PublishTypes
<1>4. PublishTypes'
  BY <1>2, <1>3 DEF PublishTypes, IsPublish, IsChange
<1>5. \A j \in Approvals : Stays(j)
  BY <1>1 DEF Stays
<1> QED BY <1>4, <1>5 DEF PublishMoves

LEMMA PublishAt ==
  ASSUME PublishTypes, NEW k \in Approvals, publishes[k].at # "none", NEW at,
         publishes' = [publishes EXCEPT ![k].at = at]
  PROVE  PublishMoves
<1> DEFINE q == [publishes[k] EXCEPT !.at = at]
<1>1. IsPublish(q) /\ q.id = publishes[k].id /\ q.rec = publishes[k].rec /\ q.view = publishes[k].view
  BY DEF PublishTypes, IsPublish
<1>2. publishes' = [publishes EXCEPT ![k] = q]
  OBVIOUS
<1> HIDE DEF q
<1> QED BY <1>1, <1>2, PublishGoesOn

LEMMA PublishVerdict ==
  ASSUME PublishTypes, NEW k \in Approvals, NEW ok, Verdict(k, ok)
  PROVE  PublishMoves
<1>1. CASE publishes[k].at = "calling"
  <2> DEFINE q1 == [publishes[k] EXCEPT !.at = "outcome"]
  <2> DEFINE q == [q1 EXCEPT !.ok = ok]
  <2>1. IsPublish(q1) /\ q1.id = publishes[k].id /\ q1.rec = publishes[k].rec /\ q1.view = publishes[k].view
    BY DEF PublishTypes, IsPublish
  <2>2. publishes' = [publishes EXCEPT ![k] = q]
    BY <1>1 DEF Verdict, PublishTypes
  <2> HIDE DEF q1
  <2>3. IsPublish(q) /\ q.id = publishes[k].id /\ q.rec = publishes[k].rec /\ q.view = publishes[k].view
    BY <2>1 DEF IsPublish
  <2> HIDE DEF q
  <2> QED BY <1>1, <2>2, <2>3, PublishGoesOn
<1>2. CASE publishes[k].at # "calling"
  BY <1>2, PublishSame DEF Verdict
<1> QED BY <1>1, <1>2

\* A run of the publish flow that is still about to push, with the same commit.
Keeping(k) ==
  /\ runs[k].at = "built" /\ runs'[k].tip = runs[k].tip
  /\ publishes'[k].rec = publishes[k].rec

\* It has fetched the branch and found it as expected.
JustBuilt(k) ==
  /\ branch' = branch /\ runs'[k].tip = branch.tip /\ publishes'[k].rec = publishes[k].rec
  /\ \A p \in DOMAIN FilesOf(k) : Expected(FilesOf(k)[p], branch.files[p])

\* It pushes on the tip it has fetched.
RunMoves ==
  /\ RunTypes'
  /\ \A k \in Approvals :
       /\ runs'[k].at = "built" => Keeping(k) \/ JustBuilt(k)
       /\ runs'[k].at = "sent" => runs[k].at = "sent" \/ branch.tip = runs[k].tip

BranchMoves == BranchTypes' /\ (branch' = branch \/ branch'.tip > branch.tip)

\* A run that ends or is queued, while no task changes its record.
LEMMA RunEnds ==
  ASSUME RunTypes, PublishMoves, NEW k \in Approvals, NEW run \in RunType,
         runs' = [runs EXCEPT ![k] = run], run.at # "built", run.at = "sent" => branch.tip = runs[k].tip,
         \A j \in Approvals \ {k} : publishes'[j].rec = publishes[j].rec
  PROVE  RunMoves
<1>1. RunTypes'
  BY DEF RunTypes
<1>2. \A j \in Approvals \ {k} : runs'[j] = runs[j]
  BY DEF RunTypes
<1>3. runs'[k] = run
  BY DEF RunTypes
<1> QED BY <1>1, <1>2, <1>3 DEF RunMoves, Keeping

LEMMA RunAt ==
  ASSUME RunTypes, PublishMoves, NEW k \in Approvals, NEW at, at \in {"none", "queued", "sent", "done"},
         at = "sent" => branch.tip = runs[k].tip, runs' = [runs EXCEPT ![k].at = at],
         \A j \in Approvals \ {k} : publishes'[j].rec = publishes[j].rec
  PROVE  RunMoves
<1> DEFINE run == [runs[k] EXCEPT !.at = at]
<1>1. run \in RunType /\ run.at = at
  BY DEF RunTypes, RunType
<1>2. runs' = [runs EXCEPT ![k] = run]
  OBVIOUS
<1> HIDE DEF run
<1> QED BY <1>1, <1>2, RunEnds

LEMMA VerdictRecords ==
  ASSUME PublishTypes, NEW k \in Approvals, NEW ok, Verdict(k, ok)
  PROVE  \A j \in Approvals : publishes'[j].rec = publishes[j].rec
<1>1. CASE publishes[k].at = "calling"
  <2> DEFINE q1 == [publishes[k] EXCEPT !.at = "outcome"]
  <2> DEFINE q == [q1 EXCEPT !.ok = ok]
  <2>1. q.rec = publishes[k].rec
    BY DEF PublishTypes, IsPublish
  <2>2. publishes' = [publishes EXCEPT ![k] = q]
    BY <1>1 DEF Verdict, PublishTypes
  <2> HIDE DEF q
  <2> QED BY <2>1, <2>2 DEF PublishTypes
<1>2. CASE publishes[k].at # "calling"
  BY <1>2 DEF Verdict
<1> QED BY <1>1, <1>2

\* handle_with_retry.
LEMMA AgainMoves ==
  ASSUME PublishTypes, RunTypes, NEW k \in Approvals, Again(k)
  PROVE  PublishMoves /\ RunMoves
<1>1. CASE runs[k].attempt + 1 < MaxAttempts
  <2> DEFINE run == [NoRun EXCEPT !.at = "queued", !.attempt = runs[k].attempt + 1]
  <2>1. run \in RunType /\ run.at = "queued"
    <3> DEFINE queued == [NoRun EXCEPT !.at = "queued"]
    <3>1. queued \in RunType /\ queued.at = "queued"
      BY DEF NoRun, RunType
    <3>2. runs[k].attempt + 1 \in Nat
      BY DEF RunTypes, RunType
    <3>3. run = [queued EXCEPT !.attempt = runs[k].attempt + 1]
      OBVIOUS
    <3> HIDE DEF queued, run
    <3> QED BY <3>1, <3>2, <3>3 DEF RunType
  <2>2. runs' = [runs EXCEPT ![k] = run] /\ UNCHANGED publishes
    BY <1>1 DEF Again
  <2> HIDE DEF run
  <2>3. PublishMoves
    BY <2>2, PublishSame
  <2> QED BY <2>1, <2>2, <2>3, RunEnds
<1>2. CASE ~(runs[k].attempt + 1 < MaxAttempts)
  <2>1. runs' = [runs EXCEPT ![k].at = "done"] /\ Verdict(k, FALSE)
    BY <1>2 DEF Again
  <2>2. PublishMoves /\ \A j \in Approvals : publishes'[j].rec = publishes[j].rec
    BY <2>1, PublishVerdict, VerdictRecords
  <2> QED BY <2>1, <2>2, RunAt
<1> QED BY <1>1, <1>2

LEMMA RunSame ==
  ASSUME RunTypes, UNCHANGED runs, \A k \in Approvals : publishes'[k].rec = publishes[k].rec
  PROVE  RunMoves
BY DEF RunMoves, RunTypes, Keeping

LEMMA BranchSame ==
  ASSUME BranchTypes, UNCHANGED branch
  PROVE  BranchMoves
BY DEF BranchMoves, BranchTypes

PushMoves == PublishMoves /\ RunMoves /\ BranchMoves

LEMMA PushSame ==
  ASSUME AuthTypes, UNCHANGED <<branch, publishes, runs>>
  PROVE  PushMoves
BY PublishSame, RunSame, BranchSame DEF AuthTypes, PushMoves

\* approve_change spawns a task with the record it wrote.
LEMMA ApprovalMoves ==
  ASSUME AuthInv, NEW r \in Requests, WriteApproval(r)
  PROVE  PushMoves
<1> USE DEF AuthInv, AuthTypes
<1> DEFINE i == handler[r].id
           rec == [handler[r].rec EXCEPT !.status = "publishing", !.approval = NextApproval]
<1>1. /\ handler[r].kind = "approve" /\ i # None /\ NextApproval \in Approvals /\ UNCHANGED branch
      /\ Transition(i, rec)
      /\ IF changes[i].rev = rec.rev
         THEN Spawned(i, changes'[i], handler[r].view, sess[r].pod)
         ELSE UNCHANGED <<publishes, runs>>
  BY DEF WriteApproval
<1>2. Held(handler[r]) /\ IsHandler(handler[r])
  BY DEF Reads, HandlerTypes
<1>3. IsChange(rec) /\ rec.files = handler[r].rec.files /\ rec.status = "publishing"
  BY <1>2, Approved DEF IsHandler
<1> HIDE DEF rec
<1>4. i \in Ids /\ Reviewed(rec.files, handler[r].view)
  BY <1>1, <1>2, <1>3 DEF Held
<1> HIDE DEF i
<1>5. CASE changes[i].rev = rec.rev
  <2> DEFINE new == [rec EXCEPT !.rev = rec.rev + 1]
  <2> DEFINE k == NextApproval
  <2> DEFINE q == [at |-> IF sess[r].pod \in FlowPods THEN "calling" ELSE "outcome", id |-> i,
                   rec |-> changes'[i], view |-> handler[r].view, pod |-> sess[r].pod,
                   late |-> FALSE, ok |-> FALSE]
  <2>1. IsChange(new) /\ new.files = rec.files /\ new.status = "publishing"
    BY <1>3 DEF IsChange
  <2>2. changes' = [changes EXCEPT ![i] = new]
    BY <1>1, <1>5 DEF Transition
  <2> HIDE DEF new
  <2>3. changes'[i] = new
    BY <1>4, <2>2 DEF ChangeTypes
  <2>4. publishes' = [publishes EXCEPT ![k] = q]
    BY <1>1, <1>5 DEF Spawned
  <2>5. runs' = [runs EXCEPT ![k].at = IF sess[r].pod \in FlowPods THEN "queued" ELSE "none"]
    BY <1>1, <1>5 DEF Spawned
  <2>6. IsPublish(q) /\ JustSpawned(q)
    BY <1>4, <2>1, <2>3 DEF IsPublish, JustSpawned
  <2>7. k \in Approvals
    BY <1>1
  <2> HIDE DEF q, k
  <2>8. publishes'[k] = q /\ \A j \in Approvals \ {k} : publishes'[j] = publishes[j]
    BY <2>4, <2>7 DEF PublishTypes
  <2>9. PublishTypes'
    <3>1. publishes' = [j \in Approvals |-> publishes'[j]]
      BY <2>4, <2>7 DEF PublishTypes
    <3>2. \A j \in Approvals : IsPublish(publishes'[j])
      BY <2>6, <2>8 DEF PublishTypes
    <3> QED BY <3>1, <3>2 DEF PublishTypes, IsPublish, IsChange
  <2>10. PublishMoves
    BY <2>6, <2>8, <2>9 DEF PublishMoves, Stays
  <2>11. RunMoves
    BY <2>5, <2>7, <2>8, <2>10, RunAt
  <2> QED BY <1>1, <2>10, <2>11, BranchSame DEF PushMoves
<1>6. CASE changes[i].rev # rec.rev
  BY <1>1, <1>6, PushSame
<1> QED BY <1>5, <1>6

\* The steps of the publish flow.
LEMMA FlowMoves ==
  ASSUME AuthInv, NEW k \in Approvals, Build(k) \/ Send(k) \/ Report(k) \/ ReportLost(k)
  PROVE  PushMoves
<1> USE DEF AuthInv, AuthTypes
<1>1. ASSUME NEW ok, Verdict(k, ok), runs' = [runs EXCEPT ![k].at = "done"], UNCHANGED branch
      PROVE  PushMoves
  <2>1. PublishMoves /\ \A j \in Approvals : publishes'[j].rec = publishes[j].rec
    BY <1>1, PublishVerdict, VerdictRecords
  <2> QED BY <1>1, <2>1, RunAt, BranchSame DEF PushMoves
<1>2. ASSUME Build(k) PROVE PushMoves
  <2>1. CASE \/ \E p \in DOMAIN FilesOf(k) : ~Expected(FilesOf(k)[p], branch.files[p])
             \/ \A p \in DOMAIN FilesOf(k) : FilesOf(k)[p].content = branch.files[p]
    BY <1>1, <1>2, <2>1 DEF Build
  <2>2. CASE /\ \A p \in DOMAIN FilesOf(k) : Expected(FilesOf(k)[p], branch.files[p])
             /\ ~ \A p \in DOMAIN FilesOf(k) : FilesOf(k)[p].content = branch.files[p]
    <3> DEFINE run1 == [runs[k] EXCEPT !.at = "built"]
    <3> DEFINE run == [run1 EXCEPT !.tip = branch.tip]
    <3>1. runs' = [runs EXCEPT ![k].at = "built", ![k].tip = branch.tip] /\ UNCHANGED <<publishes, branch>>
      BY <1>2, <2>2 DEF Build
    <3>2. run1 \in RunType /\ run1.at = "built"
      BY DEF RunTypes, RunType
    <3>3. runs' = [runs EXCEPT ![k] = run]
      BY <3>1 DEF RunTypes
    <3> HIDE DEF run1
    <3>4. run \in RunType /\ run.tip = branch.tip /\ run.at = "built"
      BY <3>2 DEF RunType, BranchTypes
    <3> HIDE DEF run
    <3>5. runs'[k] = run /\ \A j \in Approvals \ {k} : runs'[j] = runs[j]
      BY <3>3 DEF RunTypes
    <3>6. RunTypes'
      BY <3>3, <3>4 DEF RunTypes
    <3>7. JustBuilt(k)
      BY <2>2, <3>1, <3>4, <3>5 DEF JustBuilt
    <3>8. RunMoves
      BY <3>1, <3>4, <3>5, <3>6, <3>7 DEF RunMoves, Keeping
    <3> QED BY <3>1, <3>8, PublishSame, BranchSame DEF PushMoves
  <2> QED BY <2>1, <2>2
<1>3. ASSUME Send(k) PROVE PushMoves
  <2>1. CASE branch.tip = runs[k].tip
    <3>1. branch' = Pushed(k) /\ runs' = [runs EXCEPT ![k].at = "sent"] /\ UNCHANGED publishes
      BY <1>3, <2>1 DEF Send
    <3>2. BranchMoves
      BY <3>1 DEF BranchMoves, BranchTypes, Pushed
    <3>3. PublishMoves
      BY <3>1, PublishSame
    <3>4. RunMoves
      BY <2>1, <3>1, <3>3, RunAt
    <3> QED BY <3>2, <3>3, <3>4 DEF PushMoves
  <2>2. CASE branch.tip # runs[k].tip
    BY <1>3, <2>2, AgainMoves, BranchSame DEF Send, PushMoves
  <2> QED BY <2>1, <2>2
<1>4. ASSUME Report(k) PROVE PushMoves
  BY <1>1, <1>4 DEF Report
<1>5. ASSUME ReportLost(k) PROVE PushMoves
  BY <1>5, AgainMoves, BranchSame DEF ReportLost, PushMoves
<1> QED BY <1>2, <1>3, <1>4, <1>5

\* The steps of the publish task.
LEMMA TaskMoves ==
  ASSUME AuthInv, NEW k \in Approvals, TimePasses(k) \/ CallTimeout(k) \/ Record(k) \/ RecordFails(k)
  PROVE  PushMoves
<1> USE DEF AuthInv, AuthTypes
<1>1. UNCHANGED <<branch, runs>> /\ publishes[k].at # "none"
  BY DEF TimePasses, CallTimeout, Record, RecordFails
<1>2. PICK q : /\ publishes' = [publishes EXCEPT ![k] = q]
               /\ IsPublish(q) /\ q.id = publishes[k].id /\ q.rec = publishes[k].rec /\ q.view = publishes[k].view
  <2>1. IsPublish(publishes[k])
    BY DEF PublishTypes
  <2>2. ASSUME NEW at, publishes' = [publishes EXCEPT ![k].at = at]
        PROVE  \E q : /\ publishes' = [publishes EXCEPT ![k] = q]
                      /\ IsPublish(q) /\ q.id = publishes[k].id /\ q.rec = publishes[k].rec
                      /\ q.view = publishes[k].view
    <3> DEFINE q == [publishes[k] EXCEPT !.at = at]
    <3>1. IsPublish(q) /\ q.id = publishes[k].id /\ q.rec = publishes[k].rec /\ q.view = publishes[k].view
      BY <2>1, AtOnly
    <3>2. publishes' = [publishes EXCEPT ![k] = q]
      BY <2>2
    <3> HIDE DEF q
    <3> QED BY <3>1, <3>2
  <2>3. ASSUME publishes' = [publishes EXCEPT ![k].late = TRUE]
        PROVE  \E q : /\ publishes' = [publishes EXCEPT ![k] = q]
                      /\ IsPublish(q) /\ q.id = publishes[k].id /\ q.rec = publishes[k].rec
                      /\ q.view = publishes[k].view
    <3> DEFINE q == [publishes[k] EXCEPT !.late = TRUE]
    <3>1. IsPublish(q) /\ q.id = publishes[k].id /\ q.rec = publishes[k].rec /\ q.view = publishes[k].view
      BY <2>1, LateOnly
    <3>2. publishes' = [publishes EXCEPT ![k] = q]
      BY <2>3
    <3> HIDE DEF q
    <3> QED BY <3>1, <3>2
  <2> QED BY <2>2, <2>3 DEF TimePasses, CallTimeout, Record, RecordFails
<1>3. PublishMoves
  BY <1>1, <1>2, PublishGoesOn
<1>4. \A j \in Approvals : publishes'[j].rec = publishes[j].rec
  BY <1>2 DEF PublishTypes
<1> QED BY <1>1, <1>3, <1>4, RunSame, BranchSame DEF PushMoves

LEMMA CrashMoves ==
  ASSUME AuthInv, NEW pod \in Pods, Crash(pod)
  PROVE  PushMoves
<1> USE DEF AuthInv, AuthTypes
<1>1. UNCHANGED branch
  BY DEF Crash
<1>2. publishes' = [k \in Approvals |-> IF publishes[k].pod = pod /\ publishes[k].at \in {"calling", "outcome"}
                                        THEN [publishes[k] EXCEPT !.at = "lost"] ELSE publishes[k]]
  BY DEF Crash
<1>3. runs' = [k \in Approvals |-> IF publishes[k].pod = pod /\ runs[k].at # "none"
                                   THEN [runs[k] EXCEPT !.at = "done"] ELSE runs[k]]
  BY DEF Crash
<1>4. \A k \in Approvals : IsPublish(publishes[k])
  BY DEF PublishTypes
<1>5. \A k \in Approvals :
        publishes'[k] = publishes[k]
        \/ (publishes[k].at # "none" /\ publishes'[k] = [publishes[k] EXCEPT !.at = "lost"])
  BY <1>2
<1>6. ASSUME NEW k \in Approvals PROVE IsPublish(publishes'[k]) /\ Stays(k)
  <2>1. CASE publishes'[k] = publishes[k]
    BY <1>4, <2>1 DEF Stays
  <2>2. CASE publishes[k].at # "none" /\ publishes'[k] = [publishes[k] EXCEPT !.at = "lost"]
    <3> DEFINE q == [publishes[k] EXCEPT !.at = "lost"]
    <3>1. IsPublish(q) /\ q.id = publishes[k].id /\ q.rec = publishes[k].rec /\ q.view = publishes[k].view
      BY <1>4, AtOnly
    <3> HIDE DEF q
    <3> QED BY <2>2, <3>1 DEF q, Stays
  <2> QED BY <1>5, <2>1, <2>2
<1>7. PublishTypes'
  <2>1. publishes' = [k \in Approvals |-> publishes'[k]]
    BY <1>2
  <2> QED BY <1>6, <2>1 DEF PublishTypes, IsPublish, IsChange
<1>8. PublishMoves
  BY <1>6, <1>7 DEF PublishMoves
<1>9. RunTypes' /\ \A k \in Approvals : runs'[k] = runs[k] \/ runs'[k].at = "done"
  BY <1>3 DEF RunTypes, RunType
<1>10. RunMoves
  BY <1>6, <1>9 DEF RunMoves, Keeping, Stays
<1> QED BY <1>1, <1>8, <1>10, BranchSame DEF PushMoves

\* What each step does to tasks, runs and the branch.
LEMMA PushesMove ==
  ASSUME AuthInv, [Next]_vars
  PROVE  PushMoves
<1> USE DEF AuthInv
<1>1. ASSUME NEW r \in Requests, NEW i \in Ids, NEW files \in Proposals, Propose(r, i, files)
      PROVE  PushMoves
  BY <1>1, PushSame DEF Propose, Holds
<1>2. ASSUME NEW r \in Requests, NEW i \in Ids, Edit(r, i) \/ GetChange(r, i) \/ Approve(r, i) \/ Reject(r, i)
      PROVE  PushMoves
  BY <1>2, PushSame DEF Edit, GetChange, Approve, Reject, Holds
<1>3. ASSUME NEW r \in Requests, Refuse(r) \/ Write(r) \/ Abandon(r) PROVE PushMoves
  BY <1>3, PushSame DEF Refuse, Write, Abandon
<1>4. ASSUME NEW r \in Requests, NEW p \in Pods, NEW kind, Arrive(r, p, kind) PROVE PushMoves
  BY <1>4, PushSame DEF Arrive
<1>5. ASSUME NEW p \in Paths, Deploy(p) PROVE PushMoves
  BY <1>5, PushSame DEF Deploy
<1>6. ASSUME NEW p \in Paths, NEW c \in Contents \cup {Missing}, Commit(p, c) PROVE PushMoves
  <2>1. branch' = [tip |-> branch.tip + 1, files |-> [branch.files EXCEPT ![p] = c]] /\ UNCHANGED <<publishes, runs>>
    BY <1>6 DEF Commit
  <2>2. BranchMoves
    BY <2>1 DEF BranchMoves, BranchTypes, AuthTypes
  <2> QED BY <2>1, <2>2, PublishSame, RunSame DEF PushMoves, AuthTypes
<1>7. ASSUME (SessionsNext /\ UNCHANGED authVars) \/ UNCHANGED vars PROVE PushMoves
  BY <1>7, PushSame DEF authVars, vars
<1> QED BY <1>1, <1>2, <1>3, <1>4, <1>5, <1>6, <1>7, ApprovalMoves, FlowMoves, TaskMoves, CrashMoves
        DEF Next, Publishing

ViewMoves ==
  /\ ViewTypes'
  /\ \A i \in Ids :
       \/ view'[i] = view[i]
       \/ /\ changes' = changes /\ changes[i].status # "none"
          /\ view'[i].edit = changes[i].edit /\ view'[i].files = changes[i].files

LEMMA ViewSame ==
  ASSUME ViewTypes, UNCHANGED view
  PROVE  ViewMoves
BY DEF ViewMoves, ViewTypes

\* A page shows a change as it is when it is read.
LEMMA ViewsMove ==
  ASSUME AuthInv, [Next]_vars
  PROVE  ViewMoves
<1> USE DEF AuthInv, AuthTypes
<1>1. ASSUME NEW r \in Requests, NEW i \in Ids, NEW files \in Proposals, Propose(r, i, files)
      PROVE  ViewMoves
  BY <1>1, ViewSame DEF Propose, Holds
<1>2. ASSUME NEW r \in Requests, NEW i \in Ids, Edit(r, i) \/ Approve(r, i) \/ Reject(r, i)
      PROVE  ViewMoves
  BY <1>2, ViewSame DEF Edit, Approve, Reject, Holds
<1>3. ASSUME NEW r \in Requests, NEW i \in Ids, GetChange(r, i) PROVE ViewMoves
  <2>1. view' = [view EXCEPT ![i] = [edit |-> changes[i].edit, files |-> changes[i].files]]
        /\ changes[i].status # "none" /\ changes' = changes
    BY <1>3 DEF GetChange
  <2>2. changes[i].edit \in Nat
    BY DEF ChangeTypes, IsChange
  <2>3. ViewTypes'
    BY <2>1, <2>2 DEF ViewTypes
  <2> QED BY <2>1, <2>3 DEF ViewMoves, ViewTypes
<1>4. ASSUME NEW r \in Requests, Refuse(r) \/ Write(r) \/ WriteApproval(r) \/ Abandon(r) PROVE ViewMoves
  BY <1>4, ViewSame DEF Refuse, Write, WriteApproval, Abandon
<1>5. ASSUME NEW r \in Requests, NEW p \in Pods, NEW kind, Arrive(r, p, kind) PROVE ViewMoves
  BY <1>5, ViewSame DEF Arrive
<1>6. ASSUME NEW k \in Approvals, Publishing(k) \/ ReportLost(k) \/ RecordFails(k) PROVE ViewMoves
  <2>1. UNCHANGED view
    BY <1>6 DEF Publishing, Build, Send, Report, TimePasses, CallTimeout, Record, ReportLost, RecordFails
  <2> QED BY <2>1, ViewSame
<1>7. ASSUME NEW p \in Pods, Crash(p) PROVE ViewMoves
  BY <1>7, ViewSame DEF Crash
<1>8. ASSUME NEW p \in Paths, Deploy(p) \/ \E c \in Contents \cup {Missing} : Commit(p, c)
      PROVE  ViewMoves
  BY <1>8, ViewSame DEF Deploy, Commit
<1>9. ASSUME (SessionsNext /\ UNCHANGED authVars) \/ UNCHANGED vars PROVE ViewMoves
  BY <1>9, ViewSame DEF vars, authVars
<1> QED BY <1>1, <1>2, <1>3, <1>4, <1>5, <1>6, <1>7, <1>8, <1>9 DEF Next

-----------------------------------------------------------------------------
(* What is published was reviewed, and replaces what was expected. *)

LEMMA AuthInit == Init => AuthInv
<1> SUFFICES ASSUME Init PROVE AuthInv
  OBVIOUS
<1> USE DEF Init
<1>1. IsChange(NoChange) /\ NoChange.rev = 0 /\ NoChange.edit = 0 /\ NoChange.status = "none"
  BY DEF IsChange, NoChange
<1>2. ChangeTypes /\ \A i \in Ids : changes[i] = NoChange \/ (changes[i].rev = 1 /\ changes[i].status = "pending")
  <2>1. CASE changes = [i \in Ids |-> NoChange]
    BY <1>1, <2>1 DEF ChangeTypes
  <2>2. ASSUME NEW i \in Ids, NEW p \in Paths, NEW c \in Contents \cup {Missing},
               changes = [[j \in Ids |-> NoChange] EXCEPT ![i] = Stored(c, p)]
        PROVE  ChangeTypes
               /\ \A j \in Ids : changes[j] = NoChange \/ (changes[j].rev = 1 /\ changes[j].status = "pending")
    <3> DEFINE files == p :> [content |-> c, previous |-> running[p]]
    <3> DEFINE c1 == [NoChange EXCEPT !.status = "pending"]
    <3> DEFINE c2 == [c1 EXCEPT !.proposer = "key"]
    <3> DEFINE c3 == [c2 EXCEPT !.rev = 1]
    <3> DEFINE c4 == [c3 EXCEPT !.files = files]
    <3>1. IsChange(c1) /\ c1.status = "pending"
      BY <1>1 DEF IsChange
    <3>2. c4 = Stored(c, p)
      BY DEF Stored
    <3> HIDE DEF c1, files
    <3>3. IsChange(c2) /\ c2.status = "pending"
      BY <3>1 DEF IsChange
    <3> HIDE DEF c2
    <3>4. IsChange(c3) /\ c3.status = "pending" /\ c3.rev = 1
      BY <3>3 DEF IsChange
    <3> HIDE DEF c3
    <3>5. IsChange(c4) /\ c4.status = "pending" /\ c4.rev = 1
      BY <3>4 DEF IsChange
    <3> HIDE DEF c4
    <3>6. changes = [j \in Ids |-> IF j = i THEN c4 ELSE NoChange]
      BY <2>2, <3>2
    <3> QED BY <1>1, <3>5, <3>6 DEF ChangeTypes
  <2> QED BY <2>1, <2>2
<1>3. HandlerTypes /\ Reads
  <2>1. IsHandler(Idle) /\ Idle.id = None
    BY <1>1 DEF Idle, IsHandler
  <2> QED BY <2>1 DEF HandlerTypes, Reads, Held
<1>4. PublishTypes /\ Keeps
  <2>1. IsPublish(NoPublish) /\ NoPublish.at = "none"
    BY <1>1 DEF NoPublish, IsPublish
  <2> QED BY <2>1 DEF PublishTypes, Keeps, Kept
<1>5. ViewTypes /\ \A i \in Ids : view[i].files = NoFiles
  BY DEF ViewTypes
<1>6. RunTypes /\ Builds
  BY DEF RunTypes, RunType, NoRun, Builds, Built
<1>7. BranchTypes
  BY DEF BranchTypes
<1>8. Created
  BY <1>1, <1>2, <1>5 DEF Created
<1>9. Seen
  BY <1>5 DEF Seen
<1> QED BY <1>2, <1>3, <1>4, <1>5, <1>6, <1>7, <1>8, <1>9 DEF AuthInv, AuthTypes

LEMMA AuthStep == AuthInv /\ [Next]_vars => AuthInv'
<1> SUFFICES ASSUME AuthInv, [Next]_vars PROVE AuthInv'
  OBVIOUS
<1>1. ChangeTypes' /\ \A i \in Ids : changes'[i] = changes[i] \/ Advances(i)
  BY ChangeMoves
<1>2. HandlerMoves
  BY HandlersMove
<1>3. PublishMoves /\ RunMoves /\ BranchMoves
  BY PushesMove DEF PushMoves
<1>4. ViewMoves
  BY ViewsMove
<1>5. \A i \in Ids : changes[i].rev \in Nat /\ changes'[i].rev \in Nat /\ changes[i].edit \in Nat /\ changes'[i].edit \in Nat
  BY <1>1 DEF AuthInv, AuthTypes, ChangeTypes, IsChange
<1>6. AuthTypes'
  BY <1>1, <1>2, <1>3, <1>4 DEF AuthTypes, HandlerMoves, PublishMoves, RunMoves, BranchMoves, ViewMoves
<1>7. Created'
  <2> SUFFICES ASSUME NEW i \in Ids
               PROVE  /\ changes'[i].rev = 0 => changes'[i] = NoChange
                      /\ changes'[i].status = "none" => view'[i].files = NoFiles
    BY DEF Created
  <2>1. CASE Advances(i)
    BY <1>5, <2>1 DEF Advances
  <2>2. CASE changes'[i] = changes[i]
    BY <1>4, <2>2 DEF AuthInv, Created, ViewMoves
  <2> QED BY <1>1, <2>1, <2>2
<1>8. Reads'
  <2> SUFFICES ASSUME NEW r \in Requests, handler'[r].id # None
               PROVE  Held(handler[r])'
    BY DEF Reads, Held
  <2>1. CASE handler'[r] = handler[r]
    <3>1. Held(handler[r]) /\ IsChange(handler[r].rec)
      BY DEF AuthInv, AuthTypes, Reads, HandlerTypes, IsHandler
    <3> DEFINE i == handler[r].id
    <3>2. i \in Ids
      BY <2>1, <3>1 DEF Held
    <3>3. CASE changes'[i] = changes[i]
      BY <2>1, <3>1, <3>3 DEF Held
    <3>4. CASE Advances(i)
      <4>1. handler[r].rec.rev \in Nat /\ handler[r].rec.rev <= changes[i].rev
        BY <2>1, <3>1 DEF Held, IsChange
      <4>2. handler[r].rec.rev < changes'[i].rev
        BY <1>5, <3>2, <3>4, <4>1 DEF Advances
      <4> HIDE DEF i
      <4>3. handler[r].rec.rev <= changes'[i].rev /\ handler[r].rec.rev # changes'[i].rev
        BY <1>5, <3>2, <4>1, <4>2
      <4> QED BY <2>1, <3>1, <4>3 DEF Held, i
    <3> QED BY <1>1, <3>2, <3>3, <3>4
  <2>2. CASE changes' = changes /\ JustRead(handler'[r])
    BY <1>5, <2>2 DEF JustRead, Held
  <2> QED BY <1>2, <2>1, <2>2 DEF HandlerMoves
<1>9. Keeps'
  <2> SUFFICES ASSUME NEW k \in Approvals, publishes'[k].at # "none"
               PROVE  Kept(publishes[k])'
    BY DEF Keeps, Kept
  <2>1. CASE Stays(k)
    <3>1. Kept(publishes[k]) /\ IsChange(publishes[k].rec) /\ publishes[k].at # "none"
      BY <2>1 DEF AuthInv, AuthTypes, Keeps, PublishTypes, IsPublish, Stays
    <3> DEFINE i == publishes[k].id
    <3>2. i \in Ids
      BY <3>1 DEF Kept
    <3>3. CASE changes'[i] = changes[i]
      BY <2>1, <3>1, <3>3 DEF Kept, Stays
    <3>4. CASE Advances(i)
      <4>1. publishes[k].rec.rev \in Nat /\ publishes[k].rec.rev <= changes[i].rev
        BY <3>1 DEF Kept, IsChange
      <4>2. publishes[k].rec.rev < changes'[i].rev
        BY <1>5, <3>2, <3>4, <4>1 DEF Advances
      <4> HIDE DEF i
      <4>3. publishes[k].rec.rev <= changes'[i].rev /\ publishes[k].rec.rev # changes'[i].rev
        BY <1>5, <3>2, <4>1, <4>2
      <4> QED BY <2>1, <3>1, <4>3 DEF Kept, Stays, i
    <3> QED BY <1>1, <3>2, <3>3, <3>4
  <2>2. CASE JustSpawned(publishes'[k])
    <3>1. publishes'[k].id \in Ids /\ publishes'[k].rec = changes'[publishes'[k].id]
      BY <2>2 DEF JustSpawned
    <3>2. changes'[publishes'[k].id].rev \in Nat
      BY <1>5, <3>1
    <3> QED BY <2>2, <3>1, <3>2 DEF JustSpawned, Kept
  <2> QED BY <1>3, <2>1, <2>2 DEF PublishMoves
<1>10. Seen'
  <2> SUFFICES ASSUME NEW i \in Ids, view'[i].files # NoFiles
               PROVE  /\ view'[i].edit <= changes'[i].edit
                      /\ view'[i].edit = changes'[i].edit => view'[i].files = changes'[i].files
    BY DEF Seen
  <2>1. CASE view'[i] = view[i]
    <3>1. /\ view[i].edit <= changes[i].edit /\ view[i].edit \in Nat
          /\ view[i].edit = changes[i].edit => view[i].files = changes[i].files
      BY <2>1 DEF AuthInv, AuthTypes, Seen, ViewTypes
    <3>2. changes[i].rev # 0
      <4>1. changes[i].status # "none"
        BY <2>1 DEF AuthInv, Created
      <4> QED BY <4>1 DEF AuthInv, Created, NoChange
    <3>3. CASE changes'[i] = changes[i]
      BY <2>1, <3>1, <3>3
    <3>4. CASE Advances(i)
      BY <1>5, <2>1, <3>1, <3>2, <3>4 DEF Advances
    <3> QED BY <1>1, <3>3, <3>4
  <2>2. CASE changes' = changes /\ view'[i].edit = changes[i].edit /\ view'[i].files = changes[i].files
    BY <1>5, <2>2
  <2> QED BY <1>4, <2>1, <2>2 DEF ViewMoves
<1>11. Builds'
  <2> SUFFICES ASSUME NEW k \in Approvals, runs'[k].at = "built"
               PROVE  /\ runs'[k].tip <= branch'.tip
                      /\ runs'[k].tip = branch'.tip =>
                           \A p \in DOMAIN FilesOf(k)' : Expected(FilesOf(k)[p], branch.files[p])'
    BY DEF Builds, Built
  <2>1. branch.tip \in Nat /\ branch'.tip \in Nat /\ (branch' = branch \/ branch'.tip > branch.tip)
    BY <1>3 DEF AuthInv, AuthTypes, BranchMoves, BranchTypes
  <2>2. CASE Keeping(k)
    <3>1. runs[k].tip \in Nat
      BY DEF AuthInv, AuthTypes, RunTypes, RunType
    <3>2. Built(k) /\ runs[k].at = "built" /\ runs'[k].tip = runs[k].tip /\ FilesOf(k)' = FilesOf(k)
      BY <2>2 DEF AuthInv, Builds, Keeping, FilesOf
    <3>3. CASE branch' = branch
      BY <3>2, <3>3 DEF Built, Expected
    <3>4. CASE branch'.tip > branch.tip
      BY <2>1, <3>1, <3>2, <3>4 DEF Built
    <3> QED BY <2>1, <3>3, <3>4
  <2>3. CASE JustBuilt(k)
    BY <2>1, <2>3 DEF JustBuilt, FilesOf, Expected
  <2> QED BY <1>3, <2>2, <2>3 DEF RunMoves
<1> QED BY <1>6, <1>7, <1>8, <1>9, <1>10, <1>11 DEF AuthInv

\* The invariant holds of every behaviour (authoring.rs, push/client.rs).
THEOREM AuthInvariance == Spec => []AuthInv
BY AuthInit, AuthStep, PTL DEF Spec

\* What is published is what the approver reviewed, without validation issues:
\* touch makes an edit visible, and the transition is made against the revision
\* that was compared (approve_change).
THEOREM ReviewedIsPublished == Spec => []PublishedIsReviewed
<1>1. AuthInv => PublishedIsReviewed
  BY DEF AuthInv, Keeps, Kept, PublishedIsReviewed, Reviewed, FilesOf
<1> QED BY <1>1, AuthInvariance, PTL

\* No push replaces content that its change was not prepared against, although the
\* branch is compared at the fetch and updated later (check_expected, Push::push).
THEOREM EditsAreKept == Spec => NoEditIsLost
<1>1. AuthInv /\ [Next]_vars =>
        [\A k \in Approvals : Places(k) =>
           \A p \in DOMAIN FilesOf(k) : branch.files[p] \in {FilesOf(k)[p].previous, FilesOf(k)[p].content}]_vars
  <2> SUFFICES ASSUME AuthInv, [Next]_vars, NEW k \in Approvals, Places(k), NEW p \in DOMAIN FilesOf(k)
               PROVE  branch.files[p] \in {FilesOf(k)[p].previous, FilesOf(k)[p].content}
    OBVIOUS
  <2>1. runs[k].at = "built" /\ runs'[k].at = "sent"
    BY DEF Places
  <2>2. branch.tip = runs[k].tip
    BY <2>1, PushesMove DEF PushMoves, RunMoves
  <2>3. Expected(FilesOf(k)[p], branch.files[p])
    BY <2>1, <2>2 DEF AuthInv, Builds, Built
  <2> QED BY <2>3 DEF Expected
<1> QED BY <1>1, AuthInvariance, PTL DEF Spec, NoEditIsLost

\* A decision is never overwritten by an edit, a decision or an outcome that was
\* prepared before it (transition).
THEOREM DecisionsStand == Spec => DecisionIsFinal
<1>1. AuthInv /\ [Next]_vars =>
        [\A i \in Ids : changes[i].status \in {"published", "rejected"} => changes'[i] = changes[i]]_vars
  BY ChangeMoves DEF Advances
<1> QED BY <1>1, AuthInvariance, PTL DEF Spec, DecisionIsFinal

-----------------------------------------------------------------------------
(* Sessions. *)

SessType == [at : {"idle", "in", "refresh", "exchange"}, pod : Pods \cup {None},
             caller : {None, "anonymous", "key", "user"}, token : 0..MaxTokens, new : 0..MaxTokens]

SessTypes ==
  /\ secret \in Pods \cup {None}
  /\ keyOf \in [Pods -> Pods \cup {None, "creating"}]
  /\ issued \in 0..MaxTokens /\ stash \in 0..issued
  /\ login \in [Tokens -> 0..MaxTokens]
  /\ live \subseteq Tokens
  /\ flight \in [Pods -> [Tokens -> 0..Exchanging]]
  /\ sess \in [Requests -> SessType]
  /\ cookie = [token |-> cookie.token, key |-> cookie.key]

\* A token that went to somebody.
Known(t) == t \in Tokens /\ login[t] # 0

\* With web.auth, every pod that is up has the one key.
Keyed == auth => \A p \in Pods : keyOf[p] \in {None, "creating", secret}

\* The cookie, and the requests that carry or will set it.
Issued ==
  /\ cookie # NoCookie => auth /\ secret # None /\ cookie.key = secret /\ Known(cookie.token)
  /\ \A r \in Requests :
       /\ sess[r].at # "idle" => sess[r].pod \in Booted
       /\ sess[r].at \in {"refresh", "exchange"} => auth /\ Known(sess[r].token)
       /\ sess[r].new # 0 => auth /\ sess[r].at = "in" /\ Known(sess[r].new)

Logins ==
  /\ \A t \in Tokens : login[t] # 0 => t <= issued
  /\ \A t \in live : login[t] # 0
  /\ stash # 0 => login[stash] = 0
  /\ \A p \in Pods, t \in Tokens : flight[p][t] \in Tokens => login[flight[p][t]] # 0

\* While nothing tears: one exchange of a token, by one request of one pod, and a
\* token that was not rotated is good.
Flights ==
  ~torn =>
    /\ \A r \in Requests : sess[r].at = "exchange" => flight[sess[r].pod][sess[r].token] = Exchanging
    /\ \A r, q \in Requests : sess[r].at = "exchange" /\ sess[q].at = "exchange"
         /\ sess[r].pod = sess[q].pod /\ sess[r].token = sess[q].token => r = q
    /\ \A p, q \in Pods, t \in Tokens : flight[p][t] # NoFlight /\ flight[q][t] # NoFlight => p = q
    /\ \A t \in Tokens : login[t] # 0 => t \in live \/ \E p \in Pods : flight[p][t] \in Tokens
    /\ \A t \in Tokens : login[t] # 0 => \E u \in live : login[u] = login[t]

\* The inductive invariant of the sessions.
SessInv == SessTypes /\ Keyed /\ Issued /\ Logins /\ Flights

LEMMA SessSame ==
  ASSUME SessInv, UNCHANGED sessVars
  PROVE  SessInv'
BY DEF SessInv, sessVars, loginVars, SessTypes, Keyed, Issued, Logins, Flights, Known, Booted

LEMMA SessInit == SessionsInit => SessInv
<1> SUFFICES ASSUME SessionsInit PROVE SessInv
  OBVIOUS
<1>1. MaxTokens \in Nat \ {0} /\ None \notin Pods
  BY SessionsAssumption DEF None
<1>2. Unused \in SessType
  BY <1>1 DEF Unused, SessType
<1>3. SessTypes
  BY <1>1, <1>2 DEF SessionsInit, SessTypes, OwnKey, NoCookie, Tokens, Exchanging, NoFlight
<1>4. Keyed /\ Issued
  BY DEF SessionsInit, Keyed, Issued, OwnKey, Unused
<1>5. Logins /\ Flights
  BY DEF SessionsInit, Logins, Flights, Unused, NoFlight, Tokens
<1> QED BY <1>3, <1>4, <1>5 DEF SessInv

\* The key of a pod, read or shared.
LEMMA KeyStep ==
  ASSUME SessInv, NEW p \in Pods, StoredCookieKey(p) \/ SharedCookieKey(p)
  PROVE  SessInv'
<1> USE DEF SessInv
<1>1. None \notin Pods /\ "creating" \notin Pods
  BY SessionsAssumption DEF None
<1>2. /\ keyOf[p] \in {None, "creating"}
      /\ UNCHANGED <<auth, cookie, stash, issued, login, live, expired, flight, sess, torn>>
      /\ secret' = secret \/ (secret = None /\ secret' = p)
      /\ \E k \in {secret', "creating"} : keyOf' = [keyOf EXCEPT ![p] = k]
  BY DEF StoredCookieKey, SharedCookieKey, loginVars
<1>3. SessTypes'
  BY <1>2 DEF SessTypes
<1>4. Keyed'
  BY <1>2 DEF Keyed, SessTypes
<1>5. Booted \subseteq Booted'
  BY <1>2 DEF Booted, SessTypes
<1>6. Issued'
  BY <1>2, <1>5 DEF Issued, Known
<1>7. Logins' /\ Flights'
  BY <1>2 DEF Logins, Flights
<1> QED BY <1>3, <1>4, <1>6, <1>7

\* Sign-ins, sign-outs and the passing of time.
LEMMA LoginStep ==
  ASSUME SessInv, NEW p \in Pods, AuthLogin(p)
  PROVE  SessInv'
<1> USE DEF SessInv
<1>1. /\ UNCHANGED <<auth, secret, keyOf, cookie, login, live, flight, sess, torn>>
      /\ issued < MaxTokens /\ issued' = issued + 1 /\ stash' = issued + 1
  BY DEF AuthLogin
<1>2. MaxTokens \in Nat /\ issued \in 0..MaxTokens
  BY SessionsAssumption DEF SessTypes
<1>3. issued' \in Tokens /\ login[issued'] = 0
  BY <1>1, <1>2 DEF Logins, Tokens
<1>4. SessTypes'
  BY <1>1, <1>2 DEF SessTypes
<1>5. Keyed' /\ Issued' /\ Flights'
  BY <1>1 DEF Keyed, Issued, Flights, Known, Booted
<1>6. Logins'
  BY <1>1, <1>2, <1>3 DEF Logins, Tokens
<1> QED BY <1>4, <1>5, <1>6

LEMMA CallbackStep ==
  ASSUME SessInv, NEW p \in Pods, NEW s \in Tokens, AuthCallback(p, s)
  PROVE  SessInv'
<1> USE DEF SessInv
<1>1. /\ UNCHANGED <<auth, secret, keyOf, issued, flight, sess, torn>>
      /\ auth /\ p \in Booted /\ stash = s /\ stash' = 0
      /\ login' = [login EXCEPT ![s] = s] /\ live' = live \cup {s}
      /\ cookie' = [token |-> s, key |-> keyOf[p]]
  BY DEF AuthCallback
<1>2. MaxTokens \in Nat /\ issued \in 0..MaxTokens /\ login \in [Tokens -> 0..MaxTokens] /\ s \in 1..issued
  BY <1>1, SessionsAssumption DEF SessTypes, Tokens
<1>3. login[s] = 0 /\ login'[s] = s /\ s # 0 /\ \A t \in Tokens \ {s} : login'[t] = login[t]
  BY <1>1, <1>2 DEF Logins, Tokens
<1>4. \A t : Known(t) => Known(t)' /\ login'[t] = login[t] /\ t # s
  BY <1>3 DEF Known
<1>5. SessTypes'
  <2>1. login' \in [Tokens -> 0..MaxTokens]
    BY <1>1, <1>2 DEF Tokens
  <2>2. cookie' = [token |-> cookie'.token, key |-> cookie'.key]
    BY <1>1
  <2>3. live' \subseteq Tokens /\ stash' \in 0..issued'
    BY <1>1, <1>2 DEF SessTypes
  <2> QED BY <1>1, <2>1, <2>2, <2>3 DEF SessTypes
<1>6. Keyed'
  BY <1>1 DEF Keyed
<1>7. Issued'
  <2>1. secret # None /\ keyOf[p] = secret
    BY <1>1, SessionsAssumption DEF Keyed, Booted, SessTypes, None
  <2>2. cookie'.key = secret /\ cookie'.token = s /\ Known(s)'
    BY <1>1, <1>3, <2>1 DEF Known
  <2>3. Booted' = Booted
    BY <1>1 DEF Booted
  <2> QED BY <1>1, <1>4, <2>1, <2>2, <2>3 DEF Issued
<1>8. Logins'
  BY <1>1, <1>2, <1>3 DEF Logins, Tokens, SessTypes
<1>9. Flights'
  <2> SUFFICES ASSUME ~torn PROVE Flights'
    BY <1>1 DEF Flights
  <2>1. ASSUME NEW t \in Tokens, login'[t] # 0
        PROVE  /\ t \in live' \/ \E q \in Pods : flight[q][t] \in Tokens
               /\ \E u \in live' : login'[u] = login'[t]
    <3>1. CASE t = s
      BY <1>1, <3>1
    <3>2. CASE t # s
      <4>1. login[t] # 0 /\ login'[t] = login[t]
        BY <1>3, <2>1, <3>2
      <4>2. PICK u \in live : login[u] = login[t]
        BY <4>1 DEF Flights
      <4>3. u \in Tokens /\ u # s
        BY <1>3, <4>1, <4>2 DEF SessTypes
      <4> QED BY <1>1, <1>3, <4>1, <4>2, <4>3 DEF Flights
    <3> QED BY <3>1, <3>2
  <2> QED BY <1>1, <2>1 DEF Flights
<1> QED BY <1>5, <1>6, <1>7, <1>8, <1>9

LEMMA QuietStep ==
  ASSUME SessInv, (\E p \in Pods : AuthLogout(p)) \/ \E t \in Tokens : Expires(t)
  PROVE  SessInv'
<1> USE DEF SessInv
<1>1. /\ UNCHANGED <<auth, secret, keyOf, stash, issued, login, live, flight, sess, torn>>
      /\ cookie' = cookie \/ cookie' = NoCookie
  BY DEF AuthLogout, Expires, loginVars
<1>2. SessTypes'
  BY <1>1 DEF SessTypes, NoCookie
<1>3. Keyed' /\ Issued' /\ Logins' /\ Flights'
  BY <1>1 DEF Keyed, Issued, Logins, Flights, Known, Booted
<1> QED BY <1>2, <1>3

\* SingleFlight forgets a result: from then on sessions may tear.
LEMMA ForgetStep ==
  ASSUME SessInv, NEW p \in Pods, NEW t \in Tokens, ForgetFlight(p, t)
  PROVE  SessInv'
<1> USE DEF SessInv
<1>1. /\ UNCHANGED <<auth, secret, keyOf, cookie, stash, issued, login, live, sess>>
      /\ torn' = TRUE /\ flight' = [flight EXCEPT ![p][t] = NoFlight]
  BY DEF ForgetFlight, loginVars
<1>2. MaxTokens \in Nat
  BY SessionsAssumption
<1>3. SessTypes'
  BY <1>1, <1>2 DEF SessTypes, Exchanging, NoFlight
<1>4. Keyed' /\ Issued' /\ Flights'
  BY <1>1 DEF Keyed, Issued, Flights, Known, Booted
<1>5. Logins'
  <2>1. \A q \in Pods, u \in Tokens : flight'[q][u] \in {flight[q][u], NoFlight}
    BY <1>1 DEF SessTypes
  <2> QED BY <1>1, <2>1 DEF Logins, NoFlight, Tokens
<1> QED BY <1>3, <1>4, <1>5

\* What a request may know.
Entry(s) ==
  /\ s \in SessType
  /\ s.at # "idle" => s.pod \in Booted
  /\ s.at \in {"refresh", "exchange"} => auth /\ Known(s.token)
  /\ s.new # 0 => auth /\ s.at = "in" /\ Known(s.new)

LEMMA EntryOf ==
  ASSUME SessInv, NEW r \in Requests
  PROVE  Entry(sess[r])
BY DEF SessInv, SessTypes, Issued, Entry

\* A request goes on, without an exchange, and may set the cookie.
LEMMA RequestStep ==
  ASSUME SessInv, NEW r \in Requests, NEW s, Entry(s), s.at # "exchange",
         sess' = [sess EXCEPT ![r] = s],
         \/ cookie' = cookie
         \/ \E t : cookie' = [token |-> t, key |-> secret] /\ Known(t) /\ auth /\ secret # None,
         UNCHANGED <<auth, secret, keyOf, stash, issued, login, live, flight, torn>>
  PROVE  SessInv'
<1> USE DEF SessInv
<1>1. sess'[r] = s /\ \A q \in Requests \ {r} : sess'[q] = sess[q]
  BY DEF SessTypes
<1>2. SessTypes'
  <2>1. sess' \in [Requests -> SessType]
    BY DEF SessTypes, Entry
  <2>2. cookie' = [token |-> cookie'.token, key |-> cookie'.key]
    BY DEF SessTypes
  <2> QED BY <2>1, <2>2 DEF SessTypes
<1>3. Keyed' /\ Logins'
  BY DEF Keyed, Logins
<1>4. Issued'
  <2>1. Booted' = Booted /\ \A t : Known(t)' <=> Known(t)
    BY DEF Booted, Known
  <2>2. cookie' # NoCookie => auth /\ secret # None /\ cookie'.key = secret /\ Known(cookie'.token)
    BY DEF Issued
  <2>3. \A q \in Requests : Entry(sess'[q])
    BY <1>1, EntryOf
  <2> QED BY <2>1, <2>2, <2>3 DEF Issued, Entry
<1>5. Flights'
  BY <1>1 DEF Flights
<1> QED BY <1>2, <1>3, <1>4, <1>5

LEMMA EnterStep ==
  ASSUME SessInv, NEW r \in Requests, NEW p \in Pods, NEW kind, Enter(r, p, kind)
  PROVE  SessInv'
<1>1. 0 \in 0..MaxTokens /\ None \notin Pods
  BY SessionsAssumption DEF None
<1>2. p \in Booted /\ UNCHANGED <<auth, secret, keyOf, cookie, stash, issued, login, live, flight, torn>>
  BY DEF Enter, loginVars
<1>3. PICK s : /\ sess' = [sess EXCEPT ![r] = s]
               /\ Entry(s) /\ s.at # "exchange"
  <2>1. ASSUME NEW caller \in {"anonymous", "key", "user"}, NEW t \in 0..MaxTokens, Into(r, p, caller, t, 0)
        PROVE  \E s : sess' = [sess EXCEPT ![r] = s] /\ Entry(s) /\ s.at # "exchange"
    <3> DEFINE s == [at |-> "in", pod |-> p, caller |-> caller, token |-> t, new |-> 0]
    <3>1. Entry(s) /\ s.at # "exchange"
      BY <1>1, <1>2 DEF Entry, SessType
    <3>2. sess' = [sess EXCEPT ![r] = s]
      BY <2>1 DEF Into
    <3> HIDE DEF s
    <3> QED BY <3>1, <3>2
  <2>2. cookie # NoCookie => cookie.token \in 0..MaxTokens /\ Known(cookie.token)
    BY SessionsAssumption DEF SessInv, Issued, Known, Tokens
  <2>3. CASE Refreshes(r, p)
    <3> DEFINE s == [Unused EXCEPT !.at = "refresh", !.pod = p, !.token = cookie.token]
    <3> DEFINE s1 == [Unused EXCEPT !.at = "refresh"]
               s2 == [s1 EXCEPT !.pod = p]
    <3>1. s1 \in SessType /\ s1.at = "refresh" /\ s1.new = 0
      BY <1>1 DEF Unused, SessType
    <3>2. s = [s2 EXCEPT !.token = cookie.token]
      OBVIOUS
    <3>3. sess' = [sess EXCEPT ![r] = s]
      BY <2>3 DEF Refreshes
    <3> HIDE DEF s1
    <3>4. s2 \in SessType /\ s2.at = "refresh" /\ s2.new = 0 /\ s2.pod = p
      BY <3>1 DEF SessType
    <3> HIDE DEF s2, s
    <3>5. s \in SessType /\ s.at = "refresh" /\ s.new = 0 /\ s.pod = p /\ s.token = cookie.token
      BY <2>2, <2>3, <3>2, <3>4 DEF SessType, Refreshes
    <3>6. Entry(s)
      BY <1>2, <2>2, <2>3, <3>5 DEF Entry, Refreshes
    <3> QED BY <3>3, <3>5, <3>6
  <2>4. CASE Anonymous(r, p)
    BY <1>1, <2>1, <2>4 DEF Anonymous
  <2>5. CASE WithKey(r, p, kind)
    BY <1>1, <2>1, <2>5 DEF WithKey
  <2>6. CASE WithSession(r, p)
    BY <2>1, <2>2, <2>6 DEF WithSession
  <2> QED BY <2>3, <2>4, <2>5, <2>6 DEF Enter
<1> QED BY <1>2, <1>3, RequestStep

\* The first request of a token makes the exchange.
LEMMA StartStep ==
  ASSUME SessInv, NEW r \in Requests, StartExchange(r)
  PROVE  SessInv'
<1> USE DEF SessInv
<1> DEFINE p == sess[r].pod
           t == sess[r].token
<1>1. /\ sess[r].at = "refresh" /\ flight[p][t] = NoFlight
      /\ sess' = [sess EXCEPT ![r].at = "exchange"]
      /\ flight' = [flight EXCEPT ![p][t] = Exchanging]
      /\ torn' = (torn \/ Elsewhere(r))
      /\ UNCHANGED <<auth, secret, keyOf, cookie, stash, issued, login, live>>
  BY DEF StartExchange, Flight, Token, loginVars
<1>2. Entry(sess[r])
  BY EntryOf
<1>3. p \in Pods /\ t \in Tokens /\ login[t] # 0 /\ MaxTokens \in Nat
  BY <1>1, <1>2, SessionsAssumption DEF Entry, Booted, Known
<1>4. /\ sess' \in [Requests -> SessType]
      /\ sess'[r].at = "exchange" /\ sess'[r].pod = p /\ sess'[r].token = t /\ sess'[r].new = sess[r].new
      /\ \A q \in Requests \ {r} : sess'[q] = sess[q]
  BY <1>1 DEF SessTypes, SessType
<1>5. flight'[p][t] = Exchanging /\ \A q \in Pods, u \in Tokens : q # p \/ u # t => flight'[q][u] = flight[q][u]
  BY <1>1, <1>3 DEF SessTypes
<1>6. SessTypes'
  <2>1. flight' \in [Pods -> [Tokens -> 0..Exchanging]]
    BY <1>1, <1>3 DEF SessTypes, Exchanging
  <2> QED BY <1>1, <1>4, <2>1 DEF SessTypes, Exchanging
<1>7. Keyed'
  BY <1>1 DEF Keyed
<1>8. Issued'
  <2>1. Booted' = Booted /\ \A u : Known(u)' <=> Known(u)
    BY <1>1 DEF Booted, Known
  <2>2. \A q \in Requests : /\ sess'[q].at # "idle" => sess'[q].pod \in Booted
                            /\ sess'[q].at \in {"refresh", "exchange"} => auth /\ Known(sess'[q].token)
                            /\ sess'[q].new # 0 => auth /\ sess'[q].at = "in" /\ Known(sess'[q].new)
    BY <1>1, <1>2, <1>4 DEF Issued, Entry
  <2> QED BY <1>1, <2>1, <2>2 DEF Issued
<1>9. Exchanging \notin Tokens /\ Exchanging # NoFlight
  BY <1>3 DEF Exchanging, NoFlight, Tokens
<1>10. Logins'
  <2>1. \A q \in Pods, u \in Tokens : flight'[q][u] \in Tokens => flight'[q][u] = flight[q][u]
    BY <1>5, <1>9
  <2> QED BY <1>1, <2>1 DEF Logins
<1> HIDE DEF p, t
<1>11. Flights'
  <2> SUFFICES ASSUME ~torn, ~Elsewhere(r) PROVE Flights'
    BY <1>1 DEF Flights
  <2>1. \A q \in Pods : flight[q][t] = NoFlight
    BY <1>1 DEF Elsewhere, Token, p, t
  <2>2. t \in live
    BY <1>3, <2>1 DEF Flights, NoFlight, Tokens
  <2>3. \A q \in Requests : sess'[q].at = "exchange" => flight'[sess'[q].pod][sess'[q].token] = Exchanging
    <3> SUFFICES ASSUME NEW q \in Requests, q # r, sess[q].at = "exchange"
                 PROVE  flight'[sess[q].pod][sess[q].token] = Exchanging
      BY <1>4, <1>5
    <3>1. sess[q].pod \in Pods /\ sess[q].token \in Tokens
      BY EntryOf DEF Entry, Booted, Known
    <3>2. flight[sess[q].pod][sess[q].token] = Exchanging
      BY DEF Flights
    <3> QED BY <1>5, <3>1, <3>2
  <2>4. \A q \in Requests : sess[q].at = "exchange" => ~(sess[q].pod = p /\ sess[q].token = t)
    BY <1>1, <1>9 DEF Flights
  <2>5. \A q, o \in Requests : sess'[q].at = "exchange" /\ sess'[o].at = "exchange"
          /\ sess'[q].pod = sess'[o].pod /\ sess'[q].token = sess'[o].token => q = o
    BY <1>4, <2>4 DEF Flights
  <2>6. \A q, o \in Pods, u \in Tokens : flight'[q][u] # NoFlight /\ flight'[o][u] # NoFlight => q = o
    BY <1>3, <1>5, <2>1 DEF Flights
  <2>7. \A u \in Tokens : login[u] # 0 => u \in live \/ \E q \in Pods : flight'[q][u] \in Tokens
    BY <1>5, <2>2 DEF Flights
  <2>8. \A u \in Tokens : login[u] # 0 => \E v \in live : login[v] = login[u]
    BY DEF Flights
  <2> QED BY <1>1, <2>3, <2>5, <2>6, <2>7, <2>8 DEF Flights
<1> QED BY <1>6, <1>7, <1>8, <1>10, <1>11

LEMMA ShareStep ==
  ASSUME SessInv, NEW r \in Requests, ShareExchange(r)
  PROVE  SessInv'
<1> DEFINE p == sess[r].pod
           t == sess[r].token
           n == flight[p][t]
<1>1. /\ sess[r].at = "refresh" /\ n \in Tokens
      /\ sess' = [sess EXCEPT ![r].at = "in", ![r].caller = "user", ![r].new = n]
      /\ UNCHANGED <<auth, secret, keyOf, cookie, stash, issued, login, live, flight, torn>>
  BY DEF ShareExchange, Flight, Token, loginVars
<1>2. Entry(sess[r]) /\ sess \in [Requests -> SessType]
  BY EntryOf DEF SessInv, SessTypes
<1>3. p \in Pods /\ t \in Tokens /\ auth
  BY <1>1, <1>2 DEF Entry, Booted, Known
<1>4. Known(n)
  BY <1>1, <1>3 DEF SessInv, Logins, Known
<1> HIDE DEF n
<1> DEFINE s1 == [sess[r] EXCEPT !.at = "in"]
           s2 == [s1 EXCEPT !.caller = "user"]
           s == [s2 EXCEPT !.new = n]
<1>5. s1 \in SessType /\ s1.at = "in" /\ s1.pod = p
  BY <1>2 DEF SessType
<1>6. sess' = [sess EXCEPT ![r] = s]
  BY <1>1, <1>2
<1> HIDE DEF s1
<1>7. s2 \in SessType /\ s2.at = "in" /\ s2.pod = p
  BY <1>5 DEF SessType
<1> HIDE DEF s2
<1>8. s \in SessType /\ s.at = "in" /\ s.pod = p /\ s.new = n
  BY <1>1, <1>7 DEF SessType, Tokens
<1> HIDE DEF s
<1>9. Entry(s)
  BY <1>1, <1>2, <1>3, <1>4, <1>8 DEF Entry
<1> QED BY <1>1, <1>6, <1>8, <1>9, RequestStep

LEMMA RespondStep ==
  ASSUME SessInv, NEW r \in Requests, Respond(r)
  PROVE  SessInv'
<1>1. /\ cookie' = IF sess[r].new # 0 THEN [token |-> sess[r].new, key |-> keyOf[sess[r].pod]] ELSE cookie
      /\ sess' = [sess EXCEPT ![r] = Unused]
      /\ UNCHANGED <<auth, secret, keyOf, stash, issued, login, live, flight, torn>>
  BY DEF Respond, loginVars
<1>2. Entry(Unused) /\ Unused.at # "exchange"
  BY SessionsAssumption DEF Entry, Unused, SessType
<1>3. Entry(sess[r])
  BY EntryOf
<1>4. sess[r].new # 0 => keyOf[sess[r].pod] = secret /\ secret # None /\ auth /\ Known(sess[r].new)
  BY <1>3 DEF Entry, Booted, SessInv, Keyed
<1> QED BY <1>1, <1>2, <1>4, RequestStep

LEMMA DisconnectStep ==
  ASSUME SessInv, NEW r \in Requests, Disconnect(r)
  PROVE  SessInv'
<1>1. /\ sess' = [sess EXCEPT ![r] = Unused]
      /\ UNCHANGED <<auth, secret, keyOf, cookie, stash, issued, login>>
  BY DEF Disconnect
<1>2. Entry(Unused) /\ Unused.at # "exchange"
  BY SessionsAssumption DEF Entry, Unused, SessType
<1>3. CASE sess[r].at # "exchange"
  BY <1>1, <1>2, <1>3, RequestStep DEF Disconnect
<1>4. CASE sess[r].at = "exchange"
  <2> DEFINE p == sess[r].pod
             t == sess[r].token
  <2>1. /\ torn' = TRUE /\ live' \subseteq live
        /\ flight' = [flight EXCEPT ![p][t] = NoFlight]
    BY <1>4 DEF Disconnect, Token
  <2> HIDE DEF p, t
  <2>2. SessTypes'
    <3>1. 0 \in 0..Exchanging
      BY SessionsAssumption DEF Exchanging
    <3>2. flight' \in [Pods -> [Tokens -> 0..Exchanging]]
      BY <2>1, <3>1 DEF SessInv, SessTypes, NoFlight
    <3>3. sess' \in [Requests -> SessType]
      BY <1>1, <1>2 DEF SessInv, SessTypes, Entry
    <3> QED BY <1>1, <2>1, <3>2, <3>3 DEF SessInv, SessTypes, Exchanging
  <2>3. \A q \in Pods, u \in Tokens : flight'[q][u] \in {flight[q][u], NoFlight}
    BY <2>1 DEF SessInv, SessTypes
  <2>4. Logins'
    BY <1>1, <2>1, <2>3 DEF SessInv, Logins, NoFlight, Tokens
  <2>5. \A q \in Requests : sess'[q] \in {sess[q], Unused}
    BY <1>1 DEF SessInv, SessTypes
  <2>6. Issued'
    <3>1. Booted' = Booted /\ \A u : Known(u)' <=> Known(u)
      BY <1>1 DEF Booted, Known
    <3>2. \A q \in Requests : Entry(sess'[q])
      BY <1>2, <2>5, EntryOf
    <3> QED BY <1>1, <3>1, <3>2 DEF SessInv, Issued, Entry
  <2>7. Keyed' /\ Flights'
    BY <1>1, <2>1 DEF SessInv, Keyed, Flights
  <2> QED BY <2>2, <2>4, <2>6, <2>7 DEF SessInv
<1> QED BY <1>3, <1>4

\* exchange_refresh_token: as long as nothing tears, the token is still good.
LEMMA GoodToken ==
  ASSUME SessInv, NEW r \in Requests, sess[r].at = "exchange", ~torn
  PROVE  sess[r].token \in live
<1>1. Entry(sess[r])
  BY EntryOf
<1>2. sess[r].pod \in Pods /\ sess[r].token \in Tokens /\ login[sess[r].token] # 0
  BY <1>1 DEF Entry, Booted, Known
<1>3. flight[sess[r].pod][sess[r].token] = Exchanging /\ Exchanging \notin Tokens /\ Exchanging # NoFlight
      /\ NoFlight \notin Tokens
  BY SessionsAssumption DEF SessInv, Flights, Exchanging, Tokens, NoFlight
<1>4. \A p \in Pods : flight[p][sess[r].token] \notin Tokens
  BY <1>2, <1>3 DEF SessInv, Flights
<1> QED BY <1>2, <1>4 DEF SessInv, Flights

LEMMA RotateStep ==
  ASSUME SessInv, NEW r \in Requests, Exchange(r), sess[r].token \in live, issued < MaxTokens
  PROVE  SessInv'
<1> DEFINE p == sess[r].pod
           t == sess[r].token
           n == issued + 1
           s1 == [sess[r] EXCEPT !.at = "in"]
           s2 == [s1 EXCEPT !.caller = "user"]
           s == [s2 EXCEPT !.new = n]
<1>1. /\ sess[r].at = "exchange" /\ issued' = n
      /\ login' = [login EXCEPT ![n] = login[t]]
      /\ live' = (live \ {t}) \cup {n}
      /\ flight' = [flight EXCEPT ![p][t] = n]
      /\ sess' = [sess EXCEPT ![r].at = "in", ![r].caller = "user", ![r].new = n]
      /\ UNCHANGED <<auth, secret, keyOf, cookie, stash, torn>>
  BY DEF Exchange, Token
<1>2. /\ MaxTokens \in Nat /\ issued \in 0..MaxTokens /\ stash \in 0..issued /\ live \subseteq Tokens
      /\ login \in [Tokens -> 0..MaxTokens] /\ flight \in [Pods -> [Tokens -> 0..Exchanging]]
      /\ sess \in [Requests -> SessType] /\ cookie = [token |-> cookie.token, key |-> cookie.key]
  BY SessionsAssumption DEF SessInv, SessTypes
<1>3. Entry(sess[r])
  BY EntryOf
<1>4. p \in Pods /\ t \in Tokens /\ login[t] # 0 /\ auth /\ p \in Booted
  BY <1>1, <1>3 DEF Entry, Booted, Known
<1>5. n \in Tokens /\ n # 0 /\ n > issued /\ n # stash /\ login[n] = 0 /\ n # t
  BY <1>2, <1>4 DEF SessInv, Logins, Tokens
<1>6. sess' = [sess EXCEPT ![r] = s]
  BY <1>1, <1>2
<1> HIDE DEF n
<1>7. s1 \in SessType /\ s1.at = "in" /\ s1.pod = p
  BY <1>2 DEF SessType
<1> HIDE DEF s1
<1>8. s2 \in SessType /\ s2.at = "in" /\ s2.pod = p
  BY <1>7 DEF SessType
<1> HIDE DEF s2
<1>9. s \in SessType /\ s.at = "in" /\ s.pod = p /\ s.new = n
  BY <1>5, <1>8 DEF SessType, Tokens
<1> HIDE DEF s, p, t
<1>10. login'[n] = login[t] /\ \A u \in Tokens \ {n} : login'[u] = login[u]
  BY <1>1, <1>2, <1>5
<1>11. flight'[p][t] = n /\ \A q \in Pods, u \in Tokens : q # p \/ u # t => flight'[q][u] = flight[q][u]
  BY <1>1, <1>2, <1>4
<1>12. sess'[r] = s /\ \A q \in Requests \ {r} : sess'[q] = sess[q]
  BY <1>2, <1>6
<1>13. SessTypes'
  <2>1. login' \in [Tokens -> 0..MaxTokens]
    BY <1>1, <1>2, <1>4, <1>5
  <2>2. n \in 0..Exchanging
    BY <1>2, <1>5 DEF Exchanging, Tokens
  <2>3. flight' \in [Pods -> [Tokens -> 0..Exchanging]]
    BY <1>1, <1>2, <1>4, <2>2
  <2>4. sess' \in [Requests -> SessType]
    BY <1>2, <1>6, <1>9
  <2>5. issued' \in 0..MaxTokens /\ stash' \in 0..issued' /\ live' \subseteq Tokens
    BY <1>1, <1>2, <1>5 DEF Tokens
  <2>6. secret' \in Pods \cup {None} /\ keyOf' \in [Pods -> Pods \cup {None, "creating"}]
    BY <1>1 DEF SessInv, SessTypes
  <2>7. cookie' = [token |-> cookie'.token, key |-> cookie'.key]
    BY <1>1, <1>2
  <2> QED BY <2>1, <2>3, <2>4, <2>5, <2>6, <2>7 DEF SessTypes, Exchanging
<1>14. Keyed'
  BY <1>1 DEF SessInv, Keyed
<1>15. n \in Tokens /\ login'[n] # 0 /\ \A u : Known(u) => Known(u)'
  BY <1>4, <1>5, <1>10 DEF Known
<1>16. Issued'
  <2>1. Booted' = Booted
    BY <1>1 DEF Booted
  <2>2. cookie' # NoCookie => auth' /\ secret' # None /\ cookie'.key = secret' /\ Known(cookie.token)'
    BY <1>1, <1>15 DEF SessInv, Issued
  <2>3. ASSUME NEW q \in Requests
        PROVE  /\ sess'[q].at # "idle" => sess'[q].pod \in Booted
               /\ sess'[q].at \in {"refresh", "exchange"} => auth /\ Known(sess[q].token)'
               /\ sess'[q].new # 0 => auth /\ sess'[q].at = "in" /\ Known(sess[q].new)'
    <3>1. CASE q = r
      BY <1>4, <1>9, <1>12, <1>15, <3>1 DEF Known
    <3>2. CASE q # r
      BY <1>12, <1>15, <3>2 DEF SessInv, Issued
    <3> QED BY <3>1, <3>2
  <2> QED BY <1>1, <2>1, <2>2, <2>3 DEF Issued
<1>17. Logins'
  <2>1. \A u \in Tokens : login'[u] # 0 => u <= issued'
    BY <1>1, <1>2, <1>5, <1>10 DEF SessInv, Logins, Tokens
  <2>2. \A u \in live' : login'[u] # 0
    BY <1>1, <1>2, <1>4, <1>10 DEF SessInv, Logins
  <2>3. stash' # 0 => login'[stash'] = 0
    BY <1>1, <1>2, <1>5, <1>10 DEF SessInv, Logins, Tokens
  <2>4. ASSUME NEW q \in Pods, NEW u \in Tokens, flight'[q][u] \in Tokens
        PROVE  login'[flight'[q][u]] # 0
    <3>1. CASE q = p /\ u = t
      BY <1>4, <1>10, <1>11, <3>1
    <3>2. CASE q # p \/ u # t
      <4>1. login[flight[q][u]] # 0 /\ flight'[q][u] = flight[q][u]
        BY <1>11, <2>4, <3>2 DEF SessInv, Logins
      <4> QED BY <1>4, <1>10, <2>4, <4>1
    <3> QED BY <3>1, <3>2
  <2> QED BY <2>1, <2>2, <2>3, <2>4 DEF Logins
<1>18. Flights'
  <2> SUFFICES ASSUME ~torn PROVE Flights'
    BY <1>1 DEF Flights
  <2>0. t \in Tokens /\ t \in live /\ n \in live' /\ n \notin {NoFlight, Exchanging}
    BY <1>1, <1>2, <1>4, <1>5 DEF t, NoFlight, Exchanging, Tokens
  <2>1. \A q \in Requests : sess[q].at = "exchange" /\ sess[q].pod = p /\ sess[q].token = t => q = r
    BY <1>1 DEF SessInv, Flights, p, t
  <2>2. flight[p][t] = Exchanging /\ Exchanging # NoFlight
    BY <1>1, <1>2 DEF SessInv, Flights, p, t, Exchanging, NoFlight
  <2>3. \A q \in Requests : sess'[q].at = "exchange" => flight'[sess'[q].pod][sess'[q].token] = Exchanging
    <3> SUFFICES ASSUME NEW q \in Requests, q # r, sess[q].at = "exchange"
                 PROVE  flight'[sess[q].pod][sess[q].token] = Exchanging
      BY <1>9, <1>12
    <3>1. sess[q].pod \in Pods /\ sess[q].token \in Tokens
      BY EntryOf DEF Entry, Booted, Known
    <3>2. flight[sess[q].pod][sess[q].token] = Exchanging
      BY DEF SessInv, Flights
    <3> QED BY <1>11, <2>1, <3>1, <3>2
  <2>4. \A q, o \in Requests : sess'[q].at = "exchange" /\ sess'[o].at = "exchange"
          /\ sess'[q].pod = sess'[o].pod /\ sess'[q].token = sess'[o].token => q = o
    BY <1>9, <1>12 DEF SessInv, Flights
  <2>5. \A q, o \in Pods, u \in Tokens : flight'[q][u] # NoFlight /\ flight'[o][u] # NoFlight => q = o
    BY <1>4, <1>11, <2>2 DEF SessInv, Flights
  <2>6. ASSUME NEW u \in Tokens, login'[u] # 0
        PROVE  u \in live' \/ \E q \in Pods : flight'[q][u] \in Tokens
    <3>1. CASE u = n
      BY <2>0, <3>1
    <3>2. CASE u = t
      BY <1>4, <1>5, <1>11, <3>2
    <3>3. CASE u # n /\ u # t
      <4>1. u \in live \/ \E q \in Pods : flight[q][u] \in Tokens
        BY <1>10, <2>6, <3>3 DEF SessInv, Flights
      <4> QED BY <1>1, <1>11, <3>3, <4>1
    <3> QED BY <3>1, <3>2, <3>3
  <2>7. ASSUME NEW u \in Tokens, login'[u] # 0
        PROVE  \E v \in live' : login'[v] = login'[u]
    <3>1. CASE login'[u] = login[t]
      BY <1>10, <2>0, <3>1
    <3>2. CASE login'[u] # login[t]
      <4>1. u # n /\ login'[u] = login[u]
        BY <1>10, <3>2
      <4>2. PICK v \in live : login[v] = login[u]
        BY <2>7, <4>1 DEF SessInv, Flights
      <4>3. v # t /\ v # n /\ v \in Tokens
        BY <1>2, <1>5, <2>7, <3>2, <4>1, <4>2
      <4> QED BY <1>1, <1>10, <4>1, <4>2, <4>3
    <3> QED BY <3>1, <3>2
  <2> QED BY <1>1, <2>3, <2>4, <2>5, <2>6, <2>7 DEF Flights
<1> QED BY <1>13, <1>14, <1>16, <1>17, <1>18 DEF SessInv

\* The exchange fails: the provider is out of tokens, or revokes the login.
LEMMA RefusedStep ==
  ASSUME SessInv, NEW r \in Requests, Exchange(r), ~(sess[r].token \in live /\ issued < MaxTokens)
  PROVE  SessInv'
<1> DEFINE p == sess[r].pod
           t == sess[r].token
<1>1. /\ sess[r].at = "exchange"
      /\ live' = IF t \in live THEN live ELSE {u \in live : login[u] # login[t]}
      /\ flight' = [flight EXCEPT ![p][t] = NoFlight]
      /\ sess' = [sess EXCEPT ![r] = Unused]
      /\ UNCHANGED <<auth, secret, keyOf, cookie, stash, issued, login, torn>>
  BY DEF Exchange, Token
<1>2. Entry(Unused) /\ Unused.at # "exchange" /\ Entry(sess[r])
  BY EntryOf, SessionsAssumption DEF Entry, Unused, SessType
<1>3. p \in Pods /\ t \in Tokens
  BY <1>1, <1>2 DEF Entry, Booted, Known
<1>4. sess'[r] = Unused /\ \A q \in Requests \ {r} : sess'[q] = sess[q]
  BY <1>1 DEF SessInv, SessTypes
<1>5. flight'[p][t] = NoFlight /\ \A q \in Pods, u \in Tokens : q # p \/ u # t => flight'[q][u] = flight[q][u]
  BY <1>1, <1>3 DEF SessInv, SessTypes
<1>6. SessTypes'
  <2>1. 0 \in 0..Exchanging
    BY SessionsAssumption DEF Exchanging
  <2>2. flight' \in [Pods -> [Tokens -> 0..Exchanging]]
    BY <1>1, <2>1 DEF SessInv, SessTypes, NoFlight
  <2>3. sess' \in [Requests -> SessType]
    BY <1>1, <1>2 DEF SessInv, SessTypes, Entry
  <2> QED BY <1>1, <2>2, <2>3 DEF SessInv, SessTypes, Exchanging
<1>7. Keyed'
  BY <1>1 DEF SessInv, Keyed
<1>8. Issued'
  <2>1. Booted' = Booted /\ \A u : Known(u)' <=> Known(u)
    BY <1>1 DEF Booted, Known
  <2>2. \A q \in Requests : Entry(sess'[q])
    BY <1>2, <1>4, EntryOf
  <2> QED BY <1>1, <2>1, <2>2 DEF SessInv, Issued, Entry
<1>9. live' \subseteq live
  BY <1>1
<1> HIDE DEF p
<1>10. Logins'
  <2>1. \A q \in Pods, u \in Tokens : flight'[q][u] \in {flight[q][u], NoFlight}
    BY <1>3, <1>5
  <2> QED BY <1>1, <1>9, <2>1 DEF SessInv, Logins, NoFlight, Tokens
<1>11. Flights'
  <2> SUFFICES ASSUME ~torn PROVE Flights'
    BY <1>1 DEF Flights
  <2>1. t \in live /\ live' = live
    BY <1>1, GoodToken
  <2> HIDE DEF t
  <2>2. \A q \in Requests : sess[q].at = "exchange" /\ sess[q].pod = p /\ sess[q].token = t => q = r
    BY <1>1 DEF SessInv, Flights, p, t
  <2>3. \A q \in Requests : sess'[q].at = "exchange" => flight'[sess'[q].pod][sess'[q].token] = Exchanging
    <3> SUFFICES ASSUME NEW q \in Requests, q # r, sess[q].at = "exchange"
                 PROVE  flight'[sess[q].pod][sess[q].token] = Exchanging
      BY <1>2, <1>4
    <3>1. sess[q].pod \in Pods /\ sess[q].token \in Tokens
      BY EntryOf DEF Entry, Booted, Known
    <3>2. flight[sess[q].pod][sess[q].token] = Exchanging
      BY DEF SessInv, Flights
    <3> QED BY <1>5, <2>2, <3>1, <3>2
  <2>4. \A q, o \in Requests : sess'[q].at = "exchange" /\ sess'[o].at = "exchange"
          /\ sess'[q].pod = sess'[o].pod /\ sess'[q].token = sess'[o].token => q = o
    BY <1>2, <1>4 DEF SessInv, Flights
  <2>5. \A q, o \in Pods, u \in Tokens : flight'[q][u] # NoFlight /\ flight'[o][u] # NoFlight => q = o
    BY <1>3, <1>5 DEF SessInv, Flights
  <2>6. \A u \in Tokens : login[u] # 0 => u \in live \/ \E q \in Pods : flight'[q][u] \in Tokens
    BY <1>5, <2>1 DEF SessInv, Flights
  <2>7. \A u \in Tokens : login[u] # 0 => \E v \in live : login[v] = login[u]
    BY DEF SessInv, Flights
  <2> QED BY <1>1, <2>1, <2>3, <2>4, <2>5, <2>6, <2>7 DEF Flights
<1> QED BY <1>6, <1>7, <1>8, <1>10, <1>11 DEF SessInv

\* A pod dies; if it had exchanged a token, its successor does not know of it.
LEMMA PodDies ==
  ASSUME SessInv, NEW pod \in Pods, Crash(pod)
  PROVE  SessInv'
<1>1. /\ sess' = [r \in Requests |-> IF sess[r].pod = pod THEN Unused ELSE sess[r]]
      /\ flight' = [flight EXCEPT ![pod] = [t \in Tokens |-> NoFlight]]
      /\ torn' = (torn \/ \E t \in Tokens : flight[pod][t] # NoFlight)
      /\ keyOf' = [keyOf EXCEPT ![pod] = OwnKey(pod)]
      /\ UNCHANGED <<auth, secret, cookie, stash, issued, login, live>>
  BY DEF Crash, loginVars
<1>2. Entry(Unused) /\ Unused.at # "exchange" /\ Unused.pod \notin Pods /\ Unused.at = "idle" /\ Unused.new = 0
  BY SessionsAssumption DEF Entry, Unused, SessType, None
<1>3. \A r \in Requests : \/ sess'[r] = Unused
                          \/ sess'[r] = sess[r] /\ sess[r].pod # pod
  BY <1>1
<1>4. \A q \in Pods, t \in Tokens : flight'[q][t] = IF q = pod THEN NoFlight ELSE flight[q][t]
  BY <1>1 DEF SessInv, SessTypes
<1>5. keyOf' \in [Pods -> Pods \cup {None, "creating"}] /\ \A q \in Pods \ {pod} : keyOf'[q] = keyOf[q]
  BY <1>1 DEF SessInv, SessTypes, OwnKey
<1>6. SessTypes'
  <2>1. 0 \in 0..Exchanging
    BY SessionsAssumption DEF Exchanging
  <2>2. flight' \in [Pods -> [Tokens -> 0..Exchanging]]
    BY <1>1, <2>1 DEF SessInv, SessTypes, NoFlight
  <2>3. sess' \in [Requests -> SessType]
    BY <1>1, <1>2 DEF SessInv, SessTypes, Entry
  <2> QED BY <1>1, <1>5, <2>2, <2>3 DEF SessInv, SessTypes, Exchanging
<1>7. Keyed'
  BY <1>1, <1>5 DEF SessInv, SessTypes, Keyed, OwnKey
<1>8. Issued'
  <2>1. \A u : Known(u)' <=> Known(u)
    BY <1>1 DEF Known
  <2>2. Booted \ {pod} \subseteq Booted'
    BY <1>5 DEF Booted
  <2>3. ASSUME NEW q \in Requests
        PROVE  /\ sess'[q].at # "idle" => sess'[q].pod \in Booted'
               /\ sess'[q].at \in {"refresh", "exchange"} => auth /\ Known(sess'[q].token)
               /\ sess'[q].new # 0 => auth /\ sess'[q].at = "in" /\ Known(sess'[q].new)
    <3>1. CASE sess'[q] = Unused
      BY <1>2, <3>1
    <3>2. CASE sess'[q] = sess[q] /\ sess[q].pod # pod
      <4>1. Entry(sess[q])
        BY EntryOf
      <4> QED BY <2>2, <3>2, <4>1 DEF Entry
    <3> QED BY <1>3, <3>1, <3>2
  <2> QED BY <1>1, <2>1, <2>3 DEF SessInv, Issued
<1>9. Logins'
  <2>1. \A q \in Pods, u \in Tokens : flight'[q][u] \in {flight[q][u], NoFlight}
    BY <1>4
  <2> QED BY <1>1, <2>1 DEF SessInv, Logins, NoFlight, Tokens
<1>10. Flights'
  <2> SUFFICES ASSUME ~torn, \A t \in Tokens : flight[pod][t] = NoFlight PROVE Flights'
    BY <1>1 DEF Flights
  <2>1. \A q \in Pods, t \in Tokens : flight'[q][t] = flight[q][t]
    BY <1>4
  <2>2. \A r \in Requests : sess'[r].at = "exchange" =>
          sess'[r] = sess[r] /\ sess[r].pod \in Pods /\ sess[r].token \in Tokens
    <3> SUFFICES ASSUME NEW r \in Requests, sess'[r].at = "exchange"
                 PROVE  sess'[r] = sess[r] /\ sess[r].pod \in Pods /\ sess[r].token \in Tokens
      OBVIOUS
    <3>1. sess'[r] = sess[r]
      BY <1>2, <1>3
    <3>2. Entry(sess[r])
      BY EntryOf
    <3> QED BY <3>1, <3>2 DEF Entry, Booted, Known
  <2>3. \A r \in Requests : sess'[r].at = "exchange" => flight'[sess'[r].pod][sess'[r].token] = Exchanging
    BY <2>1, <2>2 DEF SessInv, Flights
  <2>4. \A r, q \in Requests : sess'[r].at = "exchange" /\ sess'[q].at = "exchange"
          /\ sess'[r].pod = sess'[q].pod /\ sess'[r].token = sess'[q].token => r = q
    BY <2>2 DEF SessInv, Flights
  <2> QED BY <1>1, <2>1, <2>3, <2>4 DEF SessInv, Flights
<1> QED BY <1>6, <1>7, <1>8, <1>9, <1>10 DEF SessInv

LEMMA SessStep == SessInv /\ [Next]_vars => SessInv'
<1> SUFFICES ASSUME SessInv, [Next]_vars PROVE SessInv'
  OBVIOUS
<1>1. ASSUME SessionsNext PROVE SessInv'
  <2>1. ASSUME NEW r \in Requests, Exchange(r) PROVE SessInv'
    BY <2>1, RotateStep, RefusedStep
  <2> QED BY <1>1, <2>1, KeyStep, LoginStep, CallbackStep, QuietStep, ForgetStep, StartStep, ShareStep
          DEF SessionsNext
<1>2. ASSUME NEW r \in Requests, NEW i \in Ids, NEW files \in Proposals, Propose(r, i, files)
      PROVE  SessInv'
  BY <1>2, SessSame DEF Propose, Holds
<1>3. ASSUME NEW r \in Requests, NEW i \in Ids, Edit(r, i) \/ Approve(r, i) \/ Reject(r, i)
      PROVE  SessInv'
  BY <1>3, SessSame DEF Edit, Approve, Reject, Holds
<1>4. ASSUME NEW r \in Requests,
             Refuse(r) \/ Write(r) \/ WriteApproval(r) \/ \E i \in Ids : GetChange(r, i)
      PROVE  SessInv'
  BY <1>4, RespondStep DEF Refuse, Write, WriteApproval, GetChange, Answered
<1>5. ASSUME NEW r \in Requests, Abandon(r) PROVE SessInv'
  BY <1>5, DisconnectStep DEF Abandon
<1>6. ASSUME NEW r \in Requests, NEW p \in Pods, NEW kind, Arrive(r, p, kind) PROVE SessInv'
  BY <1>6, EnterStep DEF Arrive
<1>7. ASSUME NEW k \in Approvals, Publishing(k) \/ ReportLost(k) \/ RecordFails(k) PROVE SessInv'
  <2>1. UNCHANGED sessVars
    BY <1>7 DEF Publishing, Build, Send, Report, TimePasses, CallTimeout, Record, ReportLost, RecordFails
  <2> QED BY <2>1, SessSame
<1>8. ASSUME NEW p \in Paths, Deploy(p) \/ \E c \in Contents \cup {Missing} : Commit(p, c)
      PROVE  SessInv'
  BY <1>8, SessSame DEF Deploy, Commit
<1>9. ASSUME UNCHANGED vars PROVE SessInv'
  BY <1>9, SessSame DEF vars
<1> QED BY <1>1, <1>2, <1>3, <1>4, <1>5, <1>6, <1>7, <1>8, <1>9, PodDies DEF Next

\* Every pod can read the cookie that any of them issued, and the provider never
\* sees a refresh token twice unless an exchange is abandoned, forgotten or made
\* on another pod (shared_cookie_key, SingleFlight::run).
THEOREM SessionsSurvive == Spec => []SessionSurvives
<1>1. Init => SessInv
  BY SessInit DEF Init
<1>2. SessInv => SessionSurvives
  <2> SUFFICES ASSUME SessInv, cookie # NoCookie
               PROVE  /\ \A p \in Booted : keyOf[p] = cookie.key
                      /\ ~torn => \E t \in live : login[t] = login[cookie.token]
    BY DEF SessionSurvives
  <2>1. auth /\ cookie.key = secret /\ Known(cookie.token)
    BY DEF SessInv, Issued
  <2>2. \A p \in Booted : keyOf[p] = cookie.key
    BY <2>1 DEF SessInv, Keyed, Booted
  <2>3. ~torn => \E t \in live : login[t] = login[cookie.token]
    BY <2>1 DEF SessInv, Flights, Known
  <2> QED BY <2>2, <2>3
<1> QED BY <1>1, <1>2, SessStep, PTL DEF Spec

=============================================================================
