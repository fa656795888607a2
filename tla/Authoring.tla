------------------------------ MODULE Authoring ------------------------------
(***************************************************************************)
(* Workspace changes (app/src/authoring.rs): proposed against what is      *)
(* deployed, edited by their proposer, approved or rejected by a user, and *)
(* published by a flow whose git_push task commits them                    *)
(* (git/src/push/client.rs).  Callers come from Sessions.                  *)
(*                                                                         *)
(* A handler reads a change and writes it back in two steps, against the   *)
(* revision it read; the publish flow reads the branch and pushes in two   *)
(* steps, against the tip it read.  An approval is a number: it orders     *)
(* decided_at and names the publish task it spawned.                       *)
(***************************************************************************)
EXTENDS Sessions, Sequences, SequencesExt, Functions

CONSTANTS Ids,           \* change ids
          Paths,         \* workspace paths
          Contents,      \* contents of a file
          Trim,          \* [Contents -> Contents]: str::trim_end
          Invalid,       \* contents with validation issues
          TargetOf,      \* target_of: [Paths -> targets]
          Deciders,      \* callers who may decide: users in the approver groups
          FlowPods,      \* pods on which the publish flow runs
          MaxApprovals,  \* bound: approvals
          MaxEdits,      \* bound: edits of a change
          MaxAttempts    \* attempts of the publish flow's git_push

ASSUME AuthoringAssumption ==
  /\ Trim \in [Contents -> Contents]
  /\ Invalid \subseteq Contents
  /\ DOMAIN TargetOf = Paths
  /\ FlowPods \subseteq Pods
  /\ MaxApprovals \in Nat \ {0} /\ MaxEdits \in Nat /\ MaxAttempts \in Nat \ {0}

VARIABLES changes,   \* authoring.changes.{id} in the system cache
          branch,    \* the workspace repository's branch: tip and files
          running,   \* deployed content of every path on this instance
          handler,   \* the handler of each request between its read and its write
          view,      \* each change as the approver's page shows it
          publishes, \* publish task of each approval
          runs       \* run of the publish flow for each approval

authVars == <<changes, branch, running, handler, view, publishes, runs>>
vars == <<sessVars, events, authVars>>

-----------------------------------------------------------------------------

Missing == "missing"      \* no such file
Files == [content : Contents \cup {Missing}, previous : Contents \cup {Missing}]
Approvals == 1..MaxApprovals

\* A change; `edit` stands for updated_at, `approval` for decided_at.
NoFiles == [p \in {} |-> Missing]
NoChange == [status |-> "none", files |-> NoFiles, edit |-> 0, proposer |-> None, approval |-> 0, rev |-> 0]
Idle == [kind |-> "idle", id |-> None, rec |-> NoChange, view |-> NoFiles]
NoPublish == [at |-> "none", id |-> None, rec |-> NoChange, view |-> NoFiles, pod |-> None, late |-> FALSE, ok |-> FALSE]
NoRun == [at |-> "none", tip |-> 0, attempt |-> 0]

\* same_content: equal up to trailing whitespace.
SameContent(a, b) ==
  IF a = Missing \/ b = Missing THEN a = b ELSE Trim[a] = Trim[b]

\* index_published: the published versions of a path, oldest approval first.
PublishedOf(p) == {i \in Ids : changes[i].status = "published" /\ p \in DOMAIN changes[i].files}
Versions(p) ==
  [n \in 1..Cardinality(PublishedOf(p)) |->
     LET i == CHOOSE i \in PublishedOf(p) :
                Cardinality({j \in PublishedOf(p) : changes[j].approval < changes[i].approval}) = n - 1
     IN changes[i].files[p]]

\* apply_published: from the newest version that runs, each later one that
\* is based on the content so far.
StartAt(run, vs) ==
  LET same == {n \in DOMAIN vs : SameContent(run, vs[n].content)}
  IN IF same = {} THEN 1 ELSE 1 + CHOOSE n \in same : \A m \in same : m <= n

ApplyPublished(run, vs) ==
  FoldLeft(LAMBDA content, v : IF SameContent(content, v.previous) THEN v.content ELSE content,
           run, SubSeq(vs, StartAt(run, vs), Len(vs)))

\* base_content.
Base(p) == ApplyPublished(running[p], Versions(p))

\* target_for: the one target every path falls in.
OneTarget(ps) == ps # {} /\ \E t \in Range(TargetOf) : \A p \in ps : TargetOf[p] = t

\* validate_files: deletions are not validated.
Issues(files) == \E p \in DOMAIN files : files[p].content \in Invalid

\* decider: a user of the target's approver groups, or anyone without web.auth.
MayDecide(caller) == caller \in Deciders \cup {"anonymous"}

\* publish_wait and can_publish.
StalledAt(c, pod) == c.status = "publishing" /\ pod \in FlowPods /\ publishes[c.approval].late
CanPublish(c, pod) == c.status \in {"pending", "failed"} \/ StalledAt(c, pod)

\* transition: the write succeeds against the revision that was read.
Transition(i, rec) ==
  changes' = IF changes[i].rev = rec.rev
             THEN [changes EXCEPT ![i] = [rec EXCEPT !.rev = rec.rev + 1]] ELSE changes

\* A change proposed before the process started, against what runs.
Stored(c, p) ==
  [NoChange EXCEPT !.status = "pending", !.proposer = "key", !.rev = 1,
                   !.files = p :> [content |-> c, previous |-> running[p]]]

\* The pods start; the cache may already hold a change.
Init ==
  /\ SessionsInit
  /\ branch \in [tip : {0}, files : [Paths -> Contents \ Invalid]]
  /\ running = branch.files
  /\ \/ changes = [i \in Ids |-> NoChange]
     \/ \E i \in Ids, p \in Paths, c \in Contents \cup {Missing} :
          changes = [[j \in Ids |-> NoChange] EXCEPT ![i] = Stored(c, p)]
  /\ handler = [r \in Requests |-> Idle]
  /\ view = [i \in Ids |-> [edit |-> 0, files |-> NoFiles]]
  /\ publishes = [k \in Approvals |-> NoPublish]
  /\ runs = [k \in Approvals |-> NoRun]

(***************************************************************************)
(* Handlers: each enters through the middleware, reads, and writes.        *)
(***************************************************************************)

In(r) == sess[r].at = "in"
Reading(r, kind) == In(r) /\ handler[r] = [Idle EXCEPT !.kind = kind]

\* A request comes in; its route decides the handler.
Arrive(r, p, kind) ==
  /\ Happens
  /\ Enter(r, p, kind)
  /\ handler' = [handler EXCEPT ![r] = [Idle EXCEPT !.kind = kind]]
  /\ UNCHANGED <<changes, branch, running, view, publishes, runs>>

Answered(r) ==
  /\ Respond(r)
  /\ handler' = [handler EXCEPT ![r] = Idle]

\* The handler goes on with what it has read.
Holds(r, i, rec, seen) ==
  /\ handler' = [handler EXCEPT ![r] = [@ EXCEPT !.id = i, !.rec = rec, !.view = seen]]
  /\ UNCHANGED <<sessVars, events, changes, branch, running, view, publishes, runs>>

\* propose_change: the files with the content they are based on.
Propose(r, i, files) ==
  /\ Reading(r, "propose")
  /\ changes[i] = NoChange /\ \A q \in Requests : handler[q].id # i
  /\ OneTarget(DOMAIN files)
  /\ Holds(r, i, [NoChange EXCEPT !.status = "pending", !.proposer = sess[r].caller,
                    !.files = [p \in DOMAIN files |-> [content |-> files[p], previous |-> Base(p)]]],
           NoFiles)

\* load_editable, then edit_change (no file) or add_change_files (one file); a
\* file already in the change keeps the content it was based on.
Edited(c, p, content) ==
  [c EXCEPT !.files = IF p \in DOMAIN c.files THEN [@ EXCEPT ![p].content = content]
                      ELSE (p :> [content |-> content, previous |-> Base(p)]) @@ @]

\* Mutant: two edits in one millisecond carry the same updated_at.
TouchNow(c) == c

\* touch: always later than the last edit.
Touch(c) == [c EXCEPT !.edit = @ + 1]

Edit(r, i) ==
  /\ Reading(r, "edit")
  /\ changes[i].status = "pending" /\ changes[i].edit < MaxEdits
  /\ sess[r].caller \in {changes[i].proposer, "anonymous"}
  /\ \/ Holds(r, i, Touch(changes[i]), NoFiles)
     \/ \E p \in Paths, c \in Contents \cup {Missing} :
          /\ OneTarget(DOMAIN changes[i].files \cup {p})
          /\ Holds(r, i, Touch(Edited(changes[i], p, c)), NoFiles)

\* get_change, on the page of the approver.
GetChange(r, i) ==
  /\ Reading(r, "read")
  /\ changes[i].status # "none"
  /\ view' = [view EXCEPT ![i] = [edit |-> changes[i].edit, files |-> changes[i].files]]
  /\ Answered(r)
  /\ UNCHANGED <<events, changes, branch, running, publishes, runs>>

\* approve_change up to its transition; `reviewed` is the page's updatedAt, if
\* the request names it.
Approve(r, i) ==
  /\ Reading(r, "approve")
  /\ MayDecide(sess[r].caller)
  /\ CanPublish(changes[i], sess[r].pod)
  /\ ~Issues(changes[i].files)
  /\ \/ Holds(r, i, changes[i], NoFiles)
     \/ /\ view[i].files # NoFiles /\ view[i].edit = changes[i].edit
        /\ Holds(r, i, changes[i], view[i].files)

Reject(r, i) ==
  /\ Reading(r, "reject")
  /\ MayDecide(sess[r].caller)
  /\ changes[i].status \in {"pending", "failed"}
  /\ Holds(r, i, [changes[i] EXCEPT !.status = "rejected"], NoFiles)

\* Every handler refuses what it may not do.
Refuse(r) ==
  /\ In(r) /\ handler[r].kind # "idle" /\ handler[r].id = None
  /\ Answered(r)
  /\ UNCHANGED <<events, changes, branch, running, view, publishes, runs>>

\* store and transition of the handlers that write the change and answer.
Write(r) ==
  /\ handler[r].kind \in {"propose", "edit", "reject"} /\ handler[r].id # None
  /\ Transition(handler[r].id, handler[r].rec)
  /\ Answered(r)
  /\ UNCHANGED <<events, branch, running, view, publishes, runs>>

NextApproval == Cardinality({k \in Approvals : publishes[k] # NoPublish}) + 1

\* The publish task and the run of the publish flow; on a pod without it the
\* call is refused at once.
Spawned(i, rec, seen, pod) ==
  LET k == NextApproval IN
    /\ publishes' = [publishes EXCEPT ![k] =
         [at |-> IF pod \in FlowPods THEN "calling" ELSE "outcome", id |-> i, rec |-> rec,
          view |-> seen, pod |-> pod, late |-> FALSE, ok |-> FALSE]]
    /\ runs' = [runs EXCEPT ![k].at = IF pod \in FlowPods THEN "queued" ELSE "none"]

\* approve_change: the transition to publishing; the task is spawned, so that the
\* response is not awaited by the model.
WriteApproval(r) ==
  /\ handler[r].kind = "approve" /\ handler[r].id # None
  /\ NextApproval \in Approvals
  /\ LET i == handler[r].id
         rec == [handler[r].rec EXCEPT !.status = "publishing", !.approval = NextApproval]
     IN /\ Transition(i, rec)
        /\ IF changes[i].rev = rec.rev
           THEN Spawned(i, changes'[i], handler[r].view, sess[r].pod)
           ELSE UNCHANGED <<publishes, runs>>
  /\ Answered(r)
  /\ UNCHANGED <<events, branch, running, view>>

\* The client goes away before the handler wrote.
Abandon(r) ==
  /\ Disconnect(r)
  /\ handler' = [handler EXCEPT ![r] = Idle]
  /\ UNCHANGED <<changes, branch, running, view, publishes, runs>>

(***************************************************************************)
(* The publish flow: git_push.                                             *)
(***************************************************************************)

FilesOf(k) == publishes[k].rec.files

\* check_expected: the branch holds what the change was prepared against, or
\* its result already.
Expected(f, current) == f.content = current \/ f.previous = current

\* The flow's verdict reaches the waiting call, if it still waits.
Verdict(k, ok) ==
  publishes' = IF publishes[k].at = "calling"
               THEN [publishes EXCEPT ![k].at = "outcome", ![k].ok = ok] ELSE publishes

\* handle_with_retry: another attempt, or the failure.
Again(k) ==
  IF runs[k].attempt + 1 < MaxAttempts
  THEN /\ runs' = [runs EXCEPT ![k] = [NoRun EXCEPT !.at = "queued", !.attempt = runs[k].attempt + 1]]
       /\ UNCHANGED publishes
  ELSE runs' = [runs EXCEPT ![k].at = "done"] /\ Verdict(k, FALSE)

\* One push at a time and pod.
Pushing(pod) == \E k \in Approvals : publishes[k].pod = pod /\ runs[k].at \in {"built", "sent"}

\* advertisement, shallow fetch and build: nothing to push, a conflict, or a
\* commit on the tip that was fetched.
Build(k) ==
  /\ runs[k].at = "queued" /\ ~Pushing(publishes[k].pod)
  /\ LET now == branch.files
         files == FilesOf(k)
     IN IF \E p \in DOMAIN files : ~Expected(files[p], now[p])
        THEN runs' = [runs EXCEPT ![k].at = "done"] /\ Verdict(k, FALSE)
        ELSE IF \A p \in DOMAIN files : files[p].content = now[p]
             THEN runs' = [runs EXCEPT ![k].at = "done"] /\ Verdict(k, TRUE)
             ELSE runs' = [runs EXCEPT ![k].at = "built", ![k].tip = branch.tip] /\ UNCHANGED publishes
  /\ UNCHANGED <<sessVars, events, changes, branch, running, handler, view>>

Pushed(k) ==
  [tip |-> branch.tip + 1,
   files |-> [p \in Paths |-> IF p \in DOMAIN FilesOf(k) THEN FilesOf(k)[p].content ELSE branch.files[p]]]

\* Mutant: the push is forced.
SendForced(k) ==
  /\ runs[k].at = "built"
  /\ branch' = Pushed(k)
  /\ runs' = [runs EXCEPT ![k].at = "sent"]
  /\ UNCHANGED <<sessVars, events, changes, running, handler, view, publishes>>

\* send: the server updates the branch if its tip is the commit's parent.
\* Otherwise the tip is looked up again: it moved, and another attempt follows.
Send(k) ==
  /\ runs[k].at = "built"
  /\ IF branch.tip = runs[k].tip
     THEN /\ branch' = Pushed(k)
          /\ runs' = [runs EXCEPT ![k].at = "sent"]
          /\ UNCHANGED publishes
     ELSE Again(k) /\ UNCHANGED branch
  /\ UNCHANGED <<sessVars, events, changes, running, handler, view>>

\* check_report, and the rest of the flow.
Report(k) ==
  /\ runs[k].at = "sent"
  /\ runs' = [runs EXCEPT ![k].at = "done"]
  /\ Verdict(k, TRUE)
  /\ UNCHANGED <<sessVars, events, changes, branch, running, handler, view>>

\* The answer of the server is lost.
ReportLost(k) ==
  /\ runs[k].at = "sent"
  /\ Happens
  /\ Again(k)
  /\ UNCHANGED <<sessVars, changes, branch, running, handler, view>>

(***************************************************************************)
(* The publish task.                                                       *)
(***************************************************************************)

\* The ack_timeout has passed since the approval.
TimePasses(k) ==
  /\ publishes[k].at # "none" /\ ~publishes[k].late
  /\ changes[publishes[k].id].status = "publishing" /\ changes[publishes[k].id].approval = k
  /\ publishes' = [publishes EXCEPT ![k].late = TRUE]
  /\ UNCHANGED <<sessVars, events, changes, branch, running, handler, view, runs>>

\* The call itself times out, a moment later; the flow runs on.
CallTimeout(k) ==
  /\ publishes[k].at = "calling" /\ publishes[k].late
  /\ publishes' = [publishes EXCEPT ![k].at = "outcome"]
  /\ UNCHANGED <<sessVars, events, changes, branch, running, handler, view, runs>>

\* Mutant: a write that another one overtook is tried again, for ever.
RecordInsists(k) ==
  /\ publishes[k].at = "outcome"
  /\ changes[publishes[k].id].rev = publishes[k].rec.rev
  /\ Transition(publishes[k].id,
                [publishes[k].rec EXCEPT !.status = IF publishes[k].ok THEN "published" ELSE "failed"])
  /\ publishes' = [publishes EXCEPT ![k].at = "over"]
  /\ UNCHANGED <<sessVars, events, branch, running, handler, view, runs>>

\* The outcome is recorded over the record the approval wrote, and nothing newer.
Record(k) ==
  /\ publishes[k].at = "outcome"
  /\ Transition(publishes[k].id,
                [publishes[k].rec EXCEPT !.status = IF publishes[k].ok THEN "published" ELSE "failed"])
  /\ publishes' = [publishes EXCEPT ![k].at = "over"]
  /\ UNCHANGED <<sessVars, events, branch, running, handler, view, runs>>

\* The attempts to record it run out.
RecordFails(k) ==
  /\ publishes[k].at = "outcome"
  /\ Happens
  /\ publishes' = [publishes EXCEPT ![k].at = "lost"]
  /\ UNCHANGED <<sessVars, changes, branch, running, handler, view, runs>>

\* A pod dies with its requests, publish tasks and flows.
Crash(pod) ==
  /\ Happens
  /\ sess' = [r \in Requests |-> IF sess[r].pod = pod THEN Unused ELSE sess[r]]
  /\ handler' = [r \in Requests |-> IF sess[r].pod = pod THEN Idle ELSE handler[r]]
  /\ flight' = [flight EXCEPT ![pod] = [t \in Tokens |-> NoFlight]]
  /\ torn' = (torn \/ \E t \in Tokens : flight[pod][t] # NoFlight)
  /\ keyOf' = [keyOf EXCEPT ![pod] = OwnKey(pod)]
  /\ publishes' = [k \in Approvals |-> IF publishes[k].pod = pod /\ publishes[k].at \in {"calling", "outcome"}
                                       THEN [publishes[k] EXCEPT !.at = "lost"] ELSE publishes[k]]
  /\ runs' = [k \in Approvals |-> IF publishes[k].pod = pod /\ runs[k].at # "none"
                                  THEN [runs[k] EXCEPT !.at = "done"] ELSE runs[k]]
  /\ UNCHANGED <<auth, secret, cookie, loginVars, changes, branch, running, view>>

(***************************************************************************)
(* The repository and the deployment.                                      *)
(***************************************************************************)

\* Somebody else commits to the branch.
Commit(p, c) ==
  /\ Happens
  /\ branch.files[p] # c
  /\ branch' = [tip |-> branch.tip + 1, files |-> [branch.files EXCEPT ![p] = c]]
  /\ UNCHANGED <<sessVars, changes, running, handler, view, publishes, runs>>

\* The branch is synced to this instance, file by file.
Deploy(p) ==
  /\ running[p] # branch.files[p]
  /\ running' = [running EXCEPT ![p] = branch.files[p]]
  /\ UNCHANGED <<sessVars, events, changes, branch, handler, view, publishes, runs>>

Publishing(k) == Build(k) \/ Send(k) \/ Report(k) \/ TimePasses(k) \/ CallTimeout(k) \/ Record(k)

Proposals == UNION {[ps -> Contents \cup {Missing}] : ps \in SUBSET Paths \ {{}}}

Next ==
  \/ SessionsNext /\ UNCHANGED authVars
  \/ \E r \in Requests, p \in Pods, kind \in {"propose", "edit", "read", "approve", "reject"} : Arrive(r, p, kind)
  \/ \E r \in Requests, i \in Ids :
       \/ \E files \in Proposals : Propose(r, i, files)
       \/ Edit(r, i) \/ GetChange(r, i) \/ Approve(r, i) \/ Reject(r, i)
  \/ \E r \in Requests : Refuse(r) \/ Write(r) \/ WriteApproval(r) \/ Abandon(r)
  \/ \E k \in Approvals : Publishing(k) \/ ReportLost(k) \/ RecordFails(k)
  \/ \E p \in Pods : Crash(p)
  \/ \E p \in Paths : Deploy(p) \/ \E c \in Contents \cup {Missing} : Commit(p, c)

Spec == Init /\ [][Next]_vars

\* Spawned tasks are polled, calls to the repository return and the cache answers.
Fairness == \A k \in Approvals : WF_vars(Publishing(k))

FairSpec == Spec /\ Fairness

-----------------------------------------------------------------------------

TypeOK ==
  /\ auth \in BOOLEAN
  /\ branch.files \in [Paths -> Contents \cup {Missing}]
  /\ running \in [Paths -> Contents \cup {Missing}]
  /\ \A i \in Ids : changes[i].status \in {"none", "pending", "publishing", "published", "failed", "rejected"}
  /\ events \in Nat

\* Placed by a push of approval k.
Places(k) == runs[k].at = "built" /\ runs'[k].at = "sent"

\* A push never replaces content that the change was not prepared against: between
\* proposal, approval and push others commit, deploy and publish (check_expected and
\* the ref update of Push::push).
NoEditIsLost ==
  [][\A k \in Approvals : Places(k) =>
       \A p \in DOMAIN FilesOf(k) : branch.files[p] \in {FilesOf(k)[p].previous, FilesOf(k)[p].content}]_vars

\* What an approval of a reviewed change publishes is what was reviewed, although
\* the proposer may edit it at any moment, and has no validation issues
\* (approve_change, touch).
PublishedIsReviewed ==
  \A k \in Approvals : publishes[k].at # "none" =>
    /\ ~Issues(FilesOf(k))
    /\ publishes[k].view # NoFiles => FilesOf(k) = publishes[k].view

\* A published or rejected change stays so: an edit, a decision or the outcome of
\* an earlier approval that was read before never overwrites it (transition).
DecisionIsFinal ==
  [][\A i \in Ids : changes[i].status \in {"published", "rejected"} => changes'[i] = changes[i]]_vars

\* An approved change ends as published or failed, whatever its approver's browser
\* does, unless its pod dies or the cache cannot be written (publish).
PublishingEnds ==
  \A k \in Approvals :
    publishes[k].at \in {"calling", "outcome"} ~> publishes[k].at \in {"over", "lost"}

=============================================================================
