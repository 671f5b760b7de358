------------------------ MODULE SemanticOperations ------------------------
(***************************************************************************)
(* The semantic operations of one course (semantic_operations.py): clients *)
(* ask for the next unit of work a language model has to do, hand in its   *)
(* results and record the decisions of the owner.  Requests of the HTTP    *)
(* server run in threads of their own, and an operation is a sequence of   *)
(* calls on three separate stores, the workflow's, the semantic work's and *)
(* the jobs', with nothing around it: each call is one step here, and what *)
(* a call read before may be old when it is used.  A step that only        *)
(* computes belongs to the call before it.                                 *)
(*                                                                         *)
(* Operations end early on every failure; Abandon stands for a crash, an   *)
(* unavailable store or a client that goes away, between any two calls.    *)
(*                                                                         *)
(* The workflow is composed from Workflow and the store of requests from   *)
(* SemanticWorkStore.  The identifiers of a request and of its operation   *)
(* are drawn together, so one number stands for both.                      *)
(***************************************************************************)
EXTENDS Integers, Sequences, FiniteSets

CONSTANTS
  None, Source, InitialSources, Proposal, MapReference, MapSize, MaxLectures,
  Document, Policy, IssueDigest, BlockerCode, MaxRevision, MaxAttempt,
                  \* as in Workflow
  Holder, Duration, MaxTime,
                  \* as in SemanticWorkStore
  Thread,         \* threads that serve operations
  QualityMode,    \* "fast" or "review", fixed when the course is created
  MaxRequests,    \* bound on the requests for semantic work
  MaxAbandoned,   \* bound on the operations that are cut short
  Start           \* snapshots of the workflow its job was created with

VARIABLES
  revision, stage, disposition, policy, sources, reviewed, assessment, basis,
  map, context, active, pending, progress, history, issue, approvals,
  diagnostics, receipts,
                  \* the workflow, as in Workflow
  rows, clock, told,
                  \* the semantic work, as in SemanticWorkStore
  operations,     \* for each receipt the operation it belongs to
  job,            \* the job's projection of the workflow
  call,           \* what each thread is doing
  abandoned       \* how many operations were cut short

Kind == {"source_assessment", "exam_priority_assessment",
         "lecture_map_generation", "lecture_generation", "semantic_correction",
         "semantic_review"}

LectureKind == {"lecture_generation", "semantic_correction"}

\* Kinds whose results are evidence and advance nothing by themselves.
EvidenceKind == {"exam_priority_assessment", "semantic_review"}

\* What a model may answer, for each kind: a proposal, the proposal it is
\* about, a map, a document, the lectures to correct.
Content ==
  [k \in Kind |->
     CASE k \in {"source_assessment", "exam_priority_assessment"} -> Proposal
       [] k = "lecture_map_generation" -> MapReference \X MapSize
       [] k = "semantic_review" -> SUBSET (1..MaxLectures)
       [] OTHER -> Document]

RequestId == 1..MaxRequests

Request ==
  [id : RequestId, operation : 1..MaxRequests, job : {"job"},
   revision : 0..MaxRevision, kind : Kind, lecture : 0..MaxLectures]

ResultOf(request, content) ==
  [id |-> request.id, operation |-> request.operation,
   revision |-> request.revision, kind |-> request.kind, content |-> content]

Envelope ==
  [k \in Kind |-> {ResultOf(r, c) : r \in {x \in Request : x.kind = k},
                                   c \in Content[k]}]

Result == UNION {Envelope[k] : k \in Kind}

Course == INSTANCE Workflow WITH
  Verdict       <- {"passed", "rejected"},
  OwnerDecision <- {"approved", "rejected"}

Store == INSTANCE SemanticWorkStore

RowOf(kind) ==
  [request : {r \in Request : r.kind = kind},
   status : {"pending", "leased", "accepted", "rejected"},
   holder : Holder \cup {None}, expires : Nat \cup {None},
   result : Envelope[kind] \cup {None}]

\* The absent value is no kind, row or result, and a job starts from a snapshot
\* that the constructors of the code accept.
ASSUME OperationsAssumption ==
  /\ MaxRequests \in Nat /\ MaxRevision \in Nat /\ MaxLectures \in Nat
  /\ MaxAttempt \in Nat /\ MapSize \subseteq 1..MaxLectures
  /\ Duration \subseteq Nat
  /\ None \notin Kind
  /\ \A kind \in Kind : None \notin RowOf(kind) \cup Envelope[kind]
  /\ \A ws \in Start :
       /\ ws.revision \in 0..MaxRevision
       /\ ws.policy \in Policy
       /\ ws.basis \in Course!PriorityBasisRecord \cup {None}
       /\ ws.map \in Course!LectureMapRecord \cup {None}
       /\ ws.map # None => ws.map.size \in MapSize
       /\ ws.context # None => /\ ws.context.size \in MapSize
                               /\ ws.context.size <= Len(ws.progress)
       /\ ws.progress \in Seq(Course!LectureProgress)
       /\ Len(ws.progress) <= MaxLectures
       /\ ws.receipts \in Seq({ws.receipts[i] : i \in DOMAIN ws.receipts})

\* What the parts are composed from is what they accept, and the absent value is
\* no code of an issue.
ASSUME PartsAssumption ==
  /\ Course!InputsAssumption
  /\ Course!InitialSourcesAssumption
  /\ Course!NoneAssumption
  /\ Store!StoreAssumption
  /\ None \notin {"private_artifact_unavailable", "external_prerequisite_unavailable",
                   "new_source_review_required"}
  /\ \A s \in DOMAIN Course!FailureCode : Course!FailureCode[s] # None

courseVars == <<revision, stage, disposition, policy, sources, reviewed,
                assessment, basis, map, context, active, pending, progress,
                history, issue, approvals, diagnostics, receipts, operations>>

storeVars == <<rows, clock, told>>

vars == <<courseVars, storeVars, job, call, abandoned>>

----------------------------------------------------------------------------
(* What is read from the workflow.                                         *)

Snapshot ==
  [revision |-> revision, stage |-> stage, disposition |-> disposition,
   issue |-> issue, basis |-> basis, map |-> map, active |-> active,
   progress |-> progress, receipts |-> receipts, operations |-> operations]

\* The receipts of one step of one request: its own transition, the
\* validation or the reopening chained to it.
ReceiptsOf(ws, id, step) ==
  {ws.receipts[i] : i \in {j \in DOMAIN ws.operations :
                             ws.operations[j] = <<id, step>>}}

Completed(ws) == ws.stage = "completed" /\ ws.disposition = "completed"

InReview(ws) == QualityMode = "review" /\ Completed(ws)

LecturesWith(ws, S) == {l \in DOMAIN ws.progress : ws.progress[l].status \in S}

Produces(ws) ==
  /\ <<ws.stage, ws.disposition>> = <<"lecture_production", "ready">>
  /\ ws.map # None
  /\ ws.map.status = "approved"

\* determine_scheduler_decision: the kind of work that is needed, or None when
\* the owner, a chained transition or nothing is awaited, or the state is none
\* that the scheduler knows.
SemanticKind(ws) ==
  CASE <<ws.stage, ws.disposition>> = <<"source_assessment", "ready">> ->
         "source_assessment"
    [] <<ws.stage, ws.disposition>> = <<"priority_approval", "awaiting_approval">> ->
         "exam_priority_assessment"
    [] <<ws.stage, ws.disposition>> = <<"lecture_mapping", "ready">> ->
         "lecture_map_generation"
    [] Produces(ws) /\ LecturesWith(ws, {"correction_required"}) # {} ->
         "semantic_correction"
    [] /\ Produces(ws)
       /\ LecturesWith(ws, {"correction_required"}) = {}
       /\ LecturesWith(ws, {"pending", "retry_required"}) # {} ->
         "lecture_generation"
    [] InReview(ws) -> "semantic_review"
    [] OTHER -> None

First(S) == CHOOSE x \in S : \A y \in S : x <= y

Due(kind) == IF kind = "semantic_correction"
               THEN {"correction_required", "retry_required"}
               ELSE {"pending", "retry_required"}

\* input_refs, of which only the lecture is used again.
LectureToWrite(ws, kind) ==
  IF kind \in LectureKind THEN First(LecturesWith(ws, Due(kind))) ELSE 0

----------------------------------------------------------------------------
(* The job (course_job_persistence.py): what the workflow looks like from  *)
(* outside, replaced under a compare-and-swap on its metadata revision.    *)

\* derive_job_status; the job has no build yet.
JobStatus(ws) ==
  CASE Completed(ws)                   -> "deterministic_building"
    [] ws.disposition = "failed"       -> "failed"
    [] ws.disposition = "blocked"      -> "needs_attention"
    [] <<ws.stage, ws.disposition>> = <<"source_assessment", "ready">> -> "sourcing"
    [] OTHER                           -> "awaiting_semantic"

Projection(ws) ==
  [current_revision |-> ws.revision, status |-> JobStatus(ws),
   current_stage |-> ws.stage, current_disposition |-> ws.disposition,
   failure_code |-> IF ws.disposition \in {"failed", "blocked"}
                      THEN ws.issue.code ELSE None]

LiveAt(r) ==
  {id \in RequestId : Store!Live(id) /\ rows[id].request.revision = r}

AcceptedAt(r, kind) ==
  {id \in RequestId :
     /\ Store!Stored(id)
     /\ rows[id].status = "accepted"
     /\ rows[id].request.revision = r
     /\ rows[id].request.kind = kind}

\* _reconcile_job_with_semantic: a live request overlays the waiting statuses.
Reconciled(ws, now) ==
  IF LiveAt(ws.revision) = {}
     \/ JobStatus(ws) \notin {"sourcing", "awaiting_semantic"}
  THEN Projection(ws)
  ELSE [Projection(ws) EXCEPT
          !.status = IF Store!LeaseActive(rows[First(LiveAt(ws.revision))], now)
                       THEN "semantic_running" ELSE "awaiting_semantic"]

----------------------------------------------------------------------------
(* Threads.  input is the result or the decision an operation carries, job *)
(* the record it loaded and behind the number of saves since, which is all *)
(* the metadata revision is compared for: 2 stands for more.               *)

Idle == [pc |-> "idle", holder |-> None, now |-> 0, input |-> None,
         job |-> None, behind |-> 0, ws |-> None, id |-> 0, record |-> None,
         todo |-> {}, then |-> "idle"]

At(t, pc) == call[t].pc = pc

Becomes(t, c) == call' = [call EXCEPT ![t] = c]

Return(t) == Becomes(t, Idle)

Reads == UNCHANGED <<courseVars, storeVars, job, abandoned>>

LoadJob(t, pc) ==
  /\ Becomes(t, [call[t] EXCEPT !.job = job, !.behind = 0, !.pc = pc])
  /\ Reads

\* save: the record was derived from the one the call loaded.  The very record
\* that is stored is confirmed.
SaveJob(t, record, saved, refused) ==
  /\ \/ /\ call[t].behind = 0
        /\ job' = record
        /\ call' = [u \in Thread |->
                      IF u = t THEN saved
                      ELSE IF call[u].job = None THEN call[u]
                      ELSE [call[u] EXCEPT !.behind = IF @ = 0 THEN 1 ELSE 2]]
     \/ /\ call[t].behind = 1
        /\ job = record
        /\ Becomes(t, saved)
        /\ UNCHANGED job
     \/ /\ call[t].behind = 2 \/ (call[t].behind = 1 /\ job # record)
        /\ Becomes(t, refused)
        /\ UNCHANGED job
  /\ UNCHANGED <<courseVars, storeVars, abandoned>>

\* A transition saved under its operation.
Advance(operation) ==
  /\ operations' = Append(operations, operation)
  /\ UNCHANGED <<storeVars, job, abandoned>>

\* What follows a projection: the end, the retirement of stale requests, or
\* the request that recovered a reopening.
Projected(c) ==
  IF c.then = "idle" THEN Idle
  ELSE [c EXCEPT !.pc = c.then, !.job = None, !.behind = 0, !.then = "idle"]

----------------------------------------------------------------------------
(* _save_job_projection, which tries again once with the snapshot it has,  *)
(* and _supersede_stale_pending.                                           *)

Project(t) ==
  /\ At(t, "project")
  /\ LET record == Projection(call[t].ws) IN
       \/ /\ record = call[t].job
          /\ Becomes(t, Projected(call[t]))
          /\ Reads
       \/ /\ record # call[t].job
          /\ SaveJob(t, record, Projected(call[t]),
                     [call[t] EXCEPT !.pc = "project_reload"])

ProjectReload(t) ==
  /\ At(t, "project_reload")
  /\ IF Projection(call[t].ws) = job
       THEN Becomes(t, Projected(call[t])) /\ Reads
       ELSE LoadJob(t, "project_retry")

ProjectRetry(t) ==
  /\ At(t, "project_retry")
  /\ SaveJob(t, Projection(call[t].ws), Projected(call[t]), Idle)

SupersedeOr(c, todo) ==
  IF todo = {} THEN Idle ELSE [c EXCEPT !.pc = "supersede_next", !.todo = todo]

Supersede(t) ==
  /\ At(t, "supersede")
  /\ Becomes(t, SupersedeOr(call[t],
       {id \in RequestId :
          /\ Store!Live(id)
          /\ rows[id].request.revision # call[t].ws.revision}))
  /\ Reads

\* mark_rejected, of a request that may be closed by now.
MarkRejected(id) ==
  IF Store!Live(id) THEN Store!MarkRejected(id) ELSE UNCHANGED storeVars

SupersedeNext(t) ==
  /\ At(t, "supersede_next")
  /\ LET id == First(call[t].todo) IN
       /\ MarkRejected(id)
       /\ Becomes(t, SupersedeOr(call[t], call[t].todo \ {id}))
  /\ UNCHANGED <<courseVars, job, abandoned>>

----------------------------------------------------------------------------
(* request_semantic_work                                                   *)

StartRequest(t, h) ==
  /\ call[t] = Idle
  /\ Becomes(t, [Idle EXCEPT !.pc = "request_workflow", !.holder = h,
                             !.now = clock, !.job = job])
  /\ Reads

RequestWorkflow(t) ==
  /\ At(t, "request_workflow")
  /\ Becomes(t, [call[t] EXCEPT
                   !.ws = Snapshot,
                   !.pc = IF InReview(Snapshot) THEN "request_review"
                                                ELSE "request_reconcile"])
  /\ Reads

\* derive_review_progress: corrections are accepted for this revision, so
\* their reopening never landed.
VerdictOf(ws) == rows[First(AcceptedAt(ws.revision, "semantic_review"))].result

SlipReopenIsPending(ws) == FALSE

ReopenIsPending(ws) ==
  /\ InReview(ws)
  /\ AcceptedAt(ws.revision, "semantic_review") # {}
  /\ VerdictOf(ws).content # {}

RequestReview(t) ==
  /\ At(t, "request_review")
  /\ Becomes(t, [call[t] EXCEPT
                   !.pc = IF ReopenIsPending(call[t].ws) THEN "recover_workflow"
                                                         ELSE "request_reconcile"])
  /\ Reads

\* recover_review_reopen looks again, and hands the verdict in again.
RecoverWorkflow(t) ==
  /\ At(t, "recover_workflow")
  /\ Becomes(t, [call[t] EXCEPT !.ws = Snapshot, !.pc = "recover_verdict"])
  /\ Reads

RecoverVerdict(t) ==
  /\ At(t, "recover_verdict")
  /\ Becomes(t, IF ReopenIsPending(call[t].ws)
                  THEN [call[t] EXCEPT !.input = VerdictOf(call[t].ws),
                                       !.id = VerdictOf(call[t].ws).id,
                                       !.then = "reload_job",
                                       !.pc = "resubmit_job"]
                  ELSE [call[t] EXCEPT !.pc = "reload_job"])
  /\ Reads

RequestReloadJob(t) == At(t, "reload_job") /\ LoadJob(t, "reload_workflow")

RequestReloadWorkflow(t) ==
  /\ At(t, "reload_workflow")
  /\ Becomes(t, [call[t] EXCEPT !.ws = Snapshot, !.input = None,
                                !.id = 0,
                                !.pc = "request_reconcile"])
  /\ Reads

\* The job is not looked at again but for its fixed fields.
Reconciling(c) == [c EXCEPT !.job = None, !.behind = 0, !.record = None,
                            !.pc = "request_find"]

SlipRequestReconcile(t) ==
  /\ At(t, "request_reconcile")
  /\ LET record == Reconciled(call[t].ws, call[t].now) IN
       Becomes(t, IF record.status = call[t].job.status
                    THEN Reconciling(call[t])
                    ELSE [call[t] EXCEPT !.record = record,
                                         !.pc = "request_save"])
  /\ Reads

RequestReconcile(t) ==
  /\ At(t, "request_reconcile")
  /\ LET record == Reconciled(call[t].ws, call[t].now) IN
       Becomes(t, IF record = call[t].job
                    THEN Reconciling(call[t])
                    ELSE [call[t] EXCEPT !.record = record,
                                         !.pc = "request_save"])
  /\ Reads

RequestSave(t) ==
  /\ At(t, "request_save")
  /\ SaveJob(t, call[t].record, Reconciling(call[t]), Reconciling(call[t]))

\* _find_accepted_for_revision: nothing is asked for twice.
Needed(ws) ==
  /\ SemanticKind(ws) # None
  /\ AcceptedAt(ws.revision, SemanticKind(ws)) = {}

RequestFind(t) ==
  /\ At(t, "request_find")
  /\ IF Needed(call[t].ws)
       THEN Becomes(t, [call[t] EXCEPT !.pc = "request_current"])
       ELSE Return(t)
  /\ Reads

\* load_current_for_job.  A live request of the present revision has the kind
\* that is needed (LiveRequestsAreCurrent), so none is closed for its kind.
RequestCurrent(t) ==
  /\ At(t, "request_current")
  /\ LET current == LiveAt(call[t].ws.revision) IN
       Becomes(t, IF current = {}
                    THEN [call[t] EXCEPT !.pc = "request_create"]
                    ELSE [call[t] EXCEPT !.pc = "request_lease",
                                         !.id = First(current)])
  /\ Reads

SlipNewRequest(ws, id) ==
  [id |-> id, operation |-> id, job |-> "job", revision |-> revision,
   kind |-> SemanticKind(ws), lecture |-> LectureToWrite(ws, SemanticKind(ws))]

NewRequest(ws, id) ==
  [id |-> id, operation |-> id, job |-> "job", revision |-> ws.revision,
   kind |-> SemanticKind(ws), lecture |-> LectureToWrite(ws, SemanticKind(ws))]

RequestCreate(t) ==
  /\ At(t, "request_create")
  /\ \E id \in RequestId :
       /\ ~Store!Stored(id)
       /\ \A i \in RequestId : i < id => Store!Stored(i)
       /\ LET request == NewRequest(call[t].ws, id) IN
            IF Store!CreateOutcome(request) = "ok"
              THEN /\ Store!CreateRequest(request)
                   /\ Becomes(t, [call[t] EXCEPT !.pc = "request_lease",
                                                 !.id = id])
              ELSE /\ Becomes(t, [call[t] EXCEPT !.pc = "request_again"])
                   /\ UNCHANGED storeVars
  /\ UNCHANGED <<courseVars, job, abandoned>>

RequestAgain(t) ==
  /\ At(t, "request_again")
  /\ LET current == LiveAt(call[t].ws.revision) IN
       IF current = {}
         THEN Return(t)
         ELSE Becomes(t, [call[t] EXCEPT !.pc = "request_lease",
                                         !.id = First(current)])
  /\ Reads

RequestLease(t) ==
  /\ At(t, "request_lease")
  /\ LET c == call[t] IN
       IF Store!LeaseOutcome(c.id, c.holder, c.now) = "ok"
         THEN \E d \in Duration : Store!AcquireLease(c.id, c.holder, c.now, d)
         ELSE UNCHANGED storeVars
  /\ Return(t)
  /\ UNCHANGED <<courseVars, job, abandoned>>

----------------------------------------------------------------------------
(* submit_semantic_result                                                  *)

\* The subject the transition of a result is recorded under.
SubjectOf(result) ==
  CASE result.kind = "source_assessment" -> Course!PrioritySubject(result.content)
    [] result.kind = "lecture_map_generation" ->
         Course!MapSubject(result.content[1], result.content[2], Course!Reserved)
    [] result.kind \in LectureKind -> Course!CandidateSubject(result.content)

\* A holder hands in a result for a request it was leased at some time.  A
\* result for an accepted request is compared with the envelope that is stored.
\* MaxRevision leaves room for the transitions of a result.
StartSubmit(t, h, id, content) ==
  /\ call[t] = Idle
  /\ told[h][id] # 0
  /\ rows[id].request.revision
       + (IF rows[id].request.kind \in LectureKind THEN 2 ELSE 1) <= MaxRevision
  /\ LET result == ResultOf(rows[id].request, content) IN
       /\ rows[id].status = "accepted" => rows[id].result = result
       /\ Becomes(t, [Idle EXCEPT
            !.pc = IF rows[id].status = "accepted" THEN "resubmit_job"
                                                   ELSE "submit_job",
            !.holder = h, !.now = clock, !.id = id, !.input = result])
  /\ Reads

SubmitJob(t) == At(t, "submit_job") /\ LoadJob(t, "submit_workflow")

CandidateAwaitsValidation(ws, document) ==
  /\ <<ws.stage, ws.disposition>> = <<"lecture_validation", "ready">>
  /\ ws.active = document.document_id
  /\ ws.progress[ws.active].candidate = document

SlipResumption(ws, result) ==
  IF ReceiptsOf(ws, result.id, "submit") = {} THEN "submit_lease"
                                              ELSE "submit_accept"

\* Where the submission goes on, by the receipts its operation already has:
\* cases A1 to A4 of the source, and the single transition of other kinds.  The
\* receipt of a source assessment is not compared with the result.
Resumption(ws, result) ==
  LET recorded == ReceiptsOf(ws, result.id, "submit") IN
  CASE recorded = {} -> "submit_lease"
    [] /\ recorded # {}
       /\ result.kind # "source_assessment"
       /\ \E r \in recorded : r.subject # SubjectOf(result) -> "idle"
    [] OTHER ->
         IF \/ result.kind \notin LectureKind
            \/ ReceiptsOf(ws, result.id, "validation") # {}
         THEN "submit_accept"
         ELSE IF CandidateAwaitsValidation(ws, result.content)
         THEN "submit_resume" ELSE "idle"

SubmitWorkflow(t) ==
  /\ At(t, "submit_workflow")
  /\ LET next == Resumption(Snapshot, call[t].input) IN
       Becomes(t, IF next = "idle" THEN Idle
                  ELSE [call[t] EXCEPT !.ws = Snapshot, !.pc = next])
  /\ Reads

\* lease_info, against the time the call began.
HoldsLease(c) ==
  /\ rows[c.id].status = "leased"
  /\ rows[c.id].holder = c.holder
  /\ Store!LeaseActive(rows[c.id], c.now)

\* _check_subject_binding: the subject that a result names is the one at hand.
\* A map and a document name themselves.
NamesSubject(ws, result) ==
  result.kind = "exam_priority_assessment" =>
    ws.basis # None /\ result.content = ws.basis.proposal

\* The checks of a result against the workflow: the revision it was asked for,
\* the lecture, the subject it names, the stage a verdict is about.
Binds(ws, request, result) ==
  /\ request.revision = ws.revision
  /\ result.kind \in LectureKind =>
       /\ result.content.document_id = request.lecture
       /\ request.lecture \in LecturesWith(ws, Due(result.kind))
  /\ NamesSubject(ws, result)
  /\ result.kind = "semantic_review" =>
       InReview(ws) /\ result.content \subseteq 1..ws.map.size

\* What a call no longer needs once its authority is checked.  A request that
\* recovers a reopening goes on to lease what comes next.
Authorised(c, pc) ==
  IF c.then = "idle" THEN [c EXCEPT !.pc = pc, !.holder = None, !.now = 0]
  ELSE [c EXCEPT !.pc = pc]

SubmitLease(t) ==
  /\ At(t, "submit_lease")
  /\ LET c == call[t] IN
       IF HoldsLease(c) /\ Binds(c.ws, rows[c.id].request, c.input)
         THEN Becomes(t, Authorised(c, IF c.input.kind \in EvidenceKind
                                         THEN "submit_accept"
                                         ELSE "submit_transition"))
         ELSE Return(t)
  /\ Reads

\* Case A2: the candidate is recorded and not validated.
SubmitResume(t) ==
  /\ At(t, "submit_resume")
  /\ IF HoldsLease(call[t])
       THEN Becomes(t, Authorised(call[t], "submit_validation"))
       ELSE Return(t)
  /\ Reads

Transition(result) ==
  CASE result.kind = "source_assessment" ->
         Course!RecordSourceAssessment(result.content)
    [] result.kind = "lecture_map_generation" ->
         Course!RecordLectureMap(result.content[1], result.content[2])
    [] result.kind \in LectureKind ->
         Course!SubmitLectureCandidate(result.content.document_id,
                                       result.content)

\* The map of a reopened plan must keep the reserved lectures.
TransitionIsLegal(result) ==
  result.kind = "lecture_map_generation" => result.content[2] >= Course!Reserved

SubmitTransition(t) ==
  /\ At(t, "submit_transition")
  /\ revision = call[t].ws.revision
  /\ TransitionIsLegal(call[t].input)
  /\ Transition(call[t].input)
  /\ Advance(<<call[t].id, "submit">>)
  /\ Becomes(t, [call[t] EXCEPT
       !.ws = Snapshot', !.then = "supersede",
       !.pc = IF call[t].input.kind \in LectureKind THEN "submit_validation"
                                                    ELSE "submit_accept"])

\* The operation has its receipt already, for this very payload: the result is
\* accepted at once.
SubmitRepeat(t) ==
  /\ At(t, "submit_transition")
  /\ \E r \in ReceiptsOf(Snapshot, call[t].id, "submit") :
       r.subject = SubjectOf(call[t].input)
  /\ Becomes(t, [call[t] EXCEPT !.ws = Snapshot, !.pc = "submit_accept"])
  /\ Reads

\* The receipt is for another payload, the snapshot has moved on, or the
\* transition is not legal in it.
SubmitRejected(t) ==
  /\ At(t, "submit_transition")
  /\ LET recorded == ReceiptsOf(Snapshot, call[t].id, "submit") IN
       IF recorded # {}
         THEN \A r \in recorded : r.subject # SubjectOf(call[t].input)
         ELSE revision # call[t].ws.revision \/ ~TransitionIsLegal(call[t].input)
  /\ Becomes(t, [call[t] EXCEPT !.pc = "submit_reject"])
  /\ Reads

\* The snapshot moved on between the load and the save of the transition.
SubmitLost(t) ==
  /\ At(t, "submit_transition")
  /\ revision # call[t].ws.revision
  /\ Return(t)
  /\ Reads

SubmitReject(t) ==
  /\ At(t, "submit_reject")
  /\ MarkRejected(call[t].id)
  /\ Return(t)
  /\ UNCHANGED <<courseVars, job, abandoned>>

\* _apply_deterministic_validation.  The document passed the same checks when
\* it was submitted, so it passes them again.
SubmitValidation(t) ==
  /\ At(t, "submit_validation")
  /\ revision = call[t].ws.revision
  /\ LET l == call[t].ws.active IN
       Course!RecordCandidateValidation(l,
         [document |-> call[t].ws.progress[l].candidate, policy |-> policy,
          disposition |-> "passed"])
  /\ Advance(<<call[t].id, "validation">>)
  /\ Becomes(t, [call[t] EXCEPT !.ws = Snapshot', !.then = "supersede",
                                !.pc = "submit_accept"])

SubmitValidationLost(t) ==
  /\ At(t, "submit_validation")
  /\ revision # call[t].ws.revision
  /\ Becomes(t, IF ReceiptsOf(Snapshot, call[t].id, "validation") = {}
                  THEN Idle
                  ELSE [call[t] EXCEPT !.ws = Snapshot, !.then = "supersede",
                                       !.pc = "submit_accept"])
  /\ Reads

SlipSubmitAccept(t) ==
  /\ At(t, "submit_accept")
  /\ LET result == call[t].input IN
       /\ IF Store!Live(call[t].id) /\ Store!AcceptOutcome(result) = "ok"
            THEN Store!MarkAccepted(result) ELSE UNCHANGED storeVars
       /\ Becomes(t, [call[t] EXCEPT
            !.pc = IF result.kind = "semantic_review" /\ result.content # {}
                     THEN "reopen" ELSE "project"])
  /\ UNCHANGED <<courseVars, job, abandoned>>

SubmitAccept(t) ==
  /\ At(t, "submit_accept")
  /\ LET result == call[t].input IN
       IF Store!AcceptOutcome(result) = "ok"
         THEN /\ IF Store!Live(call[t].id) THEN Store!MarkAccepted(result)
                                           ELSE UNCHANGED storeVars
              /\ Becomes(t, [call[t] EXCEPT
                   !.pc = IF result.kind = "semantic_review" /\ result.content # {}
                            THEN "reopen" ELSE "project"])
         ELSE Return(t) /\ UNCHANGED storeVars
  /\ UNCHANGED <<courseVars, job, abandoned>>

----------------------------------------------------------------------------
(* The reopening of a course for the corrections of a verdict, and a result*)
(* handed in again after it was accepted.                                  *)

Reopen(t) ==
  /\ At(t, "reopen")
  /\ revision = call[t].ws.revision
  /\ Course!ReopenLecturesForCorrection(call[t].input.content, revision)
  /\ Advance(<<call[t].id, "reopen">>)
  /\ Becomes(t, [call[t] EXCEPT !.ws = Snapshot', !.pc = "project"])

ReopenLost(t) ==
  /\ At(t, "reopen")
  /\ revision # call[t].ws.revision \/ ~Completed(call[t].ws)
  /\ Becomes(t, IF \E r \in ReceiptsOf(Snapshot, call[t].id, "reopen") :
                       r.subject.review_revision = call[t].ws.revision
                  THEN [call[t] EXCEPT !.ws = Snapshot, !.pc = "project"]
                  ELSE Idle)
  /\ Reads

ResubmitJob(t) == At(t, "resubmit_job") /\ LoadJob(t, "resubmit_workflow")

SlipAfterAccept(ws, result) ==
  IF result.kind = "semantic_review"
  THEN IF result.content = {} THEN "project" ELSE "reopen"
  ELSE IF \/ ReceiptsOf(ws, result.id, "submit") = {}
          \/ /\ result.kind \in LectureKind
             /\ ReceiptsOf(ws, result.id, "validation") = {}
       THEN "idle" ELSE "project"

\* _handle_resubmission_after_accept
AfterAccept(ws, result) ==
  IF result.kind = "semantic_review"
  THEN IF result.content = {} \/ ReceiptsOf(ws, result.id, "reopen") # {}
       THEN "project" ELSE "reopen"
  ELSE IF \/ ReceiptsOf(ws, result.id, "submit") = {}
          \/ /\ result.kind \in LectureKind
             /\ ReceiptsOf(ws, result.id, "validation") = {}
       THEN "idle" ELSE "project"

ResubmitWorkflow(t) ==
  /\ At(t, "resubmit_workflow")
  /\ LET next == AfterAccept(Snapshot, call[t].input) IN
       Becomes(t, IF next = "idle" THEN Idle
                  ELSE Authorised([call[t] EXCEPT !.ws = Snapshot], next))
  /\ Reads

----------------------------------------------------------------------------
(* submit_owner_priority_decision, submit_owner_map_decision               *)

StartDecision(t, decision, subject) ==
  /\ call[t] = Idle
  /\ revision < MaxRevision
  /\ Becomes(t, [Idle EXCEPT
       !.pc = "decide_workflow", !.job = job,
       !.input = [decision |-> decision, subject |-> subject]])
  /\ Reads

AwaitsDecision(ws, subject) ==
  \/ /\ <<ws.stage, ws.disposition>> = <<"priority_approval", "awaiting_approval">>
     /\ subject = Course!PrioritySubject(ws.basis.proposal)
  \/ /\ <<ws.stage, ws.disposition>> = <<"map_approval", "awaiting_approval">>
     /\ subject = Course!SubjectOf(ws.map)

DecideWorkflow(t) ==
  /\ At(t, "decide_workflow")
  /\ IF AwaitsDecision(Snapshot, call[t].input.subject)
       THEN Becomes(t, [call[t] EXCEPT !.ws = Snapshot, !.pc = "decide"])
       ELSE Return(t)
  /\ Reads

Decision(input) ==
  CASE input.subject.kind = "priority" ->
         IF input.decision = "approved"
           THEN Course!ApprovePriorityBasis(input.subject)
           ELSE Course!RejectPriorityBasis(input.subject)
    [] input.subject.kind = "map" ->
         IF input.decision = "approved"
           THEN Course!ApproveLectureMap(input.subject)
           ELSE Course!RejectLectureMap(input.subject)

\* _apply_owner_transition
Decide(t) ==
  /\ At(t, "decide")
  /\ revision = call[t].ws.revision
  /\ Decision(call[t].input)
  /\ Advance(<<0, "decision">>)
  /\ Becomes(t, [call[t] EXCEPT !.ws = Snapshot', !.then = "supersede",
                                !.input = None, !.pc = "project"])

DecideLost(t) ==
  /\ At(t, "decide")
  /\ revision # call[t].ws.revision
  /\ Return(t)
  /\ Reads

----------------------------------------------------------------------------
(* Around the operations: time, interruptions, other clients               *)

Tick == Store!Tick /\ UNCHANGED <<courseVars, job, call, abandoned>>

Abandon(t) ==
  /\ call[t] # Idle
  /\ abandoned < MaxAbandoned
  /\ abandoned' = abandoned + 1
  /\ Return(t)
  /\ UNCHANGED <<courseVars, storeVars, job>>

\* Failures, blockers and new sources reach the workflow by the transitions of
\* the MCP server, another process on the same store.  They leave the room that
\* a result may need below MaxRevision.
Elsewhere ==
  /\ revision + 3 <= MaxRevision
  /\ Course!Interruption
  /\ Advance(<<0, "elsewhere">>)
  /\ UNCHANGED call

RequestStep(t) ==
  \/ RequestWorkflow(t) \/ RequestReview(t)
  \/ RecoverWorkflow(t) \/ RecoverVerdict(t)
  \/ RequestReloadJob(t) \/ RequestReloadWorkflow(t)
  \/ RequestReconcile(t) \/ RequestSave(t)
  \/ RequestFind(t) \/ RequestCurrent(t)
  \/ RequestCreate(t) \/ RequestAgain(t) \/ RequestLease(t)

SubmitStep(t) ==
  \/ SubmitJob(t) \/ SubmitWorkflow(t)
  \/ SubmitLease(t) \/ SubmitResume(t)
  \/ SubmitTransition(t) \/ SubmitRepeat(t)
  \/ SubmitRejected(t) \/ SubmitLost(t) \/ SubmitReject(t)
  \/ SubmitValidation(t) \/ SubmitValidationLost(t)
  \/ SubmitAccept(t)
  \/ Reopen(t) \/ ReopenLost(t)
  \/ ResubmitJob(t) \/ ResubmitWorkflow(t)

DecideStep(t) == DecideWorkflow(t) \/ Decide(t) \/ DecideLost(t)

ProjectStep(t) ==
  \/ Project(t) \/ ProjectReload(t) \/ ProjectRetry(t)
  \/ Supersede(t) \/ SupersedeNext(t)

Step(t) == RequestStep(t) \/ SubmitStep(t) \/ DecideStep(t) \/ ProjectStep(t)

\* The proposals and maps that were ever shown to the owner.
Shown == {receipts[i].subject : i \in {j \in DOMAIN receipts :
            receipts[j].action \in {"record_source_assessment",
                                    "record_lecture_map"}}}

Submits(t, h, id) ==
  /\ Store!Stored(id)
  /\ \E content \in Content[rows[id].request.kind] :
       StartSubmit(t, h, id, content)

Decides(t) ==
  \E decision \in {"approved", "rejected"}, subject \in Shown :
    StartDecision(t, decision, subject)

Next ==
  \/ \E t \in Thread : Step(t)
  \/ \E t \in Thread, h \in Holder : StartRequest(t, h)
  \/ \E t \in Thread, h \in Holder, id \in RequestId : Submits(t, h, id)
  \/ \E t \in Thread : Decides(t)
  \/ \E t \in Thread : Abandon(t)
  \/ Tick
  \/ Elsewhere

Restore(ws) ==
  /\ revision = ws.revision /\ stage = ws.stage
  /\ disposition = ws.disposition /\ policy = ws.policy
  /\ sources = ws.sources /\ reviewed = ws.reviewed
  /\ assessment = ws.assessment /\ basis = ws.basis
  /\ map = ws.map /\ context = ws.context
  /\ active = ws.active /\ pending = ws.pending
  /\ progress = ws.progress /\ history = ws.history
  /\ issue = ws.issue /\ approvals = ws.approvals
  /\ diagnostics = ws.diagnostics /\ receipts = ws.receipts

\* start_generation: a job for a workflow that is new or that is there.
Init ==
  /\ \E ws \in Start : Restore(ws)
  /\ operations = [i \in DOMAIN receipts |-> <<0, "before">>]
  /\ Store!Init
  /\ job = Projection(Snapshot)
  /\ call = [t \in Thread |-> Idle]
  /\ abandoned = 0

Spec == Init /\ [][Next]_vars

----------------------------------------------------------------------------
(* Properties                                                              *)

Accepted(id) == Store!Stored(id) /\ rows[id].status = "accepted"

\* The transitions a request has led to.
Steps(id, step) == {i \in DOMAIN operations : operations[i] = <<id, step>>}

\* A receipt records what the result says.  The recovery of a source assessment
\* does not compare the two.
Bears(receipt, result) ==
  CASE result.kind = "lecture_map_generation" ->
         /\ receipt.subject.reference = result.content[1]
         /\ receipt.subject.size = result.content[2]
    [] result.kind \in LectureKind ->
         receipt.subject = Course!CandidateSubject(result.content)
    [] OTHER -> TRUE

\* Whatever threads, crashes and repeats come between the transition of a result
\* and its acceptance: an accepted result is in the workflow, recorded from the
\* revision it was asked for, and it is the result that was recorded and not
\* another answer to the same request (submit_semantic_result, cases A1 to A4).
AcceptedIsRecorded ==
  \A id \in RequestId :
    Accepted(id) /\ rows[id].request.kind \notin EvidenceKind =>
      \E i \in Steps(id, "submit") :
        /\ receipts[i].to_revision = rows[id].request.revision + 1
        /\ Bears(receipts[i], rows[id].result)

\* A request that a client may hold asks for what the workflow needed at its
\* revision: however old the snapshot that request_semantic_work computed it
\* from, it never carries a revision other than that snapshot's, so none is
\* current for the wrong kind of work or the wrong lecture.
LiveRequestsAreCurrent ==
  \A id \in RequestId :
    Store!Live(id) =>
      /\ rows[id].request.revision <= revision
      /\ rows[id].request.revision = revision =>
           /\ rows[id].request.kind = SemanticKind(Snapshot)
           /\ rows[id].request.lecture
                = LectureToWrite(Snapshot, SemanticKind(Snapshot))

\* A completed course is reopened only for an accepted verdict and exactly for
\* the lectures it names, also when two verdicts race for one request and when
\* the reopening is done by the recovery of another call.
ReopenedByVerdict ==
  \A id \in RequestId : \A i \in Steps(id, "reopen") :
    /\ Accepted(id)
    /\ receipts[i].subject.lectures = rows[id].result.content

\* A request leads to each of its transitions at most once, however often its
\* result is handed in, by how many threads and after which crashes: the work of
\* a client is never applied twice, and a verdict reopens no course that was
\* corrected for it.  The workflow would refuse a second transition under an
\* operation id, and no snapshot with two could be built; the steps above do not
\* rely on that, and this is why they need not: a call that goes on to a
\* transition has looked for its receipt in the snapshot it would save over.
OperationsAdvanceOnce ==
  \A id \in RequestId, step \in {"submit", "validation", "reopen"} :
    \A i, j \in Steps(id, step) : i = j

\* Threads run.  Clients keep asking for work, and keep handing in their results
\* until these are accepted.
Serving == \A t \in Thread : WF_vars(Step(t))

Asking == \A h \in Holder : SF_vars(\E t \in Thread : StartRequest(t, h))

HandingIn ==
  \A h \in Holder, id \in RequestId :
    SF_vars(~Accepted(id) /\ \E t \in Thread : Submits(t, h, id))

FairSpec == Spec /\ Serving /\ Asking /\ HandingIn

ValidationIsDue ==
  <<stage, disposition>> = <<"lecture_validation", "ready">>

CorrectionsAreDue ==
  /\ Completed(Snapshot)
  /\ \E id \in AcceptedAt(revision, "semantic_review") :
       rows[id].result.content # {}

\* A draft that waits for its validation gets it, whatever call was cut short
\* between the two transitions: the client hands its result in again and
\* submit_semantic_result resumes there (case A2).
ValidationFollows == ValidationIsDue ~> ~ValidationIsDue

\* Corrections that were accepted are carried out: after a crash between the
\* acceptance of a verdict and the reopening the next call of
\* request_semantic_work reopens the course.
CorrectionsFollow == CorrectionsAreDue ~> ~CorrectionsAreDue

\* The job is brought up to the workflow again and again, although its
\* projection is a separate write that calls may die before and that other
\* processes do not make.
JobCatchesUp == []<>(job.current_revision = revision)

=============================================================================
