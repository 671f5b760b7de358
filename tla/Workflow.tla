------------------------------ MODULE Workflow ------------------------------
(***************************************************************************)
(* The course workflow state machine of course_compiler/workflow.py: the   *)
(* pure function apply_workflow_request and its sixteen transition         *)
(* handlers, under the v2 transition contract.                             *)
(*                                                                         *)
(* A request that the code answers with WorkflowRejected or with           *)
(* WorkflowIdempotentRepeat, or that raises, leaves the snapshot as it     *)
(* was: here it is a stuttering step.  Operation ids are compared only     *)
(* with the ids of earlier receipts and a state-changing request carries a *)
(* fresh one, so a receipt is identified by its place in receipts.         *)
(*                                                                         *)
(* Lecture ids are forced by _valid_lecture_sequence to be l1 .. ln, so a  *)
(* lecture is its map position and a tuple of lecture ids is its length.   *)
(* A digest is the value it is computed from; artifacts are abstract.      *)
(*                                                                         *)
(* A definition named Slip... is not part of the specification: it is the  *)
(* definition after it with a plausible mistake in it, and the property it *)
(* breaks is named in PROJECT.json.                                        *)
(***************************************************************************)
EXTENDS Naturals, Sequences, FiniteSets

CONSTANTS
  Source,          \* source references offered: records [id, digest]
  InitialSources,  \* source sets a workflow may be initialised with
  Proposal,        \* assessment, mode, proposal and hierarchy of a payload
  MapReference,    \* lecture map artifacts
  MapSize,         \* lengths of the lecture sequences that are proposed
  MaxLectures,     \* longest lecture sequence, 9999 in the code
  Document,        \* records [document_id, order, body, warns]
  Policy,          \* lecture validation policies
  Verdict,         \* dispositions of validation records that are offered
  OwnerDecision,   \* decisions the owner takes, {"approved", "rejected"}
  IssueDigest,     \* subjects and evidence of blockers and failures
  BlockerCode,     \* generic blocker codes that are reported
  MaxRevision,     \* _MAX_REVISION
  MaxAttempt,      \* _MAX_ATTEMPT
  None             \* the absent value

\* A source, a document and a policy are what the constructors of the code
\* accept; a workflow starts from sources that differ in id and in digest.
ASSUME InputsAssumption ==
  /\ MaxLectures \in Nat \ {0}
  /\ MaxRevision \in Nat
  /\ MaxAttempt \in Nat
  /\ MapSize \subseteq 1..MaxLectures
  /\ \A d \in Document : /\ d.document_id \in 1..MaxLectures
                          /\ d.order \in 1..MaxLectures
                          /\ d.warns \in BOOLEAN
  /\ Verdict \subseteq {"rejected", "passed", "passed_with_warnings"}
  /\ OwnerDecision \subseteq {"approved", "rejected"}
  /\ BlockerCode \subseteq {"private_artifact_unavailable",
                            "external_prerequisite_unavailable"}

ASSUME InitialSourcesAssumption ==
  /\ InitialSources \subseteq SUBSET Source
  /\ \A S \in InitialSources : S # {}
  /\ \A S \in InitialSources : \A s, t \in S :
       s.id = t.id \/ s.digest = t.digest => s = t

VARIABLES
  revision, stage, disposition, policy,
  sources,      \* source_evidence
  reviewed,     \* reviewed_source_evidence
  assessment,   \* source_assessment
  basis,        \* priority_basis
  map,          \* lecture_map
  context,      \* map_reopen_context
  active,       \* active_lecture_id
  pending,      \* pending_source
  progress,     \* lecture_progress
  history,      \* historical_candidates, as a set: its keys are unique
  issue,        \* active_issue
  approvals,    \* approval_history, as a set: state_revision orders it
  diagnostics,
  receipts      \* operation_receipts

vars == <<revision, stage, disposition, policy, sources, reviewed, assessment,
          basis, map, context, active, pending, progress, history, issue,
          approvals, diagnostics, receipts>>

-----------------------------------------------------------------------------
(* Vocabulary (workflow_policy.py)                                         *)

Stage == {"source_assessment", "priority_approval", "lecture_mapping",
          "map_approval", "lecture_production", "lecture_validation",
          "completed"}

ProductionStage == {"lecture_production", "lecture_validation", "completed"}

NormalDisposition ==
  [s \in Stage |->
     CASE s \in {"priority_approval", "map_approval"} -> "awaiting_approval"
       [] s = "completed" -> "completed"
       [] OTHER -> "ready"]

Action ==
  {"initialize_workflow", "record_source_assessment", "approve_priority_basis",
   "reject_priority_basis", "record_lecture_map", "approve_lecture_map",
   "reject_lecture_map", "submit_lecture_candidate",
   "record_candidate_validation", "record_operation_failure", "retry_failed",
   "mark_blocked", "clear_blocker", "record_new_source", "dismiss_new_source",
   "approve_map_reopen", "reopen_lectures_for_correction"}

\* FAILURE_REGISTRY: the one failure code of each stage that can fail.
FailureCode ==
  [s \in {"source_assessment", "lecture_mapping", "lecture_production",
          "lecture_validation"} |->
     CASE s = "source_assessment"  -> "source_assessment_operation_failed"
       [] s = "lecture_mapping"    -> "lecture_mapping_operation_failed"
       [] s = "lecture_production" -> "lecture_production_operation_failed"
       [] OTHER                    -> "lecture_validation_operation_failed"]

PrivateArtifactBlockerStarts ==
  {<<s, NormalDisposition[s]>> : s \in Stage \ {"completed"}}

ExternalPrerequisiteBlockerStages == DOMAIN FailureCode

NewSourceStages == {"lecture_production", "lecture_validation"}

Passing == {"passed", "passed_with_warnings"}

-----------------------------------------------------------------------------
(* Subjects: what an approval, a candidate or a receipt is bound to.       *)

PrioritySubject(p) == [kind |-> "priority", proposal |-> p]

MapSubject(ref, size, reserved) ==
  [kind |-> "map", reference |-> ref, size |-> size, reserved |-> reserved]

SubjectOf(m) == MapSubject(m.reference, m.size, m.reserved)

SourceSubject(d) == [kind |-> "source", digest |-> d]

CandidateSubject(d) == [kind |-> "candidate", document |-> d]

IssueSubject(x) == [kind |-> "issue", digest |-> x]

CorrectionSubject(ids, rev) ==
  [kind |-> "correction", lectures |-> ids, review_revision |-> rev]

SourceSetSubject(S) == [kind |-> "source_set", sources |-> S]

-----------------------------------------------------------------------------
(* Records                                                                 *)

Approval(gate, decision, subject) ==
  [gate |-> gate, decision |-> decision, subject |-> subject,
   state_revision |-> revision + 1]

PendingLecture ==
  [status |-> "pending", attempt |-> 0, candidate |-> None,
   validation |-> None, accepted_document |-> None]

AllPending(n) == [i \in 1..n |-> PendingLecture]

HistoricalCandidate(i, subject, p, how) ==
  [map_position |-> i, map_subject |-> subject, attempt |-> p.attempt,
   candidate |-> p.candidate, validation |-> p.validation,
   historical_disposition |-> how]

HistoryKey(h) == <<h.map_subject, h.map_position, h.attempt, h.candidate>>

\* The snapshot refuses two historical candidates with one key: building the
\* new state raises, so the request changes nothing.
Archivable(new) ==
  \A n \in new, h \in history : HistoryKey(n) # HistoryKey(h)

IssueDiagnostic(i) ==
  [category |-> IF i.kind = "blocker" THEN "blocked" ELSE "failure",
   code |-> i.code, stage |-> i.stage]

CandidateWarning(l) == [category |-> "warning", lecture |-> l]

WithoutIssueDiagnostics == {d \in diagnostics : d.category = "warning"}

WithoutCandidateWarnings(D, L) ==
  {d \in D : ~(d.category = "warning" /\ d.lecture \in L)}

Receipt(action, subject) ==
  [action |-> action, to_revision |-> revision + 1, subject |-> subject]

\* The part of every handler that _mutated_state performs.
Commit(action, subject) ==
  /\ revision < MaxRevision
  /\ revision' = revision + 1
  /\ receipts' = Append(receipts, Receipt(action, subject))
  /\ UNCHANGED policy

-----------------------------------------------------------------------------
(* Initialisation                                                          *)

Init ==
  /\ revision = 0
  /\ stage = "source_assessment"
  /\ disposition = "ready"
  /\ policy \in Policy
  /\ sources \in InitialSources
  /\ reviewed = {}
  /\ assessment = None
  /\ basis = None
  /\ map = None
  /\ context = None
  /\ active = None
  /\ pending = None
  /\ progress = <<>>
  /\ history = {}
  /\ issue = None
  /\ approvals = {}
  /\ diagnostics = {}
  /\ receipts = <<[action |-> "initialize_workflow", to_revision |-> 0,
                   subject |-> SourceSetSubject(sources)]>>

-----------------------------------------------------------------------------
(* Planning: source assessment and the two owner gates                     *)

RecordSourceAssessment(p) ==
  /\ stage = "source_assessment"
  /\ disposition = "ready"
  /\ issue = None
  /\ stage' = "priority_approval"
  /\ disposition' = "awaiting_approval"
  /\ assessment' = [sources |-> sources, recorded_revision |-> revision + 1]
  /\ basis' = [proposal |-> p, status |-> "proposed", approval |-> None]
  /\ Commit("record_source_assessment", PrioritySubject(p))
  /\ UNCHANGED <<sources, reviewed, map, context, active, pending, progress,
                 history, issue, approvals, diagnostics>>

SlipBasisUnderDecision(subject) ==
  /\ basis # None
  /\ basis.status = "proposed"

BasisUnderDecision(subject) ==
  /\ basis # None
  /\ basis.status = "proposed"
  /\ subject = PrioritySubject(basis.proposal)

\* _decide_priority as far as both decisions share it.
PriorityDecision(decision, subject) ==
  /\ stage = "priority_approval"
  /\ disposition = "awaiting_approval"
  /\ BasisUnderDecision(subject)
  /\ approvals' = approvals \cup {Approval("priority_basis", decision, subject)}
  /\ disposition' = "ready"
  /\ UNCHANGED <<sources, reviewed, map, context, active, pending, progress,
                 history, issue, diagnostics>>

ApprovePriorityBasis(subject) ==
  /\ PriorityDecision("approved", subject)
  /\ stage' = "lecture_mapping"
  /\ basis' = [basis EXCEPT
                 !.status = "approved",
                 !.approval = Approval("priority_basis", "approved", subject)]
  /\ Commit("approve_priority_basis", subject)
  /\ UNCHANGED assessment

RejectPriorityBasis(subject) ==
  /\ PriorityDecision("rejected", subject)
  /\ stage' = "source_assessment"
  /\ basis' = None
  /\ assessment' = None
  /\ Commit("reject_priority_basis", subject)

SlipReserved == 0

Reserved == IF context = None THEN 0 ELSE context.size

\* After a map reopen the baseline ids are reserved: they must lead the new
\* sequence, and their progress records stay.
RecordLectureMap(ref, n) ==
  /\ stage = "lecture_mapping"
  /\ disposition = "ready"
  /\ basis # None
  /\ basis.status = "approved"
  /\ n >= Reserved
  /\ stage' = "map_approval"
  /\ disposition' = "awaiting_approval"
  /\ map' = [reference |-> ref, size |-> n, reserved |-> Reserved,
             status |-> "proposed", approval |-> None]
  /\ progress' = IF context = None
                   THEN AllPending(n)
                   ELSE SubSeq(progress, 1, Reserved) \o AllPending(n - Reserved)
  /\ Commit("record_lecture_map", MapSubject(ref, n, Reserved))
  /\ UNCHANGED <<sources, reviewed, assessment, basis, context, active,
                 pending, history, issue, approvals, diagnostics>>

MapDecision(decision, subject) ==
  /\ stage = "map_approval"
  /\ disposition = "awaiting_approval"
  /\ map # None
  /\ map.status = "proposed"
  /\ subject = SubjectOf(map)
  /\ approvals' = approvals \cup {Approval("lecture_map", decision, subject)}
  /\ disposition' = "ready"
  /\ UNCHANGED <<sources, reviewed, assessment, basis, active, pending,
                 history, issue, diagnostics>>

ApproveLectureMap(subject) ==
  /\ MapDecision("approved", subject)
  /\ stage' = "lecture_production"
  /\ map' = [map EXCEPT
               !.status = "approved",
               !.approval = Approval("lecture_map", "approved", subject)]
  /\ context' = None
  /\ Commit("approve_lecture_map", subject)
  /\ UNCHANGED progress

BaselineProgress ==
  IF context = None THEN <<>> ELSE SubSeq(progress, 1, context.size)

RejectLectureMap(subject) ==
  /\ MapDecision("rejected", subject)
  /\ stage' = "lecture_mapping"
  /\ map' = None
  /\ progress' = BaselineProgress
  /\ Commit("reject_lecture_map", subject)
  /\ UNCHANGED context

-----------------------------------------------------------------------------
(* Production: one candidate at a time, validated before the next          *)

SlipSuperseded(l) ==
  IF progress[l].status # "retry_required" THEN {}
  ELSE {HistoricalCandidate(l, SubjectOf(map), progress[l], "rejected")}

\* A lecture that already has a candidate gives it up to the history.
Superseded(l) ==
  IF progress[l].status = "pending" THEN {}
  ELSE {HistoricalCandidate(l, SubjectOf(map), progress[l],
          IF progress[l].status = "correction_required"
            THEN "superseded_by_correction" ELSE "rejected")}

SubmitLectureCandidate(l, d) ==
  /\ stage = "lecture_production"
  /\ disposition = "ready"
  /\ map # None
  /\ map.status = "approved"
  /\ issue = None
  /\ l \in DOMAIN progress
  /\ \/ progress[l].status = "pending"
     \/ /\ progress[l].status \in {"retry_required", "correction_required"}
        /\ progress[l].candidate # None
  /\ d.document_id = l
  /\ d.order = l
  /\ progress[l].attempt < MaxAttempt
  /\ Archivable(Superseded(l))
  /\ stage' = "lecture_validation"
  /\ disposition' = "ready"
  /\ active' = l
  /\ progress' = [progress EXCEPT ![l] =
                    [status |-> "candidate", attempt |-> @.attempt + 1,
                     candidate |-> d, validation |-> None,
                     accepted_document |-> None]]
  /\ history' = history \cup Superseded(l)
  /\ diagnostics' = WithoutCandidateWarnings(diagnostics, {l})
                      \cup (IF d.warns THEN {CandidateWarning(l)} ELSE {})
  /\ Commit("submit_lecture_candidate", CandidateSubject(d))
  /\ UNCHANGED <<sources, reviewed, assessment, basis, map, context, pending,
                 issue, approvals>>

SlipValidatedLecture(p, v) ==
  IF v.disposition = "rejected"
    THEN [p EXCEPT !.validation = v]
    ELSE [p EXCEPT !.status = "accepted", !.validation = v,
                   !.accepted_document = p.candidate]

\* v is a validation record [document, policy, disposition]: evidence about
\* some document under some policy, which must be this candidate and the
\* policy the workflow was initialised with.
ValidatedLecture(p, v) ==
  IF v.disposition = "rejected"
    THEN [p EXCEPT !.status = "retry_required", !.validation = v,
                   !.accepted_document = None]
    ELSE [p EXCEPT !.status = "accepted", !.validation = v,
                   !.accepted_document = p.candidate]

Complete(pr) == \A l \in DOMAIN pr : pr[l].status = "accepted"

SlipEvidenceMatches(p, v) == v.document = p.candidate

EvidenceMatches(p, v) ==
  /\ v.document = p.candidate
  /\ v.policy = policy

RecordCandidateValidation(l, v) ==
  LET validated == [progress EXCEPT ![l] = ValidatedLecture(@, v)]
      complete == v.disposition # "rejected" /\ Complete(validated)
  IN
  /\ stage = "lecture_validation"
  /\ disposition = "ready"
  /\ active = l
  /\ l \in DOMAIN progress
  /\ progress[l].status = "candidate"
  /\ progress[l].candidate # None
  /\ EvidenceMatches(progress[l], v)
  /\ progress' = validated
  /\ stage' = IF complete THEN "completed" ELSE "lecture_production"
  /\ disposition' = IF complete THEN "completed" ELSE "ready"
  /\ active' = None
  /\ Commit("record_candidate_validation",
            CandidateSubject(progress[l].candidate))
  /\ UNCHANGED <<sources, reviewed, assessment, basis, map, context, pending,
                 history, issue, approvals, diagnostics>>

ReopenLecturesForCorrection(ids, review_revision) ==
  /\ stage = "completed"
  /\ disposition = "completed"
  /\ map # None
  /\ map.status = "approved"
  /\ issue = None
  /\ pending = None
  /\ context = None
  /\ active = None
  /\ review_revision = revision
  /\ ids # {}
  /\ ids \subseteq 1..map.size
  /\ \A l \in ids : progress[l].status = "accepted"
  /\ stage' = "lecture_production"
  /\ disposition' = "ready"
  /\ progress' = [l \in DOMAIN progress |->
                    IF l \in ids
                      THEN [progress[l] EXCEPT !.status = "correction_required"]
                      ELSE progress[l]]
  /\ Commit("reopen_lectures_for_correction",
            CorrectionSubject(ids, review_revision))
  /\ UNCHANGED <<sources, reviewed, assessment, basis, map, context, active,
                 pending, history, issue, approvals, diagnostics>>

-----------------------------------------------------------------------------
(* Failures and blockers: the workflow stops where it is and resumes there *)

\* Everything but the disposition, the issue and its diagnostic stays.
PlanAndCourse == <<stage, sources, reviewed, assessment, basis, map, context,
                   active, progress, history, approvals>>

Stop(i, how) ==
  /\ disposition' = how
  /\ issue' = i
  /\ diagnostics' = diagnostics \cup {IssueDiagnostic(i)}
  /\ UNCHANGED PlanAndCourse

Resume(how) ==
  /\ disposition' = how
  /\ issue' = None
  /\ diagnostics' = WithoutIssueDiagnostics
  /\ UNCHANGED PlanAndCourse
  /\ UNCHANGED pending

RecordOperationFailure(code, evidence) ==
  /\ disposition = "ready"
  /\ stage \in DOMAIN FailureCode
  /\ code = FailureCode[stage]
  /\ issue = None
  /\ Stop([kind |-> "failure", code |-> code, stage |-> stage,
           subject |-> IssueSubject(evidence),
           recorded_revision |-> revision + 1], "failed")
  /\ Commit("record_operation_failure", IssueSubject(evidence))
  /\ UNCHANGED pending

RetryFailed(code, evidence) ==
  /\ disposition = "failed"
  /\ issue # None
  /\ issue.kind = "failure"
  /\ issue.code = code
  /\ issue.subject = IssueSubject(evidence)
  /\ Resume(NormalDisposition[stage])
  /\ Commit("retry_failed", IssueSubject(evidence))

MarkBlocked(code, subject) ==
  /\ issue = None
  /\ disposition = NormalDisposition[stage]
  /\ IF code = "private_artifact_unavailable"
       THEN <<stage, disposition>> \in PrivateArtifactBlockerStarts
       ELSE /\ stage \in ExternalPrerequisiteBlockerStages
            /\ disposition = "ready"
  /\ Stop([kind |-> "blocker", code |-> code, stage |-> stage,
           resume_disposition |-> disposition,
           subject |-> IssueSubject(subject),
           recorded_revision |-> revision + 1], "blocked")
  /\ Commit("mark_blocked", IssueSubject(subject))
  /\ UNCHANGED pending

ClearBlocker(code, subject) ==
  /\ disposition = "blocked"
  /\ issue # None
  /\ issue.kind = "blocker"
  /\ issue.code # "new_source_review_required"
  /\ issue.code = code
  /\ issue.subject = IssueSubject(subject)
  /\ Resume(issue.resume_disposition)
  /\ Commit("clear_blocker", IssueSubject(subject))

-----------------------------------------------------------------------------
(* A source found during production: the owner dismisses it or reopens the *)
(* plan                                                                    *)

UnknownSource(s) ==
  \A known \in sources \cup reviewed :
    known.id # s.id /\ known.digest # s.digest

RecordNewSource(s) ==
  /\ stage \in NewSourceStages
  /\ disposition = "ready"
  /\ issue = None
  /\ pending = None
  /\ UnknownSource(s)
  /\ pending' = [source |-> s, detected_stage |-> stage,
                 detected_revision |-> revision + 1]
  /\ Stop([kind |-> "blocker", code |-> "new_source_review_required",
           stage |-> stage, resume_disposition |-> "ready",
           subject |-> SourceSubject(s.digest),
           recorded_revision |-> revision + 1], "blocked")
  /\ Commit("record_new_source", SourceSubject(s.digest))

NewSourceUnderReview(digest) ==
  /\ disposition = "blocked"
  /\ pending # None
  /\ issue # None
  /\ issue.kind = "blocker"
  /\ issue.code = "new_source_review_required"
  /\ digest = pending.source.digest

SlipDetectedStage == "lecture_production"

DetectedStage == pending.detected_stage

DismissNewSource(digest) ==
  /\ NewSourceUnderReview(digest)
  /\ stage' = DetectedStage
  /\ disposition' = issue.resume_disposition
  /\ reviewed' = reviewed \cup {pending.source}
  /\ pending' = None
  /\ issue' = None
  /\ approvals' = approvals \cup {Approval("new_source_irrelevant", "approved",
                                           SourceSubject(digest))}
  /\ diagnostics' = WithoutIssueDiagnostics
  /\ Commit("dismiss_new_source", SourceSubject(digest))
  /\ UNCHANGED <<sources, assessment, basis, map, context, active, progress,
                 history>>

\* Every lecture that has a candidate, accepted or not, is archived under the
\* subject of the map that is given up.
Invalidated ==
  {HistoricalCandidate(l, SubjectOf(map), progress[l],
                       "invalidated_by_map_reopen") :
     l \in {k \in DOMAIN progress : progress[k].candidate # None}}

ApproveMapReopen(digest) ==
  /\ NewSourceUnderReview(digest)
  /\ map # None
  /\ map.status = "approved"
  /\ Archivable(Invalidated)
  /\ stage' = "source_assessment"
  /\ disposition' = "ready"
  /\ sources' = sources \cup {pending.source}
  /\ assessment' = None
  /\ basis' = None
  /\ map' = None
  /\ context' = [reference |-> map.reference, size |-> map.size,
                 reserved |-> map.reserved, approval |-> map.approval,
                 created_revision |-> revision + 1]
  /\ active' = None
  /\ pending' = None
  /\ progress' = AllPending(map.size)
  /\ history' = history \cup Invalidated
  /\ issue' = None
  /\ approvals' = approvals \cup {Approval("map_reopen", "approved",
                                           SourceSubject(digest))}
  /\ diagnostics' = WithoutCandidateWarnings(WithoutIssueDiagnostics,
                                             DOMAIN progress)
  /\ Commit("approve_map_reopen", SourceSubject(digest))
  /\ UNCHANGED reviewed

-----------------------------------------------------------------------------
Validation == [document : Document, policy : Policy, disposition : Verdict]

Planning ==
  \/ \E p \in Proposal : RecordSourceAssessment(p)
  \/ \E p \in Proposal :
       /\ "approved" \in OwnerDecision
       /\ ApprovePriorityBasis(PrioritySubject(p))
  \/ \E p \in Proposal :
       /\ "rejected" \in OwnerDecision
       /\ RejectPriorityBasis(PrioritySubject(p))
  \/ \E ref \in MapReference, n \in MapSize : RecordLectureMap(ref, n)
  \/ \E ref \in MapReference, n \in MapSize, k \in 0..MaxLectures :
       /\ "approved" \in OwnerDecision
       /\ ApproveLectureMap(MapSubject(ref, n, k))
  \/ \E ref \in MapReference, n \in MapSize, k \in 0..MaxLectures :
       /\ "rejected" \in OwnerDecision
       /\ RejectLectureMap(MapSubject(ref, n, k))

Production ==
  \/ \E l \in 1..MaxLectures, d \in Document : SubmitLectureCandidate(l, d)
  \/ \E l \in 1..MaxLectures, v \in Validation : RecordCandidateValidation(l, v)
  \/ \E ids \in SUBSET (1..MaxLectures), r \in 0..MaxRevision :
       ReopenLecturesForCorrection(ids, r)

Interruption ==
  \/ \E s \in DOMAIN FailureCode, x \in IssueDigest :
       RecordOperationFailure(FailureCode[s], x)
  \/ \E s \in DOMAIN FailureCode, x \in IssueDigest :
       RetryFailed(FailureCode[s], x)
  \/ \E c \in BlockerCode, x \in IssueDigest : MarkBlocked(c, x)
  \/ \E c \in BlockerCode, x \in IssueDigest : ClearBlocker(c, x)
  \/ \E s \in Source : RecordNewSource(s)
  \/ \E s \in Source : DismissNewSource(s.digest)
  \/ \E s \in Source : ApproveMapReopen(s.digest)

Next == Planning \/ Production \/ Interruption

Spec == Init /\ [][Next]_vars

-----------------------------------------------------------------------------
(* Types                                                                   *)

Issue ==
  [kind : {"failure"}, code : {FailureCode[s] : s \in DOMAIN FailureCode},
   stage : Stage, subject : {IssueSubject(x) : x \in IssueDigest},
   recorded_revision : Nat]
  \cup
  [kind : {"blocker"}, code : BlockerCode \cup {"new_source_review_required"},
   stage : Stage, resume_disposition : {"ready", "awaiting_approval"},
   subject : {IssueSubject(x) : x \in IssueDigest}
               \cup {SourceSubject(s.digest) : s \in Source},
   recorded_revision : Nat]

MapSubjects ==
  [kind : {"map"}, reference : MapReference, size : 1..MaxLectures,
   reserved : 0..MaxLectures]

ApprovalRecord ==
  [gate : {"priority_basis"}, decision : OwnerDecision,
   subject : {PrioritySubject(p) : p \in Proposal}, state_revision : Nat]
  \cup
  [gate : {"lecture_map"}, decision : OwnerDecision, subject : MapSubjects,
   state_revision : Nat]
  \cup
  [gate : {"new_source_irrelevant", "map_reopen"}, decision : {"approved"},
   subject : {SourceSubject(s.digest) : s \in Source}, state_revision : Nat]

SourceAssessmentRecord == [sources : SUBSET Source, recorded_revision : Nat]

PriorityBasisRecord ==
  [proposal : Proposal, status : {"proposed", "approved"},
   approval : ApprovalRecord \cup {None}]

LectureMapRecord ==
  [reference : MapReference, size : 1..MaxLectures, reserved : 0..MaxLectures,
   status : {"proposed", "approved"}, approval : ApprovalRecord \cup {None}]

MapReopenContext ==
  [reference : MapReference, size : 1..MaxLectures, reserved : 0..MaxLectures,
   approval : ApprovalRecord, created_revision : Nat]

PendingSourceRecord ==
  [source : Source, detected_stage : NewSourceStages, detected_revision : Nat]

LectureProgress ==
  [status : {"pending", "candidate", "retry_required", "correction_required",
             "accepted"},
   attempt : 0..MaxAttempt,
   candidate : Document \cup {None},
   validation : Validation \cup {None},
   accepted_document : Document \cup {None}]

HistoricalCandidateRecord ==
  [map_position : 1..MaxLectures, map_subject : MapSubjects,
   attempt : 1..MaxAttempt, candidate : Document,
   validation : Validation \cup {None},
   historical_disposition : {"rejected", "invalidated_by_map_reopen",
                             "superseded_by_correction"}]

Diagnostic ==
  [category : {"warning"}, lecture : 1..MaxLectures]
  \cup
  [category : {"blocked", "failure"},
   code : BlockerCode \cup {"new_source_review_required"}
            \cup {FailureCode[s] : s \in DOMAIN FailureCode},
   stage : Stage]

Subject ==
  {PrioritySubject(p) : p \in Proposal}
  \cup MapSubjects
  \cup {SourceSubject(s.digest) : s \in Source}
  \cup {CandidateSubject(d) : d \in Document}
  \cup {IssueSubject(x) : x \in IssueDigest}
  \cup [kind : {"correction"}, lectures : SUBSET (1..MaxLectures),
        review_revision : Nat]
  \cup [kind : {"source_set"}, sources : SUBSET Source]

OperationReceipt == [action : Action, to_revision : Nat, subject : Subject]

\* The absent value is no value of any of the types it completes.
ASSUME NoneAssumption ==
  /\ None \notin SourceAssessmentRecord
  /\ None \notin PriorityBasisRecord
  /\ None \notin LectureMapRecord
  /\ None \notin MapReopenContext
  /\ None \notin PendingSourceRecord
  /\ None \notin Issue
  /\ None \notin Document
  /\ None \notin Validation
  /\ None \notin 1..MaxLectures

\* The constructors of the records and of WorkflowState: every snapshot the
\* handlers build is well formed.
TypeOK ==
  /\ revision \in 0..MaxRevision
  /\ stage \in Stage
  /\ disposition \in {"ready", "awaiting_approval", "blocked", "failed",
                      "completed"}
  /\ policy \in Policy
  /\ sources \in SUBSET Source /\ sources # {}
  /\ reviewed \in SUBSET Source
  /\ assessment \in SourceAssessmentRecord \cup {None}
  /\ basis \in PriorityBasisRecord \cup {None}
  /\ map \in LectureMapRecord \cup {None}
  /\ context \in MapReopenContext \cup {None}
  /\ active \in 1..MaxLectures \cup {None}
  /\ pending \in PendingSourceRecord \cup {None}
  /\ progress \in Seq(LectureProgress)
  /\ history \in SUBSET HistoricalCandidateRecord
  /\ issue \in Issue \cup {None}
  /\ approvals \in SUBSET ApprovalRecord
  /\ diagnostics \in SUBSET Diagnostic
  /\ receipts \in Seq(OperationReceipt)
  /\ Len(receipts) = revision + 1

-----------------------------------------------------------------------------
(* Safety                                                                  *)

KnownSources ==
  sources \cup reviewed \cup (IF pending = None THEN {} ELSE {pending.source})

\* No source is taken for two: over the evidence, the dismissed sources and the
\* one under review, ids are distinct and digests are distinct, and a source is
\* in one of the three only (_validate_source_tuple and the disjointness checks
\* of _state_violation, relied on by _record_new_source).
SourcesDistinct ==
  /\ \A s, t \in KnownSources : s.id = t.id \/ s.digest = t.digest => s = t
  /\ sources \cap reviewed = {}
  /\ pending # None => pending.source \notin sources \cup reviewed

ApprovedMaps ==
  {a \in approvals : a.gate = "lecture_map" /\ a.decision = "approved"}

Reopenings == {a \in approvals : a.gate = "map_reopen"}

\* Nothing is produced on a plan the owner did not approve for the sources at
\* hand: an assessment is about the current source set, and in production the
\* basis and the map are the very subjects of two recorded approvals, the map's
\* after the basis's and both after every reopening of the map.
PlanIsCurrent ==
  /\ assessment # None => assessment.sources = sources
  /\ stage \in ProductionStage =>
       /\ assessment # None
       /\ \E a \in approvals, b \in ApprovedMaps :
            /\ a.gate = "priority_basis" /\ a.decision = "approved"
            /\ a.subject = PrioritySubject(basis.proposal)
            /\ b.subject = SubjectOf(map)
            /\ a.state_revision < b.state_revision
            /\ \A r \in Reopenings : r.state_revision < a.state_revision

\* Lectures are never dropped: every map that is approved after another one
\* reserves, as its leading lectures, all lectures of the earlier one.
MapsOnlyGrow ==
  \A a, b \in ApprovedMaps :
    a.state_revision < b.state_revision => a.subject.size <= b.subject.reserved

\* The plan in force, over every reopening of the map: it is the plan the owner
\* approved for these sources, and it keeps what the plans before it planned.
PlanInForce == PlanIsCurrent /\ MapsOnlyGrow

Candidates == {l \in DOMAIN progress : progress[l].status = "candidate"}

\* One candidate at a time: a candidate awaits validation exactly in the
\* validation stage, also while that stage is blocked or failed, and it is the
\* active lecture.
OneCandidateInValidation ==
  Candidates = IF stage = "lecture_validation" THEN {active} ELSE {}

\* Under an approved map the course is completed exactly when every lecture is
\* accepted: production is never left without a lecture to work on, and no
\* course completes early.
CompletedIffAllAccepted ==
  stage \in ProductionStage =>
    (stage = "completed"
       <=> \A l \in DOMAIN progress : progress[l].status = "accepted")

\* A document counts as accepted only in its own place and on the evidence of a
\* passing validation of that very document under the policy of the workflow.
AcceptedOnEvidence ==
  \A l \in DOMAIN progress :
    LET p == progress[l] IN
    p.status \in {"accepted", "correction_required"} =>
      /\ p.accepted_document # None
      /\ p.accepted_document = p.candidate
      /\ p.candidate.document_id = l
      /\ p.candidate.order = l
      /\ p.validation.document = p.candidate
      /\ p.validation.policy = policy
      /\ p.validation.disposition \in Passing

\* The history speaks of maps the owner approved and of lectures that are still
\* in the course.
HistoryLineage ==
  \A h \in history :
    /\ \E a \in ApprovedMaps : a.subject = h.map_subject
    /\ h.map_position <= h.map_subject.size
    /\ h.map_position \in DOMAIN progress

\* The diagnostics a client is shown are those of the present: one for the
\* active issue and none otherwise, and a warning for each lecture whose present
\* candidate has one.
DiagnosticsAreCurrent ==
  /\ {d \in diagnostics : d.category # "warning"}
       = IF issue = None THEN {} ELSE {IssueDiagnostic(issue)}
  /\ {d.lecture : d \in {e \in diagnostics : e.category = "warning"}}
       = {l \in DOMAIN progress :
            progress[l].candidate # None /\ progress[l].candidate.warns}

\* A stopped workflow stands still: its issue belongs to this stage and this
\* revision, a source is under review exactly when that is the issue, and the
\* disposition to resume is the one the stage has when nothing is wrong.
StopsAreCoherent ==
  /\ issue = None <=> disposition = NormalDisposition[stage]
  /\ issue = None => pending = None
  /\ issue # None =>
       /\ issue.stage = stage
       /\ issue.recorded_revision = revision
       /\ disposition = IF issue.kind = "blocker" THEN "blocked" ELSE "failed"
       /\ (pending # None) <=> (issue.code = "new_source_review_required")
       /\ pending # None => pending.detected_stage = stage
       /\ issue.kind = "blocker" =>
            issue.resume_disposition = NormalDisposition[stage]

\* LectureProgress: what the constructor demands of each status.
ProgressIsWellFormed ==
  \A l \in DOMAIN progress :
    LET p == progress[l] IN
    /\ IF p.status = "pending"
         THEN p = PendingLecture
         ELSE /\ p.attempt >= 1
              /\ p.candidate # None
              /\ p.candidate.document_id = l
              /\ p.candidate.order = l
    /\ p.status = "candidate" => p.validation = None
    /\ p.status \in {"retry_required", "correction_required", "accepted"} =>
         /\ p.validation # None
         /\ p.validation.document = p.candidate
         /\ p.validation.disposition = "rejected" <=> p.status = "retry_required"
    /\ p.accepted_document = IF p.status \in {"correction_required", "accepted"}
                               THEN p.candidate ELSE None

GateOf ==
  [approve_priority_basis |-> <<"priority_basis", "approved">>,
   reject_priority_basis  |-> <<"priority_basis", "rejected">>,
   approve_lecture_map    |-> <<"lecture_map", "approved">>,
   reject_lecture_map     |-> <<"lecture_map", "rejected">>,
   dismiss_new_source     |-> <<"new_source_irrelevant", "approved">>,
   approve_map_reopen     |-> <<"map_reopen", "approved">>]

\* The owner's decisions are the record of what was done: an approval is in the
\* history exactly when the operation of its revision was that decision about
\* that subject.
ApprovalsAreReceipted ==
  \A r \in 0..revision :
    {<<<<a.gate, a.decision>>, a.subject>> :
       a \in {b \in approvals : b.state_revision = r}}
      = IF receipts[r + 1].action \in DOMAIN GateOf
          THEN {<<GateOf[receipts[r + 1].action], receipts[r + 1].subject>>}
          ELSE {}

\* An approved basis, an approved map and the baseline of a reopened map carry
\* the approval of their own subject, and the reopening is on record.
ApprovalsAreHeld ==
  /\ basis # None /\ basis.status = "approved" =>
       /\ basis.approval \in approvals
       /\ basis.approval.gate = "priority_basis"
       /\ basis.approval.decision = "approved"
       /\ basis.approval.subject = PrioritySubject(basis.proposal)
  /\ map # None /\ map.status = "approved" =>
       /\ map.approval \in ApprovedMaps
       /\ map.approval.subject = SubjectOf(map)
  /\ context # None =>
       /\ context.approval \in ApprovedMaps
       /\ context.approval.subject = SubjectOf(context)
       /\ \E a \in Reopenings : a.state_revision = context.created_revision

\* What each stage has: the assessment, the basis and the map that its work is
\* based on, and no later part of the plan.
PlanFitsStage ==
  /\ (assessment = None <=> stage = "source_assessment")
       /\ (basis = None <=> stage = "source_assessment")
  /\ basis # None => (basis.status = "proposed" <=> stage = "priority_approval")
  /\ (map = None) <=> stage \in {"source_assessment", "priority_approval",
                                 "lecture_mapping"}
  /\ map # None => (map.status = "proposed" <=> stage = "map_approval")
  /\ stage \in ProductionStage => context = None

\* The progress records are those of the map, or of the baseline of a reopened
\* map until the new one is recorded, which keeps the baseline's lectures.
ProgressFollowsMap ==
  /\ Len(progress) = IF map # None THEN map.size
                     ELSE IF context # None THEN context.size ELSE 0
  /\ map # None /\ context # None =>
       map.reserved = context.size /\ map.reserved <= map.size

\* Every handler builds its snapshot through the constructor of WorkflowState,
\* which raises when _state_violation finds anything: no request, in any order,
\* makes it raise, but for the history keys (Archivable).
SnapshotsAreValid ==
  /\ SourcesDistinct
  /\ ApprovalsAreReceipted
  /\ ApprovalsAreHeld
  /\ assessment # None => assessment.sources = sources
  /\ PlanFitsStage
  /\ ProgressFollowsMap
  /\ ProgressIsWellFormed
  /\ HistoryLineage
  /\ OneCandidateInValidation
  /\ active # None <=> stage = "lecture_validation"
  /\ StopsAreCoherent
  /\ DiagnosticsAreCurrent
  /\ stage = "completed" =>
       \A l \in DOMAIN progress : progress[l].status = "accepted"

\* Building a snapshot may raise on a repeated history key.  The handoff lists
\* approve_map_reopen among the next actions of every workflow that is blocked
\* on a new source; this says that the action can then be taken.
ListedReopenIsAccepted ==
  stage \in NewSourceStages /\ pending # None => Archivable(Invalidated)

-----------------------------------------------------------------------------
(* Action properties                                                       *)

\* No draft is lost: when a lecture loses its candidate, to a new attempt or to
\* a reopening of the map, the candidate goes to the history with the attempt
\* it had and the map it was made under.
CandidatesAreArchived ==
  [][\A l \in DOMAIN progress :
       LET p == progress[l] IN
       /\ p.candidate # None
       /\ l \in DOMAIN progress' => progress'[l].attempt # p.attempt
       => \E h \in history' :
            /\ h.candidate = p.candidate
            /\ h.map_position = l
            /\ h.attempt = p.attempt
            /\ h.map_subject = SubjectOf(map)]_vars

\* A failure or a blocker costs nothing: leaving it restores the workflow as it
\* was, unless the owner reopens the map.
StopsAreTransparent ==
  [][issue # None /\ issue' = None =>
       \/ context' # None /\ context' # context
       \/ UNCHANGED <<stage, sources, assessment, basis, map, context, active,
                      progress, history>>]_vars

-----------------------------------------------------------------------------
(* The workflow implements the production of a course.                     *)

Wording ==
  [pending |-> "todo", candidate |-> "judging", retry_required |-> "redo",
   correction_required |-> "redo", accepted |-> "accepted"]

PlanAgreed == stage \in ProductionStage

Production_course ==
  IF PlanAgreed THEN [l \in DOMAIN progress |-> Wording[progress[l].status]]
                ELSE [l \in 1..Reserved |-> "todo"]

Abstract == INSTANCE CourseProduction WITH
  agreed    <- PlanAgreed,
  suspended <- issue # None,
  course    <- Production_course,
  delivered <- stage = "completed"

\* Every behaviour of the workflow is a behaviour of the abstract course:
\* agreed plans, one draft at a time, delivery exactly when all is accepted.
ImplementsCourseProduction == Abstract!ProductionSpec

=============================================================================
