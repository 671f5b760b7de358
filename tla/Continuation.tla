---------------------------- MODULE Continuation ----------------------------
(***************************************************************************)
(* What the application shows of a workflow snapshot: the handoff with the *)
(* actions that may come next (derive_workflow_handoff in workflow.py),    *)
(* the continuation with the evidence of the present stage                 *)
(* (reopen_course_workflow_continuation) and the evidence manifest of each *)
(* kind of semantic request (evidence_access.py).  All are functions of    *)
(* the snapshot; a value that may be absent is a set of at most one.       *)
(*                                                                         *)
(* An artifact is its kind and what it was recorded for; the assessment,   *)
(* the proposal and the hierarchy of one basis share its proposal value.   *)
(* The accepted priority review that the semantic operations may attach to *)
(* the continuation is not part of the snapshot and is left out.           *)
(***************************************************************************)
EXTENDS Workflow

\* SEMANTIC_KINDS that the scheduler asks for.
SemanticKinds ==
  {"source_assessment", "exam_priority_assessment", "lecture_map_generation",
   "lecture_generation", "semantic_correction", "semantic_review"}

\* The absent value is neither the code of an issue nor a kind of request.
ASSUME ContinuationAssumption ==
  /\ None \notin {"private_artifact_unavailable", "external_prerequisite_unavailable",
                   "new_source_review_required"}
  /\ \A s \in DOMAIN FailureCode : FailureCode[s] # None
  /\ None \notin SemanticKinds

-----------------------------------------------------------------------------
(* The handoff                                                             *)

IssueCode == IF issue = None THEN None ELSE issue.code

\* A normal stage and what can be done in it.
StageActions ==
  [source_assessment  |-> {"record_source_assessment",
                           "record_operation_failure", "mark_blocked"},
   priority_approval  |-> {"approve_priority_basis", "reject_priority_basis",
                           "mark_blocked"},
   lecture_mapping    |-> {"record_lecture_map", "record_operation_failure",
                           "mark_blocked"},
   map_approval       |-> {"approve_lecture_map", "reject_lecture_map",
                           "mark_blocked"},
   lecture_production |-> {"submit_lecture_candidate",
                           "record_operation_failure", "mark_blocked",
                           "record_new_source"},
   lecture_validation |-> {"record_candidate_validation",
                           "record_operation_failure", "mark_blocked",
                           "record_new_source"},
   completed          |-> {}]

SlipBlockedActions(code) ==
  IF \/ code \in {"private_artifact_unavailable", "new_source_review_required"}
        /\ <<stage, NormalDisposition[stage]>> \in PrivateArtifactBlockerStarts
     \/ code = "external_prerequisite_unavailable"
        /\ stage \in ExternalPrerequisiteBlockerStages
    THEN {"clear_blocker"} ELSE {}

BlockedActions(code) ==
  IF \/ code = "private_artifact_unavailable"
        /\ <<stage, NormalDisposition[stage]>> \in PrivateArtifactBlockerStarts
     \/ code = "external_prerequisite_unavailable"
        /\ stage \in ExternalPrerequisiteBlockerStages
    THEN {"clear_blocker"}
  ELSE IF code = "new_source_review_required" /\ stage \in NewSourceStages
    THEN {"dismiss_new_source", "approve_map_reopen"}
  ELSE {}

FailedActions(code) ==
  IF stage \in DOMAIN FailureCode /\ FailureCode[stage] = code
    THEN {"retry_failed"} ELSE {}

ActionsFor ==
  CASE disposition = "failed" -> FailedActions(IssueCode)
    [] disposition = "blocked" -> BlockedActions(IssueCode)
    [] disposition = NormalDisposition[stage] -> StageActions[stage]
    [] OTHER -> {}

SlipLegalActions == ActionsFor

\* A completed course can be reopened for correction, under contract v2.
LegalActions ==
  IF stage = "completed" /\ disposition = "completed"
    THEN {"reopen_lectures_for_correction"} ELSE ActionsFor

SlipAcceptedDocuments ==
  {progress[l].accepted_document :
     l \in {k \in DOMAIN progress : progress[k].status = "accepted"}}

\* ordered_accepted_documents: in map order, which is the order of the ids.
AcceptedDocuments ==
  {progress[l].accepted_document :
     l \in {k \in DOMAIN progress : progress[k].accepted_document # None}}

\* The lectures of the map, or of the baseline while there is none.
LectureIds ==
  1..(IF map # None THEN map.size ELSE Reserved)

Handoff ==
  [revision |-> revision,
   priority_approved |-> basis # None /\ basis.status = "approved",
   map_approved |-> map # None /\ map.status = "approved",
   lecture_ids |-> LectureIds,
   active_lecture_id |-> active,
   accepted_documents |-> AcceptedDocuments,
   diagnostic_codes |-> {d.code : d \in {e \in diagnostics : e.category # "warning"}},
   next_actions |-> LegalActions]

-----------------------------------------------------------------------------
(* The continuation                                                        *)

Artifact(kind, of) == [kind |-> kind, of |-> of]

Optional(condition, value) == IF condition THEN {value} ELSE {}

PlanningStage == {"priority_approval", "lecture_mapping"}
MappedStage   == {"map_approval"} \cup ProductionStage

\* The artifacts of the present stage.
PlanningArtifact(kind) ==
  IF stage \in PlanningStage THEN {Artifact(kind, basis.proposal)} ELSE {}

LectureMapArtifact ==
  IF stage \in MappedStage THEN {Artifact("lecture_map", map.reference)} ELSE {}

BaselineArtifact ==
  IF context # None THEN {Artifact("lecture_map", context.reference)} ELSE {}

ActiveCandidate ==
  IF stage = "lecture_validation" THEN {progress[active].candidate} ELSE {}

\* What the owner's decision and the clearing of a stop are bound to.
PrioritySubjectShown == PrioritySubject(basis.proposal)

MapSubjectShown == SubjectOf(map)

FailedWorkflow ==
  IF issue # None /\ issue.kind = "failure"
    THEN {[failure_code |-> issue.code, evidence |-> issue.subject.digest]}
    ELSE {}

BlockedWorkflow ==
  IF issue # None /\ issue.kind = "blocker"
    THEN {[blocker_code |-> issue.code, subject |-> issue.subject.digest]}
    ELSE {}

PendingSource ==
  IF pending # None THEN {pending.source} ELSE {}

\* ContinuationLectureProgress: what its constructor asks of a lecture.
ShowsProgress(p) ==
  /\ p.status = "retry_required" =>
       /\ p.candidate # None
       /\ p.validation # None
       /\ p.validation.disposition = "rejected"
       /\ p.accepted_document = None
  /\ p.status = "pending" =>
       /\ p.candidate = None
       /\ p.validation = None
       /\ p.accepted_document = None
  /\ p.status = "candidate" =>
       /\ p.candidate # None
       /\ p.validation = None
       /\ p.accepted_document = None
  /\ p.status \in {"accepted", "correction_required"} =>
       /\ p.candidate # None
       /\ p.accepted_document = p.candidate
       /\ p.validation # None
       /\ p.validation.disposition \in Passing

\* The parts that the present stage and disposition call for are there.
ShowsStage ==
  /\ stage \in PlanningStage => assessment # None /\ basis # None
  /\ stage \in MappedStage => map # None
  /\ stage = "lecture_validation" =>
       active \in DOMAIN progress /\ progress[active].candidate # None
  /\ disposition = "failed" <=> FailedWorkflow # {}
  /\ disposition = "blocked" <=> BlockedWorkflow # {}

\* WorkflowHandoff: what its constructor asks of a handoff.
HandoffIsValid ==
  /\ (IssueCode # None) <=> disposition \in {"blocked", "failed"}
  /\ IssueCode = None => disposition = NormalDisposition[stage]
  /\ disposition = "failed" =>
       stage \in DOMAIN FailureCode /\ FailureCode[stage] = IssueCode
  /\ IssueCode = "external_prerequisite_unavailable" =>
       stage \in ExternalPrerequisiteBlockerStages
  /\ IssueCode = "private_artifact_unavailable" => stage # "completed"
  /\ IssueCode = "new_source_review_required" => stage \in NewSourceStages
  /\ IssueCode = "new_source_review_required" <=> PendingSource # {}
  /\ stage = "completed" <=> disposition = "completed"
  /\ active # None => stage = "lecture_validation"
  /\ Handoff.map_approved => Handoff.lecture_ids # {}
  /\ \A d \in Handoff.accepted_documents :
       d.document_id \in Handoff.lecture_ids /\ d.order = d.document_id

-----------------------------------------------------------------------------
(* Evidence                                                                *)

\* The kind of semantic request that the scheduler derives from a snapshot;
\* a review is asked of a completed course by the mode of its job.
SemanticKind ==
  IF disposition # NormalDisposition[stage] THEN None
  ELSE CASE stage = "source_assessment" -> "source_assessment"
         [] stage = "priority_approval" -> "exam_priority_assessment"
         [] stage = "lecture_mapping"   -> "lecture_map_generation"
         [] stage = "lecture_production" ->
              IF \E l \in DOMAIN progress :
                   progress[l].status = "correction_required"
                THEN "semantic_correction" ELSE "lecture_generation"
         [] stage = "completed"         -> "semantic_review"
         [] OTHER                       -> None

PlanningArtifacts ==
  UNION {PlanningArtifact(k) :
           k \in {"source_assessment", "priority_proposal", "evidence_hierarchy"}}

\* Artifacts, sources and documents of the manifest of a kind.
ArtifactEvidence(kind) ==
  CASE kind = "exam_priority_assessment" -> PlanningArtifacts
    [] kind = "lecture_map_generation" -> PlanningArtifacts \cup BaselineArtifact
    [] kind \in {"lecture_generation", "semantic_review", "semantic_correction"} ->
         LectureMapArtifact \cup PlanningArtifact("priority_proposal")
    [] OTHER -> {}

SourceEvidence(kind) ==
  IF kind \in {"semantic_review", "semantic_correction"} THEN {} ELSE sources

DocumentEvidence(kind) ==
  IF kind \in {"semantic_review", "semantic_correction"} THEN AcceptedDocuments ELSE {}

-----------------------------------------------------------------------------
(* Properties                                                              *)

\* Every snapshot can be shown: whatever was decided, stopped or reopened
\* before, derive_workflow_handoff and reopen_course_workflow_continuation build
\* their projections, whose constructors raise on any part that is missing or
\* contradicts another.  A snapshot that could not be shown would leave no way
\* to go on.
ContinuationIsAvailable ==
  /\ HandoffIsValid
  /\ ShowsStage
  /\ \A l \in DOMAIN progress : ShowsProgress(progress[l])
  /\ context # None => context.size >= 1
  /\ Len(progress) = Cardinality(LectureIds)

\* What is listed can be done with what is shown: a client that takes an action
\* of the handoff and fills it in from the continuation is accepted.  The room
\* that the bounds leave and the repeated history key of a map reopening
\* (ListedReopenIsAccepted) are excepted.
ListedActionsAreAnswerable ==
  LET Listed(a) == a \in LegalActions IN
  revision < MaxRevision =>
    /\ Listed("approve_priority_basis") =>
         ENABLED ApprovePriorityBasis(PrioritySubjectShown)
    /\ Listed("reject_priority_basis") =>
         ENABLED RejectPriorityBasis(PrioritySubjectShown)
    /\ Listed("approve_lecture_map") => ENABLED ApproveLectureMap(MapSubjectShown)
    /\ Listed("reject_lecture_map") => ENABLED RejectLectureMap(MapSubjectShown)
    /\ Listed("retry_failed") =>
         \E f \in FailedWorkflow : ENABLED RetryFailed(f.failure_code, f.evidence)
    /\ Listed("clear_blocker") =>
         \E b \in BlockedWorkflow : ENABLED ClearBlocker(b.blocker_code, b.subject)
    /\ Listed("dismiss_new_source") =>
         \E s \in PendingSource : ENABLED DismissNewSource(s.digest)
    /\ Listed("approve_map_reopen") /\ Archivable(Invalidated) =>
         \E s \in PendingSource : ENABLED ApproveMapReopen(s.digest)
    /\ Listed("record_candidate_validation") =>
         \A verdict \in Verdict :
           \E d \in ActiveCandidate :
             ENABLED RecordCandidateValidation(active,
                       [document |-> d, policy |-> policy, disposition |-> verdict])
    /\ Listed("submit_lecture_candidate") =>
         \E l \in DOMAIN progress :
           /\ progress[l].status # "accepted"
           /\ \A d \in {x \in Document : x.document_id = l /\ x.order = l} :
                progress[l].attempt < MaxAttempt /\ Archivable(Superseded(l)) =>
                  ENABLED SubmitLectureCandidate(l, d)
    /\ Listed("reopen_lectures_for_correction") =>
         \A l \in LectureIds :
           ENABLED ReopenLecturesForCorrection({l}, Handoff.revision)

\* The model of a task sees its subject: a correction the accepted text of every
\* lecture that is to be corrected, a review the whole course and nothing but
\* the text that stands, a new map the map it replaces.  What assesses, plans or
\* writes sees the sources that the assessment in force is of, those for which
\* the owner had the map reopened among them and none that the owner dismissed;
\* a review and a correction see no sources.
EvidenceCoversTheWork ==
  /\ SemanticKind = "semantic_correction" =>
       \A l \in DOMAIN progress : progress[l].status = "correction_required" =>
         progress[l].candidate \in DocumentEvidence(SemanticKind)
  /\ SemanticKind = "semantic_review" =>
       {d.document_id : d \in DocumentEvidence(SemanticKind)} = LectureIds
  /\ SemanticKind = "lecture_map_generation" /\ context # None =>
       Artifact("lecture_map", context.reference) \in ArtifactEvidence(SemanticKind)
  /\ SemanticKind \in {"lecture_generation", "semantic_correction", "semantic_review"} =>
       Artifact("lecture_map", map.reference) \in ArtifactEvidence(SemanticKind)
  /\ \A d \in DocumentEvidence("semantic_review") :
       d = progress[d.document_id].candidate
  /\ SemanticKind \in {"source_assessment", "exam_priority_assessment",
                       "lecture_map_generation", "lecture_generation"} =>
       /\ assessment # None => SourceEvidence(SemanticKind) = assessment.sources
       /\ SourceEvidence(SemanticKind) \cap reviewed = {}
       /\ \A a \in Reopenings : \E s \in SourceEvidence(SemanticKind) :
            a.subject = SourceSubject(s.digest)

\* No step is taken that the handoff before it did not list.
StepsAreListed ==
  [][receipts' # receipts =>
       receipts'[Len(receipts')].action \in LegalActions]_vars

=============================================================================
