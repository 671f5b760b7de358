---------------------------- MODULE SnapshotProofs ----------------------------
(***************************************************************************)
(* What every snapshot of a workflow is good for, for every value of the   *)
(* constants, over the invariant of WorkflowProofs: the plan is in force,  *)
(* no constructor raises, and whatever the application shows of a snapshot *)
(* can be built.                                                           *)
(*                                                                         *)
(* What the owner decided is dated: a decision has the revision it led to, *)
(* and no two have the same.  The approval of the basis that stands comes  *)
(* after every reopening, that of the map after it; and every map that was *)
(* ever approved fits into the map that stands, or into the baseline that  *)
(* a reopening kept.  The rest of the validity rules follows.              *)
(*                                                                         *)
(* The handoff lists actions by stage, disposition and the code of the     *)
(* issue; IssueFitsStage says that the code is one that this stage can     *)
(* have.  With the invariant of the workflow every snapshot can be shown,  *)
(* every task sees its subject and every step was listed.                  *)
(***************************************************************************)
EXTENDS Continuation, WorkflowProofs, FiniteSetTheorems

-----------------------------------------------------------------------------
(* The invariant                                                           *)

\* A decision is dated with the revision it led to.
ApprovalsAreDated ==
  \A a \in approvals : a.state_revision <= revision

\* An assessment is of the sources at hand.
SourcesAreAssessed == assessment # None => assessment.sources = sources

\* What the owner had the map reopened for was taken into the evidence.
SourcesAreTaken ==
  \A a \in Reopenings : \E s \in sources : a.subject = SourceSubject(s.digest)

\* The basis was approved after every reopening, the map after the basis.
PlanIsOrdered ==
  /\ basis # None /\ basis.status = "approved" =>
       \A r \in Reopenings : r.state_revision < basis.approval.state_revision
  /\ map # None /\ map.status = "approved" =>
       basis.approval.state_revision < map.approval.state_revision

\* Every approved map fits into the one that stands or into the baseline.
BaselineIsLargest ==
  \A a \in ApprovedMaps :
    IF map # None /\ map.status = "approved"
      THEN a.subject.size <= map.size
      ELSE context # None /\ a.subject.size <= context.size

\* What is archived was made under an approved map, in one of its places.
HistoryIsApproved ==
  \A h \in history :
    /\ \E a \in ApprovedMaps : a.subject = h.map_subject
    /\ h.map_position <= h.map_subject.size

\* The inductive invariant, given WorkflowInv.
PlanInv ==
  /\ ApprovalsAreDated
  /\ ApprovalsAreReceipted
  /\ SourcesAreAssessed
  /\ SourcesAreTaken
  /\ PlanIsOrdered
  /\ BaselineIsLargest
  /\ MapsOnlyGrow
  /\ HistoryIsApproved
  /\ DiagnosticsAreCurrent

-----------------------------------------------------------------------------
(* The kinds of steps                                                      *)

\* The gate decisions are the requests that record an approval.
Decides(act, subject) ==
  /\ act \in DOMAIN GateOf
  /\ approvals' =
       approvals \cup {Approval(GateOf[act][1], GateOf[act][2], subject)}

\* Every request commits one receipt, and records an approval exactly if it
\* is a decision.
LEMMA EveryStepCommits ==
  ASSUME WorkflowInv, Next
  PROVE  \E act \in Action, subject \in Subject :
           /\ Commit(act, subject)
           /\ \/ act \notin DOMAIN GateOf /\ approvals' = approvals
              \/ Decides(act, subject)
<1> DEFINE P(act, subject) ==
      /\ Commit(act, subject)
      /\ \/ act \notin DOMAIN GateOf /\ approvals' = approvals
         \/ Decides(act, subject)
    Goal == \E act \in Action, subject \in Subject : P(act, subject)
<1> SUFFICES Goal OBVIOUS
<1>1. ASSUME NEW p \in Proposal, RecordSourceAssessment(p) PROVE Goal
  <2>1. P("record_source_assessment", PrioritySubject(p))
    BY <1>1 DEF RecordSourceAssessment, GateOf
  <2> QED BY <2>1, SubjectTyped DEF Action
<1>2. ASSUME NEW p \in Proposal, ApprovePriorityBasis(PrioritySubject(p)) PROVE Goal
  <2>1. P("approve_priority_basis", PrioritySubject(p))
    BY <1>2 DEF ApprovePriorityBasis, PriorityDecision, GateOf, Decides
  <2> QED BY <2>1, SubjectTyped DEF Action
<1>3. ASSUME NEW p \in Proposal, RejectPriorityBasis(PrioritySubject(p)) PROVE Goal
  <2>1. P("reject_priority_basis", PrioritySubject(p))
    BY <1>3 DEF RejectPriorityBasis, PriorityDecision, GateOf, Decides
  <2> QED BY <2>1, SubjectTyped DEF Action
<1>4. ASSUME NEW ref \in MapReference, NEW n \in MapSize, RecordLectureMap(ref, n)
      PROVE Goal
  <2>1. P("record_lecture_map", MapSubject(ref, n, Reserved))
    BY <1>4 DEF RecordLectureMap, GateOf
  <2>2. n \in 1..MaxLectures /\ Reserved \in 0..MaxLectures
    BY InputsAssumption DEF Reserved, WorkflowInv, TypeOK, MapReopenContext
  <2> QED BY <2>1, <2>2, SubjectTyped DEF Action
<1>5. ASSUME NEW ref \in MapReference, NEW n \in MapSize, NEW k \in 0..MaxLectures,
             ApproveLectureMap(MapSubject(ref, n, k))
      PROVE Goal
  <2>1. P("approve_lecture_map", MapSubject(ref, n, k))
    BY <1>5 DEF ApproveLectureMap, MapDecision, GateOf, Decides
  <2> QED BY <2>1, InputsAssumption, SubjectTyped DEF Action
<1>6. ASSUME NEW ref \in MapReference, NEW n \in MapSize, NEW k \in 0..MaxLectures,
             RejectLectureMap(MapSubject(ref, n, k))
      PROVE Goal
  <2>1. P("reject_lecture_map", MapSubject(ref, n, k))
    BY <1>6 DEF RejectLectureMap, MapDecision, GateOf, Decides
  <2> QED BY <2>1, InputsAssumption, SubjectTyped DEF Action
<1>7. ASSUME NEW l \in 1..MaxLectures, NEW d \in Document, SubmitLectureCandidate(l, d)
      PROVE Goal
  <2>1. P("submit_lecture_candidate", CandidateSubject(d))
    BY <1>7 DEF SubmitLectureCandidate, GateOf
  <2> QED BY <2>1, SubjectTyped DEF Action
<1>8. ASSUME NEW l \in 1..MaxLectures, NEW v \in Validation,
             RecordCandidateValidation(l, v)
      PROVE Goal
  <2>1. P("record_candidate_validation", CandidateSubject(progress[l].candidate))
    BY <1>8 DEF RecordCandidateValidation, GateOf
  <2>2. v.document = progress[l].candidate /\ v.document \in Document
    BY <1>8 DEF RecordCandidateValidation, EvidenceMatches, Validation
  <2> QED BY <2>1, <2>2, SubjectTyped DEF Action
<1>9. ASSUME NEW ids \in SUBSET (1..MaxLectures), NEW r \in 0..MaxRevision,
             ReopenLecturesForCorrection(ids, r)
      PROVE Goal
  <2>1. P("reopen_lectures_for_correction", CorrectionSubject(ids, r))
    BY <1>9 DEF ReopenLecturesForCorrection, GateOf
  <2> QED BY <2>1, InputsAssumption, SubjectTyped DEF Action
<1>10. ASSUME NEW s \in DOMAIN FailureCode, NEW x \in IssueDigest,
              RecordOperationFailure(FailureCode[s], x)
       PROVE Goal
  <2>1. P("record_operation_failure", IssueSubject(x))
    BY <1>10 DEF RecordOperationFailure, Stop, PlanAndCourse, GateOf
  <2> QED BY <2>1, SubjectTyped DEF Action
<1>11. ASSUME NEW s \in DOMAIN FailureCode, NEW x \in IssueDigest,
              RetryFailed(FailureCode[s], x)
       PROVE Goal
  <2>1. P("retry_failed", IssueSubject(x))
    BY <1>11 DEF RetryFailed, Resume, PlanAndCourse, GateOf
  <2> QED BY <2>1, SubjectTyped DEF Action
<1>12. ASSUME NEW c \in BlockerCode, NEW x \in IssueDigest, MarkBlocked(c, x)
       PROVE Goal
  <2>1. P("mark_blocked", IssueSubject(x))
    BY <1>12 DEF MarkBlocked, Stop, PlanAndCourse, GateOf
  <2> QED BY <2>1, SubjectTyped DEF Action
<1>13. ASSUME NEW c \in BlockerCode, NEW x \in IssueDigest, ClearBlocker(c, x)
       PROVE Goal
  <2>1. P("clear_blocker", IssueSubject(x))
    BY <1>13 DEF ClearBlocker, Resume, PlanAndCourse, GateOf
  <2> QED BY <2>1, SubjectTyped DEF Action
<1>14. ASSUME NEW s \in Source, RecordNewSource(s) PROVE Goal
  <2>1. P("record_new_source", SourceSubject(s.digest))
    BY <1>14 DEF RecordNewSource, Stop, PlanAndCourse, GateOf
  <2> QED BY <2>1, SubjectTyped DEF Action
<1>15. ASSUME NEW s \in Source, DismissNewSource(s.digest) PROVE Goal
  <2>1. P("dismiss_new_source", SourceSubject(s.digest))
    BY <1>15 DEF DismissNewSource, GateOf, Decides
  <2> QED BY <2>1, SubjectTyped DEF Action
<1>16. ASSUME NEW s \in Source, ApproveMapReopen(s.digest) PROVE Goal
  <2>1. P("approve_map_reopen", SourceSubject(s.digest))
    BY <1>16 DEF ApproveMapReopen, GateOf, Decides
  <2> QED BY <2>1, SubjectTyped DEF Action
<1> HIDE DEF Goal
<1> QED
  BY <1>1, <1>2, <1>3, <1>4, <1>5, <1>6, <1>7, <1>8, <1>9, <1>10, <1>11, <1>12,
     <1>13, <1>14, <1>15, <1>16
  DEF Next, Planning, Production, Interruption

\* A decision of the owner is a record of the gate, the subject and the revision
\* it leads to.
LEMMA DecisionsAreAppended ==
  ASSUME WorkflowInv, ApprovalsAreDated, Next
  PROVE  /\ revision' = revision + 1 /\ revision \in Nat
         /\ approvals \subseteq approvals'
         /\ \A a \in approvals' \ approvals : a.state_revision = revision'
<1>1. PICK act \in Action, subject \in Subject :
           /\ Commit(act, subject)
           /\ \/ act \notin DOMAIN GateOf /\ approvals' = approvals
              \/ Decides(act, subject)
  BY EveryStepCommits
<1>2. revision' = revision + 1 /\ revision \in Nat
  BY <1>1, CommitTyped DEF WorkflowInv, TypeOK
<1> QED BY <1>1, <1>2 DEF Decides, Approval

\* Decisions are dated with the revision they led to.
LEMMA ApprovalsAreDatedStep ==
  ASSUME WorkflowInv, ApprovalsAreDated, Next
  PROVE  ApprovalsAreDated'
<1>1. \A a \in approvals : a.state_revision \in Nat
  BY DEF WorkflowInv, TypeOK, ApprovalRecord
<1> QED BY <1>1, DecisionsAreAppended DEF ApprovalsAreDated

\* A decision is recorded with its receipt and never without.
LEMMA ApprovalsAreReceiptedStep ==
  ASSUME WorkflowInv, ApprovalsAreDated, ApprovalsAreReceipted, Next
  PROVE  ApprovalsAreReceipted'
<1>1. PICK act \in Action, subject \in Subject :
           /\ Commit(act, subject)
           /\ \/ act \notin DOMAIN GateOf /\ approvals' = approvals
              \/ Decides(act, subject)
  BY EveryStepCommits
<1>2. /\ revision' = revision + 1
      /\ revision \in Nat
      /\ receipts \in Seq(OperationReceipt)
      /\ Len(receipts) = revision + 1
  BY <1>1, CommitTyped DEF WorkflowInv, TypeOK
<1>3. /\ receipts' = Append(receipts, Receipt(act, subject))
      /\ \A i \in 1..(revision + 1) : receipts'[i] = receipts[i]
      /\ receipts'[revision + 2] = Receipt(act, subject)
  <2>1. receipts' = Append(receipts, Receipt(act, subject))
    BY <1>1 DEF Commit
  <2>2. Receipt(act, subject) \in OperationReceipt
    BY <1>1, <1>2 DEF Receipt, OperationReceipt
  <2> QED BY <2>1, <2>2, <1>2, AppendProperties
<1>4. \A a \in approvals : a.state_revision \in Nat /\ a.state_revision <= revision
  BY DEF ApprovalsAreDated, WorkflowInv, TypeOK, ApprovalRecord
<1>5. \A a \in approvals' \ approvals : a.state_revision = revision + 1
  BY <1>2, DecisionsAreAppended
<1> SUFFICES ASSUME NEW r \in 0..(revision + 1)
             PROVE  {<<<<a.gate, a.decision>>, a.subject>> :
                       a \in {b \in approvals' : b.state_revision = r}}
                      = IF receipts'[r + 1].action \in DOMAIN GateOf
                          THEN {<<GateOf[receipts'[r + 1].action],
                                  receipts'[r + 1].subject>>}
                          ELSE {}
  BY <1>2 DEF ApprovalsAreReceipted
<1>6. CASE r <= revision
  <2>1. {b \in approvals' : b.state_revision = r}
          = {b \in approvals : b.state_revision = r}
    BY <1>2, <1>5, <1>6, DecisionsAreAppended
  <2>2. receipts'[r + 1] = receipts[r + 1] BY <1>2, <1>3, <1>6
  <2>3. r \in 0..revision BY <1>2, <1>6
  <2> QED BY <2>1, <2>2, <2>3 DEF ApprovalsAreReceipted
<1>7. CASE r = revision + 1
  <2>1. receipts'[r + 1].action = act /\ receipts'[r + 1].subject = subject
    BY <1>2, <1>3, <1>7 DEF Receipt
  <2>2. {b \in approvals : b.state_revision = r} = {}
    BY <1>2, <1>4, <1>7
  <2>3. CASE act \notin DOMAIN GateOf /\ approvals' = approvals
    BY <2>1, <2>2, <2>3
  <2>4. CASE Decides(act, subject)
    <3> DEFINE a == Approval(GateOf[act][1], GateOf[act][2], subject)
    <3>1. {b \in approvals' : b.state_revision = r} = {a}
      BY <1>2, <1>7, <2>2, <2>4 DEF Decides, Approval
    <3>2. <<<<a.gate, a.decision>>, a.subject>> = <<GateOf[act], subject>>
      BY <2>4 DEF Decides, Approval, GateOf
    <3> QED BY <2>1, <2>4, <3>1, <3>2 DEF Decides
  <2> QED BY <1>1, <2>3, <2>4
<1> QED BY <1>2, <1>6, <1>7

-----------------------------------------------------------------------------
(* The plan                                                                *)

\* Every other request leaves the plan, its sources and its decisions alone.
PlanStays ==
  /\ UNCHANGED <<sources, assessment, basis, map, context>>
  /\ ApprovedMaps' = ApprovedMaps
  /\ Reopenings' = Reopenings

\* The requests that the plan depends on.
LEMMA PlanSteps ==
  ASSUME Next
  PROVE  \/ \E p \in Proposal : RecordSourceAssessment(p)
         \/ \E p \in Proposal : ApprovePriorityBasis(PrioritySubject(p))
         \/ \E p \in Proposal : RejectPriorityBasis(PrioritySubject(p))
         \/ \E ref \in MapReference, n \in MapSize : RecordLectureMap(ref, n)
         \/ \E m \in MapSubjects : ApproveLectureMap(m)
         \/ \E m \in MapSubjects : RejectLectureMap(m)
         \/ \E s \in Source : ApproveMapReopen(s.digest)
         \/ PlanStays
<1>1. CASE Planning
  BY <1>1, InputsAssumption, SubjectTyped DEF Planning
<1>2. CASE Production
  BY ZenonT(60), <1>2
  DEF Production, PlanStays, SubmitLectureCandidate, RecordCandidateValidation,
      ReopenLecturesForCorrection, ApprovedMaps, Reopenings
<1>3. CASE Interruption
  <2>1. ASSUME NEW s \in Source, DismissNewSource(s.digest)
        PROVE  PlanStays
    BY <2>1 DEF DismissNewSource, PlanStays, ApprovedMaps, Reopenings, Approval
  <2> QED
    BY <1>3, <2>1
    DEF Interruption, PlanStays, RecordOperationFailure, RetryFailed, MarkBlocked,
        ClearBlocker, RecordNewSource, Stop, Resume, PlanAndCourse, ApprovedMaps,
        Reopenings
<1> QED BY <1>1, <1>2, <1>3 DEF Next

\* An assessment is made of the sources at hand and given up when there are more.
LEMMA SourcesAreAssessedStep ==
  ASSUME SourcesAreAssessed, Next
  PROVE  SourcesAreAssessed'
<1>1. ASSUME NEW p, RecordSourceAssessment(p) PROVE assessment'.sources = sources'
  BY <1>1 DEF RecordSourceAssessment
<1>2. \/ \E p : RecordSourceAssessment(p)
      \/ assessment' = None
      \/ UNCHANGED <<assessment, sources>>
  <2>1. \A p : ApprovePriorityBasis(p) => UNCHANGED <<assessment, sources>>
    BY DEF ApprovePriorityBasis, PriorityDecision
  <2>2. \A p : RejectPriorityBasis(p) => assessment' = None
    BY DEF RejectPriorityBasis
  <2>3. \A m : ApproveLectureMap(m) \/ RejectLectureMap(m)
          => UNCHANGED <<assessment, sources>>
    BY DEF ApproveLectureMap, RejectLectureMap, MapDecision
  <2>4. \A ref, n : RecordLectureMap(ref, n) => UNCHANGED <<assessment, sources>>
    BY DEF RecordLectureMap
  <2>5. \A d : ApproveMapReopen(d) => assessment' = None
    BY DEF ApproveMapReopen
  <2> QED BY <2>1, <2>2, <2>3, <2>4, <2>5, PlanSteps DEF PlanStays
<1> QED BY <1>1, <1>2 DEF SourcesAreAssessed

\* A reopening takes its source into the evidence, and none is ever given up.
LEMMA SourcesAreTakenStep ==
  ASSUME SourcesAreTaken, Next
  PROVE  SourcesAreTaken'
<1>1. ASSUME NEW digest, ApproveMapReopen(digest) PROVE SourcesAreTaken'
  <2>1. /\ digest = pending.source.digest
        /\ sources' = sources \cup {pending.source}
    BY <1>1 DEF ApproveMapReopen, NewSourceUnderReview
  <2>2. \A a \in Reopenings' :
          a \in Reopenings \/ a.subject = SourceSubject(digest)
    BY <1>1 DEF ApproveMapReopen, Reopenings, Approval
  <2> QED BY <2>1, <2>2 DEF SourcesAreTaken
<1>2. \/ \E digest : ApproveMapReopen(digest)
      \/ sources' = sources /\ Reopenings' = Reopenings
  <2>1. \A p : ApprovePriorityBasis(p) \/ RejectPriorityBasis(p)
          => sources' = sources /\ Reopenings' = Reopenings
    BY DEF ApprovePriorityBasis, RejectPriorityBasis, PriorityDecision, Reopenings,
           Approval
  <2>2. \A m : ApproveLectureMap(m) \/ RejectLectureMap(m)
          => sources' = sources /\ Reopenings' = Reopenings
    BY DEF ApproveLectureMap, RejectLectureMap, MapDecision, Reopenings, Approval
  <2>3. \A p : RecordSourceAssessment(p)
          => sources' = sources /\ Reopenings' = Reopenings
    BY DEF RecordSourceAssessment, Reopenings
  <2>4. \A ref, n : RecordLectureMap(ref, n)
          => sources' = sources /\ Reopenings' = Reopenings
    BY DEF RecordLectureMap, Reopenings
  <2> QED BY <2>1, <2>2, <2>3, <2>4, PlanSteps DEF PlanStays
<1> QED BY <1>1, <1>2 DEF SourcesAreTaken

\* What _decide_priority makes of the basis.
LEMMA BasisApproved ==
  ASSUME WorkflowInv, NEW p \in Proposal, ApprovePriorityBasis(PrioritySubject(p))
  PROVE  /\ basis'.approval.state_revision = revision + 1
         /\ map' = map /\ map = None
         /\ Reopenings' = Reopenings
         /\ ApprovedMaps' = ApprovedMaps
<1>1. basis \in PriorityBasisRecord
  BY DEF ApprovePriorityBasis, PriorityDecision, BasisUnderDecision, WorkflowInv, TypeOK
<1>2. basis'.approval = Approval("priority_basis", "approved", PrioritySubject(p))
  BY <1>1 DEF ApprovePriorityBasis, PriorityBasisRecord
<1>3. map' = map /\ map = None
  BY DEF ApprovePriorityBasis, PriorityDecision, WorkflowInv, PlanFitsStage
<1> QED
  BY <1>2, <1>3
  DEF ApprovePriorityBasis, PriorityDecision, Approval, Reopenings, ApprovedMaps

\* What _decide_map makes of the map.
LEMMA MapApproved ==
  ASSUME WorkflowInv, WorkflowInv', NEW m \in MapSubjects, ApproveLectureMap(m)
  PROVE  /\ m = SubjectOf(map)
         /\ map'.status = "approved"
         /\ map'.approval = Approval("lecture_map", "approved", m)
         /\ map'.size = map.size /\ map'.reserved = map.reserved
         /\ map \in LectureMapRecord /\ map # None
         /\ map'.size = m.size /\ map'.reserved = m.reserved
         /\ map' # None
         /\ basis' = basis
         /\ Reopenings' = Reopenings
         /\ ApprovedMaps' =
              ApprovedMaps \cup {Approval("lecture_map", "approved", m)}
<1>1. map \in LectureMapRecord /\ map # None
  BY DEF ApproveLectureMap, MapDecision, WorkflowInv, TypeOK
<1>2. /\ m = SubjectOf(map)
      /\ map'.status = "approved"
      /\ map'.approval = Approval("lecture_map", "approved", m)
      /\ map'.size = map.size /\ map'.reserved = map.reserved
      /\ basis' = basis
      /\ approvals' = approvals \cup {Approval("lecture_map", "approved", m)}
      /\ stage' = "lecture_production"
  BY <1>1 DEF ApproveLectureMap, MapDecision, LectureMapRecord
<1>3. m.size = map.size /\ m.reserved = map.reserved
  BY <1>2 DEF SubjectOf, MapSubject
<1>4. map' # None
  BY <1>2 DEF WorkflowInv, PlanFitsStage
<1> QED BY <1>1, <1>2, <1>3, <1>4 DEF Approval, Reopenings, ApprovedMaps

\* The plan is approved in order: after a reopening the basis, then the map.
LEMMA PlanIsOrderedStep ==
  ASSUME WorkflowInv, WorkflowInv', ApprovalsAreDated, PlanIsOrdered, Next
  PROVE  PlanIsOrdered'
<1>1. /\ revision \in Nat
      /\ \A a \in approvals : a.state_revision \in Nat /\ a.state_revision <= revision
  BY DEF WorkflowInv, TypeOK, ApprovalRecord, ApprovalsAreDated
<1>2. ASSUME NEW p \in Proposal, RecordSourceAssessment(p) PROVE PlanIsOrdered'
  BY <1>2 DEF RecordSourceAssessment, PlanIsOrdered, WorkflowInv, PlanFitsStage
<1>3. ASSUME NEW p \in Proposal, ApprovePriorityBasis(PrioritySubject(p))
      PROVE  PlanIsOrdered'
  BY <1>1, <1>3, BasisApproved DEF PlanIsOrdered, Reopenings
<1>4. ASSUME NEW p \in Proposal, RejectPriorityBasis(PrioritySubject(p))
      PROVE  PlanIsOrdered'
  BY <1>4 DEF RejectPriorityBasis, PriorityDecision, PlanIsOrdered, WorkflowInv,
              PlanFitsStage
<1>5. ASSUME NEW ref, NEW n, RecordLectureMap(ref, n) PROVE PlanIsOrdered'
  BY <1>5 DEF RecordLectureMap, PlanIsOrdered, Reopenings
<1>6. ASSUME NEW m \in MapSubjects, ApproveLectureMap(m) PROVE PlanIsOrdered'
  <2>1. basis.approval \in approvals
    <3>1. basis \in PriorityBasisRecord /\ basis # None /\ basis.status # "proposed"
      BY <1>6 DEF ApproveLectureMap, MapDecision, WorkflowInv, TypeOK, PlanFitsStage
    <3> QED BY <3>1 DEF PriorityBasisRecord, WorkflowInv, ApprovalsAreHeld
  <2>2. map'.approval.state_revision = revision + 1
    <3>1. map'.approval = Approval("lecture_map", "approved", m)
      BY <1>6, MapApproved
    <3> QED BY <3>1 DEF Approval
  <2> QED BY <1>1, <1>6, <2>1, <2>2, MapApproved DEF PlanIsOrdered
<1>7. ASSUME NEW m \in MapSubjects, RejectLectureMap(m) PROVE PlanIsOrdered'
  BY <1>7 DEF RejectLectureMap, MapDecision, PlanIsOrdered, Reopenings, Approval
<1>8. ASSUME NEW d, ApproveMapReopen(d) PROVE PlanIsOrdered'
  BY <1>8 DEF ApproveMapReopen, PlanIsOrdered
<1>9. PlanStays => PlanIsOrdered'
  BY DEF PlanStays, PlanIsOrdered
<1> QED BY <1>2, <1>3, <1>4, <1>5, <1>6, <1>7, <1>8, <1>9, PlanSteps

\* What _approve_map_reopen keeps of the map.
LEMMA MapReopened ==
  ASSUME WorkflowInv, WorkflowInv', NEW d, ApproveMapReopen(d)
  PROVE  /\ map # None /\ map.status = "approved"
         /\ map' = None
         /\ context' # None /\ context'.size = map.size
         /\ ApprovedMaps' = ApprovedMaps
         /\ Len(progress') = map.size
<1>1. context'.size = map.size /\ map # None /\ map' = None /\ map.status = "approved"
  BY DEF ApproveMapReopen
<1>2. map \in LectureMapRecord /\ map.size \in Nat
  BY SMTT(30), <1>1, InputsAssumption DEF WorkflowInv, TypeOK, LectureMapRecord
<1>3. Len(progress') = map.size
  BY <1>2, PendingTyped DEF ApproveMapReopen
<1>4. context' # None
  <2>1. Len(progress') # 0
    BY <1>1, <1>2, <1>3, InputsAssumption DEF WorkflowInv, TypeOK, LectureMapRecord
  <2> QED BY <1>1, <2>1 DEF WorkflowInv, CourseInv, ProgressFollowsMap
<1> QED BY <1>1, <1>3, <1>4 DEF ApproveMapReopen, ApprovedMaps, Approval

\* A map that is recorded or rejected approves nothing.
LEMMA MapNotApproved ==
  ASSUME WorkflowInv
  PROVE  /\ \A p : RecordSourceAssessment(p) \/ ApprovePriorityBasis(p)
                     \/ RejectPriorityBasis(p)
               => map' = map /\ context' = context /\ ApprovedMaps' = ApprovedMaps
         /\ \A ref, n : RecordLectureMap(ref, n)
               => /\ map = None /\ map'.status = "proposed"
                  /\ context' = context /\ ApprovedMaps' = ApprovedMaps
         /\ \A m : RejectLectureMap(m)
               => /\ map # None /\ map.status = "proposed" /\ map' = None
                  /\ context' = context /\ ApprovedMaps' = ApprovedMaps
<1>1. ASSUME NEW p, RecordSourceAssessment(p) \/ ApprovePriorityBasis(p)
                     \/ RejectPriorityBasis(p)
      PROVE  map' = map /\ context' = context /\ ApprovedMaps' = ApprovedMaps
  BY <1>1 DEF RecordSourceAssessment, ApprovePriorityBasis, RejectPriorityBasis,
              PriorityDecision, ApprovedMaps, Approval
<1>2. ASSUME NEW ref, NEW n, RecordLectureMap(ref, n)
      PROVE  /\ map = None /\ map'.status = "proposed"
             /\ context' = context /\ ApprovedMaps' = ApprovedMaps
  BY <1>2 DEF RecordLectureMap, ApprovedMaps, WorkflowInv, PlanFitsStage
<1>3. ASSUME NEW m, RejectLectureMap(m)
      PROVE  /\ map # None /\ map.status = "proposed" /\ map' = None
             /\ context' = context /\ ApprovedMaps' = ApprovedMaps
  BY <1>3 DEF RejectLectureMap, MapDecision, ApprovedMaps, Approval
<1> QED BY <1>1, <1>2, <1>3

\* The approval of a map is about a map.
LEMMA ApprovedMapTyped ==
  ASSUME WorkflowInv, NEW a \in ApprovedMaps
  PROVE  /\ a.subject \in MapSubjects
         /\ a.subject.size \in Nat
         /\ a.state_revision \in Nat
<1>1. a \in ApprovalRecord /\ a.gate = "lecture_map"
  BY DEF WorkflowInv, TypeOK, ApprovedMaps
<1>2. a.subject \in MapSubjects /\ a.state_revision \in Nat
  BY <1>1 DEF ApprovalRecord
<1> QED BY <1>2, InputsAssumption DEF MapSubjects

\* No map that was ever approved is larger than the one that stands, or than the
\* baseline that a reopening kept of it.
LEMMA BaselineIsLargestStep ==
  ASSUME WorkflowInv, WorkflowInv', BaselineIsLargest, Next
  PROVE  BaselineIsLargest'
<1>1. ASSUME NEW p, RecordSourceAssessment(p) \/ ApprovePriorityBasis(p)
                     \/ RejectPriorityBasis(p)
      PROVE  BaselineIsLargest'
  BY <1>1, MapNotApproved DEF BaselineIsLargest
<1>2. ASSUME NEW ref, NEW n, RecordLectureMap(ref, n) PROVE BaselineIsLargest'
  BY <1>2, MapNotApproved DEF BaselineIsLargest
<1>3. ASSUME NEW m, RejectLectureMap(m) PROVE BaselineIsLargest'
  BY <1>3, MapNotApproved DEF BaselineIsLargest
<1>4. ASSUME NEW m \in MapSubjects, ApproveLectureMap(m) PROVE BaselineIsLargest'
  <2>1. map.status = "proposed" BY <1>4 DEF ApproveLectureMap, MapDecision
  <2>2. \A a \in ApprovedMaps : a.subject.size <= map.size
    <3> SUFFICES ASSUME NEW a \in ApprovedMaps PROVE a.subject.size <= map.size
      OBVIOUS
    <3>1. context # None /\ a.subject.size <= context.size
      BY <2>1 DEF BaselineIsLargest
    <3>2. map # None BY <1>4, MapApproved
    <3>3. map.reserved = context.size /\ map.reserved <= map.size
      BY <3>1, <3>2 DEF WorkflowInv, CourseInv, ProgressFollowsMap
    <3>4. a.subject.size \in Nat BY ApprovedMapTyped
    <3>5. map.size \in Nat /\ context.size \in Nat
      <4>1. map \in LectureMapRecord /\ context \in MapReopenContext
        BY <3>1, <3>2 DEF WorkflowInv, TypeOK
      <4>2. map.size \in 1..MaxLectures BY <4>1 DEF LectureMapRecord
      <4>3. context.size \in 1..MaxLectures BY <4>1 DEF MapReopenContext
      <4> QED BY <4>2, <4>3, InputsAssumption
    <3> QED BY <3>1, <3>3, <3>4, <3>5
  <2>3. Approval("lecture_map", "approved", m).subject = m BY DEF Approval
  <2>4. m.size = map'.size /\ map.size = map'.size /\ map'.size \in Nat
    BY <1>4, MapApproved, InputsAssumption DEF LectureMapRecord
  <2> QED BY <1>4, <2>2, <2>3, <2>4, MapApproved DEF BaselineIsLargest
<1>5. ASSUME NEW d, ApproveMapReopen(d) PROVE BaselineIsLargest'
  BY <1>5, MapReopened DEF BaselineIsLargest
<1>6. PlanStays => BaselineIsLargest'
  BY DEF PlanStays, BaselineIsLargest
<1> QED BY <1>1, <1>2, <1>3, <1>4, <1>5, <1>6, PlanSteps

\* A map that is approved after another reserves all its lectures.
LEMMA MapsOnlyGrowStep ==
  ASSUME WorkflowInv, WorkflowInv', ApprovalsAreDated, BaselineIsLargest,
         MapsOnlyGrow, Next
  PROVE  MapsOnlyGrow'
<1>1. \/ ApprovedMaps' = ApprovedMaps
      \/ \E m \in MapSubjects : ApproveLectureMap(m)
  BY MapNotApproved, MapReopened, PlanSteps DEF PlanStays
<1>2. ASSUME NEW m \in MapSubjects, ApproveLectureMap(m) PROVE MapsOnlyGrow'
  <2>1. PICK new : /\ ApprovedMaps' = ApprovedMaps \cup {new}
                   /\ new.subject = m
                   /\ new.state_revision = revision + 1
    <3>1. ApprovedMaps' = ApprovedMaps \cup {Approval("lecture_map", "approved", m)}
      BY <1>2, MapApproved
    <3>2. /\ Approval("lecture_map", "approved", m).subject = m
          /\ Approval("lecture_map", "approved", m).state_revision = revision + 1
      BY DEF Approval
    <3> QED BY <3>1, <3>2
  <2>2. /\ revision \in Nat
        /\ \A a \in ApprovedMaps : a.state_revision \in Nat /\ a.state_revision <= revision
    BY ApprovedMapTyped DEF WorkflowInv, TypeOK, ApprovalsAreDated, ApprovedMaps
  <2>3. \A a \in ApprovedMaps : a.subject.size <= m.reserved
    <3> SUFFICES ASSUME NEW a \in ApprovedMaps PROVE a.subject.size <= m.reserved
      OBVIOUS
    <3>1. context # None /\ a.subject.size <= context.size
      BY <1>2 DEF BaselineIsLargest, ApproveLectureMap, MapDecision
    <3>2. map.reserved = context.size
      BY <1>2, <3>1, MapApproved DEF WorkflowInv, CourseInv, ProgressFollowsMap
    <3> QED BY <1>2, <3>1, <3>2, MapApproved
  <2> QED BY <2>1, <2>2, <2>3 DEF MapsOnlyGrow
<1> QED BY <1>1, <1>2 DEF MapsOnlyGrow

-----------------------------------------------------------------------------
(* The history                                                             *)

\* The candidate that is archived was made under the approved map.
LEMMA HistoryIsApprovedStep ==
  ASSUME WorkflowInv, WorkflowInv', HistoryIsApproved, Next
  PROVE  HistoryIsApproved'
<1>1. ApprovedMaps \subseteq ApprovedMaps'
  BY MapNotApproved, MapReopened, MapApproved, PlanSteps DEF PlanStays
<1>2. ASSUME map # None, map.status = "approved",
             NEW l \in DOMAIN progress, NEW how,
             NEW h, h = HistoricalCandidate(l, SubjectOf(map), progress[l], how)
      PROVE  /\ \E a \in ApprovedMaps : a.subject = h.map_subject
             /\ h.map_position <= h.map_subject.size
  <2>1. h.map_subject = SubjectOf(map) /\ h.map_position = l
    BY <1>2 DEF HistoricalCandidate
  <2>2. map.approval \in ApprovedMaps /\ map.approval.subject = SubjectOf(map)
    BY <1>2 DEF WorkflowInv, ApprovalsAreHeld
  <2>3. SubjectOf(map).size = map.size BY DEF SubjectOf, MapSubject
  <2>4. l <= map.size
    BY SMTT(30), <1>2 DEF WorkflowInv, CourseInv, ProgressFollowsMap, TypeOK
  <2> QED BY <2>1, <2>2, <2>3, <2>4
<1>3. ASSUME NEW l, NEW d, SubmitLectureCandidate(l, d) PROVE HistoryIsApproved'
  <2>1. /\ history' = history \cup Superseded(l)
        /\ map # None /\ map.status = "approved" /\ l \in DOMAIN progress
    BY <1>3 DEF SubmitLectureCandidate
  <2> QED BY <1>1, <1>2, <2>1 DEF HistoryIsApproved, Superseded
<1>4. ASSUME NEW d, ApproveMapReopen(d) PROVE HistoryIsApproved'
  <2>1. /\ history' = history \cup Invalidated
        /\ map # None /\ map.status = "approved"
    BY <1>4 DEF ApproveMapReopen
  <2> QED BY <1>1, <1>2, <2>1 DEF HistoryIsApproved, Invalidated
<1>5. \/ history' = history
      \/ \E l, d : SubmitLectureCandidate(l, d)
      \/ \E d : ApproveMapReopen(d)
  BY DEF Next, Planning, Production, Interruption, RecordSourceAssessment,
         ApprovePriorityBasis, RejectPriorityBasis, PriorityDecision,
         RecordLectureMap, ApproveLectureMap, RejectLectureMap, MapDecision,
         RecordCandidateValidation, ReopenLecturesForCorrection,
         RecordOperationFailure, RetryFailed, MarkBlocked, ClearBlocker,
         RecordNewSource, DismissNewSource, Stop, Resume, PlanAndCourse
<1> QED BY <1>1, <1>3, <1>4, <1>5 DEF HistoryIsApproved

\* No lecture of an approved map is ever dropped, so the history speaks of
\* lectures that are still in the course.
LEMMA HistoryIsOfTheCourse ==
  ASSUME WorkflowInv, BaselineIsLargest, HistoryIsApproved
  PROVE  HistoryLineage
<1> SUFFICES ASSUME NEW h \in history
             PROVE  h.map_position \in DOMAIN progress
  BY DEF HistoryLineage, HistoryIsApproved
<1>1. PICK a \in ApprovedMaps : a.subject = h.map_subject
  BY DEF HistoryIsApproved
<1>2. h.map_position <= a.subject.size /\ a.subject.size \in Nat
  BY <1>1, ApprovedMapTyped DEF HistoryIsApproved
<1>3. h.map_position \in 1..MaxLectures
  BY DEF WorkflowInv, TypeOK, HistoricalCandidateRecord
<1>4. a.subject.size <= Len(progress)
  <2>1. CASE map # None /\ map.status = "approved"
    BY <2>1 DEF BaselineIsLargest, WorkflowInv, CourseInv, ProgressFollowsMap
  <2>2. CASE ~(map # None /\ map.status = "approved")
    <3>1. context # None /\ a.subject.size <= context.size
      BY <2>2 DEF BaselineIsLargest
    <3>2. context.size <= Len(progress) /\ context.size \in Nat
      <4>1. context.size \in Nat /\ Len(progress) \in Nat
        BY <3>1, InputsAssumption, LenProperties
        DEF WorkflowInv, TypeOK, MapReopenContext
      <4> QED BY <3>1, <4>1 DEF WorkflowInv, CourseInv, ProgressFollowsMap
    <3>3. Len(progress) \in Nat BY LenProperties DEF WorkflowInv, TypeOK
    <3> QED BY <1>2, <3>1, <3>2, <3>3
  <2> QED BY <2>1, <2>2
<1>5. DOMAIN progress = 1..Len(progress) /\ Len(progress) \in Nat
  BY LenProperties DEF WorkflowInv, TypeOK
<1>6. h.map_position \in Nat /\ h.map_position >= 1
  BY <1>3, InputsAssumption
<1>7. h.map_position <= Len(progress) BY <1>2, <1>4, <1>5, <1>6
<1> QED BY <1>5, <1>6, <1>7

-----------------------------------------------------------------------------
(* The diagnostics                                                         *)

\* The two halves of DiagnosticsAreCurrent.
IssueIsDiagnosed ==
  {d \in diagnostics : d.category # "warning"}
    = IF issue = None THEN {} ELSE {IssueDiagnostic(issue)}

Warned == {d.lecture : d \in {e \in diagnostics : e.category = "warning"}}

Warns(p) == p.candidate # None /\ p.candidate.warns

WarningsAreCurrent == Warned = {l \in DOMAIN progress : Warns(progress[l])}

\* A stop adds its diagnostic, the end of a stop takes it away.
LEMMA IssueIsDiagnosedStep ==
  ASSUME WorkflowInv, WorkflowInv', IssueIsDiagnosed, Next
  PROVE  IssueIsDiagnosed'
<1>1. ASSUME NEW i, NEW how \in {"blocked", "failed"}, issue = None, Stop(i, how)
      PROVE  IssueIsDiagnosed'
  <2>1. issue' # None
    BY <1>1, NormalDispositions
    DEF Stop, WorkflowInv, StopsAreCoherent, TypeOK, Stage
  <2>2. IssueDiagnostic(i).category # "warning" BY DEF IssueDiagnostic
  <2> QED BY <1>1, <2>1, <2>2 DEF IssueIsDiagnosed, Stop
<1>2. ASSUME issue' = None, diagnostics' \subseteq WithoutIssueDiagnostics
      PROVE  IssueIsDiagnosed'
  BY <1>2 DEF IssueIsDiagnosed, WithoutIssueDiagnostics
<1>3. ASSUME NEW l, NEW d, SubmitLectureCandidate(l, d) PROVE IssueIsDiagnosed'
  BY <1>3
  DEF SubmitLectureCandidate, IssueIsDiagnosed, WithoutCandidateWarnings,
      CandidateWarning
<1>4. \/ \E i : \E how \in {"blocked", "failed"} : issue = None /\ Stop(i, how)
      \/ issue' = None /\ diagnostics' \subseteq WithoutIssueDiagnostics
      \/ \E l, d : SubmitLectureCandidate(l, d)
      \/ UNCHANGED <<issue, diagnostics>>
  <2>1. CASE Planning
    BY <2>1 DEF Planning, RecordSourceAssessment, ApprovePriorityBasis,
                RejectPriorityBasis, PriorityDecision, RecordLectureMap,
                ApproveLectureMap, RejectLectureMap, MapDecision
  <2>2. CASE Production
    BY <2>2 DEF Production, RecordCandidateValidation, ReopenLecturesForCorrection
  <2>3. CASE Interruption
    <3>1. ASSUME NEW c, NEW x, RecordOperationFailure(c, x)
          PROVE  \E i : issue = None /\ Stop(i, "failed")
      BY <3>1 DEF RecordOperationFailure
    <3>2. ASSUME NEW c, NEW x, MarkBlocked(c, x)
          PROVE  \E i : issue = None /\ Stop(i, "blocked")
      BY <3>2 DEF MarkBlocked
    <3>3. ASSUME NEW x, RecordNewSource(x)
          PROVE  \E i : issue = None /\ Stop(i, "blocked")
      BY <3>3 DEF RecordNewSource
    <3>4. ASSUME NEW c, NEW x, RetryFailed(c, x) \/ ClearBlocker(c, x)
          PROVE  issue' = None /\ diagnostics' \subseteq WithoutIssueDiagnostics
      BY <3>4 DEF RetryFailed, ClearBlocker, Resume
    <3>5. ASSUME NEW x, DismissNewSource(x) \/ ApproveMapReopen(x)
          PROVE  issue' = None /\ diagnostics' \subseteq WithoutIssueDiagnostics
      BY <3>5 DEF DismissNewSource, ApproveMapReopen, WithoutCandidateWarnings
    <3> QED BY <2>3, <3>1, <3>2, <3>3, <3>4, <3>5 DEF Interruption
  <2> QED BY <2>1, <2>2, <2>3 DEF Next
<1> QED BY <1>1, <1>2, <1>3, <1>4 DEF IssueIsDiagnosed

\* A pending lecture warns of nothing.
LEMMA PendingIsQuiet ==
  ASSUME NEW pr, \A l \in DOMAIN pr : pr[l] = PendingLecture
  PROVE  {l \in DOMAIN pr : Warns(pr[l])} = {}
BY DEF Warns, PendingLecture

\* The warnings follow the candidates.
LEMMA WarningsAreCurrentStep ==
  ASSUME WorkflowInv, WorkflowInv', WarningsAreCurrent, Next
  PROVE  WarningsAreCurrent'
<1>1. CASE Warned' = Warned /\ progress' = progress
  BY <1>1 DEF WarningsAreCurrent
<1>2. CASE stage \notin ProductionStage /\ stage' \notin ProductionStage
             /\ Warned' = Warned
  BY <1>2, PendingIsQuiet
  DEF WarningsAreCurrent, WorkflowInv, CourseInv, NothingBeforeThePlan
<1>3. ASSUME NEW l \in 1..MaxLectures, NEW d \in Document, SubmitLectureCandidate(l, d)
      PROVE  WarningsAreCurrent'
  <2>1. /\ progress \in Seq(LectureProgress)
        /\ l \in DOMAIN progress
        /\ DOMAIN progress' = DOMAIN progress
        /\ \A k \in DOMAIN progress \ {l} : progress'[k] = progress[k]
        /\ progress'[l].candidate = d
    BY <1>3 DEF SubmitLectureCandidate, WorkflowInv, TypeOK
  <2>2. Warns(progress'[l]) <=> d.warns
    BY <2>1, NoneAssumption DEF Warns
  <2>3. Warned' = (Warned \ {l}) \cup (IF d.warns THEN {l} ELSE {})
    <3>1. diagnostics' = WithoutCandidateWarnings(diagnostics, {l})
                           \cup (IF d.warns THEN {CandidateWarning(l)} ELSE {})
      BY <1>3 DEF SubmitLectureCandidate
    <3>2. CandidateWarning(l).category = "warning" /\ CandidateWarning(l).lecture = l
      BY DEF CandidateWarning
    <3>3. {e.lecture : e \in {f \in WithoutCandidateWarnings(diagnostics, {l}) :
                                f.category = "warning"}} = Warned \ {l}
      BY DEF WithoutCandidateWarnings, Warned
    <3>4. CASE d.warns
      <4>1. {f \in diagnostics' : f.category = "warning"} =
              {f \in WithoutCandidateWarnings(diagnostics, {l}) :
                 f.category = "warning"} \cup {CandidateWarning(l)}
        BY <3>1, <3>2, <3>4
      <4> QED BY ZenonT(60), <3>2, <3>3, <3>4, <4>1 DEF Warned
    <3>5. CASE ~d.warns
      BY <3>1, <3>3, <3>5 DEF Warned
    <3> QED BY <3>4, <3>5
  <2> QED BY <2>1, <2>2, <2>3 DEF WarningsAreCurrent
<1>4. ASSUME diagnostics' = diagnostics, DOMAIN progress' = DOMAIN progress,
             \A l \in DOMAIN progress : progress'[l].candidate = progress[l].candidate
      PROVE  WarningsAreCurrent'
  BY <1>4 DEF WarningsAreCurrent, Warned, Warns
<1>5. ASSUME NEW l, NEW v \in Validation, RecordCandidateValidation(l, v)
      PROVE  WarningsAreCurrent'
  <2>1. progress[l] \in LectureProgress /\ l \in DOMAIN progress
    BY <1>5, LecturesArePositions DEF WorkflowInv, CourseInv, RecordCandidateValidation
  <2>2. ValidatedLecture(progress[l], v).candidate = progress[l].candidate
    BY <2>1 DEF ValidatedLecture, LectureProgress
  <2>3. /\ DOMAIN progress' = DOMAIN progress
        /\ \A k \in DOMAIN progress : progress'[k] =
             IF k = l THEN ValidatedLecture(progress[l], v) ELSE progress[k]
        /\ diagnostics' = diagnostics
    BY <1>5, <2>1 DEF RecordCandidateValidation, WorkflowInv, TypeOK
  <2> QED BY <1>4, <2>2, <2>3
<1>6. ASSUME NEW ids, NEW r, ReopenLecturesForCorrection(ids, r)
      PROVE  WarningsAreCurrent'
  <2>1. \A l \in DOMAIN progress : progress[l] \in LectureProgress
    BY LecturesArePositions DEF WorkflowInv, CourseInv
  <2>2. /\ DOMAIN progress' = DOMAIN progress
        /\ \A l \in DOMAIN progress :
             progress'[l].candidate = progress[l].candidate
        /\ diagnostics' = diagnostics
    BY <1>6, <2>1 DEF ReopenLecturesForCorrection, LectureProgress
  <2> QED BY <1>4, <2>2
<1>7. ASSUME NEW d, ApproveMapReopen(d) PROVE WarningsAreCurrent'
  <2>1. Warned' = {}
    BY <1>7
    DEF ApproveMapReopen, Warned, WithoutCandidateWarnings,
        WithoutIssueDiagnostics, WarningsAreCurrent
  <2>2. \A l \in DOMAIN progress' : progress'[l] = PendingLecture
    BY <1>7 DEF ApproveMapReopen, WorkflowInv, CourseInv, NothingBeforeThePlan,
                ProductionStage
  <2> QED BY <2>1, <2>2, PendingIsQuiet DEF WarningsAreCurrent
<1>8. ASSUME NEW m, ApproveLectureMap(m) PROVE WarningsAreCurrent'
  BY <1>1, <1>8 DEF ApproveLectureMap, MapDecision, Warned
<1>9. ASSUME NEW i, diagnostics' = diagnostics \cup {IssueDiagnostic(i)}
      PROVE  Warned' = Warned
  BY <1>9 DEF Warned, IssueDiagnostic
<1>10. ASSUME diagnostics' = WithoutIssueDiagnostics PROVE Warned' = Warned
  BY <1>10 DEF Warned, WithoutIssueDiagnostics
<1>11. CASE Planning
  <2>1. \/ \E m : ApproveLectureMap(m)
        \/ stage \notin ProductionStage /\ stage' \notin ProductionStage
             /\ diagnostics' = diagnostics
    BY <1>11
    DEF Planning, RecordSourceAssessment, ApprovePriorityBasis,
        RejectPriorityBasis, PriorityDecision, RecordLectureMap,
        RejectLectureMap, MapDecision, ProductionStage
  <2> QED BY <1>2, <1>8, <2>1 DEF Warned
<1>12. CASE Production
  BY <1>3, <1>5, <1>6, <1>12 DEF Production
<1>13. CASE Interruption
  <2>1. \/ \E d : ApproveMapReopen(d)
        \/ /\ progress' = progress
           /\ \/ \E i : diagnostics' = diagnostics \cup {IssueDiagnostic(i)}
              \/ diagnostics' = WithoutIssueDiagnostics
    BY <1>13
    DEF Interruption, RecordOperationFailure, RetryFailed, MarkBlocked,
        ClearBlocker, RecordNewSource, DismissNewSource, Stop, Resume, PlanAndCourse
  <2> QED BY <1>1, <1>7, <1>9, <1>10, <2>1
<1> QED BY <1>11, <1>12, <1>13 DEF Next

-----------------------------------------------------------------------------
(* The theorems                                                            *)

\* No request breaks the invariant (apply_workflow_request).
LEMMA PlanInvStep ==
  ASSUME WorkflowInv, WorkflowInv', PlanInv, [Next]_vars
  PROVE  PlanInv'
<1>1. CASE Next
  <2>1. IssueIsDiagnosed /\ WarningsAreCurrent
    BY DEF PlanInv, DiagnosticsAreCurrent, IssueIsDiagnosed, WarningsAreCurrent,
           Warned, Warns
  <2>2. IssueIsDiagnosed' /\ WarningsAreCurrent'
    BY <1>1, <2>1, IssueIsDiagnosedStep, WarningsAreCurrentStep
  <2>3. DiagnosticsAreCurrent'
    BY <2>2 DEF DiagnosticsAreCurrent, IssueIsDiagnosed, WarningsAreCurrent,
                Warned, Warns
  <2> QED
    BY <1>1, <2>3, ApprovalsAreDatedStep, ApprovalsAreReceiptedStep,
       SourcesAreAssessedStep, SourcesAreTakenStep, PlanIsOrderedStep,
       BaselineIsLargestStep, MapsOnlyGrowStep, HistoryIsApprovedStep
    DEF PlanInv
<1>2. CASE UNCHANGED vars
  BY <1>2
  DEF PlanInv, vars, ApprovalsAreDated, ApprovalsAreReceipted, SourcesAreAssessed,
      SourcesAreTaken, PlanIsOrdered, BaselineIsLargest, MapsOnlyGrow, HistoryIsApproved,
      DiagnosticsAreCurrent, ApprovedMaps, Reopenings
<1> QED BY <1>1, <1>2

\* _initialize establishes the invariant.
LEMMA PlanInvInitially ==
  ASSUME Init
  PROVE  PlanInv
<1>1. ApprovalsAreReceipted
  BY DEF Init, ApprovalsAreReceipted, GateOf
<1>2. DiagnosticsAreCurrent BY DEF Init, DiagnosticsAreCurrent
<1> QED
  BY <1>1, <1>2
  DEF Init, PlanInv, ApprovalsAreDated, SourcesAreAssessed, SourcesAreTaken,
      PlanIsOrdered, BaselineIsLargest, MapsOnlyGrow, HistoryIsApproved,
      ApprovedMaps, Reopenings

\* The decisions of the owner, the plan, the history and the diagnostics agree,
\* whatever is requested in whatever order.
THEOREM PlanInvariant == Spec => []PlanInv
<1>1. Init => PlanInv BY PlanInvInitially
<1>2. WorkflowInv /\ WorkflowInv' /\ PlanInv /\ [Next]_vars => PlanInv'
  BY PlanInvStep
<1> QED BY <1>1, <1>2, WorkflowInvariant, PTL DEF Spec

\* What the invariants say of the plan, at the stages that write and later.
LEMMA PlanStands ==
  ASSUME WorkflowInv, PlanInv
  PROVE  PlanInForce
<1> SUFFICES PlanIsCurrent BY DEF PlanInForce, PlanInv
<1> SUFFICES ASSUME stage \in ProductionStage
             PROVE  /\ assessment # None
                    /\ \E a \in approvals, b \in ApprovedMaps :
                         /\ a.gate = "priority_basis" /\ a.decision = "approved"
                         /\ a.subject = PrioritySubject(basis.proposal)
                         /\ b.subject = SubjectOf(map)
                         /\ a.state_revision < b.state_revision
                         /\ \A r \in Reopenings : r.state_revision < a.state_revision
  BY DEF PlanIsCurrent, PlanInv, SourcesAreAssessed
<1>1. /\ assessment # None
      /\ basis # None /\ basis.status # "proposed"
      /\ map # None /\ map.status # "proposed"
  BY DEF WorkflowInv, PlanFitsStage, ProductionStage
<1>2. basis.status = "approved" /\ map.status = "approved"
  BY <1>1 DEF WorkflowInv, TypeOK, PriorityBasisRecord, LectureMapRecord
<1>3. /\ basis.approval \in approvals
      /\ basis.approval.gate = "priority_basis"
      /\ basis.approval.decision = "approved"
      /\ basis.approval.subject = PrioritySubject(basis.proposal)
      /\ map.approval \in ApprovedMaps
      /\ map.approval.subject = SubjectOf(map)
  BY <1>1, <1>2 DEF WorkflowInv, ApprovalsAreHeld
<1>4. /\ basis.approval.state_revision < map.approval.state_revision
      /\ \A r \in Reopenings : r.state_revision < basis.approval.state_revision
  BY <1>1, <1>2 DEF PlanInv, PlanIsOrdered
<1> QED BY <1>1, <1>3, <1>4

\* The plan in force is the one the owner approved for the sources at hand, in
\* the order basis, map, after every reopening, and no lecture of an earlier
\* plan is missing from it (_decide_priority, _decide_map, _approve_map_reopen).
THEOREM ThePlanIsInForce == Spec => []PlanInForce
<1>1. WorkflowInv /\ PlanInv => PlanInForce BY PlanStands
<1> QED BY <1>1, WorkflowInvariant, PlanInvariant, PTL

\* What the constructor demands, from what the invariants say.
LEMMA ConstructorAccepts ==
  ASSUME WorkflowInv, PlanInv
  PROVE  SnapshotsAreValid
<1>1. HistoryLineage BY HistoryIsOfTheCourse DEF PlanInv
<1>2. stage = "completed" =>
        \A l \in DOMAIN progress : progress[l].status = "accepted"
  BY DEF WorkflowInv, CourseInv, CompletedIffAllAccepted, ProductionStage
<1> QED
  BY <1>1, <1>2
  DEF SnapshotsAreValid, WorkflowInv, CourseInv, PlanInv, SourcesAreAssessed,
      ActiveInValidation

\* The constructor of WorkflowState raises for no snapshot that the handlers
\* build, but for a repeated history key.
THEOREM SnapshotsStayValid == Spec => []SnapshotsAreValid
<1>1. WorkflowInv /\ PlanInv => SnapshotsAreValid BY ConstructorAccepts
<1> QED BY <1>1, WorkflowInvariant, PlanInvariant, PTL

-----------------------------------------------------------------------------
(* Issues and the stages that they stop                                    *)

\* The code of an issue is one that a stop in this stage has, and its subject
\* what was reported with it, unless it is a source.
IssueFitsStage ==
  issue # None =>
    /\ IF issue.kind = "failure"
         THEN stage \in DOMAIN FailureCode /\ issue.code = FailureCode[stage]
         ELSE /\ issue.kind = "blocker"
              /\ \/ /\ issue.code = "private_artifact_unavailable"
                    /\ stage \in Stage \ {"completed"}
                 \/ /\ issue.code = "external_prerequisite_unavailable"
                    /\ stage \in ExternalPrerequisiteBlockerStages
                 \/ /\ issue.code = "new_source_review_required"
                    /\ stage \in NewSourceStages
    /\ \/ issue.code = "new_source_review_required"
       \/ issue.subject = IssueSubject(issue.subject.digest)

\* The stages that can be stopped by each code (workflow_policy.py).
LEMMA StopStages ==
  /\ DOMAIN FailureCode = {"source_assessment", "lecture_mapping",
                           "lecture_production", "lecture_validation"}
  /\ ExternalPrerequisiteBlockerStages = DOMAIN FailureCode
  /\ \A s : <<s, NormalDisposition[s]>> \in PrivateArtifactBlockerStarts
              <=> s \in Stage \ {"completed"}
  /\ \A s \in Stage : NormalDisposition[s] \notin {"blocked", "failed"}
<1>1. \A s : <<s, NormalDisposition[s]>> \in PrivateArtifactBlockerStarts
              <=> s \in Stage \ {"completed"}
  BY DEF PrivateArtifactBlockerStarts
<1>2. \A s \in Stage : NormalDisposition[s] \notin {"blocked", "failed"}
  BY DEF NormalDisposition
<1> QED BY <1>1, <1>2 DEF FailureCode, ExternalPrerequisiteBlockerStages

\* A stop has a code of its stage, and the stage does not change under it.
LEMMA IssueFitsStageStep ==
  ASSUME WorkflowInv, IssueFitsStage, [Next]_vars
  PROVE  IssueFitsStage'
<1>1. ASSUME NEW s \in DOMAIN FailureCode, NEW x,
             RecordOperationFailure(FailureCode[s], x)
      PROVE  IssueFitsStage'
  <2>1. /\ issue'.kind = "failure" /\ issue'.code = FailureCode[stage]
        /\ stage' = stage /\ stage \in DOMAIN FailureCode
        /\ issue'.subject = IssueSubject(issue'.subject.digest)
    BY <1>1 DEF RecordOperationFailure, Stop, PlanAndCourse, IssueSubject
  <2> QED BY <2>1 DEF IssueFitsStage
<1>2. ASSUME NEW c \in BlockerCode, NEW x, MarkBlocked(c, x) PROVE IssueFitsStage'
  <2>1. /\ issue'.kind = "blocker" /\ issue'.code = c
        /\ stage' = stage /\ disposition = NormalDisposition[stage]
        /\ issue'.subject = IssueSubject(issue'.subject.digest)
    BY <1>2 DEF MarkBlocked, Stop, PlanAndCourse, IssueSubject
  <2>2. c \in {"private_artifact_unavailable", "external_prerequisite_unavailable"}
    BY InputsAssumption
  <2>3. IF c = "private_artifact_unavailable"
          THEN stage \in Stage \ {"completed"}
          ELSE stage \in ExternalPrerequisiteBlockerStages
    BY <1>2, <2>1, StopStages DEF MarkBlocked
  <2> QED BY <2>1, <2>2, <2>3 DEF IssueFitsStage
<1>3. ASSUME NEW s, RecordNewSource(s) PROVE IssueFitsStage'
  <2>1. /\ issue'.kind = "blocker" /\ issue'.code = "new_source_review_required"
        /\ stage' = stage /\ stage \in NewSourceStages
    BY <1>3 DEF RecordNewSource, Stop, PlanAndCourse
  <2> QED BY <2>1 DEF IssueFitsStage
<1>4. CASE issue' = None BY <1>4 DEF IssueFitsStage
<1>5. CASE UNCHANGED <<stage, issue>> BY <1>5 DEF IssueFitsStage
<1>6. issue # None => disposition \in {"blocked", "failed"}
  BY DEF WorkflowInv, StopsAreCoherent
<1>7. CASE Planning
  <2>1. issue = None /\ issue' = issue
    BY <1>6, <1>7
    DEF Planning, RecordSourceAssessment, ApprovePriorityBasis,
        RejectPriorityBasis, PriorityDecision, RecordLectureMap,
        ApproveLectureMap, RejectLectureMap, MapDecision
  <2> QED BY <1>4, <2>1
<1>8. CASE Production
  <2>1. issue = None /\ issue' = issue
    BY <1>6, <1>8
    DEF Production, SubmitLectureCandidate, RecordCandidateValidation,
        ReopenLecturesForCorrection
  <2> QED BY <1>4, <2>1
<1>9. CASE Interruption
  <2>1. \A x : DismissNewSource(x) \/ ApproveMapReopen(x) => issue' = None
    BY DEF DismissNewSource, ApproveMapReopen
  <2>2. \A c, x : RetryFailed(c, x) \/ ClearBlocker(c, x) => issue' = None
    BY DEF RetryFailed, ClearBlocker, Resume
  <2> QED BY <1>1, <1>2, <1>3, <1>4, <1>9, <2>1, <2>2 DEF Interruption
<1> QED BY <1>5, <1>7, <1>8, <1>9 DEF Next, vars

\* Issues fit the stage that they stop, through all requests.
THEOREM IssuesFit == Spec => []IssueFitsStage
<1>1. Init => IssueFitsStage BY DEF Init, IssueFitsStage
<1>2. WorkflowInv /\ IssueFitsStage /\ [Next]_vars => IssueFitsStage'
  BY IssueFitsStageStep
<1> QED BY <1>1, <1>2, WorkflowInvariant, PTL DEF Spec

-----------------------------------------------------------------------------
(* Listed steps                                                            *)

\* The actions of a stage that nothing stops.
LEMMA ListedInStage ==
  ASSUME disposition = NormalDisposition[stage], stage \in Stage,
         stage # "completed"
  PROVE  LegalActions = StageActions[stage]
BY StopStages, NormalDispositions DEF LegalActions, ActionsFor

\* The actions of a stop are those of its code.
LEMMA ListedWhenStopped ==
  ASSUME stage \in Stage, issue # None
  PROVE  /\ disposition = "failed" => LegalActions = FailedActions(issue.code)
         /\ disposition = "blocked" => LegalActions = BlockedActions(issue.code)
<1>1. IssueCode = issue.code BY DEF IssueCode
<1>2. NormalDisposition[stage] \notin {"blocked", "failed"} BY StopStages
<1>3. ASSUME disposition = "failed" PROVE ActionsFor = FailedActions(IssueCode)
  BY <1>2, <1>3, Zenon DEF ActionsFor
<1>4. ASSUME disposition = "blocked" PROVE ActionsFor = BlockedActions(IssueCode)
  BY <1>2, <1>4 DEF ActionsFor
<1>5. disposition \in {"blocked", "failed"} => LegalActions = ActionsFor
  BY DEF LegalActions
<1> QED BY <1>1, <1>3, <1>4, <1>5

\* Every request that changes the workflow commits a receipt for an action that
\* the handoff listed.
LEMMA StepIsListed ==
  ASSUME WorkflowInv, IssueFitsStage, Next
  PROVE  \E subject : \E act \in LegalActions :
           receipts' = Append(receipts, Receipt(act, subject))
<1> DEFINE Goal == \E subject : \E act \in LegalActions :
                     receipts' = Append(receipts, Receipt(act, subject))
<1> SUFFICES Goal OBVIOUS
<1>1. stage \in Stage BY DEF WorkflowInv, TypeOK
<1>2. ASSUME Planning PROVE Goal
  <2>1. ASSUME NEW p, RecordSourceAssessment(p) PROVE Goal
    BY <1>1, <2>1, ListedInStage, NormalDispositions
    DEF RecordSourceAssessment, Commit, StageActions
  <2>2. ASSUME NEW p, ApprovePriorityBasis(p) PROVE Goal
    BY <1>1, <2>2, ListedInStage, NormalDispositions
    DEF ApprovePriorityBasis, PriorityDecision, Commit, StageActions
  <2>3. ASSUME NEW p, RejectPriorityBasis(p) PROVE Goal
    BY <1>1, <2>3, ListedInStage, NormalDispositions
    DEF RejectPriorityBasis, PriorityDecision, Commit, StageActions
  <2>4. ASSUME NEW ref, NEW n, RecordLectureMap(ref, n) PROVE Goal
    BY <1>1, <2>4, ListedInStage, NormalDispositions
    DEF RecordLectureMap, Commit, StageActions
  <2>5. ASSUME NEW m, ApproveLectureMap(m) PROVE Goal
    BY <1>1, <2>5, ListedInStage, NormalDispositions
    DEF ApproveLectureMap, MapDecision, Commit, StageActions
  <2>6. ASSUME NEW m, RejectLectureMap(m) PROVE Goal
    BY <1>1, <2>6, ListedInStage, NormalDispositions
    DEF RejectLectureMap, MapDecision, Commit, StageActions
  <2> HIDE DEF Goal
  <2> QED BY <1>2, <2>1, <2>2, <2>3, <2>4, <2>5, <2>6 DEF Planning
<1>3. ASSUME Production PROVE Goal
  <2>1. ASSUME NEW l, NEW d, SubmitLectureCandidate(l, d) PROVE Goal
    BY <1>1, <2>1, ListedInStage, NormalDispositions
    DEF SubmitLectureCandidate, Commit, StageActions
  <2>2. ASSUME NEW l, NEW v, RecordCandidateValidation(l, v) PROVE Goal
    BY <1>1, <2>2, ListedInStage, NormalDispositions
    DEF RecordCandidateValidation, Commit, StageActions
  <2>3. ASSUME NEW ids, NEW r, ReopenLecturesForCorrection(ids, r) PROVE Goal
    BY <2>3 DEF ReopenLecturesForCorrection, Commit, LegalActions
  <2> HIDE DEF Goal
  <2> QED BY <1>3, <2>1, <2>2, <2>3 DEF Production
<1>4. ASSUME Interruption PROVE Goal
  <2>1. ASSUME NEW c, NEW x, RecordOperationFailure(c, x) PROVE Goal
    <3>1. "record_operation_failure" \in LegalActions
      BY <1>1, <2>1, ListedInStage, NormalDispositions, StopStages
      DEF RecordOperationFailure, StageActions, WorkflowInv, StopsAreCoherent
    <3> QED BY <2>1, <3>1 DEF RecordOperationFailure, Commit
  <2>2. ASSUME NEW c, NEW x, RetryFailed(c, x) PROVE Goal
    <3>1. "retry_failed" \in FailedActions(issue.code)
      BY <2>2 DEF RetryFailed, FailedActions, IssueFitsStage
    <3>2. LegalActions = FailedActions(issue.code)
      BY <1>1, <2>2, ListedWhenStopped DEF RetryFailed
    <3> QED BY <2>2, <3>1, <3>2 DEF RetryFailed, Commit
  <2>3. ASSUME NEW c \in BlockerCode, NEW x, MarkBlocked(c, x) PROVE Goal
    <3>1. stage # "completed"
      BY <2>3, StopStages, InputsAssumption DEF MarkBlocked
    <3>2. "mark_blocked" \in LegalActions
      BY <1>1, <2>3, <3>1, ListedInStage DEF MarkBlocked, StageActions, Stage
    <3> QED BY <2>3, <3>2 DEF MarkBlocked, Commit
  <2>4. ASSUME NEW c, NEW x, ClearBlocker(c, x) PROVE Goal
    <3>1. "clear_blocker" \in BlockedActions(issue.code)
      BY <2>4, StopStages DEF ClearBlocker, BlockedActions, IssueFitsStage
    <3>2. LegalActions = BlockedActions(issue.code)
      BY <1>1, <2>4, ListedWhenStopped DEF ClearBlocker
    <3> QED BY <2>4, <3>1, <3>2 DEF ClearBlocker, Commit
  <2>5. ASSUME NEW s, RecordNewSource(s) PROVE Goal
    BY <1>1, <2>5, ListedInStage, NormalDispositions
    DEF RecordNewSource, NewSourceStages, Commit, StageActions
  <2>6. ASSUME NEW d, DismissNewSource(d) \/ ApproveMapReopen(d) PROVE Goal
    <3>1. NewSourceUnderReview(d) BY <2>6 DEF DismissNewSource, ApproveMapReopen
    <3>2. BlockedActions(issue.code) = {"dismiss_new_source", "approve_map_reopen"}
      BY <3>1 DEF NewSourceUnderReview, BlockedActions, IssueFitsStage
    <3>3. LegalActions = BlockedActions(issue.code)
      BY <1>1, <3>1, ListedWhenStopped DEF NewSourceUnderReview
    <3> QED BY <2>6, <3>2, <3>3 DEF DismissNewSource, ApproveMapReopen, Commit
  <2> HIDE DEF Goal
  <2> QED BY <1>4, <2>1, <2>2, <2>3, <2>4, <2>5, <2>6 DEF Interruption
<1> QED BY <1>2, <1>3, <1>4 DEF Next

\* The receipt of a step.
LEMMA ReceiptIsListed ==
  ASSUME WorkflowInv, IssueFitsStage, [Next]_vars
  PROVE  receipts' # receipts =>
           receipts'[Len(receipts')].action \in LegalActions
<1> SUFFICES ASSUME Next
             PROVE  receipts'[Len(receipts')].action \in LegalActions
  BY DEF vars
<1>1. PICK subject : \E act \in LegalActions :
         receipts' = Append(receipts, Receipt(act, subject))
  BY StepIsListed
<1>2. PICK act \in LegalActions :
         receipts' = Append(receipts, Receipt(act, subject))
  BY <1>1
<1>3. receipts \in Seq(OperationReceipt) BY DEF WorkflowInv, TypeOK
<1>4. receipts'[Len(receipts')] = Receipt(act, subject)
  <2> DEFINE S == OperationReceipt \cup {Receipt(act, subject)}
  <2>1. receipts \in Seq(S) /\ Receipt(act, subject) \in S
    BY <1>3, SeqDef
  <2> HIDE DEF S
  <2> QED BY <1>2, <2>1, AppendProperties
<1> QED BY <1>4 DEF Receipt

\* No step is taken that the handoff before it did not list
\* (derive_workflow_handoff against the sixteen handlers).
THEOREM StepsStayListed == Spec => StepsAreListed
<1>1. WorkflowInv /\ IssueFitsStage /\ [Next]_vars =>
        [receipts' # receipts =>
           receipts'[Len(receipts')].action \in LegalActions]_vars
  BY ReceiptIsListed
<1> QED BY <1>1, WorkflowInvariant, IssuesFit, PTL DEF Spec, StepsAreListed

-----------------------------------------------------------------------------
(* What is shown                                                           *)

\* The code of an issue is not the absent value.
LEMMA StopsHaveACode ==
  ASSUME TypeOK
  PROVE  IssueCode = None <=> issue = None
<1>1. issue # None => issue.code # None
  BY ContinuationAssumption, InputsAssumption DEF TypeOK, Issue
<1> QED BY <1>1 DEF IssueCode

\* WorkflowHandoff accepts what is derived for it.
LEMMA HandoffValid ==
  ASSUME WorkflowInv, IssueFitsStage
  PROVE  HandoffIsValid
<1> USE DEF WorkflowInv
<1>1. stage \in Stage BY DEF TypeOK
<1>2. IssueCode = None <=> issue = None BY StopsHaveACode
<1>3. issue # None => IssueCode = issue.code BY DEF IssueCode
<1>4. NormalDisposition[stage] \notin {"blocked", "failed"} BY <1>1, StopStages
<1>5. (IssueCode # None) <=> disposition \in {"blocked", "failed"}
  BY <1>2, <1>4 DEF StopsAreCoherent
<1>6. IssueCode = None => disposition = NormalDisposition[stage]
  BY <1>2 DEF StopsAreCoherent
<1>7. disposition = "failed" =>
        stage \in DOMAIN FailureCode /\ FailureCode[stage] = IssueCode
  BY <1>2, <1>3, <1>5 DEF StopsAreCoherent, IssueFitsStage
<1>8. ASSUME issue # None, issue.kind = "failure"
      PROVE  issue.code \notin {"external_prerequisite_unavailable",
                                "private_artifact_unavailable",
                                "new_source_review_required"}
  BY <1>8 DEF IssueFitsStage, FailureCode
<1>9. IssueCode = "external_prerequisite_unavailable" =>
        stage \in ExternalPrerequisiteBlockerStages
  BY <1>2, <1>3, <1>8, ContinuationAssumption DEF IssueFitsStage
<1>10. IssueCode = "private_artifact_unavailable" => stage # "completed"
  BY <1>2, <1>3, <1>8, ContinuationAssumption DEF IssueFitsStage
<1>11. "new_source_review_required" # None BY ContinuationAssumption
<1>12. IssueCode = "new_source_review_required" =>
         stage \in NewSourceStages
  BY <1>2, <1>3, <1>8, <1>11 DEF IssueFitsStage
<1>13. IssueCode = "new_source_review_required" <=> PendingSource # {}
  BY <1>2, <1>3, <1>11 DEF StopsAreCoherent, PendingSource
<1>14. stage = "completed" <=> disposition = "completed"
  <2>1. NormalDisposition[stage] = "completed" <=> stage = "completed"
    BY <1>1 DEF NormalDisposition
  <2>2. issue # None => stage # "completed"
    BY StopStages DEF IssueFitsStage, NewSourceStages
  <2> QED BY <1>2, <1>5, <1>6, <2>1, <2>2
<1>15. active # None => stage = "lecture_validation"
  BY DEF CourseInv, ActiveInValidation
<1>16. Handoff.map_approved => Handoff.lecture_ids # {}
  <2>1. map # None => map.size \in 1..MaxLectures
    BY DEF TypeOK, LectureMapRecord
  <2>2. map # None => LectureIds = 1..map.size BY DEF LectureIds
  <2>3. map # None => 1 \in LectureIds BY <2>1, <2>2, InputsAssumption
  <2> QED BY <2>3 DEF Handoff
<1>17. \A d \in Handoff.accepted_documents :
         d.document_id \in Handoff.lecture_ids /\ d.order = d.document_id
  <2>1. \A l \in DOMAIN progress : progress[l].accepted_document # None =>
          /\ progress[l].accepted_document.document_id = l
          /\ progress[l].accepted_document.order = l
    BY DEF CourseInv, ProgressIsWellFormed, PendingLecture
  <2>2. DOMAIN progress = LectureIds
    BY LecturesArePositions
    DEF CourseInv, ProgressFollowsMap, LectureIds, Reserved
  <2> QED BY <2>1, <2>2 DEF Handoff, AcceptedDocuments
<1> QED
  BY <1>5, <1>6, <1>7, <1>9, <1>10, <1>12, <1>13, <1>14, <1>15, <1>16, <1>17
  DEF HandoffIsValid

\* The present stage has the parts that it shows.
LEMMA StageShown ==
  ASSUME WorkflowInv
  PROVE  ShowsStage
<1> USE DEF WorkflowInv
<1>1. stage \in Stage BY DEF TypeOK
<1>2. NormalDisposition[stage] \notin {"blocked", "failed"} BY <1>1, StopStages
<1>3. stage = "lecture_validation" =>
        active \in DOMAIN progress /\ progress[active].candidate # None
  BY DEF CourseInv, OneCandidateInValidation, Candidates, ProgressIsWellFormed
<1>4. issue # None => issue.kind \in {"blocker", "failure"} BY DEF TypeOK, Issue
<1>5. disposition = "failed" <=> FailedWorkflow # {}
  BY <1>2, <1>4 DEF StopsAreCoherent, FailedWorkflow
<1>6. disposition = "blocked" <=> BlockedWorkflow # {}
  BY <1>2, <1>4 DEF StopsAreCoherent, BlockedWorkflow
<1> QED
  BY <1>3, <1>5, <1>6
  DEF PlanFitsStage, ShowsStage, PlanningStage, MappedStage, ProductionStage

\* Every lecture has what its status calls for.
LEMMA ProgressShown ==
  ASSUME WorkflowInv, NEW l \in DOMAIN progress
  PROVE  ShowsProgress(progress[l])
<1> DEFINE p == progress[l]
<1>1. p \in LectureProgress
  BY LecturesArePositions DEF WorkflowInv, CourseInv
<1>2. p.validation # None => p.validation.disposition \in Passing \cup {"rejected"}
  BY <1>1, InputsAssumption DEF LectureProgress, Validation, Passing
<1>3. /\ IF p.status = "pending" THEN p = PendingLecture ELSE p.candidate # None
      /\ p.status = "candidate" => p.validation = None
      /\ p.status \in {"retry_required", "correction_required", "accepted"} =>
           /\ p.validation # None
           /\ p.validation.disposition = "rejected" <=> p.status = "retry_required"
      /\ p.accepted_document = IF p.status \in {"correction_required", "accepted"}
                                 THEN p.candidate ELSE None
  BY DEF WorkflowInv, CourseInv, ProgressIsWellFormed
<1> HIDE DEF p
<1>4. ShowsProgress(p) BY <1>2, <1>3 DEF ShowsProgress, PendingLecture, Passing
<1> QED BY <1>4 DEF p

\* What the projections demand, part by part.
LEMMA Shown ==
  ASSUME WorkflowInv, IssueFitsStage
  PROVE  ContinuationIsAvailable
<1>1. context # None => context.size \in 1..MaxLectures
  BY DEF WorkflowInv, TypeOK, MapReopenContext
<1>2. Len(progress) = Cardinality(LectureIds)
  <2>1. Len(progress) \in Nat /\ LectureIds = 1..Len(progress)
    BY LecturesArePositions
    DEF WorkflowInv, CourseInv, ProgressFollowsMap, LectureIds, Reserved
  <2>2. Cardinality(1..Len(progress)) =
          IF 1 > Len(progress) THEN 0 ELSE Len(progress) - 1 + 1
    BY SMTT(30), <2>1, FS_Interval
  <2> QED BY <2>1, <2>2
<1> QED
  BY <1>1, <1>2, HandoffValid, StageShown, ProgressShown, InputsAssumption
  DEF ContinuationIsAvailable

\* Whatever was decided, stopped or reopened before, the handoff and the
\* continuation can be built (derive_workflow_handoff and
\* reopen_course_workflow_continuation do not raise).
THEOREM SnapshotsCanBeShown == Spec => []ContinuationIsAvailable
<1>1. WorkflowInv /\ IssueFitsStage => ContinuationIsAvailable BY Shown
<1> QED BY <1>1, WorkflowInvariant, IssuesFit, PTL

-----------------------------------------------------------------------------
(* Evidence                                                                *)

\* The stage that a kind of request is derived in.
LEMMA KindsOfRequests ==
  ASSUME stage \in Stage
  PROVE  /\ SemanticKind = "semantic_correction" => stage = "lecture_production"
         /\ SemanticKind = "lecture_generation" => stage = "lecture_production"
         /\ SemanticKind = "semantic_review" => stage = "completed"
         /\ SemanticKind = "lecture_map_generation" => stage = "lecture_mapping"
<1>1. None \notin SemanticKinds BY ContinuationAssumption
<1> QED BY <1>1 DEF SemanticKind, SemanticKinds, Stage

\* What stands of a lecture is its candidate, in its own place.
LEMMA StandingDocuments ==
  ASSUME WorkflowInv
  PROVE  /\ DOMAIN progress = LectureIds
         /\ \A l \in DOMAIN progress :
              /\ progress[l].status \in {"accepted", "correction_required"} =>
                   /\ progress[l].accepted_document = progress[l].candidate
                   /\ progress[l].candidate # None
              /\ progress[l].accepted_document # None =>
                   /\ progress[l].accepted_document = progress[l].candidate
                   /\ progress[l].accepted_document.document_id = l
<1>1. DOMAIN progress = LectureIds
  BY LecturesArePositions
  DEF WorkflowInv, CourseInv, ProgressFollowsMap, LectureIds, Reserved
<1> QED BY <1>1 DEF WorkflowInv, CourseInv, ProgressIsWellFormed, PendingLecture

\* The subject of a task is among its evidence, kind by kind.
LEMMA SubjectIsSeen ==
  ASSUME WorkflowInv, PlanInv
  PROVE  EvidenceCoversTheWork
<1>1. stage \in Stage BY DEF WorkflowInv, TypeOK
<1>2. ASSUME SemanticKind = "semantic_correction", NEW l \in DOMAIN progress,
             progress[l].status = "correction_required"
      PROVE  progress[l].candidate \in DocumentEvidence(SemanticKind)
  <2>1. /\ progress[l].accepted_document # None
        /\ progress[l].candidate = progress[l].accepted_document
    BY <1>2, StandingDocuments
  <2>2. progress[l].candidate \in AcceptedDocuments
    BY <2>1 DEF AcceptedDocuments
  <2> QED BY <1>2, <2>2 DEF DocumentEvidence
<1>3. ASSUME SemanticKind = "semantic_review"
      PROVE  {d.document_id : d \in DocumentEvidence(SemanticKind)} = LectureIds
  <2>1. \A l \in DOMAIN progress : progress[l].status = "accepted"
    BY <1>1, <1>3, KindsOfRequests
    DEF WorkflowInv, CourseInv, CompletedIffAllAccepted, ProductionStage
  <2>2. \A l \in DOMAIN progress : /\ progress[l].accepted_document # None
                                   /\ progress[l].accepted_document.document_id = l
    BY <2>1, StandingDocuments
  <2>3. {d.document_id : d \in AcceptedDocuments} = DOMAIN progress
    <3>1. \A d \in AcceptedDocuments : d.document_id \in DOMAIN progress
      BY ONLY <2>2 DEF AcceptedDocuments
    <3>2. \A l \in DOMAIN progress :
            \E d \in AcceptedDocuments : d.document_id = l
      BY ONLY <2>2 DEF AcceptedDocuments
    <3> QED BY ONLY <3>1, <3>2
  <2> QED BY <1>3, <2>3, StandingDocuments DEF DocumentEvidence
<1>4. ASSUME SemanticKind = "lecture_map_generation", context # None
      PROVE  Artifact("lecture_map", context.reference)
               \in ArtifactEvidence(SemanticKind)
  BY <1>4 DEF ArtifactEvidence, BaselineArtifact
<1>5. ASSUME SemanticKind \in {"lecture_generation", "semantic_correction",
                               "semantic_review"}
      PROVE  Artifact("lecture_map", map.reference)
               \in ArtifactEvidence(SemanticKind)
  <2>1. stage \in MappedStage
    BY <1>1, <1>5, KindsOfRequests DEF MappedStage, ProductionStage
  <2> QED BY <1>5, <2>1 DEF ArtifactEvidence, LectureMapArtifact
<1>6. ASSUME NEW d \in DocumentEvidence("semantic_review")
      PROVE  d = progress[d.document_id].candidate
  BY <1>6, StandingDocuments DEF DocumentEvidence, AcceptedDocuments
<1>7. ASSUME SemanticKind \in {"source_assessment", "exam_priority_assessment",
                               "lecture_map_generation", "lecture_generation"}
      PROVE  /\ assessment # None => SourceEvidence(SemanticKind) = assessment.sources
             /\ SourceEvidence(SemanticKind) \cap reviewed = {}
             /\ \A a \in Reopenings : \E s \in SourceEvidence(SemanticKind) :
                  a.subject = SourceSubject(s.digest)
  <2>1. SourceEvidence(SemanticKind) = sources
    BY <1>7 DEF SourceEvidence
  <2> QED
    BY <2>1 DEF WorkflowInv, SourcesDistinct, PlanInv, SourcesAreAssessed,
                SourcesAreTaken
<1> QED BY <1>2, <1>3, <1>4, <1>5, <1>6, <1>7 DEF EvidenceCoversTheWork

\* Every semantic task is given what it judges: the accepted text that is to be
\* corrected or reviewed, the map it works under or replaces, and, where it uses
\* sources, those of the assessment in force with every source that reopened the
\* map and none that was dismissed (the manifests of evidence_access.py over the
\* continuation).
THEOREM TasksSeeTheirSubject == Spec => []EvidenceCoversTheWork
<1>1. WorkflowInv /\ PlanInv => EvidenceCoversTheWork BY SubjectIsSeen
<1> QED BY <1>1, WorkflowInvariant, PlanInvariant, PTL

-----------------------------------------------------------------------------
(* What is listed is accepted                                              *)

\* The conditions of the handlers, as far as they are about the snapshot and
\* what the client sends.
MayDecidePriority(subject) ==
  /\ stage = "priority_approval"
  /\ disposition = "awaiting_approval"
  /\ BasisUnderDecision(subject)

MayDecideMap(subject) ==
  /\ stage = "map_approval"
  /\ disposition = "awaiting_approval"
  /\ map # None
  /\ map.status = "proposed"
  /\ subject = SubjectOf(map)

MayRetry(code, evidence) ==
  /\ disposition = "failed"
  /\ issue # None
  /\ issue.kind = "failure"
  /\ issue.code = code
  /\ issue.subject = IssueSubject(evidence)

MayClear(code, subject) ==
  /\ disposition = "blocked"
  /\ issue # None
  /\ issue.kind = "blocker"
  /\ issue.code # "new_source_review_required"
  /\ issue.code = code
  /\ issue.subject = IssueSubject(subject)

MayReopenMap(digest) ==
  /\ NewSourceUnderReview(digest)
  /\ map # None
  /\ map.status = "approved"

MaySubmit(l, d) ==
  /\ stage = "lecture_production"
  /\ disposition = "ready"
  /\ map # None
  /\ map.status = "approved"
  /\ issue = None
  /\ l \in DOMAIN progress
  /\ \/ progress[l].status = "pending"
     \/ /\ progress[l].status \in {"retry_required", "correction_required"}
        /\ progress[l].candidate # None
  /\ d.document_id = l
  /\ d.order = l

MayValidate(l, v) ==
  /\ stage = "lecture_validation"
  /\ disposition = "ready"
  /\ active = l
  /\ l \in DOMAIN progress
  /\ progress[l].status = "candidate"
  /\ progress[l].candidate # None
  /\ EvidenceMatches(progress[l], v)

MayReopenLectures(ids, review_revision) ==
  /\ stage = "completed"
  /\ disposition = "completed"
  /\ map # None
  /\ map.status = "approved"
  /\ issue = None
  /\ pending = None
  /\ context = None
  /\ active = None
  /\ review_revision = revision
  /\ ids # {}
  /\ ids \subseteq 1..map.size
  /\ \A l \in ids : progress[l].status = "accepted"

\* The conditions are all there are: with room for a revision, a state in which
\* one holds has a successor by that handler, and here it is.
LEMMA PriorityCanBeApproved ==
  ASSUME revision < MaxRevision, NEW subject, MayDecidePriority(subject),
         NEW approval, approval = Approval("priority_basis", "approved", subject),
         vars' = <<revision + 1, "lecture_mapping", "ready", policy, sources,
                   reviewed, assessment,
                   [basis EXCEPT !.status = "approved", !.approval = approval],
                   map, context, active, pending, progress, history, issue,
                   approvals \cup {approval}, diagnostics,
                   Append(receipts, Receipt("approve_priority_basis", subject))>>
  PROVE  ApprovePriorityBasis(subject)
BY DEF vars, MayDecidePriority, ApprovePriorityBasis, PriorityDecision, Commit

LEMMA PriorityCanBeRejected ==
  ASSUME revision < MaxRevision, NEW subject, MayDecidePriority(subject),
         vars' = <<revision + 1, "source_assessment", "ready", policy, sources,
                   reviewed, None, None, map, context, active, pending, progress,
                   history, issue,
                   approvals \cup {Approval("priority_basis", "rejected", subject)},
                   diagnostics,
                   Append(receipts, Receipt("reject_priority_basis", subject))>>
  PROVE  RejectPriorityBasis(subject)
BY DEF vars, MayDecidePriority, RejectPriorityBasis, PriorityDecision, Commit

LEMMA MapCanBeApproved ==
  ASSUME revision < MaxRevision, NEW subject, MayDecideMap(subject),
         NEW approval, approval = Approval("lecture_map", "approved", subject),
         vars' = <<revision + 1, "lecture_production", "ready", policy, sources,
                   reviewed, assessment, basis,
                   [map EXCEPT !.status = "approved", !.approval = approval],
                   None, active, pending, progress, history, issue,
                   approvals \cup {approval}, diagnostics,
                   Append(receipts, Receipt("approve_lecture_map", subject))>>
  PROVE  ApproveLectureMap(subject)
BY DEF vars, MayDecideMap, ApproveLectureMap, MapDecision, Commit

LEMMA MapCanBeRejected ==
  ASSUME revision < MaxRevision, NEW subject, MayDecideMap(subject),
         vars' = <<revision + 1, "lecture_mapping", "ready", policy, sources,
                   reviewed, assessment, basis, None, context, active, pending,
                   BaselineProgress, history, issue,
                   approvals \cup {Approval("lecture_map", "rejected", subject)},
                   diagnostics,
                   Append(receipts, Receipt("reject_lecture_map", subject))>>
  PROVE  RejectLectureMap(subject)
BY DEF vars, MayDecideMap, RejectLectureMap, MapDecision, Commit

LEMMA FailureCanBeRetried ==
  ASSUME revision < MaxRevision, NEW code, NEW evidence, MayRetry(code, evidence),
         vars' = <<revision + 1, stage, NormalDisposition[stage], policy, sources,
                   reviewed, assessment, basis, map, context, active, pending,
                   progress, history, None, approvals, WithoutIssueDiagnostics,
                   Append(receipts,
                          Receipt("retry_failed", IssueSubject(evidence)))>>
  PROVE  RetryFailed(code, evidence)
BY DEF vars, MayRetry, RetryFailed, Resume, PlanAndCourse, Commit

LEMMA BlockerCanBeCleared ==
  ASSUME revision < MaxRevision, NEW code, NEW subject, MayClear(code, subject),
         vars' = <<revision + 1, stage, issue.resume_disposition, policy, sources,
                   reviewed, assessment, basis, map, context, active, pending,
                   progress, history, None, approvals, WithoutIssueDiagnostics,
                   Append(receipts,
                          Receipt("clear_blocker", IssueSubject(subject)))>>
  PROVE  ClearBlocker(code, subject)
BY DEF vars, MayClear, ClearBlocker, Resume, PlanAndCourse, Commit

LEMMA SourceCanBeDismissed ==
  ASSUME revision < MaxRevision, NEW digest, NewSourceUnderReview(digest),
         vars' = <<revision + 1, DetectedStage, issue.resume_disposition, policy,
                   sources, reviewed \cup {pending.source}, assessment, basis,
                   map, context, active, None, progress, history, None,
                   approvals \cup {Approval("new_source_irrelevant", "approved",
                                            SourceSubject(digest))},
                   WithoutIssueDiagnostics,
                   Append(receipts,
                          Receipt("dismiss_new_source", SourceSubject(digest)))>>
  PROVE  DismissNewSource(digest)
BY DEF vars, DismissNewSource, Commit

LEMMA MapCanBeReopened ==
  ASSUME revision < MaxRevision, NEW digest, MayReopenMap(digest),
         Archivable(Invalidated),
         vars' = <<revision + 1, "source_assessment", "ready", policy,
                   sources \cup {pending.source}, reviewed, None, None, None,
                   [reference |-> map.reference, size |-> map.size,
                    reserved |-> map.reserved, approval |-> map.approval,
                    created_revision |-> revision + 1],
                   None, None, AllPending(map.size), history \cup Invalidated,
                   None,
                   approvals \cup {Approval("map_reopen", "approved",
                                            SourceSubject(digest))},
                   WithoutCandidateWarnings(WithoutIssueDiagnostics,
                                            DOMAIN progress),
                   Append(receipts,
                          Receipt("approve_map_reopen", SourceSubject(digest)))>>
  PROVE  ApproveMapReopen(digest)
BY DEF vars, MayReopenMap, ApproveMapReopen, Commit

LEMMA CandidateCanBeSubmitted ==
  ASSUME revision < MaxRevision, NEW l, NEW d, MaySubmit(l, d),
         progress[l].attempt < MaxAttempt, Archivable(Superseded(l)),
         vars' = <<revision + 1, "lecture_validation", "ready", policy, sources,
                   reviewed, assessment, basis, map, context, l, pending,
                   [progress EXCEPT ![l] =
                      [status |-> "candidate", attempt |-> @.attempt + 1,
                       candidate |-> d, validation |-> None,
                       accepted_document |-> None]],
                   history \cup Superseded(l), issue, approvals,
                   WithoutCandidateWarnings(diagnostics, {l})
                     \cup (IF d.warns THEN {CandidateWarning(l)} ELSE {}),
                   Append(receipts,
                          Receipt("submit_lecture_candidate",
                                  CandidateSubject(d)))>>
  PROVE  SubmitLectureCandidate(l, d)
BY DEF vars, MaySubmit, SubmitLectureCandidate, Commit

LEMMA CandidateCanBeValidated ==
  ASSUME revision < MaxRevision, NEW l, NEW v, MayValidate(l, v),
         NEW validated,
         validated = [progress EXCEPT ![l] = ValidatedLecture(@, v)],
         NEW complete,
         complete = (v.disposition # "rejected" /\ Complete(validated)),
         vars' = <<revision + 1,
                   IF complete THEN "completed" ELSE "lecture_production",
                   IF complete THEN "completed" ELSE "ready",
                   policy, sources, reviewed, assessment, basis, map, context,
                   None, pending, validated, history, issue, approvals,
                   diagnostics,
                   Append(receipts,
                          Receipt("record_candidate_validation",
                                  CandidateSubject(progress[l].candidate)))>>
  PROVE  RecordCandidateValidation(l, v)
BY DEF vars, MayValidate, RecordCandidateValidation, Commit

LEMMA LecturesCanBeReopened ==
  ASSUME revision < MaxRevision, NEW ids, NEW r, MayReopenLectures(ids, r),
         vars' = <<revision + 1, "lecture_production", "ready", policy, sources,
                   reviewed, assessment, basis, map, context, active, pending,
                   [l \in DOMAIN progress |->
                      IF l \in ids
                        THEN [progress[l] EXCEPT !.status = "correction_required"]
                        ELSE progress[l]],
                   history, issue, approvals, diagnostics,
                   Append(receipts,
                          Receipt("reopen_lectures_for_correction",
                                  CorrectionSubject(ids, r)))>>
  PROVE  ReopenLecturesForCorrection(ids, r)
BY DEF vars, MayReopenLectures, ReopenLecturesForCorrection, Commit

\* What is listed, with what is shown, meets the conditions.
ListedActionsAreAccepted ==
  LET Listed(a) == a \in LegalActions IN
  /\ Listed("approve_priority_basis") \/ Listed("reject_priority_basis") =>
       MayDecidePriority(PrioritySubjectShown)
  /\ Listed("approve_lecture_map") \/ Listed("reject_lecture_map") =>
       MayDecideMap(MapSubjectShown)
  /\ Listed("retry_failed") =>
       \E f \in FailedWorkflow : MayRetry(f.failure_code, f.evidence)
  /\ Listed("clear_blocker") =>
       \E b \in BlockedWorkflow : MayClear(b.blocker_code, b.subject)
  /\ Listed("dismiss_new_source") =>
       \E s \in PendingSource : NewSourceUnderReview(s.digest)
  /\ Listed("approve_map_reopen") =>
       \E s \in PendingSource : MayReopenMap(s.digest)
  /\ Listed("record_candidate_validation") =>
       \A verdict : \E d \in ActiveCandidate :
         MayValidate(active, [document |-> d, policy |-> policy,
                              disposition |-> verdict])
  /\ Listed("submit_lecture_candidate") =>
       \E l \in DOMAIN progress :
         /\ progress[l].status # "accepted"
         /\ \A d : d.document_id = l /\ d.order = l => MaySubmit(l, d)
  /\ Listed("reopen_lectures_for_correction") =>
       \A l \in LectureIds : MayReopenLectures({l}, Handoff.revision)

\* How a workflow is stopped, if it is, decides what is listed.
LEMMA WhatIsListed ==
  ASSUME WorkflowInv, IssueFitsStage
  PROVE  /\ stage = "completed" =>
              /\ disposition = "completed" /\ issue = None
              /\ LegalActions = {"reopen_lectures_for_correction"}
         /\ stage # "completed" /\ issue = None =>
              /\ disposition = NormalDisposition[stage]
              /\ LegalActions = StageActions[stage]
         /\ issue # None =>
              /\ disposition = IF issue.kind = "blocker" THEN "blocked" ELSE "failed"
              /\ LegalActions = IF issue.kind = "blocker"
                                  THEN BlockedActions(issue.code)
                                  ELSE FailedActions(issue.code)
<1>1. stage \in Stage BY DEF WorkflowInv, TypeOK
<1>2. /\ issue = None <=> disposition = NormalDisposition[stage]
      /\ issue # None =>
           disposition = IF issue.kind = "blocker" THEN "blocked" ELSE "failed"
  BY DEF WorkflowInv, StopsAreCoherent
<1>3. stage = "completed" => issue = None
  BY StopStages DEF IssueFitsStage, NewSourceStages
<1>4. stage = "completed" => NormalDisposition[stage] = "completed"
  BY <1>1 DEF NormalDisposition
<1>5. stage = "completed" /\ disposition = "completed" =>
        LegalActions = {"reopen_lectures_for_correction"}
  BY DEF LegalActions
<1> QED BY <1>1, <1>2, <1>3, <1>4, <1>5, ListedInStage, ListedWhenStopped

\* The stage of an action.
LEMMA StageOfAction ==
  ASSUME stage \in Stage \ {"completed"}
  PROVE  LET Of(a) == a \in StageActions[stage] IN
         /\ Of("approve_priority_basis") \/ Of("reject_priority_basis") =>
              stage = "priority_approval"
         /\ Of("approve_lecture_map") \/ Of("reject_lecture_map") =>
              stage = "map_approval"
         /\ Of("submit_lecture_candidate") => stage = "lecture_production"
         /\ Of("record_candidate_validation") => stage = "lecture_validation"
         /\ \A a \in {"retry_failed", "clear_blocker", "dismiss_new_source",
                      "approve_map_reopen", "reopen_lectures_for_correction"} :
              ~Of(a)
BY DEF Stage, StageActions

LEMMA StoppedActionsAccepted ==
  ASSUME WorkflowInv, IssueFitsStage
  PROVE  /\ "retry_failed" \in LegalActions =>
              \E f \in FailedWorkflow : MayRetry(f.failure_code, f.evidence)
         /\ "clear_blocker" \in LegalActions =>
              \E b \in BlockedWorkflow : MayClear(b.blocker_code, b.subject)
         /\ "dismiss_new_source" \in LegalActions =>
              \E s \in PendingSource : NewSourceUnderReview(s.digest)
         /\ "approve_map_reopen" \in LegalActions =>
              \E s \in PendingSource : MayReopenMap(s.digest)
<1>1. stage \in Stage BY DEF WorkflowInv, TypeOK
<1>2. issue # None => issue.kind \in {"blocker", "failure"}
  BY DEF WorkflowInv, TypeOK, Issue
<1>3. ASSUME NEW a \in LegalActions,
             a \in {"retry_failed", "clear_blocker", "dismiss_new_source",
                    "approve_map_reopen"}
      PROVE  /\ issue # None
             /\ a = "retry_failed" =>
                  /\ issue.kind = "failure" /\ disposition = "failed"
                  /\ issue.code # "new_source_review_required"
             /\ a # "retry_failed" =>
                  issue.kind = "blocker" /\ disposition = "blocked"
             /\ a = "clear_blocker" => issue.code # "new_source_review_required"
             /\ a \in {"dismiss_new_source", "approve_map_reopen"} =>
                  /\ issue.code = "new_source_review_required"
                  /\ stage \in NewSourceStages
  <2>1. issue # None BY <1>1, <1>3, WhatIsListed, StageOfAction
  <2>2. CASE issue.kind = "failure"
    BY <1>3, <2>1, <2>2, WhatIsListed
    DEF FailedActions, IssueFitsStage, FailureCode
  <2>3. CASE issue.kind = "blocker"
    BY <1>3, <2>1, <2>3, WhatIsListed DEF BlockedActions
  <2> QED BY <1>2, <2>1, <2>2, <2>3
<1>4. ASSUME issue # None, issue.code # "new_source_review_required"
      PROVE  issue.subject = IssueSubject(issue.subject.digest)
  BY <1>4 DEF IssueFitsStage
<1>5. ASSUME "retry_failed" \in LegalActions
      PROVE  \E f \in FailedWorkflow : MayRetry(f.failure_code, f.evidence)
  <2> DEFINE f == [failure_code |-> issue.code, evidence |-> issue.subject.digest]
  <2>1. MayRetry(f.failure_code, f.evidence)
    BY <1>3, <1>4, <1>5 DEF MayRetry
  <2>2. f \in FailedWorkflow BY <1>3, <1>5 DEF FailedWorkflow
  <2> QED BY <2>1, <2>2
<1>6. ASSUME "clear_blocker" \in LegalActions
      PROVE  \E b \in BlockedWorkflow : MayClear(b.blocker_code, b.subject)
  <2> DEFINE b == [blocker_code |-> issue.code, subject |-> issue.subject.digest]
  <2>1. MayClear(b.blocker_code, b.subject)
    BY <1>3, <1>4, <1>6 DEF MayClear
  <2>2. b \in BlockedWorkflow BY <1>3, <1>6 DEF BlockedWorkflow
  <2> QED BY <2>1, <2>2
<1>7. ASSUME NEW a \in LegalActions, a \in {"dismiss_new_source", "approve_map_reopen"}
      PROVE  /\ PendingSource = {pending.source}
             /\ NewSourceUnderReview(pending.source.digest)
             /\ map # None /\ map.status = "approved"
  <2>1. issue # None /\ issue.kind = "blocker" /\ disposition = "blocked"
        /\ issue.code = "new_source_review_required" /\ stage \in NewSourceStages
    BY <1>3, <1>7
  <2>2. pending # None BY <2>1 DEF WorkflowInv, StopsAreCoherent
  <2>3. map # None /\ map.status = "approved"
    BY <2>1
    DEF NewSourceStages, WorkflowInv, PlanFitsStage, TypeOK, LectureMapRecord
  <2> QED BY <2>1, <2>2, <2>3 DEF PendingSource, NewSourceUnderReview
<1> QED BY <1>5, <1>6, <1>7 DEF MayReopenMap

LEMMA OwnerActionsAccepted ==
  ASSUME WorkflowInv, IssueFitsStage
  PROVE  /\ "approve_priority_basis" \in LegalActions
              \/ "reject_priority_basis" \in LegalActions =>
              MayDecidePriority(PrioritySubjectShown)
         /\ "approve_lecture_map" \in LegalActions
              \/ "reject_lecture_map" \in LegalActions =>
              MayDecideMap(MapSubjectShown)
<1>1. stage \in Stage BY DEF WorkflowInv, TypeOK
<1>2. ASSUME NEW a \in {"approve_priority_basis", "reject_priority_basis",
                        "approve_lecture_map", "reject_lecture_map"},
             a \in LegalActions
      PROVE  /\ a \in StageActions[stage] /\ stage # "completed"
             /\ disposition = NormalDisposition[stage]
  BY <1>2, WhatIsListed DEF FailedActions, BlockedActions
<1>3. stage \in {"priority_approval", "map_approval"} =>
        NormalDisposition[stage] = "awaiting_approval"
  BY <1>1 DEF NormalDisposition
<1>4. stage = "priority_approval" => basis # None /\ basis.status = "proposed"
  BY DEF WorkflowInv, PlanFitsStage
<1>5. stage = "map_approval" => map # None /\ map.status = "proposed"
  BY DEF WorkflowInv, PlanFitsStage
<1> QED
  BY <1>1, <1>2, <1>3, <1>4, <1>5, StageOfAction
  DEF MayDecidePriority, MayDecideMap, BasisUnderDecision, PrioritySubjectShown,
      MapSubjectShown

LEMMA LectureActionsAccepted ==
  ASSUME WorkflowInv, IssueFitsStage
  PROVE  /\ "record_candidate_validation" \in LegalActions =>
              \A verdict : \E d \in ActiveCandidate :
                MayValidate(active, [document |-> d, policy |-> policy,
                                     disposition |-> verdict])
         /\ "submit_lecture_candidate" \in LegalActions =>
              \E l \in DOMAIN progress :
                /\ progress[l].status # "accepted"
                /\ \A d : d.document_id = l /\ d.order = l => MaySubmit(l, d)
         /\ "reopen_lectures_for_correction" \in LegalActions =>
              \A l \in LectureIds : MayReopenLectures({l}, Handoff.revision)
<1>1. stage \in Stage BY DEF WorkflowInv, TypeOK
<1>2. ASSUME NEW a \in {"record_candidate_validation", "submit_lecture_candidate"},
             a \in LegalActions
      PROVE  /\ a \in StageActions[stage] /\ stage # "completed"
             /\ disposition = NormalDisposition[stage] /\ issue = None
  BY <1>2, WhatIsListed DEF FailedActions, BlockedActions
<1>3. stage \in {"lecture_production", "lecture_validation"} =>
        NormalDisposition[stage] = "ready"
  BY <1>1 DEF NormalDisposition
<1>4. stage \in ProductionStage => map # None /\ map.status = "approved"
  BY DEF ProductionStage, WorkflowInv, PlanFitsStage, TypeOK, LectureMapRecord
<1>5. ASSUME "record_candidate_validation" \in LegalActions, NEW verdict
      PROVE  \E d \in ActiveCandidate :
               MayValidate(active, [document |-> d, policy |-> policy,
                                    disposition |-> verdict])
  <2> DEFINE d == progress[active].candidate
             v == [document |-> d, policy |-> policy, disposition |-> verdict]
  <2>1. stage = "lecture_validation" /\ disposition = "ready"
    BY <1>1, <1>2, <1>3, <1>5, StageOfAction
  <2>2. /\ active \in DOMAIN progress /\ progress[active].status = "candidate"
        /\ progress[active].candidate # None
    BY <2>1
    DEF WorkflowInv, CourseInv, OneCandidateInValidation, Candidates,
        ProgressIsWellFormed
  <2>3. EvidenceMatches(progress[active], v) BY DEF EvidenceMatches
  <2>4. MayValidate(active, v) BY <2>1, <2>2, <2>3 DEF MayValidate
  <2>5. d \in ActiveCandidate BY <2>1 DEF ActiveCandidate
  <2> QED BY <2>4, <2>5
<1>6. ASSUME "submit_lecture_candidate" \in LegalActions
      PROVE  \E l \in DOMAIN progress :
               /\ progress[l].status # "accepted"
               /\ \A d : d.document_id = l /\ d.order = l => MaySubmit(l, d)
  <2>1. stage = "lecture_production" /\ disposition = "ready" /\ issue = None
    BY <1>1, <1>2, <1>3, <1>6, StageOfAction
  <2>2. PICK l \in DOMAIN progress : progress[l].status # "accepted"
    BY <2>1 DEF WorkflowInv, CourseInv, CompletedIffAllAccepted, ProductionStage
  <2>3. progress[l].status # "candidate"
    BY <2>1 DEF WorkflowInv, CourseInv, OneCandidateInValidation, Candidates
  <2>4. progress[l] \in LectureProgress
    BY LecturesArePositions DEF WorkflowInv, CourseInv
  <2>5. progress[l].status # "pending" => progress[l].candidate # None
    BY DEF WorkflowInv, CourseInv, ProgressIsWellFormed
  <2>6. progress[l].status \in {"pending", "retry_required", "correction_required"}
    BY <2>2, <2>3, <2>4 DEF LectureProgress
  <2>7. map # None /\ map.status = "approved" BY <1>4, <2>1 DEF ProductionStage
  <2>8. \A d : d.document_id = l /\ d.order = l => MaySubmit(l, d)
    BY <2>1, <2>5, <2>6, <2>7 DEF MaySubmit
  <2> QED BY <2>2, <2>8
<1>7. ASSUME "reopen_lectures_for_correction" \in LegalActions, NEW l \in LectureIds
      PROVE  MayReopenLectures({l}, Handoff.revision)
  <2>1. stage = "completed" /\ disposition = "completed" /\ issue = None
    BY <1>1, <1>7, WhatIsListed, StageOfAction DEF FailedActions, BlockedActions
  <2>2. map # None /\ map.status = "approved" /\ context = None
    BY <1>4, <2>1 DEF ProductionStage, WorkflowInv, PlanFitsStage
  <2>3. pending = None /\ active = None
    BY <2>1 DEF WorkflowInv, CourseInv, StopsAreCoherent, ActiveInValidation
  <2>4. l \in 1..map.size /\ l \in DOMAIN progress
    BY <2>2, StandingDocuments DEF LectureIds
  <2>5. progress[l].status = "accepted"
    BY <2>1, <2>4
    DEF WorkflowInv, CourseInv, CompletedIffAllAccepted, ProductionStage
  <2> QED
    BY <2>1, <2>2, <2>3, <2>4, <2>5 DEF MayReopenLectures, Handoff
<1> QED BY <1>5, <1>6, <1>7

\* Whoever acts, on whatever is listed.
LEMMA ListedAccepted ==
  ASSUME WorkflowInv, IssueFitsStage
  PROVE  ListedActionsAreAccepted
BY StoppedActionsAccepted, OwnerActionsAccepted, LectureActionsAccepted
DEF ListedActionsAreAccepted

\* Every action of the handoff, filled in from the continuation, meets the
\* conditions of its handler, and those are all the conditions there are: the
\* lemmas before say which state it leads to (ListedActionsAreAnswerable, whose
\* ENABLED is beyond these provers).
THEOREM WhatIsListedIsAccepted == Spec => []ListedActionsAreAccepted
<1>1. WorkflowInv /\ IssueFitsStage => ListedActionsAreAccepted BY ListedAccepted
<1> QED BY <1>1, WorkflowInvariant, IssuesFit, PTL

-----------------------------------------------------------------------------
(* A workflow that others compose                                          *)

\* All that is known of a snapshot, and all that is claimed of it, for a module
\* that uses Next and starts where it likes.
SnapshotInv == WorkflowInv /\ ValidatedUnderPolicy /\ PlanInv /\ IssueFitsStage

SnapshotIsSound ==
  /\ SnapshotsAreValid
  /\ PlanInForce
  /\ AcceptedOnEvidence
  /\ ContinuationIsAvailable
  /\ EvidenceCoversTheWork
  /\ ListedActionsAreAccepted

\* The handlers keep what is known, from any snapshot of which it holds.
LEMMA SnapshotInvStep ==
  ASSUME SnapshotInv, [Next]_vars
  PROVE  SnapshotInv'
<1>1. WorkflowInv' BY Step DEF SnapshotInv
<1>2. PlanInv' BY <1>1, PlanInvStep DEF SnapshotInv
<1>3. ValidatedUnderPolicy' BY <1>1, PolicyStep DEF SnapshotInv
<1>4. IssueFitsStage' BY IssueFitsStageStep DEF SnapshotInv
<1> QED BY <1>1, <1>2, <1>3, <1>4 DEF SnapshotInv

\* What is claimed follows from what is known.
LEMMA SnapshotInvSuffices ==
  ASSUME SnapshotInv
  PROVE  SnapshotIsSound
BY PlanStands, ConstructorAccepts, AcceptedHasEvidence, Shown, SubjectIsSeen,
   ListedAccepted
DEF SnapshotInv, SnapshotIsSound

\* So it is claimed of every behaviour from such a snapshot: what is true of the
\* snapshots, and what its steps do to drafts, to what a stop interrupted and
\* according to the handoff.
LEMMA CourseStaysSound ==
  SnapshotInv /\ [][Next]_vars =>
    /\ [](SnapshotInv /\ SnapshotIsSound)
    /\ CandidatesAreArchived
    /\ StopsAreTransparent
    /\ StepsAreListed
<1>1. SnapshotInv /\ [Next]_vars => SnapshotInv' BY SnapshotInvStep
<1>2. SnapshotInv => SnapshotIsSound BY SnapshotInvSuffices
<1>3. SnapshotInv /\ [Next]_vars
        => [\A l \in DOMAIN progress :
              LET p == progress[l] IN
              /\ p.candidate # None
              /\ l \in DOMAIN progress' => progress'[l].attempt # p.attempt
              => \E h \in history' :
                   /\ h.candidate = p.candidate
                   /\ h.map_position = l
                   /\ h.attempt = p.attempt
                   /\ h.map_subject = SubjectOf(map)]_vars
  BY ArchiveStep DEF Archived, SnapshotInv
<1>4. SnapshotInv /\ [Next]_vars
        => [issue # None /\ issue' = None =>
              \/ context' # None /\ context' # context
              \/ UNCHANGED <<stage, sources, assessment, basis, map, context,
                             active, progress, history>>]_vars
  BY StopStep DEF SnapshotInv
<1>5. SnapshotInv /\ [Next]_vars
        => [receipts' # receipts =>
              receipts'[Len(receipts')].action \in LegalActions]_vars
  BY ReceiptIsListed DEF SnapshotInv
<1> QED
  BY <1>1, <1>2, <1>3, <1>4, <1>5, PTL
  DEF CandidatesAreArchived, StopsAreTransparent, StepsAreListed

=============================================================================
