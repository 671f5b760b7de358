--------------------------- MODULE WorkflowProofs ---------------------------
(***************************************************************************)
(* The safety of the workflow, for every value of its constants.           *)
(*                                                                         *)
(* WorkflowInv is inductive.  The parts of a snapshot depend on one        *)
(* another: an archived candidate is well typed because the progress       *)
(* records are well formed, those have the length of the map because the   *)
(* stage says which parts of the plan exist, and a blocker resumes where   *)
(* it should because the stop remembers its stage.  One lemma per handler  *)
(* shows that it keeps all of them; the theorems follow.                   *)
(*                                                                         *)
(* The last part shows that Workflow implements CourseProduction: given    *)
(* the invariant before and after, each handler is one abstract action or  *)
(* a stutter.                                                              *)
(***************************************************************************)
EXTENDS Workflow, SequenceTheorems, TLAPS

\* Before the plan is agreed no lecture has been started.
NothingBeforeThePlan ==
  stage \notin ProductionStage =>
    \A l \in DOMAIN progress : progress[l] = PendingLecture

\* There is an active lecture exactly while its candidate is validated.
ActiveInValidation == active # None <=> stage = "lecture_validation"

\* The progress records, their map and their stage agree.
CourseInv ==
  /\ ProgressFollowsMap
  /\ ProgressIsWellFormed
  /\ NothingBeforeThePlan
  /\ ActiveInValidation
  /\ OneCandidateInValidation
  /\ CompletedIffAllAccepted

\* The inductive invariant.
WorkflowInv ==
  /\ TypeOK
  /\ PlanFitsStage
  /\ ApprovalsAreHeld
  /\ CourseInv
  /\ StopsAreCoherent
  /\ SourcesDistinct

-----------------------------------------------------------------------------
\* The subjects the actions commit are subjects.
LEMMA SubjectTyped ==
  /\ \A p \in Proposal : PrioritySubject(p) \in Subject
  /\ \A ref \in MapReference, n \in 1..MaxLectures, k \in 0..MaxLectures :
       MapSubject(ref, n, k) \in MapSubjects /\ MapSubject(ref, n, k) \in Subject
  /\ \A s \in Source : SourceSubject(s.digest) \in Subject
  /\ \A d \in Document : CandidateSubject(d) \in Subject
  /\ \A x \in IssueDigest : IssueSubject(x) \in Subject
  /\ \A ids \in SUBSET (1..MaxLectures), r \in Nat :
       CorrectionSubject(ids, r) \in Subject
  /\ \A S \in SUBSET Source : SourceSetSubject(S) \in Subject
BY DEF Subject, MapSubjects, MapSubject, CorrectionSubject, SourceSetSubject

\* What _mutated_state does to the revision and the receipts.
LEMMA CommitTyped ==
  ASSUME TypeOK, NEW a \in Action, NEW s \in Subject, Commit(a, s)
  PROVE  /\ revision' \in 0..MaxRevision
         /\ receipts' \in Seq(OperationReceipt)
         /\ Len(receipts') = revision' + 1
         /\ policy' \in Policy
         /\ revision' = revision + 1
<1>1. Receipt(a, s) \in OperationReceipt
  BY InputsAssumption DEF TypeOK, Receipt, OperationReceipt
<1> QED
  BY <1>1, AppendProperties, InputsAssumption DEF TypeOK, Commit

\* NORMAL_DISPOSITIONS, stage by stage.
LEMMA NormalDispositions ==
  /\ NormalDisposition["source_assessment"] = "ready"
  /\ NormalDisposition["priority_approval"] = "awaiting_approval"
  /\ NormalDisposition["lecture_mapping"] = "ready"
  /\ NormalDisposition["map_approval"] = "awaiting_approval"
  /\ NormalDisposition["lecture_production"] = "ready"
  /\ NormalDisposition["lecture_validation"] = "ready"
  /\ NormalDisposition["completed"] = "completed"
BY DEF NormalDisposition, Stage

\* The approvals the gates record are approval records.
LEMMA ApprovalTyped ==
  ASSUME TypeOK
  PROVE  /\ \A p \in Proposal, d \in OwnerDecision :
              Approval("priority_basis", d, PrioritySubject(p)) \in ApprovalRecord
         /\ \A m \in MapSubjects, d \in OwnerDecision :
              Approval("lecture_map", d, m) \in ApprovalRecord
         /\ \A s \in Source :
              /\ Approval("new_source_irrelevant", "approved",
                          SourceSubject(s.digest)) \in ApprovalRecord
              /\ Approval("map_reopen", "approved",
                          SourceSubject(s.digest)) \in ApprovalRecord
BY InputsAssumption DEF TypeOK, Approval, ApprovalRecord

\* n pending records make a progress of n lectures.
LEMMA PendingTyped ==
  /\ PendingLecture \in LectureProgress
  /\ \A n \in Nat : /\ AllPending(n) \in Seq(LectureProgress)
                     /\ Len(AllPending(n)) = n
                     /\ \A i \in 1..n : AllPending(n)[i] = PendingLecture
<1>1. PendingLecture \in LectureProgress
  BY InputsAssumption DEF PendingLecture, LectureProgress
<1> SUFFICES ASSUME NEW n \in Nat
             PROVE  /\ AllPending(n) \in Seq(LectureProgress)
                    /\ Len(AllPending(n)) = n
                    /\ \A i \in 1..n : AllPending(n)[i] = PendingLecture
  BY <1>1
<1>2. AllPending(n) \in [1..n -> LectureProgress]
  BY <1>1 DEF AllPending
<1>3. AllPending(n) \in Seq(LectureProgress)
  BY <1>2, SeqDef
<1>4. Len(AllPending(n)) = n
  <2>1. DOMAIN AllPending(n) = 1..n BY DEF AllPending
  <2>2. DOMAIN AllPending(n) = 1..Len(AllPending(n)) /\ Len(AllPending(n)) \in Nat
    BY <1>3, LenProperties
  <2> QED BY <2>1, <2>2
<1> QED
  BY <1>3, <1>4 DEF AllPending


\* What the invariant says of plan and course depends on these variables only.
LEMMA PlanAndCourseKept ==
  ASSUME PlanFitsStage, ApprovalsAreHeld, CourseInv, UNCHANGED PlanAndCourse
  PROVE  PlanFitsStage' /\ ApprovalsAreHeld' /\ CourseInv'
<1>1. PlanFitsStage' BY DEF PlanFitsStage, PlanAndCourse
<1>2. ApprovalsAreHeld'
  BY DEF ApprovalsAreHeld, PlanAndCourse, ApprovedMaps, Reopenings, SubjectOf, MapSubject
<1>3. CourseInv'
  BY DEF CourseInv, PlanAndCourse, ProgressFollowsMap, ProgressIsWellFormed,
         NothingBeforeThePlan, ActiveInValidation, OneCandidateInValidation,
         Candidates, CompletedIffAllAccepted
<1> QED BY <1>1, <1>2, <1>3

\* Before the plan is agreed no lecture has been started.
LEMMA NothingStarted ==
  ASSUME ProgressFollowsMap', active' = None, stage' \notin ProductionStage,
         \A l \in DOMAIN progress' : progress'[l] = PendingLecture
  PROVE  CourseInv'
BY DEF CourseInv, ProgressIsWellFormed, NothingBeforeThePlan,
       ActiveInValidation, OneCandidateInValidation, Candidates,
       CompletedIffAllAccepted, ProductionStage, PendingLecture

\* _record_source_assessment keeps the invariant.
LEMMA RecordSourceAssessmentStep ==
  ASSUME WorkflowInv, NEW p \in Proposal, RecordSourceAssessment(p)
  PROVE  WorkflowInv'
<1> USE DEF WorkflowInv
<1>1. TypeOK'
  <2>1. Commit("record_source_assessment", PrioritySubject(p))
    BY DEF RecordSourceAssessment
  <2>2. "record_source_assessment" \in Action BY DEF Action
  <2> QED
    BY <2>1, <2>2, SubjectTyped, CommitTyped, InputsAssumption
    DEF TypeOK, RecordSourceAssessment, Stage, SourceAssessmentRecord,
        PriorityBasisRecord
<1>2. PlanFitsStage'
  BY NoneAssumption
  DEF PlanFitsStage, RecordSourceAssessment, SourceAssessmentRecord,
      PriorityBasisRecord, TypeOK, ProductionStage
<1>3. ApprovalsAreHeld'
  BY DEF ApprovalsAreHeld, RecordSourceAssessment, ApprovedMaps, Reopenings,
         SubjectOf, MapSubject
<1>4. CourseInv'
  BY NothingStarted
  DEF RecordSourceAssessment, CourseInv, ProgressFollowsMap,
      NothingBeforeThePlan, ActiveInValidation, ProductionStage
<1>5. StopsAreCoherent'
  BY NormalDispositions DEF StopsAreCoherent, RecordSourceAssessment
<1>6. SourcesDistinct'
  BY DEF SourcesDistinct, RecordSourceAssessment, KnownSources
<1> QED BY <1>1, <1>2, <1>3, <1>4, <1>5, <1>6

\* _decide_priority, approving, keeps the invariant.
LEMMA ApprovePriorityBasisStep ==
  ASSUME WorkflowInv, NEW p \in Proposal, "approved" \in OwnerDecision,
         ApprovePriorityBasis(PrioritySubject(p))
  PROVE  WorkflowInv'
<1> USE DEF WorkflowInv
<1> DEFINE a == Approval("priority_basis", "approved", PrioritySubject(p))
<1>1. a \in ApprovalRecord BY ApprovalTyped
<1>2. /\ a.gate = "priority_basis"
      /\ a.decision = "approved"
      /\ a.subject = PrioritySubject(p)
  BY DEF Approval
<1> HIDE DEF a
<1>3. /\ basis' \in PriorityBasisRecord
      /\ basis'.status = "approved"
      /\ basis'.approval = a
      /\ basis'.proposal = basis.proposal
      /\ approvals' = approvals \cup {a}
  BY <1>1
  DEF ApprovePriorityBasis, PriorityDecision, BasisUnderDecision, TypeOK,
      PriorityBasisRecord, a
<1>4. TypeOK'
  <2>1. Commit("approve_priority_basis", PrioritySubject(p))
    BY DEF ApprovePriorityBasis
  <2>2. "approve_priority_basis" \in Action BY DEF Action
  <2> QED
    BY <2>1, <2>2, <1>1, <1>3, SubjectTyped, CommitTyped
    DEF TypeOK, ApprovePriorityBasis, PriorityDecision, Stage
<1>5. PlanFitsStage'
  BY <1>3, NoneAssumption
  DEF PlanFitsStage, ApprovePriorityBasis, PriorityDecision, TypeOK,
      ProductionStage
<1>6. ApprovalsAreHeld'
  BY <1>2, <1>3
  DEF ApprovalsAreHeld, ApprovePriorityBasis, PriorityDecision,
      BasisUnderDecision, ApprovedMaps, Reopenings, SubjectOf, MapSubject
<1>7. CourseInv'
  BY NothingStarted
  DEF ApprovePriorityBasis, PriorityDecision, CourseInv, ProgressFollowsMap,
      NothingBeforeThePlan, ActiveInValidation, ProductionStage
<1>8. StopsAreCoherent'
  BY NormalDispositions
  DEF StopsAreCoherent, ApprovePriorityBasis, PriorityDecision
<1>9. SourcesDistinct'
  BY DEF SourcesDistinct, ApprovePriorityBasis, PriorityDecision, KnownSources
<1> QED BY <1>4, <1>5, <1>6, <1>7, <1>8, <1>9

\* _decide_priority, rejecting, keeps the invariant.
LEMMA RejectPriorityBasisStep ==
  ASSUME WorkflowInv, NEW p \in Proposal, "rejected" \in OwnerDecision,
         RejectPriorityBasis(PrioritySubject(p))
  PROVE  WorkflowInv'
<1> USE DEF WorkflowInv
<1> DEFINE a == Approval("priority_basis", "rejected", PrioritySubject(p))
<1>1. a \in ApprovalRecord BY ApprovalTyped
<1>2. approvals' = approvals \cup {a}
  BY DEF RejectPriorityBasis, PriorityDecision
<1> HIDE DEF a
<1>3. TypeOK'
  <2>1. Commit("reject_priority_basis", PrioritySubject(p))
    BY DEF RejectPriorityBasis
  <2>2. "reject_priority_basis" \in Action BY DEF Action
  <2> QED
    BY <2>1, <2>2, <1>1, <1>2, SubjectTyped, CommitTyped
    DEF TypeOK, RejectPriorityBasis, PriorityDecision, Stage
<1>4. PlanFitsStage'
  BY DEF PlanFitsStage, RejectPriorityBasis, PriorityDecision, ProductionStage
<1>5. ApprovalsAreHeld'
  BY <1>2
  DEF ApprovalsAreHeld, RejectPriorityBasis, PriorityDecision,
      ApprovedMaps, Reopenings, SubjectOf, MapSubject
<1>6. CourseInv'
  BY NothingStarted
  DEF RejectPriorityBasis, PriorityDecision, CourseInv, ProgressFollowsMap,
      NothingBeforeThePlan, ActiveInValidation, ProductionStage
<1>7. StopsAreCoherent'
  BY NormalDispositions
  DEF StopsAreCoherent, RejectPriorityBasis, PriorityDecision
<1>8. SourcesDistinct'
  BY DEF SourcesDistinct, RejectPriorityBasis, PriorityDecision, KnownSources
<1> QED BY <1>3, <1>4, <1>5, <1>6, <1>7, <1>8

\* The baseline's pending records and the new ones are the pending records of
\* the whole sequence.
LEMMA BaselineAndNew ==
  ASSUME NEW k \in Nat, NEW n \in Nat, k <= n,
         NEW s \in Seq(LectureProgress), Len(s) = k,
         \A i \in 1..k : s[i] = PendingLecture
  PROVE  SubSeq(s, 1, k) \o AllPending(n - k) = AllPending(n)
<1>1. /\ SubSeq(s, 1, k) \in Seq(LectureProgress)
      /\ Len(SubSeq(s, 1, k)) = k
      /\ \A i \in 1..k : SubSeq(s, 1, k)[i] = PendingLecture
  BY SubSeqProperties
<1>2. /\ AllPending(n - k) \in Seq(LectureProgress)
      /\ Len(AllPending(n - k)) = n - k
      /\ \A i \in 1..(n - k) : AllPending(n - k)[i] = PendingLecture
  BY SMTT(30), PendingTyped
<1> DEFINE t == SubSeq(s, 1, k) \o AllPending(n - k)
<1>3. /\ t \in Seq(LectureProgress)
      /\ Len(t) = n
      /\ \A i \in 1..n : t[i] = PendingLecture
  BY <1>1, <1>2, ConcatProperties
<1> HIDE DEF t
<1>4. /\ AllPending(n) \in Seq(LectureProgress)
      /\ Len(AllPending(n)) = n
      /\ \A i \in 1..n : AllPending(n)[i] = PendingLecture
  BY PendingTyped
<1>5. \A i \in 1..Len(t) : t[i] = AllPending(n)[i]
  BY <1>3, <1>4
<1>6. t = AllPending(n)
  BY <1>3, <1>4, <1>5, SeqEqual
<1> QED BY <1>6 DEF t

\* A recorded map starts every lecture anew, the reserved ones included.
LEMMA RecordedProgress ==
  ASSUME WorkflowInv, NEW ref \in MapReference, NEW n \in MapSize,
         RecordLectureMap(ref, n)
  PROVE  progress' = AllPending(n)
<1> USE DEF WorkflowInv
<1>1. CASE context = None
  BY <1>1 DEF RecordLectureMap
<1>2. CASE context # None
  <2>1. context.size \in Nat /\ Reserved = context.size
    BY <1>2 DEF TypeOK, MapReopenContext, Reserved
  <2>2. Len(progress) = context.size /\ progress \in Seq(LectureProgress)
    BY <1>2 DEF CourseInv, ProgressFollowsMap, PlanFitsStage, RecordLectureMap, TypeOK
  <2>3. \A i \in 1..context.size : progress[i] = PendingLecture
    BY <2>2, LenProperties
    DEF CourseInv, NothingBeforeThePlan, RecordLectureMap, ProductionStage
  <2>4. n \in Nat /\ context.size <= n
    BY <2>1, InputsAssumption DEF RecordLectureMap
  <2>5. progress' = SubSeq(progress, 1, context.size)
                      \o AllPending(n - context.size)
    BY <1>2, <2>1 DEF RecordLectureMap
  <2> QED BY <2>1, <2>2, <2>3, <2>4, <2>5, BaselineAndNew
<1> QED BY <1>1, <1>2

\* _record_lecture_map keeps the invariant.
LEMMA RecordLectureMapStep ==
  ASSUME WorkflowInv, NEW ref \in MapReference, NEW n \in MapSize,
         RecordLectureMap(ref, n)
  PROVE  WorkflowInv'
<1> USE DEF WorkflowInv
<1>1. progress' = AllPending(n) BY RecordedProgress
<1>2. n \in 1..MaxLectures /\ n \in Nat BY InputsAssumption
<1>3. /\ Reserved \in 0..MaxLectures
      /\ context # None => Reserved = context.size /\ Reserved <= n
  BY InputsAssumption DEF Reserved, TypeOK, MapReopenContext, RecordLectureMap
<1>4. /\ map' \in LectureMapRecord
      /\ map'.status = "proposed"
      /\ map'.size = n
      /\ map'.reserved = Reserved
  BY <1>2, <1>3 DEF RecordLectureMap, LectureMapRecord
<1>5. map' # None BY <1>4, NoneAssumption
<1>6. TypeOK'
  <2>1. Commit("record_lecture_map", MapSubject(ref, n, Reserved))
    BY DEF RecordLectureMap
  <2>2. "record_lecture_map" \in Action BY DEF Action
  <2>3. MapSubject(ref, n, Reserved) \in Subject BY <1>2, <1>3, SubjectTyped
  <2> QED
    BY <2>1, <2>2, <2>3, <1>1, <1>2, <1>4, CommitTyped, PendingTyped
    DEF TypeOK, RecordLectureMap, Stage
<1>7. PlanFitsStage'
  BY <1>4, <1>5 DEF PlanFitsStage, RecordLectureMap, ProductionStage
<1>8. ApprovalsAreHeld'
  BY <1>4
  DEF ApprovalsAreHeld, RecordLectureMap, ApprovedMaps, Reopenings, SubjectOf,
      MapSubject
<1>9. CourseInv'
  <2>1. ProgressFollowsMap'
    BY <1>1, <1>2, <1>3, <1>4, <1>5, PendingTyped
    DEF ProgressFollowsMap, RecordLectureMap
  <2>2. active' = None
    BY DEF RecordLectureMap, CourseInv, ActiveInValidation
  <2>3. \A l \in DOMAIN progress' : progress'[l] = PendingLecture
    BY <1>1 DEF AllPending
  <2> QED
    BY <2>1, <2>2, <2>3, NothingStarted DEF RecordLectureMap, ProductionStage
<1>10. StopsAreCoherent'
  BY NormalDispositions DEF StopsAreCoherent, RecordLectureMap
<1>11. SourcesDistinct'
  BY DEF SourcesDistinct, RecordLectureMap, KnownSources
<1> QED BY <1>6, <1>7, <1>8, <1>9, <1>10, <1>11

\* _decide_map, approving, keeps the invariant.
LEMMA ApproveLectureMapStep ==
  ASSUME WorkflowInv, NEW m \in MapSubjects, "approved" \in OwnerDecision,
         ApproveLectureMap(m)
  PROVE  WorkflowInv'
<1> USE DEF WorkflowInv
<1> DEFINE a == Approval("lecture_map", "approved", m)
<1>1. a \in ApprovalRecord BY ApprovalTyped
<1>2. /\ a.gate = "lecture_map"
      /\ a.decision = "approved"
      /\ a.subject = m
  BY DEF Approval
<1> HIDE DEF a
<1>3. /\ map \in LectureMapRecord
      /\ m = SubjectOf(map)
      /\ map' = [map EXCEPT !.status = "approved", !.approval = a]
      /\ approvals' = approvals \cup {a}
  BY DEF ApproveLectureMap, MapDecision, TypeOK, a
<1>4. /\ map' \in LectureMapRecord
      /\ map'.status = "approved"
      /\ map'.approval = a
      /\ map'.size = map.size
      /\ SubjectOf(map') = m
  BY <1>1, <1>3 DEF LectureMapRecord, SubjectOf, MapSubject
<1>5. map # None /\ map' # None BY <1>3, <1>4, NoneAssumption
<1>6. TypeOK'
  <2>1. Commit("approve_lecture_map", m) BY DEF ApproveLectureMap
  <2>2. "approve_lecture_map" \in Action BY DEF Action
  <2>3. m \in Subject BY DEF Subject
  <2> QED
    BY <2>1, <2>2, <2>3, <1>1, <1>3, <1>4, CommitTyped
    DEF TypeOK, ApproveLectureMap, MapDecision, Stage
<1>7. PlanFitsStage'
  BY <1>4, <1>5
  DEF PlanFitsStage, ApproveLectureMap, MapDecision, ProductionStage
<1>8. ApprovalsAreHeld'
  BY <1>2, <1>3, <1>4
  DEF ApprovalsAreHeld, ApproveLectureMap, MapDecision, ApprovedMaps
<1>9. CourseInv'
  <2>1. \A l \in DOMAIN progress : progress[l] = PendingLecture
    BY DEF CourseInv, NothingBeforeThePlan, ApproveLectureMap, MapDecision,
           ProductionStage
  <2>2. progress' = progress /\ active' = active /\ active = None
    BY DEF ApproveLectureMap, MapDecision, CourseInv, ActiveInValidation
  <2>3. Len(progress) = map.size /\ ProgressFollowsMap'
    BY <1>4, <1>5, <2>2
    DEF CourseInv, ProgressFollowsMap, ApproveLectureMap, MapDecision
  <2>4. 1 \in DOMAIN progress
    BY <1>3, <2>3, LenProperties DEF TypeOK, LectureMapRecord
  <2> QED
    BY <2>1, <2>2, <2>3, <2>4
    DEF CourseInv, ProgressIsWellFormed, NothingBeforeThePlan,
        ActiveInValidation, OneCandidateInValidation, Candidates,
        CompletedIffAllAccepted, ProductionStage, ApproveLectureMap,
        PendingLecture
<1>10. StopsAreCoherent'
  BY NormalDispositions DEF StopsAreCoherent, ApproveLectureMap, MapDecision
<1>11. SourcesDistinct'
  BY DEF SourcesDistinct, ApproveLectureMap, MapDecision, KnownSources
<1> QED BY <1>6, <1>7, <1>8, <1>9, <1>10, <1>11

\* _decide_map, rejecting, keeps the invariant.
LEMMA RejectLectureMapStep ==
  ASSUME WorkflowInv, NEW m \in MapSubjects, "rejected" \in OwnerDecision,
         RejectLectureMap(m)
  PROVE  WorkflowInv'
<1> USE DEF WorkflowInv
<1> DEFINE a == Approval("lecture_map", "rejected", m)
<1>1. a \in ApprovalRecord BY ApprovalTyped
<1>2. approvals' = approvals \cup {a}
  BY DEF RejectLectureMap, MapDecision
<1> HIDE DEF a
<1>3. /\ progress' \in Seq(LectureProgress)
      /\ Len(progress') = IF context = None THEN 0 ELSE context.size
      /\ \A l \in DOMAIN progress' : progress'[l] = PendingLecture
  <2>1. progress \in Seq(LectureProgress) BY DEF TypeOK
  <2>2. \A l \in 1..Len(progress) : progress[l] = PendingLecture
    BY <2>1, LenProperties
    DEF CourseInv, NothingBeforeThePlan, RejectLectureMap, MapDecision,
        ProductionStage
  <2>3. CASE context = None
    BY <2>3 DEF RejectLectureMap, BaselineProgress
  <2>4. CASE context # None
    <3>1. context.size \in 1..MaxLectures /\ context.size <= Len(progress)
      BY <2>4
      DEF TypeOK, MapReopenContext, LectureMapRecord, CourseInv,
          ProgressFollowsMap, RejectLectureMap, MapDecision
    <3>2. progress' = SubSeq(progress, 1, context.size)
      BY <2>4 DEF RejectLectureMap, BaselineProgress
    <3>3. context.size \in Nat /\ MaxLectures \in Nat
      BY <3>1, InputsAssumption
    <3> QED
      BY <2>1, <2>2, <2>4, <3>1, <3>2, <3>3, SubSeqProperties, LenProperties
  <2> QED BY <2>3, <2>4
<1>4. TypeOK'
  <2>1. Commit("reject_lecture_map", m) BY DEF RejectLectureMap
  <2>2. "reject_lecture_map" \in Action BY DEF Action
  <2>3. m \in Subject BY DEF Subject
  <2> QED
    BY <2>1, <2>2, <2>3, <1>1, <1>2, <1>3, CommitTyped
    DEF TypeOK, RejectLectureMap, MapDecision, Stage
<1>5. PlanFitsStage'
  BY DEF PlanFitsStage, RejectLectureMap, MapDecision, ProductionStage
<1>6. ApprovalsAreHeld'
  BY <1>2
  DEF ApprovalsAreHeld, RejectLectureMap, MapDecision, ApprovedMaps,
      Reopenings, SubjectOf, MapSubject
<1>7. CourseInv'
  BY <1>3, NothingStarted
  DEF RejectLectureMap, MapDecision, CourseInv, ProgressFollowsMap,
      ActiveInValidation, ProductionStage
<1>8. StopsAreCoherent'
  BY NormalDispositions DEF StopsAreCoherent, RejectLectureMap, MapDecision
<1>9. SourcesDistinct'
  BY DEF SourcesDistinct, RejectLectureMap, MapDecision, KnownSources
<1> QED BY <1>4, <1>5, <1>6, <1>7, <1>8, <1>9

\* A lecture of the course is a position of a map.
LEMMA LecturesArePositions ==
  ASSUME TypeOK, ProgressFollowsMap
  PROVE  /\ DOMAIN progress = 1..Len(progress)
         /\ Len(progress) \in Nat
         /\ \A l \in DOMAIN progress : /\ l \in 1..MaxLectures
                                       /\ progress[l] \in LectureProgress
<1>1. Len(progress) \in 0..MaxLectures
  BY InputsAssumption
  DEF TypeOK, ProgressFollowsMap, LectureMapRecord, MapReopenContext
<1> QED
  BY <1>1, LenProperties, ElementOfSeq, InputsAssumption DEF TypeOK

\* What a lecture gives up to the history is a record of the history.
LEMMA ArchivedTyped ==
  ASSUME TypeOK, ProgressFollowsMap, ProgressIsWellFormed, map # None,
         NEW l \in DOMAIN progress, progress[l].candidate # None,
         NEW how \in {"rejected", "invalidated_by_map_reopen",
                      "superseded_by_correction"}
  PROVE  HistoricalCandidate(l, SubjectOf(map), progress[l], how)
           \in HistoricalCandidateRecord
<1>1. SubjectOf(map) \in MapSubjects
  BY DEF TypeOK, LectureMapRecord, SubjectOf, MapSubject, MapSubjects
<1>2. progress[l] \in LectureProgress /\ l \in 1..MaxLectures
  BY LecturesArePositions
<1>3. progress[l].attempt \in 1..MaxAttempt
  BY <1>2, InputsAssumption
  DEF ProgressIsWellFormed, PendingLecture, LectureProgress
<1>4. progress[l].candidate \in Document
  BY <1>2 DEF LectureProgress
<1>5. progress[l].validation \in Validation \cup {None}
  BY <1>2 DEF LectureProgress
<1> QED
  BY <1>1, <1>2, <1>3, <1>4, <1>5
  DEF HistoricalCandidate, HistoricalCandidateRecord

\* _submit_candidate keeps the invariant.
LEMMA SubmitLectureCandidateStep ==
  ASSUME WorkflowInv, NEW l \in 1..MaxLectures, NEW d \in Document,
         SubmitLectureCandidate(l, d)
  PROVE  WorkflowInv'
<1> USE DEF WorkflowInv
<1> DEFINE p == [status |-> "candidate", attempt |-> progress[l].attempt + 1,
                 candidate |-> d, validation |-> None,
                 accepted_document |-> None]
<1>1. l \in DOMAIN progress /\ progress \in Seq(LectureProgress) /\ map # None
  BY DEF SubmitLectureCandidate, TypeOK
<1>2. progress[l] \in LectureProgress /\ DOMAIN progress = 1..Len(progress)
  BY <1>1, LecturesArePositions DEF CourseInv
<1>3. p \in LectureProgress /\ progress[l].attempt \in Nat
  BY <1>2, InputsAssumption DEF LectureProgress, SubmitLectureCandidate
<1>4. /\ p.status = "candidate"
      /\ p.attempt >= 1
      /\ p.candidate = d
      /\ p.validation = None
      /\ p.accepted_document = None
      /\ d # None
      /\ d.document_id = l
      /\ d.order = l
  BY <1>3, NoneAssumption DEF SubmitLectureCandidate
<1>5. progress' = [progress EXCEPT ![l] = p]
  BY DEF SubmitLectureCandidate
<1> HIDE DEF p
<1>6. /\ progress' \in Seq(LectureProgress)
      /\ Len(progress') = Len(progress)
      /\ DOMAIN progress' = DOMAIN progress
      /\ \A k \in DOMAIN progress : progress'[k] = IF k = l THEN p ELSE progress[k]
  BY <1>1, <1>2, <1>3, <1>5, ExceptSeq
<1>7. TypeOK'
  <2>1. Commit("submit_lecture_candidate", CandidateSubject(d))
    BY DEF SubmitLectureCandidate
  <2>2. "submit_lecture_candidate" \in Action BY DEF Action
  <2>3. Superseded(l) \subseteq HistoricalCandidateRecord
    <3>1. progress[l].status # "pending" => progress[l].candidate # None
      BY DEF SubmitLectureCandidate
    <3> QED
      BY <1>1, <3>1, ArchivedTyped DEF Superseded, CourseInv
  <2>4. diagnostics' \in SUBSET Diagnostic
    <3>1. CandidateWarning(l) \in Diagnostic
      BY DEF CandidateWarning, Diagnostic
    <3> QED
      BY <3>1 DEF SubmitLectureCandidate, WithoutCandidateWarnings, TypeOK
  <2> QED
    BY <2>1, <2>2, <2>3, <2>4, <1>6, SubjectTyped, CommitTyped
    DEF TypeOK, SubmitLectureCandidate, Stage
<1>8. PlanFitsStage'
  BY DEF PlanFitsStage, SubmitLectureCandidate, ProductionStage
<1>9. ApprovalsAreHeld'
  BY DEF ApprovalsAreHeld, SubmitLectureCandidate, ApprovedMaps, Reopenings,
         SubjectOf, MapSubject
<1>10. CourseInv'
  <2>1. ProgressFollowsMap'
    BY <1>6 DEF CourseInv, ProgressFollowsMap, SubmitLectureCandidate
  <2>2. ProgressIsWellFormed'
    BY <1>4, <1>6 DEF CourseInv, ProgressIsWellFormed
  <2>3. NothingBeforeThePlan'
    BY DEF NothingBeforeThePlan, SubmitLectureCandidate, ProductionStage
  <2>4. ActiveInValidation'
    BY NoneAssumption DEF ActiveInValidation, SubmitLectureCandidate
  <2>5. OneCandidateInValidation'
    BY <1>1, <1>4, <1>6
    DEF CourseInv, OneCandidateInValidation, Candidates, SubmitLectureCandidate
  <2>6. CompletedIffAllAccepted'
    BY <1>1, <1>4, <1>6 DEF CompletedIffAllAccepted, SubmitLectureCandidate
  <2> QED BY <2>1, <2>2, <2>3, <2>4, <2>5, <2>6 DEF CourseInv
<1>11. StopsAreCoherent'
  BY NormalDispositions DEF StopsAreCoherent, SubmitLectureCandidate
<1>12. SourcesDistinct'
  BY DEF SourcesDistinct, SubmitLectureCandidate, KnownSources
<1> QED BY <1>7, <1>8, <1>9, <1>10, <1>11, <1>12

\* _record_validation keeps the invariant.
LEMMA RecordCandidateValidationStep ==
  ASSUME WorkflowInv, NEW l \in 1..MaxLectures, NEW v \in Validation,
         RecordCandidateValidation(l, v)
  PROVE  WorkflowInv'
<1> USE DEF WorkflowInv
<1> DEFINE p == ValidatedLecture(progress[l], v)
           complete == v.disposition # "rejected"
                         /\ Complete([progress EXCEPT ![l] = p])
<1>1. l \in DOMAIN progress /\ progress \in Seq(LectureProgress)
  BY DEF RecordCandidateValidation, TypeOK
<1>2. progress[l] \in LectureProgress /\ DOMAIN progress = 1..Len(progress)
  BY <1>1, LecturesArePositions DEF CourseInv
<1>3. /\ progress[l].status = "candidate"
      /\ progress[l].candidate # None
      /\ progress[l].candidate \in Document
      /\ v.document = progress[l].candidate
  BY <1>2 DEF RecordCandidateValidation, EvidenceMatches, LectureProgress
<1>4. v.disposition \in Verdict /\ v # None
  BY NoneAssumption DEF Validation
<1>5. /\ p \in LectureProgress
      /\ p.status = IF v.disposition = "rejected" THEN "retry_required"
                                                  ELSE "accepted"
      /\ p.attempt = progress[l].attempt
      /\ p.candidate = progress[l].candidate
      /\ p.validation = v
      /\ p.accepted_document = IF v.disposition = "rejected" THEN None
                                                       ELSE p.candidate
  BY <1>2, <1>3 DEF ValidatedLecture, LectureProgress
<1>6. /\ progress' = [progress EXCEPT ![l] = p]
      /\ stage' = IF complete THEN "completed" ELSE "lecture_production"
      /\ disposition' = IF complete THEN "completed" ELSE "ready"
  BY DEF RecordCandidateValidation
<1> HIDE DEF p
<1>7. /\ progress' \in Seq(LectureProgress)
      /\ Len(progress') = Len(progress)
      /\ DOMAIN progress' = DOMAIN progress
      /\ \A k \in DOMAIN progress : progress'[k] = IF k = l THEN p ELSE progress[k]
  BY <1>1, <1>2, <1>5, <1>6, ExceptSeq
<1>8. complete <=> \A k \in DOMAIN progress' : progress'[k].status = "accepted"
  BY <1>1, <1>5, <1>6, <1>7 DEF Complete
<1> HIDE DEF complete
<1>9. TypeOK'
  <2>1. Commit("record_candidate_validation",
               CandidateSubject(progress[l].candidate))
    BY DEF RecordCandidateValidation
  <2>2. "record_candidate_validation" \in Action BY DEF Action
  <2>3. CandidateSubject(progress[l].candidate) \in Subject
    BY <1>3, SubjectTyped
  <2> QED
    BY <2>1, <2>2, <2>3, <1>6, <1>7, CommitTyped
    DEF TypeOK, RecordCandidateValidation, Stage
<1>10. PlanFitsStage'
  BY <1>6 DEF PlanFitsStage, RecordCandidateValidation, ProductionStage
<1>11. ApprovalsAreHeld'
  BY DEF ApprovalsAreHeld, RecordCandidateValidation, ApprovedMaps,
         Reopenings, SubjectOf, MapSubject
<1>12. CourseInv'
  <2>1. ProgressFollowsMap'
    BY <1>7 DEF CourseInv, ProgressFollowsMap, RecordCandidateValidation
  <2>2. ProgressIsWellFormed'
    BY <1>1, <1>3, <1>4, <1>5, <1>7 DEF CourseInv, ProgressIsWellFormed
  <2>3. NothingBeforeThePlan'
    BY <1>6 DEF NothingBeforeThePlan, ProductionStage
  <2>4. ActiveInValidation'
    BY <1>6 DEF ActiveInValidation, RecordCandidateValidation
  <2>5. OneCandidateInValidation'
    BY <1>1, <1>5, <1>6, <1>7
    DEF CourseInv, OneCandidateInValidation, Candidates,
        RecordCandidateValidation
  <2>6. CompletedIffAllAccepted'
    BY <1>6, <1>8 DEF CompletedIffAllAccepted
  <2> QED BY <2>1, <2>2, <2>3, <2>4, <2>5, <2>6 DEF CourseInv
<1>13. StopsAreCoherent'
  BY <1>6, NormalDispositions DEF StopsAreCoherent, RecordCandidateValidation
<1>14. SourcesDistinct'
  BY DEF SourcesDistinct, RecordCandidateValidation, KnownSources
<1> QED BY <1>9, <1>10, <1>11, <1>12, <1>13, <1>14

\* _reopen_for_correction keeps the invariant.
LEMMA ReopenLecturesForCorrectionStep ==
  ASSUME WorkflowInv, NEW ids \in SUBSET (1..MaxLectures),
         NEW r \in 0..MaxRevision, ReopenLecturesForCorrection(ids, r)
  PROVE  WorkflowInv'
<1> USE DEF WorkflowInv
<1>1. /\ progress \in Seq(LectureProgress)
      /\ DOMAIN progress = 1..Len(progress)
      /\ Len(progress) \in Nat
      /\ \A l \in DOMAIN progress : progress[l] \in LectureProgress
  BY LecturesArePositions DEF CourseInv, TypeOK
<1>2. ids \subseteq DOMAIN progress
  BY <1>1 DEF CourseInv, ProgressFollowsMap, ReopenLecturesForCorrection
<1>3. /\ DOMAIN progress' = DOMAIN progress
      /\ \A l \in DOMAIN progress :
           progress'[l] = IF l \in ids
                            THEN [progress[l] EXCEPT
                                    !.status = "correction_required"]
                            ELSE progress[l]
  BY DEF ReopenLecturesForCorrection
<1>4. /\ progress' \in [1..Len(progress) -> LectureProgress]
      /\ \A l \in ids :
           /\ progress'[l].status = "correction_required"
           /\ progress'[l].attempt = progress[l].attempt
           /\ progress'[l].candidate = progress[l].candidate
           /\ progress'[l].validation = progress[l].validation
           /\ progress'[l].accepted_document = progress[l].accepted_document
  <2>1. \A l \in DOMAIN progress : progress'[l] \in LectureProgress
    BY <1>1, <1>3 DEF LectureProgress
  <2>2. progress' \in [1..Len(progress) -> LectureProgress]
    BY <1>1, <2>1 DEF ReopenLecturesForCorrection
  <2> QED BY <1>1, <1>2, <1>3, <2>2 DEF LectureProgress
<1>5. progress' \in Seq(LectureProgress) /\ Len(progress') = Len(progress)
  <2>1. progress' \in Seq(LectureProgress) BY <1>1, <1>4, SeqDef
  <2>2. DOMAIN progress' = 1..Len(progress') /\ Len(progress') \in Nat
    BY <2>1, LenProperties
  <2> QED BY <1>1, <1>3, <2>1, <2>2
<1>6. TypeOK'
  <2>1. Commit("reopen_lectures_for_correction", CorrectionSubject(ids, r))
    BY DEF ReopenLecturesForCorrection
  <2>2. "reopen_lectures_for_correction" \in Action BY DEF Action
  <2>3. CorrectionSubject(ids, r) \in Subject
    BY InputsAssumption, SubjectTyped
  <2> QED
    BY <2>1, <2>2, <2>3, <1>5, CommitTyped
    DEF TypeOK, ReopenLecturesForCorrection, Stage
<1>7. PlanFitsStage'
  BY DEF PlanFitsStage, ReopenLecturesForCorrection, ProductionStage
<1>8. ApprovalsAreHeld'
  BY DEF ApprovalsAreHeld, ReopenLecturesForCorrection, ApprovedMaps,
         Reopenings, SubjectOf, MapSubject
<1>9. CourseInv'
  <2>1. ProgressFollowsMap'
    BY <1>5 DEF CourseInv, ProgressFollowsMap, ReopenLecturesForCorrection
  <2>2. \A l \in DOMAIN progress : progress[l].status = "accepted"
    BY DEF CourseInv, CompletedIffAllAccepted, ReopenLecturesForCorrection,
           ProductionStage
  <2>3. ProgressIsWellFormed'
    BY <1>2, <1>3, <1>4, <2>2 DEF CourseInv, ProgressIsWellFormed
  <2>4. NothingBeforeThePlan'
    BY DEF NothingBeforeThePlan, ReopenLecturesForCorrection, ProductionStage
  <2>5. ActiveInValidation'
    BY DEF ActiveInValidation, ReopenLecturesForCorrection
  <2>6. OneCandidateInValidation'
    BY <1>2, <1>3, <1>4, <2>2
    DEF OneCandidateInValidation, Candidates, ReopenLecturesForCorrection
  <2>7. CompletedIffAllAccepted'
    <3>1. PICK l \in ids : TRUE BY DEF ReopenLecturesForCorrection
    <3> QED
      BY <1>2, <1>3, <1>4, <3>1
      DEF CompletedIffAllAccepted, ReopenLecturesForCorrection
  <2> QED BY <2>1, <2>3, <2>4, <2>5, <2>6, <2>7 DEF CourseInv
<1>10. StopsAreCoherent'
  BY NormalDispositions DEF StopsAreCoherent, ReopenLecturesForCorrection
<1>11. SourcesDistinct'
  BY DEF SourcesDistinct, ReopenLecturesForCorrection, KnownSources
<1> QED BY <1>6, <1>7, <1>8, <1>9, <1>10, <1>11

\* FAILURE_REGISTRY: failures happen where the stage is normally ready.
LEMMA FailureCodes ==
  /\ DOMAIN FailureCode = {"source_assessment", "lecture_mapping",
                           "lecture_production", "lecture_validation"}
  /\ \A s \in DOMAIN FailureCode :
       /\ NormalDisposition[s] = "ready"
       /\ FailureCode[s] # "new_source_review_required"
       /\ FailureCode[s] \in {FailureCode[t] : t \in DOMAIN FailureCode}
BY NormalDispositions DEF FailureCode

\* A stop types its issue and its diagnostic, and leaves the rest alone.
LEMMA StopTyped ==
  ASSUME TypeOK, NEW i \in Issue, NEW how \in {"blocked", "failed"},
         NEW a \in Action, NEW s \in Subject, Stop(i, how), Commit(a, s),
         pending' \in PendingSourceRecord \cup {None}
  PROVE  TypeOK'
<1>1. IssueDiagnostic(i) \in Diagnostic
  BY DEF IssueDiagnostic, Diagnostic, Issue
<1> QED
  BY <1>1, CommitTyped DEF TypeOK, Stop, PlanAndCourse

\* What is resumed is the workflow that was stopped.
LEMMA ResumeTyped ==
  ASSUME TypeOK,
         NEW how \in {"ready", "awaiting_approval", "completed"},
         NEW a \in Action, NEW s \in Subject, Resume(how), Commit(a, s)
  PROVE  TypeOK'
<1>1. WithoutIssueDiagnostics \in SUBSET Diagnostic
  BY DEF WithoutIssueDiagnostics, TypeOK
<1> QED
  BY <1>1, CommitTyped DEF TypeOK, Resume, PlanAndCourse

\* _record_failure keeps the invariant.
LEMMA RecordOperationFailureStep ==
  ASSUME WorkflowInv, NEW f \in DOMAIN FailureCode, NEW x \in IssueDigest,
         RecordOperationFailure(FailureCode[f], x)
  PROVE  WorkflowInv'
<1> USE DEF WorkflowInv
<1> DEFINE i == [kind |-> "failure", code |-> FailureCode[f], stage |-> stage,
                 subject |-> IssueSubject(x),
                 recorded_revision |-> revision + 1]
<1>1. i \in Issue
  BY FailureCodes, InputsAssumption DEF Issue, TypeOK
<1>2. /\ i.kind = "failure"
      /\ i.code = FailureCode[f]
      /\ i.stage = stage
      /\ i.recorded_revision = revision + 1
  OBVIOUS
<1>3. i # None BY <1>1, NoneAssumption
<1>4. /\ Stop(i, "failed")
      /\ Commit("record_operation_failure", IssueSubject(x))
      /\ pending' = pending /\ pending = None
  BY DEF RecordOperationFailure, StopsAreCoherent
<1> HIDE DEF i
<1>5. TypeOK'
  <2>1. "record_operation_failure" \in Action BY DEF Action
  <2>2. IssueSubject(x) \in Subject BY SubjectTyped
  <2> QED BY <1>1, <1>4, <2>1, <2>2, StopTyped
<1>6. PlanFitsStage' /\ ApprovalsAreHeld' /\ CourseInv'
  BY <1>4, PlanAndCourseKept DEF Stop
<1>7. StopsAreCoherent'
  <2>1. NormalDisposition[stage] = "ready"
    BY FailureCodes DEF RecordOperationFailure
  <2> QED
    BY <2>1, <1>2, <1>3, <1>4, FailureCodes
    DEF StopsAreCoherent, Stop, Commit, PlanAndCourse
<1>8. SourcesDistinct'
  BY <1>4 DEF SourcesDistinct, KnownSources, Stop, PlanAndCourse
<1> QED BY <1>5, <1>6, <1>7, <1>8

\* _retry_failure keeps the invariant.
LEMMA RetryFailedStep ==
  ASSUME WorkflowInv, NEW f \in DOMAIN FailureCode, NEW x \in IssueDigest,
         RetryFailed(FailureCode[f], x)
  PROVE  WorkflowInv'
<1> USE DEF WorkflowInv
<1>1. /\ Resume(NormalDisposition[stage])
      /\ Commit("retry_failed", IssueSubject(x))
      /\ issue # None
      /\ pending = None
  BY FailureCodes DEF RetryFailed, StopsAreCoherent
<1>2. NormalDisposition[stage] \in {"ready", "awaiting_approval", "completed"}
  BY NormalDispositions DEF TypeOK, Stage
<1>3. TypeOK'
  <2>1. "retry_failed" \in Action BY DEF Action
  <2>2. IssueSubject(x) \in Subject BY SubjectTyped
  <2> QED BY <1>1, <1>2, <2>1, <2>2, ResumeTyped
<1>4. PlanFitsStage' /\ ApprovalsAreHeld' /\ CourseInv'
  BY <1>1, PlanAndCourseKept DEF Resume
<1>5. StopsAreCoherent'
  BY <1>1 DEF StopsAreCoherent, Resume, PlanAndCourse
<1>6. SourcesDistinct'
  BY <1>1 DEF SourcesDistinct, KnownSources, Resume, PlanAndCourse
<1> QED BY <1>3, <1>4, <1>5, <1>6

\* _mark_blocked keeps the invariant.
LEMMA MarkBlockedStep ==
  ASSUME WorkflowInv, NEW c \in BlockerCode, NEW x \in IssueDigest,
         MarkBlocked(c, x)
  PROVE  WorkflowInv'
<1> USE DEF WorkflowInv
<1> DEFINE i == [kind |-> "blocker", code |-> c, stage |-> stage,
                 resume_disposition |-> disposition,
                 subject |-> IssueSubject(x),
                 recorded_revision |-> revision + 1]
<1>1. /\ disposition \in {"ready", "awaiting_approval"}
      /\ disposition = NormalDisposition[stage]
  BY NormalDispositions
  DEF MarkBlocked, PrivateArtifactBlockerStarts, Stage, TypeOK
<1>2. i \in Issue
  BY <1>1, InputsAssumption DEF Issue, TypeOK
<1>3. /\ i.kind = "blocker"
      /\ i.code = c
      /\ i.stage = stage
      /\ i.resume_disposition = disposition
      /\ i.recorded_revision = revision + 1
  OBVIOUS
<1>4. i # None BY <1>2, NoneAssumption
<1>5. /\ Stop(i, "blocked")
      /\ Commit("mark_blocked", IssueSubject(x))
      /\ pending' = pending /\ pending = None
  BY DEF MarkBlocked, StopsAreCoherent
<1> HIDE DEF i
<1>6. TypeOK'
  <2>1. "mark_blocked" \in Action BY DEF Action
  <2>2. IssueSubject(x) \in Subject BY SubjectTyped
  <2> QED BY <1>2, <1>5, <2>1, <2>2, StopTyped
<1>7. PlanFitsStage' /\ ApprovalsAreHeld' /\ CourseInv'
  BY <1>5, PlanAndCourseKept DEF Stop
<1>8. StopsAreCoherent'
  <2>1. c # "new_source_review_required" BY InputsAssumption
  <2> QED
    BY <2>1, <1>1, <1>3, <1>4, <1>5
    DEF StopsAreCoherent, Stop, Commit, PlanAndCourse
<1>9. SourcesDistinct'
  BY <1>5 DEF SourcesDistinct, KnownSources, Stop, PlanAndCourse
<1> QED BY <1>6, <1>7, <1>8, <1>9

\* _clear_blocker keeps the invariant.
LEMMA ClearBlockerStep ==
  ASSUME WorkflowInv, NEW c \in BlockerCode, NEW x \in IssueDigest,
         ClearBlocker(c, x)
  PROVE  WorkflowInv'
<1> USE DEF WorkflowInv
<1>1. /\ Resume(issue.resume_disposition)
      /\ Commit("clear_blocker", IssueSubject(x))
      /\ issue # None
      /\ pending = None
      /\ issue.resume_disposition = NormalDisposition[stage]
  BY DEF ClearBlocker, StopsAreCoherent
<1>2. NormalDisposition[stage] \in {"ready", "awaiting_approval", "completed"}
  BY NormalDispositions DEF TypeOK, Stage
<1>3. TypeOK'
  <2>1. "clear_blocker" \in Action BY DEF Action
  <2>2. IssueSubject(x) \in Subject BY SubjectTyped
  <2> QED BY <1>1, <1>2, <2>1, <2>2, ResumeTyped
<1>4. PlanFitsStage' /\ ApprovalsAreHeld' /\ CourseInv'
  BY <1>1, PlanAndCourseKept DEF Resume
<1>5. StopsAreCoherent'
  BY <1>1 DEF StopsAreCoherent, Resume, PlanAndCourse
<1>6. SourcesDistinct'
  BY <1>1 DEF SourcesDistinct, KnownSources, Resume, PlanAndCourse
<1> QED BY <1>3, <1>4, <1>5, <1>6

\* _record_new_source keeps the invariant.
LEMMA RecordNewSourceStep ==
  ASSUME WorkflowInv, NEW s \in Source, RecordNewSource(s)
  PROVE  WorkflowInv'
<1> USE DEF WorkflowInv
<1> DEFINE i == [kind |-> "blocker", code |-> "new_source_review_required",
                 stage |-> stage, resume_disposition |-> "ready",
                 subject |-> SourceSubject(s.digest),
                 recorded_revision |-> revision + 1]
<1>1. i \in Issue BY InputsAssumption DEF Issue, TypeOK
<1>2. /\ i.kind = "blocker"
      /\ i.code = "new_source_review_required"
      /\ i.stage = stage
      /\ i.resume_disposition = "ready"
      /\ i.recorded_revision = revision + 1
  OBVIOUS
<1>3. i # None BY <1>1, NoneAssumption
<1>4. /\ Stop(i, "blocked")
      /\ Commit("record_new_source", SourceSubject(s.digest))
  BY DEF RecordNewSource
<1> HIDE DEF i
<1>5. /\ pending' \in PendingSourceRecord
      /\ pending'.source = s
      /\ pending'.detected_stage = stage
      /\ pending' # None
      /\ pending = None
  BY InputsAssumption, NoneAssumption
  DEF RecordNewSource, PendingSourceRecord, TypeOK
<1>6. TypeOK'
  <2>1. "record_new_source" \in Action BY DEF Action
  <2>2. SourceSubject(s.digest) \in Subject BY SubjectTyped
  <2> QED BY <1>1, <1>4, <1>5, <2>1, <2>2, StopTyped
<1>7. PlanFitsStage' /\ ApprovalsAreHeld' /\ CourseInv'
  BY <1>4, PlanAndCourseKept DEF Stop
<1>8. StopsAreCoherent'
  <2>1. NormalDisposition[stage] = "ready"
    BY NormalDispositions DEF RecordNewSource, NewSourceStages
  <2> QED
    BY <2>1, <1>2, <1>3, <1>4, <1>5
    DEF StopsAreCoherent, Stop, Commit, PlanAndCourse
<1>9. SourcesDistinct'
  BY <1>4, <1>5
  DEF SourcesDistinct, KnownSources, Stop, PlanAndCourse, RecordNewSource,
      UnknownSource
<1> QED BY <1>6, <1>7, <1>8, <1>9

\* _dismiss_new_source keeps the invariant.
LEMMA DismissNewSourceStep ==
  ASSUME WorkflowInv, NEW s \in Source, DismissNewSource(s.digest)
  PROVE  WorkflowInv'
<1> USE DEF WorkflowInv
<1> DEFINE a == Approval("new_source_irrelevant", "approved",
                         SourceSubject(s.digest))
<1>1. a \in ApprovalRecord /\ a.gate = "new_source_irrelevant"
  BY ApprovalTyped DEF Approval
<1>2. approvals' = approvals \cup {a} BY DEF DismissNewSource
<1> HIDE DEF a
<1>3. /\ pending \in PendingSourceRecord
      /\ pending.source \in Source
      /\ issue # None
      /\ stage' = stage
      /\ disposition' = NormalDisposition[stage]
  BY DEF DismissNewSource, NewSourceUnderReview, StopsAreCoherent, TypeOK,
         PendingSourceRecord, DetectedStage
<1>4. TypeOK'
  <2>1. Commit("dismiss_new_source", SourceSubject(s.digest))
    BY DEF DismissNewSource
  <2>2. "dismiss_new_source" \in Action BY DEF Action
  <2>3. WithoutIssueDiagnostics \in SUBSET Diagnostic
    BY DEF WithoutIssueDiagnostics, TypeOK
  <2>4. disposition' \in {"ready", "awaiting_approval", "completed"}
    BY <1>3, NormalDispositions DEF TypeOK, Stage
  <2> QED
    BY <2>1, <2>2, <2>3, <2>4, <1>1, <1>2, <1>3, SubjectTyped, CommitTyped
    DEF TypeOK, DismissNewSource
<1>5. PlanFitsStage'
  BY <1>3 DEF PlanFitsStage, DismissNewSource
<1>6. ApprovalsAreHeld'
  BY <1>1, <1>2
  DEF ApprovalsAreHeld, DismissNewSource, ApprovedMaps, Reopenings, SubjectOf,
      MapSubject
<1>7. CourseInv'
  BY <1>3
  DEF CourseInv, DismissNewSource, ProgressFollowsMap, ProgressIsWellFormed,
      NothingBeforeThePlan, ActiveInValidation, OneCandidateInValidation,
      Candidates, CompletedIffAllAccepted
<1>8. StopsAreCoherent'
  BY <1>3 DEF StopsAreCoherent, DismissNewSource
<1>9. SourcesDistinct'
  <2>1. pending # None BY <1>3, NoneAssumption
  <2>2. /\ sources' = sources
        /\ reviewed' = reviewed \cup {pending.source}
        /\ pending' = None
    BY DEF DismissNewSource
  <2>3. KnownSources' = KnownSources BY <2>1, <2>2 DEF KnownSources
  <2> QED BY <2>1, <2>2, <2>3 DEF SourcesDistinct
<1> QED BY <1>4, <1>5, <1>6, <1>7, <1>8, <1>9

\* _approve_map_reopen keeps the invariant.
LEMMA ApproveMapReopenStep ==
  ASSUME WorkflowInv, NEW s \in Source, ApproveMapReopen(s.digest)
  PROVE  WorkflowInv'
<1> USE DEF WorkflowInv
<1> DEFINE a == Approval("map_reopen", "approved", SourceSubject(s.digest))
<1>1. /\ a \in ApprovalRecord
      /\ a.gate = "map_reopen"
      /\ a.state_revision = revision + 1
  BY ApprovalTyped DEF Approval
<1>2. approvals' = approvals \cup {a} BY DEF ApproveMapReopen
<1> HIDE DEF a
<1>3. /\ pending \in PendingSourceRecord
      /\ pending.source \in Source
      /\ pending # None
      /\ map \in LectureMapRecord
      /\ map # None
      /\ map.approval \in ApprovedMaps
      /\ map.approval.subject = SubjectOf(map)
  BY DEF ApproveMapReopen, NewSourceUnderReview, TypeOK, PendingSourceRecord,
         ApprovalsAreHeld
<1>4. /\ context' \in MapReopenContext
      /\ context'.size = map.size
      /\ context'.created_revision = revision + 1
      /\ context'.approval = map.approval
      /\ SubjectOf(context') = SubjectOf(map)
  BY <1>3, InputsAssumption
  DEF ApproveMapReopen, MapReopenContext, LectureMapRecord, ApprovedMaps,
      TypeOK, SubjectOf, MapSubject
<1>5. context' # None BY <1>4, NoneAssumption
<1>6. progress' = AllPending(map.size) /\ map.size \in Nat
  BY <1>3, InputsAssumption DEF ApproveMapReopen, LectureMapRecord
<1>7. TypeOK'
  <2>1. Commit("approve_map_reopen", SourceSubject(s.digest))
    BY DEF ApproveMapReopen
  <2>2. "approve_map_reopen" \in Action BY DEF Action
  <2>3. Invalidated \subseteq HistoricalCandidateRecord
    BY <1>3, ArchivedTyped DEF Invalidated, CourseInv
  <2>4. diagnostics' \in SUBSET Diagnostic
    BY DEF ApproveMapReopen, WithoutCandidateWarnings,
           WithoutIssueDiagnostics, TypeOK
  <2> QED
    BY <2>1, <2>2, <2>3, <2>4, <1>1, <1>2, <1>3, <1>4, <1>6, SubjectTyped,
       CommitTyped, PendingTyped
    DEF TypeOK, ApproveMapReopen, Stage
<1>8. PlanFitsStage'
  BY DEF PlanFitsStage, ApproveMapReopen, ProductionStage
<1>9. ApprovalsAreHeld'
  BY <1>1, <1>2, <1>3, <1>4
  DEF ApprovalsAreHeld, ApproveMapReopen, ApprovedMaps, Reopenings
<1>10. CourseInv'
  <2>1. ProgressFollowsMap'
    BY <1>4, <1>5, <1>6, PendingTyped DEF ProgressFollowsMap, ApproveMapReopen
  <2>2. \A l \in DOMAIN progress' : progress'[l] = PendingLecture
    BY <1>6 DEF AllPending
  <2> QED
    BY <2>1, <2>2, NothingStarted DEF ApproveMapReopen, ProductionStage
<1>11. StopsAreCoherent'
  BY NormalDispositions DEF StopsAreCoherent, ApproveMapReopen
<1>12. SourcesDistinct'
  <2>1. /\ sources' = sources \cup {pending.source}
        /\ reviewed' = reviewed
        /\ pending' = None
    BY DEF ApproveMapReopen
  <2>2. KnownSources' = KnownSources BY <1>3, <2>1 DEF KnownSources
  <2> QED BY <1>3, <2>1, <2>2 DEF SourcesDistinct
<1> QED BY <1>7, <1>8, <1>9, <1>10, <1>11, <1>12

-----------------------------------------------------------------------------
\* _initialize establishes the invariant.
LEMMA Initially ==
  ASSUME Init
  PROVE  WorkflowInv
<1>1. TypeOK
  <2>1. /\ sources \in SUBSET Source
        /\ sources # {}
    BY InitialSourcesAssumption DEF Init
  <2>2. /\ receipts \in Seq(OperationReceipt)
        /\ Len(receipts) = 1
    <3> DEFINE r == [action |-> "initialize_workflow", to_revision |-> 0,
                     subject |-> SourceSetSubject(sources)]
    <3>1. r \in OperationReceipt
      BY <2>1, SubjectTyped DEF OperationReceipt, Action
    <3>2. receipts = <<r>> BY DEF Init
    <3> HIDE DEF r
    <3> QED BY <3>1, <3>2
  <2> QED
    BY <2>1, <2>2, InputsAssumption DEF Init, TypeOK, Stage
<1>2. PlanFitsStage BY DEF Init, PlanFitsStage, ProductionStage
<1>3. ApprovalsAreHeld BY DEF Init, ApprovalsAreHeld
<1>4. CourseInv
  BY DEF Init, CourseInv, ProgressFollowsMap, ProgressIsWellFormed,
         NothingBeforeThePlan, ActiveInValidation, OneCandidateInValidation,
         Candidates, CompletedIffAllAccepted, ProductionStage
<1>5. StopsAreCoherent
  BY NormalDispositions DEF Init, StopsAreCoherent
<1>6. SourcesDistinct
  BY InitialSourcesAssumption DEF Init, SourcesDistinct, KnownSources
<1> QED BY <1>1, <1>2, <1>3, <1>4, <1>5, <1>6 DEF WorkflowInv

\* No request breaks the invariant (apply_workflow_request).
LEMMA Step ==
  ASSUME WorkflowInv, [Next]_vars
  PROVE  WorkflowInv'
<1>1. CASE Planning
  <2>1. ASSUME NEW p \in Proposal, RecordSourceAssessment(p)
        PROVE  WorkflowInv'
    BY <2>1, RecordSourceAssessmentStep
  <2>2. ASSUME NEW p \in Proposal, "approved" \in OwnerDecision,
               ApprovePriorityBasis(PrioritySubject(p))
        PROVE  WorkflowInv'
    BY <2>2, ApprovePriorityBasisStep
  <2>3. ASSUME NEW p \in Proposal, "rejected" \in OwnerDecision,
               RejectPriorityBasis(PrioritySubject(p))
        PROVE  WorkflowInv'
    BY <2>3, RejectPriorityBasisStep
  <2>4. ASSUME NEW ref \in MapReference, NEW n \in MapSize,
               RecordLectureMap(ref, n)
        PROVE  WorkflowInv'
    BY <2>4, RecordLectureMapStep
  <2>5. ASSUME NEW ref \in MapReference, NEW n \in MapSize,
               NEW k \in 0..MaxLectures, "approved" \in OwnerDecision,
               ApproveLectureMap(MapSubject(ref, n, k))
        PROVE  WorkflowInv'
    BY <2>5, InputsAssumption, SubjectTyped, ApproveLectureMapStep
  <2>6. ASSUME NEW ref \in MapReference, NEW n \in MapSize,
               NEW k \in 0..MaxLectures, "rejected" \in OwnerDecision,
               RejectLectureMap(MapSubject(ref, n, k))
        PROVE  WorkflowInv'
    BY <2>6, InputsAssumption, SubjectTyped, RejectLectureMapStep
  <2> QED BY <1>1, <2>1, <2>2, <2>3, <2>4, <2>5, <2>6 DEF Planning
<1>2. CASE Production
  BY <1>2, SubmitLectureCandidateStep, RecordCandidateValidationStep,
     ReopenLecturesForCorrectionStep
  DEF Production
<1>3. CASE Interruption
  BY <1>3, RecordOperationFailureStep, RetryFailedStep, MarkBlockedStep,
     ClearBlockerStep, RecordNewSourceStep, DismissNewSourceStep,
     ApproveMapReopenStep
  DEF Interruption
<1>4. CASE UNCHANGED vars
  <2>1. TypeOK' BY <1>4 DEF WorkflowInv, TypeOK, vars
  <2>2. PlanFitsStage' /\ ApprovalsAreHeld' /\ CourseInv'
    BY <1>4, PlanAndCourseKept DEF WorkflowInv, vars, PlanAndCourse
  <2>3. StopsAreCoherent' /\ SourcesDistinct'
    BY <1>4
    DEF WorkflowInv, vars, StopsAreCoherent, SourcesDistinct, KnownSources
  <2> QED BY <2>1, <2>2, <2>3 DEF WorkflowInv
<1> QED BY <1>1, <1>2, <1>3, <1>4 DEF Next

\* The workflow keeps its invariant, whatever is requested in whatever order.
THEOREM WorkflowInvariant == Spec => []WorkflowInv
<1>1. Init => WorkflowInv BY Initially
<1>2. WorkflowInv /\ [Next]_vars => WorkflowInv' BY Step
<1> QED BY <1>1, <1>2, PTL DEF Spec

\* Every snapshot the handlers build is well typed: the record constructors of
\* workflow.py raise for none of them.
THEOREM WorkflowTypeCorrect == Spec => []TypeOK
<1>1. WorkflowInv => TypeOK BY DEF WorkflowInv
<1> QED BY <1>1, WorkflowInvariant, PTL

\* Sources stay told apart by id and by digest, whatever is offered, dismissed
\* or taken up (_record_new_source, _dismiss_new_source, _approve_map_reopen).
THEOREM SourcesStayDistinct == Spec => []SourcesDistinct
<1>1. WorkflowInv => SourcesDistinct BY DEF WorkflowInv
<1> QED BY <1>1, WorkflowInvariant, PTL

\* A stop belongs to the stage and revision it stopped, and resuming leads to
\* the normal disposition of that stage.
THEOREM StopsStayCoherent == Spec => []StopsAreCoherent
<1>1. WorkflowInv => StopsAreCoherent BY DEF WorkflowInv
<1> QED BY <1>1, WorkflowInvariant, PTL

\* A candidate awaits validation exactly in the validation stage, as the active
\* lecture, through every failure, blocker and reopening.
THEOREM AtMostOneCandidate == Spec => []OneCandidateInValidation
<1>1. WorkflowInv => OneCandidateInValidation BY DEF WorkflowInv, CourseInv
<1> QED BY <1>1, WorkflowInvariant, PTL

\* Under an approved map the course is completed exactly when every lecture is
\* accepted: it completes neither early nor never.
THEOREM CompletionIsAcceptance == Spec => []CompletedIffAllAccepted
<1>1. WorkflowInv => CompletedIffAllAccepted BY DEF WorkflowInv, CourseInv
<1> QED BY <1>1, WorkflowInvariant, PTL

-----------------------------------------------------------------------------
(* Evidence                                                                *)

\* Every validation that is kept was made under the workflow's own policy.
ValidatedUnderPolicy ==
  \A l \in DOMAIN progress :
    progress[l].validation # None => progress[l].validation.policy = policy

\* No request changes the policy a kept validation was made under.
LEMMA PolicyStep ==
  ASSUME WorkflowInv, WorkflowInv', ValidatedUnderPolicy, [Next]_vars
  PROVE  ValidatedUnderPolicy'
<1>1. policy' = policy
  BY DEF Next, Planning, Production, Interruption, RecordSourceAssessment,
         ApprovePriorityBasis, RejectPriorityBasis, RecordLectureMap,
         ApproveLectureMap, RejectLectureMap, SubmitLectureCandidate,
         RecordCandidateValidation, ReopenLecturesForCorrection,
         RecordOperationFailure, RetryFailed, MarkBlocked, ClearBlocker,
         RecordNewSource, DismissNewSource, ApproveMapReopen, Commit, vars
<1>2. CASE stage' \notin ProductionStage
  BY <1>2
  DEF WorkflowInv, CourseInv, NothingBeforeThePlan, ValidatedUnderPolicy,
      PendingLecture
<1>3. CASE progress' = progress
  BY <1>1, <1>3 DEF ValidatedUnderPolicy
<1>4. ASSUME NEW l \in 1..MaxLectures, NEW d, SubmitLectureCandidate(l, d)
      PROVE  ValidatedUnderPolicy'
  BY <1>1, <1>4 DEF ValidatedUnderPolicy, SubmitLectureCandidate
<1>5. ASSUME NEW l \in 1..MaxLectures, NEW v \in Validation,
             RecordCandidateValidation(l, v)
      PROVE  ValidatedUnderPolicy'
  <2>1. progress[l] \in LectureProgress
    BY <1>5, LecturesArePositions
    DEF WorkflowInv, CourseInv, RecordCandidateValidation
  <2>2. ValidatedLecture(progress[l], v).validation = v
    BY <2>1 DEF ValidatedLecture, LectureProgress
  <2>3. v.policy = policy
    BY <1>5 DEF RecordCandidateValidation, EvidenceMatches
  <2> QED
    BY <1>1, <1>5, <2>2, <2>3
    DEF ValidatedUnderPolicy, RecordCandidateValidation
<1>6. ASSUME NEW ids, NEW r, ReopenLecturesForCorrection(ids, r)
      PROVE  ValidatedUnderPolicy'
  <2>1. \A l \in DOMAIN progress : progress[l] \in LectureProgress
    BY LecturesArePositions DEF WorkflowInv, CourseInv
  <2>2. /\ DOMAIN progress' = DOMAIN progress
        /\ \A l \in DOMAIN progress :
             progress'[l].validation = progress[l].validation
    BY <1>6, <2>1 DEF ReopenLecturesForCorrection, LectureProgress
  <2> QED BY <1>1, <2>2 DEF ValidatedUnderPolicy
<1>7. \/ stage' \notin ProductionStage
      \/ progress' = progress
      \/ \E l \in 1..MaxLectures, d \in Document : SubmitLectureCandidate(l, d)
      \/ \E l \in 1..MaxLectures, v \in Validation :
           RecordCandidateValidation(l, v)
      \/ \E ids, r : ReopenLecturesForCorrection(ids, r)
  BY DEF Next, Planning, Production, Interruption, RecordSourceAssessment,
         ApprovePriorityBasis, RejectPriorityBasis, PriorityDecision,
         RecordLectureMap, ApproveLectureMap, RejectLectureMap,
         RecordOperationFailure, RetryFailed, MarkBlocked, ClearBlocker,
         RecordNewSource, DismissNewSource, ApproveMapReopen, Stop, Resume,
         PlanAndCourse, vars, ProductionStage
<1> QED BY SMTT(30), <1>2, <1>3, <1>4, <1>5, <1>6, <1>7

\* The evidence of one lecture.
LEMMA AcceptedHasEvidence ==
  ASSUME WorkflowInv, ValidatedUnderPolicy
  PROVE  AcceptedOnEvidence
<1> SUFFICES ASSUME NEW l \in DOMAIN progress,
                    progress[l].status \in {"accepted", "correction_required"}
             PROVE  /\ progress[l].accepted_document # None
                    /\ progress[l].accepted_document = progress[l].candidate
                    /\ progress[l].candidate.document_id = l
                    /\ progress[l].candidate.order = l
                    /\ progress[l].validation.document = progress[l].candidate
                    /\ progress[l].validation.policy = policy
                    /\ progress[l].validation.disposition \in Passing
  BY DEF AcceptedOnEvidence
<1>1. progress[l] \in LectureProgress
  BY LecturesArePositions DEF WorkflowInv, CourseInv
<1>2. progress[l].validation.disposition \in Verdict
  BY <1>1 DEF WorkflowInv, CourseInv, ProgressIsWellFormed, LectureProgress,
              Validation
<1> QED
  BY ZenonT(60), <1>1, <1>2, InputsAssumption
  DEF WorkflowInv, CourseInv, ProgressIsWellFormed, ValidatedUnderPolicy,
      PendingLecture, Passing

\* What counts as accepted was validated: the very document, in its place,
\* under the policy the workflow was initialised with.
THEOREM AcceptanceIsEvidenced == Spec => []AcceptedOnEvidence
<1>1. Init => ValidatedUnderPolicy BY DEF Init, ValidatedUnderPolicy
<1>2. WorkflowInv /\ WorkflowInv' /\ ValidatedUnderPolicy /\ [Next]_vars
        => ValidatedUnderPolicy'
  BY PolicyStep
<1>3. WorkflowInv /\ ValidatedUnderPolicy => AcceptedOnEvidence
  BY AcceptedHasEvidence
<1> QED BY <1>1, <1>2, <1>3, WorkflowInvariant, PTL DEF Spec

-----------------------------------------------------------------------------
(* Steps                                                                   *)

\* A step that ends a stop restores the workflow or reopens the map.
LEMMA StopStep ==
  ASSUME WorkflowInv, [Next]_vars, issue # None, issue' = None
  PROVE  \/ context' # None /\ context' # context
         \/ UNCHANGED <<stage, sources, assessment, basis, map, context, active,
                        progress, history>>
<1>1. CASE Planning
  BY <1>1
  DEF Planning, RecordSourceAssessment, ApprovePriorityBasis,
      RejectPriorityBasis, PriorityDecision, RecordLectureMap,
      ApproveLectureMap, RejectLectureMap, MapDecision
<1>2. CASE Production
  BY <1>2
  DEF Production, SubmitLectureCandidate, RecordCandidateValidation,
      ReopenLecturesForCorrection
<1>3. ASSUME NEW c, NEW x,
             \/ RecordOperationFailure(c, x) \/ RetryFailed(c, x)
             \/ MarkBlocked(c, x) \/ ClearBlocker(c, x) \/ RecordNewSource(c)
      PROVE  UNCHANGED <<stage, sources, assessment, basis, map, context,
                         active, progress, history>>
  BY <1>3
  DEF RecordOperationFailure, RetryFailed, MarkBlocked, ClearBlocker,
      RecordNewSource, Stop, Resume, PlanAndCourse
<1>4. ASSUME NEW digest, DismissNewSource(digest)
      PROVE  UNCHANGED <<stage, sources, assessment, basis, map, context,
                         active, progress, history>>
  BY <1>4
  DEF DismissNewSource, NewSourceUnderReview, DetectedStage, WorkflowInv,
      StopsAreCoherent
<1>5. ASSUME NEW s \in Source, ApproveMapReopen(s.digest)
      PROVE  context' # None /\ context' # context
  <2>1. context = None
    BY <1>5
    DEF ApproveMapReopen, NewSourceUnderReview, WorkflowInv, StopsAreCoherent,
        PlanFitsStage, TypeOK, PendingSourceRecord, NewSourceStages,
        ProductionStage
  <2>2. context' \in MapReopenContext
    BY <1>5, InputsAssumption
    DEF ApproveMapReopen, MapReopenContext, LectureMapRecord, WorkflowInv,
        ApprovalsAreHeld, ApprovedMaps, TypeOK
  <2> QED BY <2>1, <2>2, NoneAssumption
<1>6. CASE UNCHANGED vars
  BY <1>6 DEF vars
<1> QED BY <1>1, <1>2, <1>3, <1>4, <1>5, <1>6 DEF Next, Interruption

\* Recovering from a failure or a blocker restores the workflow as it was,
\* unless the owner reopens the map (_retry_failure, _clear_blocker,
\* _dismiss_new_source).
THEOREM StopsCostNothing == Spec => StopsAreTransparent
<1>1. WorkflowInv /\ [Next]_vars
        => [issue # None /\ issue' = None =>
              \/ context' # None /\ context' # context
              \/ UNCHANGED <<stage, sources, assessment, basis, map, context,
                             active, progress, history>>]_vars
  BY StopStep
<1> QED BY <1>1, WorkflowInvariant, PTL DEF Spec, StopsAreTransparent

\* The archive of a lecture l after a step.
Archived(l) ==
  \E h \in history' :
    /\ h.candidate = progress[l].candidate
    /\ h.map_position = l
    /\ h.attempt = progress[l].attempt
    /\ h.map_subject = SubjectOf(map)

\* A step that takes a candidate from a lecture archives it.
LEMMA ArchiveStep ==
  ASSUME WorkflowInv, [Next]_vars, NEW l \in DOMAIN progress,
         progress[l].candidate # None,
         l \in DOMAIN progress' => progress'[l].attempt # progress[l].attempt
  PROVE  Archived(l)
<1>1. progress' # progress OBVIOUS
<1>2. stage \in ProductionStage
  BY DEF WorkflowInv, CourseInv, NothingBeforeThePlan, PendingLecture
<1>3. progress[l] \in LectureProgress
  BY LecturesArePositions DEF WorkflowInv, CourseInv
<1>4. ASSUME NEW k \in 1..MaxLectures, NEW d, SubmitLectureCandidate(k, d)
      PROVE  Archived(l)
  <2>1. k = l /\ progress[l].status # "pending"
    BY <1>3, <1>4
    DEF SubmitLectureCandidate, WorkflowInv, CourseInv, ProgressIsWellFormed,
        PendingLecture
  <2>2. PICK h \in Superseded(l) : TRUE BY <2>1 DEF Superseded
  <2>3. /\ h.candidate = progress[l].candidate
        /\ h.map_position = l
        /\ h.attempt = progress[l].attempt
        /\ h.map_subject = SubjectOf(map)
    BY <2>2 DEF Superseded, HistoricalCandidate
  <2> QED BY <1>4, <2>1, <2>2, <2>3 DEF SubmitLectureCandidate, Archived
<1>5. ASSUME NEW k \in 1..MaxLectures, NEW v \in Validation,
             RecordCandidateValidation(k, v)
      PROVE  FALSE
  <2>1. progress[k] \in LectureProgress
    BY <1>5, LecturesArePositions
    DEF WorkflowInv, CourseInv, RecordCandidateValidation
  <2>2. ValidatedLecture(progress[k], v).attempt = progress[k].attempt
    BY <2>1 DEF ValidatedLecture, LectureProgress
  <2> QED BY <1>5, <2>2 DEF RecordCandidateValidation
<1>6. ASSUME NEW ids, NEW r, ReopenLecturesForCorrection(ids, r)
      PROVE  FALSE
  BY <1>3, <1>6 DEF ReopenLecturesForCorrection, LectureProgress
<1>7. ASSUME NEW digest, ApproveMapReopen(digest)
      PROVE  Archived(l)
  <2> DEFINE h == HistoricalCandidate(l, SubjectOf(map), progress[l],
                                      "invalidated_by_map_reopen")
  <2>1. h \in history' BY <1>7 DEF ApproveMapReopen, Invalidated
  <2> QED BY <2>1 DEF Archived, HistoricalCandidate
<1> QED
  BY <1>1, <1>2, <1>4, <1>5, <1>6, <1>7
  DEF Next, Planning, Production, Interruption, RecordSourceAssessment,
      ApprovePriorityBasis, RejectPriorityBasis, PriorityDecision,
      RecordLectureMap, ApproveLectureMap, RejectLectureMap, MapDecision,
      RecordOperationFailure, RetryFailed, MarkBlocked, ClearBlocker,
      RecordNewSource, DismissNewSource, Stop, Resume, PlanAndCourse, vars,
      ProductionStage

\* No draft is lost: a candidate that gives way, to a new attempt or to a
\* reopened map, is in the history under its map, place and attempt.
THEOREM DraftsAreKept == Spec => CandidatesAreArchived
<1>1. WorkflowInv /\ [Next]_vars
        => [\A l \in DOMAIN progress :
              LET p == progress[l] IN
              /\ p.candidate # None
              /\ l \in DOMAIN progress' => progress'[l].attempt # p.attempt
              => \E h \in history' :
                   /\ h.candidate = p.candidate
                   /\ h.map_position = l
                   /\ h.attempt = p.attempt
                   /\ h.map_subject = SubjectOf(map)]_vars
  BY ArchiveStep DEF Archived
<1> QED BY <1>1, WorkflowInvariant, PTL DEF Spec, CandidatesAreArchived

-----------------------------------------------------------------------------
(* The workflow implements CourseProduction.  Planning before approval is  *)
(* a stutter of the abstract course; approving a map agrees to a plan,     *)
(* submitting a candidate drafts a lecture, validating judges it, and so   *)
(* on: one lemma per abstract action, each for the handlers it stands for. *)

\* A function on 1..n is a sequence of length n.
LEMMA LengthOfFunction ==
  ASSUME NEW n \in Nat, NEW f, DOMAIN f = 1..n, f = [l \in 1..n |-> f[l]]
  PROVE  Len(f) = n
<1> DEFINE S == {f[l] : l \in 1..n}
<1>1. f \in [1..n -> S] OBVIOUS
<1>2. f \in Seq(S) BY <1>1, SeqDef
<1>3. DOMAIN f = 1..Len(f) /\ Len(f) \in Nat
  <2> HIDE DEF S
  <2> QED BY <1>2, LenProperties
<1> QED BY <1>3

\* The abstract course of an agreed plan has the lectures of the map, the one
\* of a plan under way those that are reserved.
LEMMA CourseLength ==
  ASSUME WorkflowInv
  PROVE  /\ PlanAgreed => /\ DOMAIN Production_course = DOMAIN progress
                          /\ \A l \in DOMAIN progress :
                               Production_course[l] = Wording[progress[l].status]
                          /\ Len(Production_course) = Len(progress)
                          /\ map # None /\ Len(progress) = map.size
         /\ ~PlanAgreed => /\ Production_course = [l \in 1..Reserved |-> "todo"]
                           /\ Len(Production_course) = Reserved
                           /\ Reserved \in Nat
<1>1. Reserved \in Nat
  BY InputsAssumption DEF WorkflowInv, TypeOK, MapReopenContext, Reserved
<1>2. DOMAIN progress = 1..Len(progress) /\ Len(progress) \in Nat
  BY LecturesArePositions DEF WorkflowInv, CourseInv
<1>3. PlanAgreed => map # None /\ Len(progress) = map.size
  BY DEF WorkflowInv, CourseInv, PlanAgreed, PlanFitsStage, ProductionStage,
         ProgressFollowsMap
<1>4. CASE PlanAgreed
  <2>1. Production_course = [l \in DOMAIN progress |-> Wording[progress[l].status]]
    BY <1>4 DEF Production_course
  <2> QED BY <1>2, <1>3, <1>4, <2>1, LengthOfFunction
<1>5. CASE ~PlanAgreed
  <2>1. Production_course = [l \in 1..Reserved |-> "todo"]
    BY <1>5 DEF Production_course
  <2> QED BY <1>1, <1>5, <2>1, LengthOfFunction
<1> QED BY <1>4, <1>5

\* Before and after an unapproved plan the abstract course is the same.
LEMMA PlanningSimulated ==
  ASSUME WorkflowInv, ~PlanAgreed, ~PlanAgreed', issue' = issue,
         context' = context
  PROVE  UNCHANGED Abstract!productionVars
BY DEF Abstract!productionVars, PlanAgreed, Production_course, Reserved, ProductionStage

\* A stopped workflow resumes, or stops, with its course as it was.
LEMMA CourseKept ==
  ASSUME UNCHANGED <<stage, progress, context>>
  PROVE  /\ PlanAgreed' = PlanAgreed
         /\ Production_course' = Production_course
         /\ (stage = "completed")' = (stage = "completed")
BY DEF PlanAgreed, Production_course, Reserved

\* A failure or a blocker suspends the abstract course.
LEMMA SuspendSimulated ==
  ASSUME issue = None, issue' # None, stage # "completed",
         UNCHANGED <<stage, progress, context>>
  PROVE  Abstract!Suspend
BY CourseKept DEF Abstract!Suspend

\* Retrying, clearing and dismissing continue it.
LEMMA ContinueSimulated ==
  ASSUME issue # None, issue' = None, UNCHANGED <<stage, progress, context>>
  PROVE  Abstract!Continue
BY CourseKept DEF Abstract!Continue

\* Approving a map agrees to its lectures.
LEMMA AgreeSimulated ==
  ASSUME WorkflowInv, WorkflowInv', NEW m, ApproveLectureMap(m)
  PROVE  \E n \in 1..MaxLectures : Abstract!Agree(n)
<1>1. /\ ~PlanAgreed /\ PlanAgreed'
      /\ stage # "completed" /\ stage' # "completed"
      /\ issue = None /\ issue' = None
  BY NormalDispositions
  DEF WorkflowInv, StopsAreCoherent, PlanAgreed, ProductionStage,
      ApproveLectureMap, MapDecision
<1>2. /\ map \in LectureMapRecord
      /\ map.size \in 1..MaxLectures
      /\ map.size \in Nat
      /\ Len(progress) = map.size
      /\ Reserved <= map.size
  BY InputsAssumption
  DEF WorkflowInv, TypeOK, LectureMapRecord, CourseInv, ProgressFollowsMap,
      ApproveLectureMap, MapDecision, Reserved
<1>3. progress' = progress BY DEF ApproveLectureMap
<1>4. Production_course' = Abstract!Fresh(map.size)
  <2>1. /\ DOMAIN progress = 1..map.size
        /\ \A l \in DOMAIN progress : progress[l] = PendingLecture
    BY <1>1, <1>2, LenProperties
    DEF WorkflowInv, TypeOK, CourseInv, NothingBeforeThePlan, PlanAgreed
  <2>2. Wording[PendingLecture.status] = "todo"
    BY DEF Wording, PendingLecture
  <2>3. Production_course' = [l \in DOMAIN progress |-> Wording[progress[l].status]]
    BY <1>1, <1>3 DEF Production_course
  <2> QED BY <2>1, <2>2, <2>3 DEF Abstract!Fresh
<1>5. map.size >= Len(Production_course)
  BY <1>1, <1>2, CourseLength
<1>6. Abstract!Agree(map.size)
  BY <1>1, <1>2, <1>4, <1>5 DEF Abstract!Agree
<1> QED BY <1>2, <1>6

\* Submitting a candidate drafts its lecture.
LEMMA DraftSimulated ==
  ASSUME WorkflowInv, WorkflowInv', NEW l \in 1..MaxLectures, NEW d,
         SubmitLectureCandidate(l, d)
  PROVE  \E k \in DOMAIN Production_course : Abstract!Draft(k)
<1>1. /\ PlanAgreed /\ PlanAgreed'
      /\ stage # "completed" /\ stage' # "completed"
      /\ issue = None /\ issue' = None
  BY DEF PlanAgreed, ProductionStage, SubmitLectureCandidate
<1>2. /\ l \in DOMAIN progress
      /\ DOMAIN Production_course = DOMAIN progress
      /\ Production_course = [k \in DOMAIN progress |-> Wording[progress[k].status]]
      /\ Production_course' = [k \in DOMAIN progress' |-> Wording[progress'[k].status]]
  BY <1>1 DEF Production_course, SubmitLectureCandidate
<1>3. /\ DOMAIN progress' = DOMAIN progress
      /\ \A k \in DOMAIN progress : k # l => progress'[k] = progress[k]
      /\ progress'[l].status = "candidate"
  BY <1>2 DEF SubmitLectureCandidate
<1>4. Abstract!Judging = {}
  <2>1. \A k \in DOMAIN progress :
          progress[k].status \in {"pending", "retry_required",
                                  "correction_required", "accepted"}
    BY LecturesArePositions
    DEF WorkflowInv, CourseInv, OneCandidateInValidation, Candidates,
        SubmitLectureCandidate, LectureProgress
  <2> QED BY <1>2, <2>1 DEF Abstract!Judging, Wording
<1>5. Production_course[l] \in {"todo", "redo"}
  BY <1>2 DEF SubmitLectureCandidate, Wording
<1>6. Production_course' = [Production_course EXCEPT ![l] = "judging"]
  BY <1>2, <1>3 DEF Wording
<1>7. Abstract!Draft(l)
  BY <1>1, <1>4, <1>5, <1>6 DEF Abstract!Draft
<1> QED BY <1>2, <1>7

\* Recording a validation judges the lecture and delivers the last one.
LEMMA JudgeSimulated ==
  ASSUME WorkflowInv, WorkflowInv', NEW l \in 1..MaxLectures,
         NEW v \in Validation, RecordCandidateValidation(l, v)
  PROVE  \E k \in DOMAIN Production_course, w \in Abstract!Word :
           Abstract!Judge(k, w)
<1>1. /\ PlanAgreed /\ PlanAgreed'
      /\ stage # "completed"
      /\ issue' = issue
      /\ issue = None
  BY NormalDispositions
  DEF PlanAgreed, ProductionStage, RecordCandidateValidation, WorkflowInv,
      StopsAreCoherent
<1>2. /\ l \in DOMAIN progress
      /\ DOMAIN Production_course = DOMAIN progress
      /\ Production_course = [k \in DOMAIN progress |-> Wording[progress[k].status]]
      /\ Production_course' = [k \in DOMAIN progress' |-> Wording[progress'[k].status]]
  BY <1>1 DEF Production_course, RecordCandidateValidation
<1> DEFINE word == IF v.disposition = "rejected" THEN "redo" ELSE "accepted"
<1>3. /\ DOMAIN progress' = DOMAIN progress
      /\ \A k \in DOMAIN progress : k # l => progress'[k] = progress[k]
      /\ Wording[progress'[l].status] = word
  <2>1. progress[l] \in LectureProgress
    BY <1>2, LecturesArePositions DEF WorkflowInv, CourseInv
  <2>2. progress' = [progress EXCEPT ![l] = ValidatedLecture(progress[l], v)]
    BY DEF RecordCandidateValidation
  <2>3. ValidatedLecture(progress[l], v).status
          = IF v.disposition = "rejected" THEN "retry_required" ELSE "accepted"
    BY <2>1 DEF ValidatedLecture, LectureProgress
  <2> HIDE DEF word
  <2>4. Wording[ValidatedLecture(progress[l], v).status] = word
    BY <2>3 DEF Wording, word
  <2> QED BY <1>2, <2>2, <2>4
<1>4. Abstract!Judging = {l}
  <2>1. \A k \in DOMAIN progress :
          /\ progress[k].status = "candidate" <=> k = l
          /\ progress[k].status \in {"pending", "candidate", "retry_required",
                                     "correction_required", "accepted"}
    BY <1>2, LecturesArePositions
    DEF WorkflowInv, CourseInv, OneCandidateInValidation, Candidates,
        RecordCandidateValidation, LectureProgress
  <2>2. \A k \in DOMAIN progress :
          Wording[progress[k].status] = "judging" <=> k = l
    BY <2>1 DEF Wording
  <2> QED BY <1>2, <2>2 DEF Abstract!Judging
<1>5. Production_course' = [Production_course EXCEPT ![l] = word]
  BY <1>2, <1>3
<1>6. (stage = "completed")' = Abstract!AllLecturesAccepted(Production_course')
  <2>1. (stage = "completed")'
          <=> \A k \in DOMAIN progress' : progress'[k].status = "accepted"
    BY <1>1 DEF WorkflowInv, CourseInv, CompletedIffAllAccepted, PlanAgreed
  <2>2. \A k \in DOMAIN progress' : progress'[k] \in LectureProgress
    <3>1. TypeOK' /\ ProgressFollowsMap' BY DEF WorkflowInv, CourseInv
    <3> QED BY <3>1, ElementOfSeq, LenProperties DEF TypeOK
  <2>3. \A k \in DOMAIN progress' :
          progress'[k].status = "accepted"
            <=> Wording[progress'[k].status] = "accepted"
    BY <2>2 DEF LectureProgress, Wording
  <2> QED BY <1>2, <2>1, <2>3 DEF Abstract!AllLecturesAccepted
<1>7. word \in {"redo", "accepted"} OBVIOUS
<1> HIDE DEF word
<1>8. Abstract!Judge(l, word)
  <2>1. UNCHANGED <<PlanAgreed, issue # None>> BY <1>1
  <2> QED
    BY <2>1, <1>1, <1>4, <1>5, <1>6, <1>7, Zenon DEF Abstract!Judge
<1> QED BY <1>2, <1>7, <1>8 DEF Abstract!Word

\* Reopening lectures for correction sends a delivered course back.
LEMMA CorrectSimulated ==
  ASSUME WorkflowInv, WorkflowInv', NEW ids \in SUBSET (1..MaxLectures),
         NEW r \in 0..MaxRevision, ReopenLecturesForCorrection(ids, r)
  PROVE  \E S \in SUBSET DOMAIN Production_course : Abstract!Correct(S)
<1>1. /\ PlanAgreed /\ PlanAgreed'
      /\ stage = "completed" /\ stage' # "completed"
      /\ issue = None /\ issue' = None
  BY DEF PlanAgreed, ProductionStage, ReopenLecturesForCorrection
<1>2. /\ DOMAIN Production_course = DOMAIN progress
      /\ Production_course = [k \in DOMAIN progress |-> Wording[progress[k].status]]
      /\ Production_course' = [k \in DOMAIN progress' |-> Wording[progress'[k].status]]
  BY <1>1 DEF Production_course
<1>3. ids # {} /\ ids \subseteq DOMAIN progress
  BY LecturesArePositions
  DEF WorkflowInv, CourseInv, ProgressFollowsMap, ReopenLecturesForCorrection
<1>4. /\ DOMAIN progress' = DOMAIN progress
      /\ \A k \in DOMAIN progress :
           progress'[k].status = IF k \in ids THEN "correction_required"
                                              ELSE progress[k].status
  <2>1. \A k \in DOMAIN progress : progress[k] \in LectureProgress
    BY LecturesArePositions DEF WorkflowInv, CourseInv
  <2> QED BY <2>1 DEF ReopenLecturesForCorrection, LectureProgress
<1>5. Production_course' = [k \in DOMAIN Production_course |->
                              IF k \in ids THEN "redo" ELSE Production_course[k]]
  BY <1>2, <1>4 DEF Wording
<1>6. Abstract!Correct(ids)
  BY <1>1, <1>3, <1>5 DEF Abstract!Correct
<1> QED BY <1>2, <1>3, <1>6

\* Reopening the map voids the plan and keeps its length.
LEMMA ReplanSimulated ==
  ASSUME WorkflowInv, WorkflowInv', NEW digest, ApproveMapReopen(digest)
  PROVE  Abstract!Replan
<1>1. /\ PlanAgreed /\ ~PlanAgreed'
      /\ stage # "completed" /\ stage' # "completed"
      /\ issue # None /\ issue' = None
  BY DEF PlanAgreed, ProductionStage, ApproveMapReopen, NewSourceUnderReview,
         WorkflowInv, StopsAreCoherent, PlanFitsStage, TypeOK,
         PendingSourceRecord, NewSourceStages
<1>2. Len(Production_course) = map.size
  BY <1>1, CourseLength
<1>3. context' # None /\ context'.size = map.size
  <2>1. context'.size = map.size BY DEF ApproveMapReopen
  <2>2. Len(progress') = map.size
    <3>1. map.size \in Nat
      BY InputsAssumption
      DEF WorkflowInv, TypeOK, LectureMapRecord, ApproveMapReopen
    <3> QED BY <3>1, PendingTyped DEF ApproveMapReopen
  <2>3. map.size > 0
    BY InputsAssumption
    DEF WorkflowInv, TypeOK, LectureMapRecord, ApproveMapReopen
  <2>4. map' = None BY DEF ApproveMapReopen
  <2> QED
    BY <2>1, <2>2, <2>3, <2>4 DEF WorkflowInv, CourseInv, ProgressFollowsMap
<1>4. Production_course' = Abstract!Fresh(map.size)
  BY <1>1, <1>3 DEF Production_course, Reserved, Abstract!Fresh
<1> QED BY <1>1, <1>2, <1>4 DEF Abstract!Replan

-----------------------------------------------------------------------------
\* A new workflow is a course that nobody agreed to.
LEMMA InitialSimulated ==
  ASSUME Init
  PROVE  Abstract!ProductionInit
<1>1. /\ ~PlanAgreed
      /\ issue = None
      /\ stage # "completed"
      /\ Reserved = 0
  BY DEF Init, PlanAgreed, ProductionStage, Reserved
<1>2. Production_course = <<>>
  BY <1>1 DEF Production_course
<1> QED BY <1>1, <1>2 DEF Abstract!ProductionInit

\* Every step is a step of the abstract course or none.
LEMMA StepSimulated ==
  ASSUME WorkflowInv, WorkflowInv', [Next]_vars
  PROVE  [Abstract!ProductionNext]_(Abstract!productionVars)
<1>1. CASE Planning
  <2>1. ASSUME NEW m, ApproveLectureMap(m)
        PROVE  Abstract!ProductionNext
    BY <2>1, AgreeSimulated DEF Abstract!ProductionNext
  <2>2. ASSUME NEW p, RecordSourceAssessment(p)
        PROVE  UNCHANGED Abstract!productionVars
    BY <2>2, PlanningSimulated
    DEF RecordSourceAssessment, PlanAgreed, ProductionStage
  <2>3. ASSUME NEW m, ApprovePriorityBasis(m) \/ RejectPriorityBasis(m)
        PROVE  UNCHANGED Abstract!productionVars
    BY <2>3, PlanningSimulated
    DEF ApprovePriorityBasis, RejectPriorityBasis, PriorityDecision,
        PlanAgreed, ProductionStage
  <2>4. ASSUME NEW ref, NEW n, RecordLectureMap(ref, n)
        PROVE  UNCHANGED Abstract!productionVars
    BY <2>4, PlanningSimulated
    DEF RecordLectureMap, PlanAgreed, ProductionStage
  <2>5. ASSUME NEW m, RejectLectureMap(m)
        PROVE  UNCHANGED Abstract!productionVars
    BY <2>5, PlanningSimulated
    DEF RejectLectureMap, MapDecision, PlanAgreed, ProductionStage
  <2> QED BY <1>1, <2>1, <2>2, <2>3, <2>4, <2>5 DEF Planning
<1>2. CASE Production
  BY <1>2, DraftSimulated, JudgeSimulated, CorrectSimulated
  DEF Production, Abstract!ProductionNext
<1>3. CASE Interruption
  <2>1. ASSUME NEW c, NEW x, \/ RecordOperationFailure(c, x)
                             \/ MarkBlocked(c, x)
        PROVE  Abstract!ProductionNext
    <3>1. /\ issue = None /\ stage # "completed"
          /\ UNCHANGED <<stage, progress, context>>
      BY <2>1, NormalDispositions
      DEF RecordOperationFailure, MarkBlocked, Stop, PlanAndCourse,
          FailureCode, PrivateArtifactBlockerStarts,
          ExternalPrerequisiteBlockerStages, WorkflowInv, StopsAreCoherent
    <3>2. issue' # None
      <4>1. disposition' \in {"blocked", "failed"}
        BY <2>1 DEF RecordOperationFailure, MarkBlocked, Stop
      <4> QED
        BY <4>1, NormalDispositions
        DEF WorkflowInv, StopsAreCoherent, TypeOK, Stage
    <3> QED BY <3>1, <3>2, SuspendSimulated DEF Abstract!ProductionNext
  <2>2. ASSUME NEW c, NEW x, RetryFailed(c, x) \/ ClearBlocker(c, x)
        PROVE  Abstract!ProductionNext
    <3>1. issue # None /\ issue' = None /\ UNCHANGED <<stage, progress, context>>
      BY <2>2 DEF RetryFailed, ClearBlocker, Resume, PlanAndCourse
    <3> QED BY <3>1, ContinueSimulated DEF Abstract!ProductionNext
  <2>3. ASSUME NEW s, RecordNewSource(s)
        PROVE  Abstract!ProductionNext
    <3>1. /\ issue = None /\ stage # "completed"
          /\ UNCHANGED <<stage, progress, context>>
      BY <2>3 DEF RecordNewSource, Stop, PlanAndCourse, NewSourceStages
    <3>2. issue' # None
      <4>1. disposition' = "blocked" BY <2>3 DEF RecordNewSource, Stop
      <4> QED
        BY <4>1, NormalDispositions
        DEF WorkflowInv, StopsAreCoherent, TypeOK, Stage
    <3> QED BY <3>1, <3>2, SuspendSimulated DEF Abstract!ProductionNext
  <2>4. ASSUME NEW d, DismissNewSource(d)
        PROVE  Abstract!ProductionNext
    <3>1. issue # None /\ issue' = None /\ UNCHANGED <<stage, progress, context>>
      BY <2>4
      DEF DismissNewSource, NewSourceUnderReview, DetectedStage, WorkflowInv,
          StopsAreCoherent
    <3> QED BY <3>1, ContinueSimulated DEF Abstract!ProductionNext
  <2>5. ASSUME NEW d, ApproveMapReopen(d)
        PROVE  Abstract!ProductionNext
    BY <2>5, ReplanSimulated DEF Abstract!ProductionNext
  <2> QED BY <1>3, <2>1, <2>2, <2>3, <2>4, <2>5 DEF Interruption
<1>4. CASE UNCHANGED vars
  BY <1>4
  DEF vars, Abstract!productionVars, PlanAgreed, Production_course, Reserved
<1> QED BY <1>1, <1>2, <1>3, <1>4 DEF Next

\* For every value of the constants, the workflow implements the abstract
\* production of a course.
THEOREM WorkflowImplementsCourseProduction ==
  Spec => ImplementsCourseProduction
<1>1. Init => Abstract!ProductionInit BY InitialSimulated
<1>2. WorkflowInv /\ WorkflowInv' /\ [Next]_vars
        => [Abstract!ProductionNext]_(Abstract!productionVars)
  BY StepSimulated
<1>3. Spec => []WorkflowInv BY WorkflowInvariant
<1> QED
  BY <1>1, <1>2, <1>3, PTL
  DEF Spec, ImplementsCourseProduction, Abstract!ProductionSpec

=============================================================================
