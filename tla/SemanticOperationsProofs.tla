---------------------- MODULE SemanticOperationsProofs ----------------------
(***************************************************************************)
(* Theorems about SemanticOperations, for every set of threads, holders,   *)
(* requests and workflows to start from.                                   *)
(*                                                                         *)
(* A transition is one step of the workflow, so a snapshot that a thread   *)
(* holds is the workflow's or is of an earlier revision; a request and its *)
(* accepted result are never taken back, and receipts are only added.      *)
(* What a thread has established before one of its calls, that its result  *)
(* is recorded or its verdict accepted, therefore still holds when the     *)
(* call is made, whatever the other threads did meanwhile.  What it found  *)
(* missing may be there by then, but no transition is saved on a snapshot  *)
(* that is old: so each is made once.                                      *)
(***************************************************************************)
EXTENDS SemanticOperations, SequenceTheorems, WellFoundedInduction, TLAPS

-----------------------------------------------------------------------------
(* The invariant                                                           *)

IsSeq(s) == s \in Seq({s[i] : i \in DOMAIN s})

\* A receipt for every operation.
CourseHolds ==
  /\ revision \in 0..MaxRevision
  /\ IsSeq(receipts)
  /\ IsSeq(operations)
  /\ Len(operations) = Len(receipts)

BasisFields == {"proposal", "status", "approval"}

MapFields == {"reference", "size", "reserved", "status", "approval"}

\* What the owner decides on and a thread writes is of the plan that was agreed.
PlanHolds ==
  /\ policy \in Policy
  /\ basis # None => DOMAIN basis = BasisFields /\ basis.proposal \in Proposal
  /\ map # None =>
       /\ DOMAIN map = MapFields
       /\ map.reference \in MapReference
       /\ map.size \in MapSize
       /\ map.reserved \in 0..MaxLectures
  /\ context # None =>
       context.size \in MapSize /\ context.size <= Len(progress)
  /\ progress \in Seq(Course!LectureProgress)
  /\ Len(progress) <= MaxLectures

\* Only an accepted row has a result, the envelope of an answer to its request.
IsRow(id, row) ==
  /\ \E kind \in Kind : row \in RowOf(kind)
  /\ row.request.id = id
  /\ row.request.operation = id
  /\ IF row.status = "accepted"
       THEN \E content \in Content[row.request.kind] :
              row.result = ResultOf(row.request, content)
       ELSE row.result = None

RowHolds(id) == rows[id] # None => IsRow(id, rows[id])

RowsHold ==
  /\ DOMAIN rows = RequestId
  /\ \A id \in RequestId : RowHolds(id)
  /\ clock \in Nat

\* A result is recorded from the revision that its request was made for.
StepsHold ==
  \A id \in RequestId : \A i \in Steps(id, "submit") :
    /\ Store!Stored(id)
    /\ receipts[i].to_revision = rows[id].request.revision + 1

Recorded(result) ==
  \E i \in Steps(result.id, "submit") :
    /\ receipts[i].to_revision = result.revision + 1
    /\ Bears(receipts[i], result)

\* A snapshot is the workflow's or an earlier one.
IsPast(ws) ==
  /\ ws.revision \in 0..revision
  /\ ws.revision = revision => ws = Snapshot
  /\ DOMAIN ws.progress \subseteq 1..MaxLectures

CallFields == DOMAIN Idle

\* Where a thread asks for a request that its snapshot needs, where it is on the
\* way to a lease, where it hands in a result, one that is accepted already, or
\* one that is recorded.
Asks      == {"request_review", "request_reconcile", "request_save", "request_find",
              "request_current", "request_create"}
Leases    == {"request_workflow", "recover_workflow", "recover_verdict", "reload_job",
              "reload_workflow", "request_again", "request_lease"} \cup Asks
Repeats   == {"resubmit_job", "resubmit_workflow", "reopen"}
Concludes == {"submit_resume", "submit_validation", "submit_accept"}
HandsIn   == {"submit_job", "submit_workflow", "submit_lease", "submit_transition",
              "submit_reject"} \cup Concludes \cup Repeats

CallHolds(c) ==
  /\ DOMAIN c = CallFields
  /\ c.then \in {"idle", "supersede", "reload_job"}
  /\ c.pc \in Asks => IsPast(c.ws)
  /\ c.pc \in {"request_current", "request_create"} => SemanticKind(c.ws) \in Kind
  /\ c.pc \in Leases \/ c.then = "reload_job" =>
       c.holder \in Holder /\ c.now \in 0..clock
  /\ c.pc \in HandsIn =>
       /\ Store!Stored(c.id)
       /\ \E content \in Content[rows[c.id].request.kind] :
            c.input = ResultOf(rows[c.id].request, content)
  /\ c.pc \in Repeats => Accepted(c.id) /\ rows[c.id].result = c.input
  /\ c.pc = "reopen" => c.input.kind = "semantic_review"
  /\ c.pc = "submit_transition" =>
       /\ c.input.revision = c.ws.revision
       /\ c.input.kind \notin EvidenceKind
  /\ c.pc \in Concludes /\ c.input.kind \notin EvidenceKind => Recorded(c.input)
  /\ c.pc = "decide" => c.input.subject.kind \in {"priority", "map"}

StoresHold ==
  /\ CourseHolds
  /\ PlanHolds
  /\ RowsHold
  /\ StepsHold
  /\ AcceptedIsRecorded
  /\ LiveRequestsAreCurrent
  /\ ReopenedByVerdict

\* The inductive invariant.
OperationsInv ==
  /\ StoresHold
  /\ DOMAIN call = Thread
  /\ \A t \in Thread : CallHolds(call[t])

-----------------------------------------------------------------------------
(* The operators of the model                                              *)

LEMMA FirstIsMember ==
  ASSUME NEW S, S \subseteq Nat, S # {}
  PROVE  First(S) \in S
<1> DEFINE less == OpToRel(<, Nat)
<1>1. PICK x \in S : \A y \in S : <<y, x>> \notin less
  BY NatLessThanWellFounded, WFMin
<1>2. \A y \in S : x <= y
  <2> TAKE y \in S
  <2>1. <<y, x>> \in Nat \X Nat OBVIOUS
  <2>2. <<y, x>> \notin less BY <1>1
  <2>3. ~(y < x) BY <2>1, <2>2 DEF OpToRel
  <2> QED BY <2>3
<1> QED BY <1>2 DEF First

LEMMA RowIsThere ==
  ASSUME NEW id, NEW row, IsRow(id, row)
  PROVE  /\ row # None
         /\ row.request \in Request
         /\ row.request.kind \in Kind
         /\ row.request.revision \in 0..MaxRevision
         /\ row \in RowOf(row.request.kind)
BY OperationsAssumption DEF IsRow, RowOf, Request

LEMMA SequenceIndices ==
  ASSUME NEW s, IsSeq(s)
  PROVE  Len(s) \in Nat /\ DOMAIN s = 1..Len(s)
BY LenProperties DEF IsSeq

LEMMA AppendGrows ==
  ASSUME NEW s, IsSeq(s), NEW e
  PROVE  /\ IsSeq(Append(s, e))
         /\ Len(Append(s, e)) = Len(s) + 1
         /\ DOMAIN Append(s, e) = 1..(Len(s) + 1)
         /\ \A i \in DOMAIN s : Append(s, e)[i] = s[i]
         /\ Append(s, e)[Len(s) + 1] = e
<1> DEFINE S == {s[i] : i \in DOMAIN s}
           a == Append(s, e)
<1>1. s \in Seq(S) /\ Len(s) \in Nat /\ DOMAIN s = 1..Len(s)
  BY SequenceIndices DEF IsSeq
<1>2. s \in Seq(S \cup {e}) BY <1>1, SeqMonotonic
<1> HIDE DEF S
<1>3. /\ a \in Seq(S \cup {e})
      /\ Len(a) = Len(s) + 1
      /\ \A i \in 1..Len(s) : a[i] = s[i]
      /\ a[Len(s) + 1] = e
  BY <1>2, AppendProperties
<1>4. DOMAIN a = 1..(Len(s) + 1) /\ Len(a) \in Nat BY <1>3, LenProperties
<1>5. IsSeq(a) BY <1>3, SeqOfRange DEF IsSeq, Range
<1> QED BY <1>1, <1>3, <1>4, <1>5

-----------------------------------------------------------------------------
(* What a step may do to the stores.                                       *)

\* No store forgets: what a thread knows of receipts, requests and accepted
\* results stays true.
Remembers ==
  /\ revision' \in 0..MaxRevision
  /\ revision <= revision'
  /\ revision' = revision => Snapshot' = Snapshot
  /\ DOMAIN operations \subseteq DOMAIN operations'
  /\ \A i \in DOMAIN operations : /\ operations'[i] = operations[i]
                                  /\ receipts'[i] = receipts[i]
  /\ \A id \in RequestId :
       Store!Stored(id) =>
         /\ rows'[id] # None
         /\ rows'[id].request = rows[id].request
         /\ rows[id].status = "accepted" => /\ rows'[id].status = "accepted"
                                            /\ rows'[id].result = rows[id].result
  /\ clock \in Nat /\ clock' \in Nat /\ clock <= clock'

LEMMA StoredStays ==
  ASSUME Remembers, NEW id, Store!Stored(id)
  PROVE  Store!Stored(id)' /\ rows'[id].request = rows[id].request
BY DEF Remembers, Store!Stored

LEMMA AcceptedStays ==
  ASSUME Remembers, NEW id, Accepted(id)
  PROVE  Accepted(id)' /\ rows'[id].result = rows[id].result
BY DEF Remembers, Store!Stored, Accepted

LEMMA RecordedStays ==
  ASSUME Remembers, NEW result, Recorded(result)
  PROVE  Recorded(result)'
<1>1. PICK i \in Steps(result.id, "submit") :
        /\ receipts[i].to_revision = result.revision + 1
        /\ Bears(receipts[i], result)
  BY DEF Recorded
<1>2. i \in Steps(result.id, "submit")' /\ receipts'[i] = receipts[i]
  BY DEF Steps, Remembers
<1> QED BY <1>1, <1>2 DEF Recorded, Bears

LEMMA PastStays ==
  ASSUME CourseHolds, Remembers, NEW ws, IsPast(ws)
  PROVE  IsPast(ws)'
BY DEF CourseHolds, Remembers, IsPast

\* Of what a thread is doing only these fields matter.
LEMMA SameCall ==
  ASSUME NEW c, CallHolds(c), NEW d,
         DOMAIN d = DOMAIN c, d.pc = c.pc, d.then = c.then, d.ws = c.ws,
         d.id = c.id, d.input = c.input, d.holder = c.holder, d.now = c.now
  PROVE  CallHolds(d)
BY DEF CallHolds

LEMMA CallStays ==
  ASSUME CourseHolds, Remembers, NEW c, CallHolds(c)
  PROVE  CallHolds(c)'
<1>1. c.pc \in Asks => IsPast(c.ws)' BY PastStays DEF CallHolds
<1>2. c.pc \in HandsIn =>
        /\ Store!Stored(c.id)'
        /\ \E content \in Content[rows'[c.id].request.kind] :
             c.input = ResultOf(rows'[c.id].request, content)
  BY StoredStays DEF CallHolds
<1>3. c.pc \in Repeats => Accepted(c.id)' /\ rows'[c.id].result = c.input
  BY AcceptedStays DEF CallHolds
<1>4. c.pc \in Concludes /\ c.input.kind \notin EvidenceKind => Recorded(c.input)'
  BY RecordedStays DEF CallHolds
<1>5. c.now \in 0..clock => c.now \in 0..clock' BY DEF Remembers
<1> QED BY <1>1, <1>2, <1>3, <1>4, <1>5 DEF CallHolds

-----------------------------------------------------------------------------
(* Steps that leave the workflow and the requests alone                    *)

LEMMA IdleHolds == CallHolds(Idle) /\ CallHolds(Idle)'
<1>1. DOMAIN Idle = CallFields /\ Idle.pc = "idle" /\ Idle.then = "idle"
  BY DEF Idle, CallFields
<1> QED BY <1>1 DEF CallHolds, Asks, Leases, Repeats, Concludes, HandsIn

LEMMA OtherCallsStay ==
  ASSUME OperationsInv, Remembers, NEW t \in Thread, NEW c, Becomes(t, c),
         CallHolds(call[t])'
  PROVE  DOMAIN call' = Thread /\ \A u \in Thread : CallHolds(call[u])'
<1>1. DOMAIN call' = Thread /\ \A u \in Thread \ {t} : call'[u] = call[u]
  BY DEF OperationsInv, StoresHold, Becomes
<1>2. ASSUME NEW u \in Thread \ {t} PROVE CallHolds(call[u])'
  <2>1. PICK d : d = call[u] OBVIOUS
  <2>2. CallHolds(d)' BY <2>1, CallStays DEF OperationsInv, StoresHold
  <2> QED BY <1>1, <2>1, <2>2
<1> QED BY <1>1, <1>2

LEMMA NewCall ==
  ASSUME OperationsInv, NEW t \in Thread, NEW c, Becomes(t, c)
  PROVE  call'[t] = c
BY DEF OperationsInv, StoresHold, Becomes

\* The workflow and the requests as they were.
LEMMA StoresRest ==
  ASSUME OperationsInv, UNCHANGED <<courseVars, rows>>,
         clock' \in Nat, clock <= clock'
  PROVE  Remembers /\ StoresHold'
<1> USE DEF courseVars
<1>1. Snapshot' = Snapshot BY DEF Snapshot
<1>2. Remembers BY <1>1 DEF OperationsInv, StoresHold, CourseHolds, RowsHold, Remembers, Store!Stored
<1>3. CourseHolds' /\ PlanHolds' /\ RowsHold'
  BY DEF OperationsInv, StoresHold, CourseHolds, PlanHolds, IsSeq, RowsHold, RowHolds, IsRow
<1>4. StepsHold' BY DEF OperationsInv, StoresHold, StepsHold, Steps, Store!Stored
<1>5. AcceptedIsRecorded'
  BY DEF OperationsInv, StoresHold, AcceptedIsRecorded, Accepted, Store!Stored, Steps, Bears
<1>6. LiveRequestsAreCurrent'
  BY <1>1 DEF OperationsInv, StoresHold, LiveRequestsAreCurrent, Store!Live, Store!Stored
<1>7. ReopenedByVerdict'
  BY DEF OperationsInv, StoresHold, ReopenedByVerdict, Accepted, Store!Stored, Steps
<1> QED BY <1>2, <1>3, <1>4, <1>5, <1>6, <1>7 DEF StoresHold

LEMMA ReadsKeep ==
  ASSUME OperationsInv, NEW t \in Thread, NEW c, Becomes(t, c), CallHolds(c),
         UNCHANGED <<courseVars, rows, clock>>
  PROVE  OperationsInv'
<1>1. Remembers /\ StoresHold'
  BY StoresRest DEF OperationsInv, StoresHold, RowsHold
<1>2. CallHolds(c)' BY <1>1, CallStays DEF OperationsInv, StoresHold
<1>3. CallHolds(call[t])' BY <1>2, NewCall
<1> QED BY <1>1, <1>3, OtherCallsStay DEF OperationsInv, StoresHold

LEMMA ReturnKeeps ==
  ASSUME OperationsInv, NEW t \in Thread, Return(t), UNCHANGED <<courseVars, rows, clock>>
  PROVE  OperationsInv'
BY IdleHolds, ReadsKeep DEF Return

LEMMA SaveJobKeeps ==
  ASSUME OperationsInv, NEW t \in Thread, NEW record, NEW saved, NEW refused,
         CallHolds(saved), CallHolds(refused), SaveJob(t, record, saved, refused)
  PROVE  OperationsInv'
<1>1. UNCHANGED <<courseVars, rows, clock>> BY DEF SaveJob, storeVars
<1>2. CASE Becomes(t, saved) BY <1>1, <1>2, ReadsKeep
<1>3. CASE Becomes(t, refused) BY <1>1, <1>3, ReadsKeep
<1>4. CASE call' = [u \in Thread |->
                      IF u = t THEN saved
                      ELSE IF call[u].job = None THEN call[u]
                      ELSE [call[u] EXCEPT !.behind = IF @ = 0 THEN 1 ELSE 2]]
  <2>1. Remembers /\ StoresHold'
    BY <1>1, StoresRest DEF OperationsInv, StoresHold, RowsHold
  <2>2. ASSUME NEW u \in Thread PROVE CallHolds(call[u])'
    <3>1. PICK d : d = call'[u] OBVIOUS
    <3>2. CallHolds(d)
      <4>1. CASE u = t BY <1>4, <3>1, <4>1
      <4>2. CASE u # t
        <5>1. CallHolds(call[u]) /\ DOMAIN call[u] = CallFields
          BY DEF OperationsInv, StoresHold, CallHolds
        <5>2. /\ DOMAIN d = DOMAIN call[u] /\ d.pc = call[u].pc
              /\ d.then = call[u].then /\ d.ws = call[u].ws
              /\ d.id = call[u].id /\ d.input = call[u].input
              /\ d.holder = call[u].holder /\ d.now = call[u].now
          BY <1>4, <3>1, <4>2, <5>1 DEF CallFields, Idle
        <5> QED BY <5>1, <5>2, SameCall
      <4> QED BY <4>1, <4>2
    <3> QED BY <2>1, <3>1, <3>2, CallStays DEF OperationsInv, StoresHold
  <2> QED BY <1>4, <2>1, <2>2 DEF OperationsInv, StoresHold
<1> QED BY <1>2, <1>3, <1>4 DEF SaveJob

-----------------------------------------------------------------------------
(* Transitions of the workflow                                             *)

\* A transition under an operation: one receipt more.
LEMMA Advances ==
  ASSUME OperationsInv, NEW action, NEW subject, NEW operation,
         Course!Commit(action, subject),
         operations' = Append(operations, operation), UNCHANGED <<rows, clock>>
  PROVE  /\ Remembers /\ CourseHolds' /\ RowsHold'
         /\ revision' = revision + 1
         /\ DOMAIN operations' = DOMAIN operations \cup {Len(operations) + 1}
         /\ operations'[Len(operations) + 1] = operation
         /\ receipts'[Len(operations) + 1].to_revision = revision + 1
         /\ receipts'[Len(operations) + 1].subject = subject
<1> DEFINE n == Len(operations)
           receipt == Course!Receipt(action, subject)
<1>1. CourseHolds /\ n \in Nat /\ Len(receipts) = n
  BY SequenceIndices DEF OperationsInv, StoresHold, CourseHolds
<1>2. /\ revision \in 0..MaxRevision /\ revision < MaxRevision
      /\ revision' = revision + 1
      /\ receipts' = Append(receipts, receipt)
  BY <1>1 DEF Course!Commit, CourseHolds
<1>3. receipt.to_revision = revision + 1 /\ receipt.subject = subject
  BY DEF Course!Receipt
<1> HIDE DEF receipt
<1>4. /\ DOMAIN operations = 1..n /\ DOMAIN operations' = 1..(n + 1)
      /\ \A i \in DOMAIN operations : operations'[i] = operations[i]
      /\ operations'[n + 1] = operation
      /\ IsSeq(operations') /\ Len(operations') = n + 1
  BY <1>1, SequenceIndices, AppendGrows DEF CourseHolds
<1>5. /\ \A i \in 1..n : receipts'[i] = receipts[i]
      /\ receipts'[n + 1] = receipt
      /\ IsSeq(receipts') /\ Len(receipts') = n + 1
  BY <1>1, <1>2, SequenceIndices, AppendGrows DEF CourseHolds
<1>6. revision' \in 0..MaxRevision BY <1>2, OperationsAssumption
<1>7. IsSeq(operations)' /\ IsSeq(receipts)' BY <1>4, <1>5 DEF IsSeq
<1>8. CourseHolds' BY <1>4, <1>5, <1>6, <1>7 DEF CourseHolds
<1>9. RowsHold' BY DEF OperationsInv, StoresHold, RowsHold, RowHolds, IsRow
<1>10. Remembers
  BY <1>1, <1>2, <1>4, <1>5, <1>6 DEF Remembers, Store!Stored, OperationsInv, StoresHold, RowsHold
<1>11. DOMAIN operations' = DOMAIN operations \cup {n + 1} BY <1>1, <1>4
<1> QED BY <1>2, <1>3, <1>4, <1>5, <1>8, <1>9, <1>10, <1>11

\* The transitions of results and of reopenings are for their requests.
LEMMA AdvanceKeeps ==
  ASSUME OperationsInv, NEW action, NEW subject, NEW operation,
         Course!Commit(action, subject),
         operations' = Append(operations, operation), UNCHANGED <<rows, clock>>,
         \A id \in RequestId :
           operation = <<id, "submit">> =>
             Store!Stored(id) /\ rows[id].request.revision = revision,
         \A id \in RequestId :
           operation = <<id, "reopen">> =>
             Accepted(id) /\ subject.lectures = rows[id].result.content
  PROVE  StepsHold' /\ AcceptedIsRecorded' /\ LiveRequestsAreCurrent' /\ ReopenedByVerdict'
<1> DEFINE n == Len(operations) + 1
<1>1. /\ Remembers /\ CourseHolds' /\ RowsHold'
      /\ revision' = revision + 1
      /\ DOMAIN operations' = DOMAIN operations \cup {n}
      /\ operations'[n] = operation
      /\ receipts'[n].to_revision = revision + 1
      /\ receipts'[n].subject = subject
  BY Advances
<1>2. /\ \A i \in DOMAIN operations : /\ operations'[i] = operations[i]
                                      /\ receipts'[i] = receipts[i]
      /\ \A id : Store!Stored(id)' <=> Store!Stored(id)
      /\ \A id : Accepted(id)' <=> Accepted(id)
  BY <1>1 DEF Remembers, Store!Stored, Accepted
<1> HIDE DEF n
<1>3. StepsHold'
  <2> SUFFICES ASSUME NEW id \in RequestId, NEW i \in Steps(id, "submit")'
               PROVE  /\ Store!Stored(id)'
                      /\ receipts'[i].to_revision = rows'[id].request.revision + 1
    BY DEF StepsHold
  <2>1. CASE i = n BY <1>1, <1>2, <2>1 DEF Steps
  <2>2. CASE i # n
    <3>1. i \in Steps(id, "submit") BY <1>1, <1>2, <2>2 DEF Steps
    <3> QED BY <1>1, <1>2, <3>1 DEF OperationsInv, StoresHold, StepsHold, Steps
  <2> QED BY <2>1, <2>2
<1>4. AcceptedIsRecorded'
  <2> SUFFICES ASSUME NEW id \in RequestId, Accepted(id)',
                      rows'[id].request.kind \notin EvidenceKind
               PROVE  \E i \in Steps(id, "submit")' :
                        /\ receipts'[i].to_revision = rows'[id].request.revision + 1
                        /\ Bears(receipts'[i], rows'[id].result)
    BY DEF AcceptedIsRecorded, Bears
  <2>1. PICK i \in Steps(id, "submit") :
          /\ receipts[i].to_revision = rows[id].request.revision + 1
          /\ Bears(receipts[i], rows[id].result)
    BY <1>2 DEF OperationsInv, StoresHold, AcceptedIsRecorded
  <2>2. i \in Steps(id, "submit")' /\ receipts'[i] = receipts[i]
    BY <1>1, <1>2 DEF Steps
  <2> QED BY <2>1, <2>2
<1>5. LiveRequestsAreCurrent'
  <2> SUFFICES ASSUME NEW id \in RequestId, Store!Live(id)
               PROVE  rows[id].request.revision < revision'
    <3>1. revision' \in Nat BY <1>1 DEF CourseHolds
    <3>2. \A id \in RequestId :
            Store!Live(id) => rows[id].request.revision \in 0..MaxRevision
      BY RowIsThere DEF OperationsInv, StoresHold, RowsHold, RowHolds, Store!Live, Store!Stored
    <3>3. \A id \in RequestId : Store!Live(id)' <=> Store!Live(id)
      BY DEF Store!Live, Store!Stored
    <3> QED BY <3>1, <3>2, <3>3 DEF LiveRequestsAreCurrent
  <2>1. rows[id].request.revision \in Nat /\ revision \in Nat
    BY RowIsThere
       DEF OperationsInv, StoresHold, RowsHold, RowHolds, Store!Live, Store!Stored, CourseHolds
  <2> QED BY <1>1, <2>1 DEF OperationsInv, StoresHold, LiveRequestsAreCurrent
<1>6. ReopenedByVerdict'
  <2> SUFFICES ASSUME NEW id \in RequestId, NEW i \in Steps(id, "reopen")'
               PROVE  /\ Accepted(id)'
                      /\ receipts'[i].subject.lectures = rows'[id].result.content
    BY DEF ReopenedByVerdict
  <2>1. CASE i = n BY <1>1, <1>2, <2>1 DEF Steps
  <2>2. CASE i # n
    <3>1. i \in Steps(id, "reopen") BY <1>1, <1>2, <2>2 DEF Steps
    <3> QED BY <1>1, <1>2, <3>1 DEF OperationsInv, StoresHold, ReopenedByVerdict, Steps
  <2> QED BY <2>1, <2>2
<1> QED BY <1>3, <1>4, <1>5, <1>6

LEMMA InterruptionCommits ==
  ASSUME Course!Interruption
  PROVE  \E action, subject : Course!Commit(action, subject)
BY DEF Course!Interruption, Course!RecordOperationFailure, Course!RetryFailed,
       Course!MarkBlocked, Course!ClearBlocker, Course!RecordNewSource,
       Course!DismissNewSource, Course!ApproveMapReopen

LEMMA DecisionCommits ==
  ASSUME NEW input, Decision(input), input.subject.kind \in {"priority", "map"}
  PROVE  \E action : Course!Commit(action, input.subject)
BY DEF Decision, Course!ApprovePriorityBasis, Course!RejectPriorityBasis,
       Course!ApproveLectureMap, Course!RejectLectureMap

\* Every result that a transition takes has a subject that bears it.
LEMMA TransitionCommits ==
  ASSUME NEW result, result.kind \in Kind \ EvidenceKind, Transition(result)
  PROVE  \E action, subject :
           /\ Course!Commit(action, subject)
           /\ \A receipt : receipt.subject = subject => Bears(receipt, result)
<1>1. CASE result.kind = "source_assessment"
  <2>1. Course!Commit("record_source_assessment", Course!PrioritySubject(result.content))
    BY <1>1 DEF Transition, Course!RecordSourceAssessment, LectureKind
  <2>2. \A receipt : Bears(receipt, result) BY <1>1 DEF Bears, LectureKind
  <2> QED BY <2>1, <2>2
<1>2. CASE result.kind = "lecture_map_generation"
  <2> DEFINE subject == Course!MapSubject(result.content[1], result.content[2],
                                          Course!Reserved)
  <2>1. Course!Commit("record_lecture_map", subject)
    BY <1>2 DEF Transition, Course!RecordLectureMap, LectureKind
  <2>2. subject.reference = result.content[1] /\ subject.size = result.content[2]
    BY DEF Course!MapSubject
  <2>3. \A receipt : receipt.subject = subject => Bears(receipt, result)
    BY <1>2, <2>2 DEF Bears, LectureKind
  <2> QED BY <2>1, <2>3
<1>3. CASE result.kind \in LectureKind
  <2>1. Course!Commit("submit_lecture_candidate",
                      Course!CandidateSubject(result.content))
    BY <1>3 DEF Transition, Course!SubmitLectureCandidate, LectureKind
  <2>2. \A receipt : receipt.subject = Course!CandidateSubject(result.content)
                       => Bears(receipt, result)
    BY <1>3 DEF Bears, LectureKind
  <2> QED BY <2>1, <2>2
<1> QED BY <1>1, <1>2, <1>3 DEF Kind, EvidenceKind, LectureKind

-----------------------------------------------------------------------------
(* Steps of the semantic work                                              *)

IsCurrent(request) ==
  /\ request.revision <= revision
  /\ request.revision = revision =>
       /\ request.kind = SemanticKind(Snapshot)
       /\ request.lecture = LectureToWrite(Snapshot, SemanticKind(Snapshot))

\* One row is written: a new request that is current, or a request as it was
\* that stays closed, is closed or is accepted with a result that is recorded.
LEMMA RowIsWritten ==
  ASSUME OperationsInv, UNCHANGED <<courseVars, clock>>,
         NEW id \in RequestId, NEW row, rows' = [rows EXCEPT ![id] = row],
         IsRow(id, row),
         Store!Stored(id) =>
           /\ row.request = rows[id].request
           /\ rows[id].status = "accepted" => /\ row.status = "accepted"
                                              /\ row.result = rows[id].result,
         row.status \in {"pending", "leased"} =>
           Store!Live(id) \/ (~Store!Stored(id) /\ IsCurrent(row.request)),
         row.status = "accepted" =>
           \/ Accepted(id)
           \/ row.result.kind \in EvidenceKind
           \/ Recorded(row.result)
  PROVE  Remembers /\ StoresHold'
<1>1. Snapshot' = Snapshot BY DEF Snapshot, courseVars
<1>2. /\ CourseHolds /\ DOMAIN rows = RequestId
      /\ rows'[id] = row
      /\ \A other \in RequestId \ {id} : rows'[other] = rows[other]
      /\ DOMAIN rows' = RequestId
  BY DEF OperationsInv, StoresHold, RowsHold
<1>3. Remembers
  <2>1. row # None BY RowIsThere
  <2> QED BY <1>1, <1>2, <2>1
          DEF OperationsInv, StoresHold, CourseHolds, RowsHold, Remembers, Store!Stored, courseVars
<1>4. CourseHolds' /\ PlanHolds'
  BY <1>2 DEF OperationsInv, StoresHold, CourseHolds, PlanHolds, IsSeq, courseVars
<1>5. RowsHold' BY <1>2 DEF OperationsInv, StoresHold, RowsHold, RowHolds, IsRow
<1>6. /\ \A step : \A other : Steps(other, step)' = Steps(other, step)
      /\ receipts' = receipts
  BY DEF Steps, courseVars
<1>7. StepsHold'
  <2> SUFFICES ASSUME NEW other \in RequestId, NEW i \in Steps(other, "submit")
               PROVE  /\ Store!Stored(other)'
                      /\ receipts[i].to_revision = rows'[other].request.revision + 1
    BY <1>6 DEF StepsHold
  <2>1. /\ Store!Stored(other)
        /\ receipts[i].to_revision = rows[other].request.revision + 1
    BY DEF OperationsInv, StoresHold, StepsHold
  <2> QED BY <1>3, <2>1, StoredStays
<1>8. AcceptedIsRecorded'
  <2> SUFFICES ASSUME NEW other \in RequestId, Accepted(other)',
                      rows'[other].request.kind \notin EvidenceKind
               PROVE  \E i \in Steps(other, "submit") :
                        /\ receipts[i].to_revision = rows'[other].request.revision + 1
                        /\ Bears(receipts[i], rows'[other].result)
    BY <1>6 DEF AcceptedIsRecorded, Bears
  <2>1. CASE Accepted(other)
    <3>1. rows'[other].request = rows[other].request
          /\ rows'[other].result = rows[other].result
      BY <1>3, <2>1, StoredStays, AcceptedStays DEF Accepted
    <3> QED BY <2>1, <3>1 DEF OperationsInv, StoresHold, AcceptedIsRecorded
  <2>2. CASE ~Accepted(other)
    <3>1. other = id BY <1>2, <2>2 DEF Accepted, Store!Stored
    <3>2. row.status = "accepted" BY <1>2, <3>1 DEF Accepted
    <3>3. /\ row.result.id = id /\ row.result.kind = row.request.kind
          /\ row.result.revision = row.request.revision
      <4>1. PICK content : row.result = ResultOf(row.request, content)
        BY <3>2 DEF IsRow
      <4>2. row.request.id = id BY DEF IsRow
      <4> QED BY <4>1, <4>2 DEF ResultOf
    <3>4. Recorded(row.result) BY <1>2, <2>2, <3>1, <3>2, <3>3
    <3> QED BY <1>2, <3>1, <3>3, <3>4 DEF Recorded
  <2> QED BY <2>1, <2>2
<1>9. LiveRequestsAreCurrent'
  <2> SUFFICES ASSUME NEW other \in RequestId, Store!Live(other)'
               PROVE  IsCurrent(rows'[other].request)
    BY <1>1 DEF LiveRequestsAreCurrent, IsCurrent, courseVars
  <2>1. CASE Store!Live(other)
    <3>1. rows'[other].request = rows[other].request
      BY <1>3, <2>1, StoredStays DEF Store!Live
    <3> QED BY <2>1, <3>1 DEF OperationsInv, StoresHold, LiveRequestsAreCurrent, IsCurrent
  <2>2. CASE ~Store!Live(other)
    <3>1. other = id BY <1>2, <2>2 DEF Store!Live, Store!Stored
    <3> QED BY <1>2, <2>2, <3>1 DEF Store!Live
  <2> QED BY <2>1, <2>2
<1>10. ReopenedByVerdict'
  <2> SUFFICES ASSUME NEW other \in RequestId, NEW i \in Steps(other, "reopen")
               PROVE  /\ Accepted(other)'
                      /\ receipts[i].subject.lectures = rows'[other].result.content
    BY <1>6 DEF ReopenedByVerdict
  <2>1. /\ Accepted(other)
        /\ receipts[i].subject.lectures = rows[other].result.content
    BY DEF OperationsInv, StoresHold, ReopenedByVerdict
  <2> QED BY <1>3, <2>1, AcceptedStays
<1> QED BY <1>3, <1>4, <1>5, <1>7, <1>8, <1>9, <1>10 DEF StoresHold

-----------------------------------------------------------------------------
(* The plan under the transitions of the workflow                          *)

LEMMA PendingLectures ==
  ASSUME NEW n \in Nat
  PROVE  /\ Course!AllPending(n) \in Seq(Course!LectureProgress)
         /\ Len(Course!AllPending(n)) = n
<1>1. Course!PendingLecture \in Course!LectureProgress
  BY OperationsAssumption DEF Course!PendingLecture, Course!LectureProgress
<1>2. Course!AllPending(n) \in [1..n -> Course!LectureProgress]
  BY <1>1 DEF Course!AllPending
<1>3. Course!AllPending(n) \in Seq(Course!LectureProgress) BY <1>2
<1> QED BY <1>2, <1>3, LenProperties

LEMMA MapSizes == MapSize \subseteq 1..MaxLectures /\ MaxLectures \in Nat
BY OperationsAssumption

LEMMA Lectures ==
  ASSUME PlanHolds
  PROVE  /\ Len(progress) \in 0..MaxLectures
         /\ DOMAIN progress = 1..Len(progress)
         /\ \A l \in DOMAIN progress : progress[l] \in Course!LectureProgress
         /\ Course!Reserved \in 0..MaxLectures /\ Course!Reserved <= Len(progress)
<1>1. progress \in Seq(Course!LectureProgress) BY DEF PlanHolds
<1>2. /\ Len(progress) \in 0..MaxLectures
      /\ DOMAIN progress = 1..Len(progress)
  BY <1>1, LenProperties, MapSizes DEF PlanHolds
<1>3. \A l \in DOMAIN progress : progress[l] \in Course!LectureProgress
  BY <1>1, <1>2, ElementOfSeq
<1>4. context # None => /\ context.size \in 1..MaxLectures
                        /\ context.size <= Len(progress)
  BY MapSizes DEF PlanHolds
<1>5. Course!Reserved \in 0..MaxLectures /\ Course!Reserved <= Len(progress)
  BY <1>2, <1>4, MapSizes DEF Course!Reserved
<1> QED BY <1>2, <1>3, <1>5

LEMMA PlanningKeeps ==
  ASSUME PlanHolds, Course!Planning
  PROVE  PlanHolds'
<1>1. ASSUME NEW p \in Proposal, Course!RecordSourceAssessment(p)
      PROVE  PlanHolds'
  BY <1>1 DEF PlanHolds, BasisFields, Course!RecordSourceAssessment, Course!Commit
<1>2. ASSUME NEW p \in Proposal,
             Course!ApprovePriorityBasis(Course!PrioritySubject(p))
      PROVE  PlanHolds'
  BY <1>2 DEF PlanHolds, BasisFields, Course!ApprovePriorityBasis,
              Course!PriorityDecision, Course!BasisUnderDecision, Course!Commit
<1>3. ASSUME NEW p \in Proposal,
             Course!RejectPriorityBasis(Course!PrioritySubject(p))
      PROVE  PlanHolds'
  BY <1>3 DEF PlanHolds, Course!RejectPriorityBasis, Course!PriorityDecision,
              Course!Commit
<1>4. ASSUME NEW ref \in MapReference, NEW n \in MapSize,
             Course!RecordLectureMap(ref, n)
      PROVE  PlanHolds'
  <2> DEFINE k == Course!Reserved
             kept == SubSeq(progress, 1, k)
             added == Course!AllPending(n - k)
  <2>1. /\ k \in 0..MaxLectures /\ n \in 1..MaxLectures /\ n >= k
        /\ k <= Len(progress) /\ Len(progress) \in 0..MaxLectures
        /\ progress \in Seq(Course!LectureProgress)
    BY <1>4, Lectures, MapSizes DEF PlanHolds, Course!RecordLectureMap
  <2>2. /\ progress' \in Seq(Course!LectureProgress)
        /\ Len(progress') = n
    <3>1. CASE context = None
      BY <1>4, <2>1, <3>1, PendingLectures DEF Course!RecordLectureMap
    <3>2. CASE context # None
      <4>1. \A i \in 1..k : progress[i] \in Course!LectureProgress
        BY <2>1, Lectures
      <4>2. kept \in Seq(Course!LectureProgress) /\ Len(kept) = k
        BY <2>1, <4>1, SubSeqProperties
      <4>3. added \in Seq(Course!LectureProgress) /\ Len(added) = n - k
        BY <2>1, PendingLectures
      <4>4. progress' = kept \o added BY <1>4, <3>2 DEF Course!RecordLectureMap
      <4> HIDE DEF kept, added, k
      <4> QED BY <2>1, <4>2, <4>3, <4>4, ConcatProperties
    <3> QED BY <3>1, <3>2
  <2>3. /\ DOMAIN map' = MapFields
        /\ map'.reference = ref /\ map'.size = n /\ map'.reserved = k
    BY <1>4 DEF Course!RecordLectureMap, MapFields
  <2>4. /\ context' = context /\ basis' = basis /\ policy' = policy
        /\ context # None => context.size = k
    BY <1>4 DEF Course!RecordLectureMap, Course!Commit, Course!Reserved
  <2> HIDE DEF k
  <2> QED BY <2>1, <2>2, <2>3, <2>4 DEF PlanHolds
<1>5. ASSUME NEW subject, Course!ApproveLectureMap(subject)
      PROVE  PlanHolds'
  BY <1>5 DEF PlanHolds, MapFields, Course!ApproveLectureMap, Course!MapDecision,
              Course!Commit
<1>6. ASSUME NEW subject, Course!RejectLectureMap(subject)
      PROVE  PlanHolds'
  <2>1. /\ context # None =>
             /\ context.size \in 0..MaxLectures
             /\ \A i \in 1..context.size : progress[i] \in Course!LectureProgress
    BY Lectures DEF Course!Reserved
  <2>2. /\ progress' \in Seq(Course!LectureProgress)
        /\ Len(progress') \in 0..MaxLectures
        /\ context # None => Len(progress') = context.size
    <3>1. CASE context = None
      BY <1>6, <3>1, EmptySeq, MapSizes
         DEF Course!RejectLectureMap, Course!BaselineProgress
    <3>2. CASE context # None
      <4>1. progress' = SubSeq(progress, 1, context.size)
        BY <1>6, <3>2 DEF Course!RejectLectureMap, Course!BaselineProgress
      <4> QED BY <2>1, <3>2, <4>1, SubSeqProperties, MapSizes
    <3> QED BY <3>1, <3>2
  <2>3. context' = context /\ basis' = basis /\ policy' = policy /\ map' = None
    BY <1>6 DEF Course!RejectLectureMap, Course!MapDecision, Course!Commit
  <2> QED BY <2>1, <2>2, <2>3 DEF PlanHolds
<1> QED BY <1>1, <1>2, <1>3, <1>4, <1>5, <1>6 DEF Course!Planning

\* The drafts of the plan change, the plan does not.
LEMMA ProductionKeeps ==
  ASSUME PlanHolds, Course!Production
  PROVE  PlanHolds'
<1>1. UNCHANGED <<policy, basis, map, context>>
  BY DEF Course!Production, Course!SubmitLectureCandidate,
         Course!RecordCandidateValidation, Course!ReopenLecturesForCorrection,
         Course!Commit
<1>2. ASSUME DOMAIN progress' = DOMAIN progress,
             progress' = [l \in DOMAIN progress |-> progress'[l]],
             \A l \in DOMAIN progress : progress'[l] \in Course!LectureProgress
      PROVE  /\ progress' \in Seq(Course!LectureProgress)
             /\ Len(progress') = Len(progress)
  <2>1. progress' \in [1..Len(progress) -> Course!LectureProgress]
    BY <1>2, Lectures
  <2>2. progress' \in Seq(Course!LectureProgress) BY <2>1, Lectures
  <2> QED BY <2>1, <2>2, Lectures, LenProperties
<1>3. ASSUME NEW l \in 1..MaxLectures, NEW d \in Document,
             Course!SubmitLectureCandidate(l, d)
      PROVE  /\ progress' \in Seq(Course!LectureProgress)
             /\ Len(progress') = Len(progress)
  <2>1. /\ l \in DOMAIN progress /\ progress[l].attempt < MaxAttempt
        /\ progress' = [progress EXCEPT ![l] =
                          [status |-> "candidate", attempt |-> progress[l].attempt + 1,
                           candidate |-> d, validation |-> None,
                           accepted_document |-> None]]
    BY <1>3 DEF Course!SubmitLectureCandidate
  <2>2. progress[l].attempt + 1 \in 0..MaxAttempt
    BY <2>1, Lectures, OperationsAssumption DEF Course!LectureProgress
  <2>3. progress'[l] \in Course!LectureProgress
    BY <2>1, <2>2 DEF Course!LectureProgress
  <2> QED BY <1>2, <2>1, <2>3, Lectures
<1>4. ASSUME NEW l \in 1..MaxLectures, NEW v \in Course!Validation,
             Course!RecordCandidateValidation(l, v)
      PROVE  /\ progress' \in Seq(Course!LectureProgress)
             /\ Len(progress') = Len(progress)
  <2>1. /\ l \in DOMAIN progress
        /\ progress' = [progress EXCEPT ![l] = Course!ValidatedLecture(progress[l], v)]
    BY <1>4 DEF Course!RecordCandidateValidation
  <2>2. Course!ValidatedLecture(progress[l], v) \in Course!LectureProgress
    BY <2>1, Lectures DEF Course!ValidatedLecture, Course!LectureProgress
  <2> QED BY <1>2, <2>1, <2>2, Lectures
<1>5. ASSUME NEW ids, NEW r, Course!ReopenLecturesForCorrection(ids, r)
      PROVE  /\ progress' \in Seq(Course!LectureProgress)
             /\ Len(progress') = Len(progress)
  <2>1. progress' = [l \in DOMAIN progress |->
                       IF l \in ids
                         THEN [progress[l] EXCEPT !.status = "correction_required"]
                         ELSE progress[l]]
    BY <1>5 DEF Course!ReopenLecturesForCorrection
  <2>2. \A l \in DOMAIN progress : progress'[l] \in Course!LectureProgress
    BY <2>1, Lectures DEF Course!LectureProgress
  <2> QED BY <1>2, <2>1, <2>2
<1>6. /\ progress' \in Seq(Course!LectureProgress)
      /\ Len(progress') = Len(progress)
  BY <1>3, <1>4, <1>5 DEF Course!Production
<1> QED BY <1>1, <1>6 DEF PlanHolds

\* Only the reopening of the plan for a new source touches it.
LEMMA InterruptionKeeps ==
  ASSUME PlanHolds, Course!Interruption
  PROVE  PlanHolds'
<1>1. CASE UNCHANGED <<policy, basis, map, context, progress>>
  BY <1>1 DEF PlanHolds
<1>2. ASSUME NEW digest, Course!ApproveMapReopen(digest)
      PROVE  PlanHolds'
  <2>1. /\ map # None /\ map.size \in MapSize /\ map.size \in 1..MaxLectures
        /\ context'.size = map.size /\ progress' = Course!AllPending(map.size)
        /\ basis' = None /\ map' = None /\ policy' = policy
    BY <1>2, MapSizes DEF PlanHolds, Course!ApproveMapReopen, Course!Commit
  <2>2. /\ progress' \in Seq(Course!LectureProgress)
        /\ Len(progress') = map.size
    BY <2>1, PendingLectures
  <2> QED BY <2>1, <2>2 DEF PlanHolds
<1> QED
  BY <1>1, <1>2
     DEF Course!Interruption, Course!RecordOperationFailure, Course!RetryFailed,
         Course!MarkBlocked, Course!ClearBlocker, Course!RecordNewSource,
         Course!DismissNewSource, Course!Stop, Course!Resume,
         Course!PlanAndCourse, Course!Commit

LEMMA PlanKept ==
  ASSUME PlanHolds, Course!Next
  PROVE  PlanHolds'
BY PlanningKeeps, ProductionKeeps, InterruptionKeeps DEF Course!Next

-----------------------------------------------------------------------------
(* What a call may do next                                                 *)

LEMMA SnapshotIsPast ==
  ASSUME OperationsInv
  PROVE  IsPast(Snapshot)
<1>1. revision \in Nat BY DEF OperationsInv, StoresHold, CourseHolds
<1>2. DOMAIN progress \subseteq 1..MaxLectures
  <2>1. PlanHolds BY DEF OperationsInv, StoresHold
  <2>2. /\ DOMAIN progress = 1..Len(progress)
        /\ Len(progress) \in 0..MaxLectures
    BY <2>1, Lectures
  <2> QED BY <2>2, MapSizes
<1> QED BY <1>1, <1>2 DEF IsPast, Snapshot

\* A request is for a lecture that the snapshot has.
LEMMA LecturesToWrite ==
  ASSUME NEW ws, DOMAIN ws.progress \subseteq 1..MaxLectures,
         SemanticKind(ws) \in Kind
  PROVE  LectureToWrite(ws, SemanticKind(ws)) \in 0..MaxLectures
<1> DEFINE kind == SemanticKind(ws)
<1>1. CASE kind \notin LectureKind
  BY <1>1, MapSizes DEF LectureToWrite
<1>2. CASE kind \in LectureKind
  <2>1. LecturesWith(ws, Due(kind)) # {}
    <3>1. /\ kind = "semantic_correction" =>
               LecturesWith(ws, {"correction_required"}) # {}
          /\ kind = "lecture_generation" =>
               LecturesWith(ws, {"pending", "retry_required"}) # {}
      <4>1. None \notin Kind BY OperationsAssumption
      <4> QED BY <1>2, <4>1 DEF SemanticKind, LectureKind, Kind
    <3> QED BY <1>2, <3>1 DEF LectureKind, LecturesWith, Due
  <2>2. LecturesWith(ws, Due(kind)) \subseteq 1..MaxLectures BY DEF LecturesWith
  <2> HIDE DEF kind
  <2>3. First(LecturesWith(ws, Due(kind))) \in LecturesWith(ws, Due(kind))
    BY <2>1, <2>2, FirstIsMember, MapSizes
  <2> QED BY <1>2, <2>2, <2>3, MapSizes DEF LectureToWrite, kind
<1> QED BY <1>1, <1>2

LEMMA NewRequests ==
  ASSUME OperationsInv, NEW ws, IsPast(ws), SemanticKind(ws) \in Kind,
         NEW id \in RequestId
  PROVE  /\ NewRequest(ws, id) \in Request
         /\ NewRequest(ws, id).id = id /\ NewRequest(ws, id).operation = id
         /\ IsCurrent(NewRequest(ws, id))
<1>1. LectureToWrite(ws, SemanticKind(ws)) \in 0..MaxLectures
  BY LecturesToWrite DEF IsPast
<1>2. ws.revision \in 0..MaxRevision /\ ws.revision <= revision
  BY OperationsAssumption DEF IsPast, OperationsInv, StoresHold, CourseHolds
<1>3. NewRequest(ws, id) \in Request
  BY <1>1, <1>2 DEF NewRequest, Request, RequestId
<1>4. IsCurrent(NewRequest(ws, id)) BY <1>2 DEF NewRequest, IsCurrent, IsPast
<1> QED BY <1>3, <1>4 DEF NewRequest

LEMMA Envelopes ==
  ASSUME NEW request \in Request, NEW content \in Content[request.kind]
  PROVE  /\ request.kind \in Kind
         /\ ResultOf(request, content) \in Envelope[request.kind]
         /\ ResultOf(request, content) \in Result
         /\ ResultOf(request, content) # None
         /\ ResultOf(request, content).id = request.id
         /\ ResultOf(request, content).operation = request.operation
         /\ ResultOf(request, content).revision = request.revision
         /\ ResultOf(request, content).kind = request.kind
         /\ ResultOf(request, content).content = content
<1>1. request.kind \in Kind BY DEF Request
<1>2. ResultOf(request, content) \in Envelope[request.kind] BY <1>1 DEF Envelope
<1>3. ResultOf(request, content) \in Result BY <1>1, <1>2 DEF Result
<1>4. ResultOf(request, content) # None BY <1>1, <1>2, OperationsAssumption
<1> QED BY <1>1, <1>2, <1>3, <1>4 DEF ResultOf

\* What a thread hands in answers the request that it names.
LEMMA HandedIn ==
  ASSUME OperationsInv, NEW c, CallHolds(c), c.pc \in HandsIn
  PROVE  /\ c.id \in RequestId /\ rows[c.id] # None
         /\ IsRow(c.id, rows[c.id])
         /\ c.input \in Envelope[c.input.kind] /\ c.input \in Result
         /\ c.input # None /\ c.input.id = c.id
         /\ c.input.revision = rows[c.id].request.revision
         /\ c.input.kind = rows[c.id].request.kind
         /\ c.input.kind \in Kind
         /\ c.input.content \in Content[c.input.kind]
<1>1. c.id \in RequestId /\ rows[c.id] # None
  BY DEF CallHolds, Store!Stored
<1>2. IsRow(c.id, rows[c.id]) BY <1>1 DEF OperationsInv, StoresHold, RowsHold, RowHolds
<1>3. PICK content \in Content[rows[c.id].request.kind] :
        c.input = ResultOf(rows[c.id].request, content)
  BY DEF CallHolds
<1>4. rows[c.id].request \in Request /\ rows[c.id].request.id = c.id
  BY <1>2, RowIsThere DEF IsRow
<1> QED BY <1>1, <1>2, <1>3, <1>4, Envelopes

LEMMA AcceptedRows ==
  ASSUME OperationsInv, NEW id \in RequestId, Accepted(id)
  PROVE  /\ rows[id].request \in Request /\ rows[id].result.id = id
         /\ rows[id].result.kind = rows[id].request.kind
         /\ \E content \in Content[rows[id].request.kind] :
              rows[id].result = ResultOf(rows[id].request, content)
<1>1. IsRow(id, rows[id]) /\ rows[id].status = "accepted"
  BY DEF OperationsInv, StoresHold, RowsHold, RowHolds, Accepted, Store!Stored
<1>2. PICK content \in Content[rows[id].request.kind] :
        rows[id].result = ResultOf(rows[id].request, content)
  BY <1>1 DEF IsRow
<1>3. rows[id].request \in Request /\ rows[id].request.id = id
  BY <1>1, RowIsThere DEF IsRow
<1> QED BY <1>2, <1>3, Envelopes

\* The verdict that a recovery finds is an accepted one.
LEMMA PendingReopening ==
  ASSUME OperationsInv, NEW ws, ReopenIsPending(ws)
  PROVE  /\ VerdictOf(ws).id \in RequestId
         /\ Accepted(VerdictOf(ws).id)
         /\ rows[VerdictOf(ws).id].result = VerdictOf(ws)
         /\ \E content \in Content[rows[VerdictOf(ws).id].request.kind] :
              VerdictOf(ws) = ResultOf(rows[VerdictOf(ws).id].request, content)
<1> DEFINE found == AcceptedAt(ws.revision, "semantic_review")
<1>1. found # {} BY DEF ReopenIsPending
<1>2. found \subseteq Nat BY OperationsAssumption DEF AcceptedAt, RequestId
<1>3. PICK id \in found : id = First(found) BY <1>1, <1>2, FirstIsMember
<1>4. id \in RequestId /\ Accepted(id) BY DEF AcceptedAt, Accepted
<1>5. VerdictOf(ws) = rows[id].result BY <1>3 DEF VerdictOf
<1> QED BY <1>4, <1>5, AcceptedRows

-----------------------------------------------------------------------------
(* The steps of a request                                                  *)

LEMMA Fields ==
  CallFields = {"pc", "holder", "now", "input", "job", "behind", "ws", "id",
                "record", "todo", "then"}
BY DEF CallFields, Idle

\* A thread that goes on without anything to hand in.
LEMMA GoesOn ==
  ASSUME NEW c, CallHolds(c), NEW d,
         DOMAIN d = CallFields, d.then = c.then, d.holder = c.holder, d.now = c.now,
         d.pc \notin HandsIn, d.pc # "decide",
         d.pc \in Leases => c.pc \in Leases,
         d.pc \in Asks => IsPast(d.ws),
         d.pc \in {"request_current", "request_create"} => SemanticKind(d.ws) \in Kind
  PROVE  CallHolds(d)
BY DEF CallHolds, HandsIn, Repeats, Concludes

LEMMA Threads ==
  ASSUME OperationsInv, NEW t \in Thread
  PROVE  CallHolds(call[t]) /\ DOMAIN call[t] = CallFields
BY DEF OperationsInv, StoresHold, CallHolds

LEMMA RestUnchanged ==
  ASSUME Reads
  PROVE  UNCHANGED <<courseVars, rows, clock>>
BY DEF Reads, storeVars

LEMMA RequestWorkflowKeeps ==
  ASSUME OperationsInv, NEW t \in Thread, RequestWorkflow(t)
  PROVE  OperationsInv'
<1> DEFINE c == call[t]
           d == [c EXCEPT !.ws = Snapshot,
                          !.pc = IF InReview(Snapshot) THEN "request_review"
                                                       ELSE "request_reconcile"]
<1>1. CallHolds(c) /\ DOMAIN c = CallFields /\ c.pc = "request_workflow"
  BY Threads DEF RequestWorkflow, At
<1>2. /\ DOMAIN d = CallFields /\ d.then = c.then /\ d.holder = c.holder
      /\ d.now = c.now /\ d.ws = Snapshot
      /\ d.pc \in {"request_review", "request_reconcile"}
  BY <1>1, Fields
<1>3. Becomes(t, d) /\ Reads BY DEF RequestWorkflow
<1> HIDE DEF d
<1>4. CallHolds(d)
  BY <1>1, <1>2, SnapshotIsPast, GoesOn DEF Leases, Asks, HandsIn, Repeats, Concludes
<1> QED BY <1>3, <1>4, RestUnchanged, ReadsKeep

LEMMA RequestReviewKeeps ==
  ASSUME OperationsInv, NEW t \in Thread, RequestReview(t)
  PROVE  OperationsInv'
<1> DEFINE c == call[t]
           d == [c EXCEPT !.pc = IF ReopenIsPending(c.ws) THEN "recover_workflow"
                                                          ELSE "request_reconcile"]
<1>1. CallHolds(c) /\ DOMAIN c = CallFields /\ c.pc = "request_review"
  BY Threads DEF RequestReview, At
<1>2. /\ DOMAIN d = CallFields /\ d.then = c.then /\ d.holder = c.holder
      /\ d.now = c.now /\ d.ws = c.ws
      /\ d.pc \in {"recover_workflow", "request_reconcile"}
  BY <1>1, Fields
<1>3. Becomes(t, d) /\ Reads BY DEF RequestReview
<1> HIDE DEF d
<1>4. IsPast(c.ws) BY <1>1 DEF CallHolds, Asks
<1>5. CallHolds(d)
  BY <1>1, <1>2, <1>4, GoesOn DEF Leases, Asks, HandsIn, Repeats, Concludes
<1> QED BY <1>3, <1>5, RestUnchanged, ReadsKeep

LEMMA RecoverWorkflowKeeps ==
  ASSUME OperationsInv, NEW t \in Thread, RecoverWorkflow(t)
  PROVE  OperationsInv'
<1> DEFINE c == call[t]
           d == [c EXCEPT !.ws = Snapshot, !.pc = "recover_verdict"]
<1>1. CallHolds(c) /\ DOMAIN c = CallFields /\ c.pc = "recover_workflow"
  BY Threads DEF RecoverWorkflow, At
<1>2. /\ DOMAIN d = CallFields /\ d.then = c.then /\ d.holder = c.holder
      /\ d.now = c.now /\ d.pc = "recover_verdict"
  BY <1>1, Fields
<1>3. Becomes(t, d) /\ Reads BY DEF RecoverWorkflow
<1> HIDE DEF d
<1>4. CallHolds(d)
  BY <1>1, <1>2, GoesOn DEF Leases, Asks, HandsIn, Repeats, Concludes
<1> QED BY <1>3, <1>4, RestUnchanged, ReadsKeep

\* The verdict that is handed in again is accepted.
LEMMA RecoverVerdictKeeps ==
  ASSUME OperationsInv, NEW t \in Thread, RecoverVerdict(t)
  PROVE  OperationsInv'
<1> DEFINE c == call[t]
<1>1. /\ CallHolds(c) /\ DOMAIN c = CallFields /\ c.pc = "recover_verdict"
      /\ Reads
  BY Threads DEF RecoverVerdict, At
<1>2. c.holder \in Holder /\ c.now \in 0..clock BY <1>1 DEF CallHolds, Leases
<1>3. CASE ReopenIsPending(c.ws)
  <2> DEFINE v == VerdictOf(c.ws)
             d == [c EXCEPT !.input = v, !.id = v.id, !.then = "reload_job",
                            !.pc = "resubmit_job"]
  <2>1. /\ Store!Stored(v.id) /\ Accepted(v.id) /\ rows[v.id].result = v
        /\ \E content \in Content[rows[v.id].request.kind] :
             v = ResultOf(rows[v.id].request, content)
    BY <1>3, PendingReopening DEF Accepted
  <2>2. Becomes(t, d) BY <1>3 DEF RecoverVerdict
  <2> HIDE DEF v
  <2>3. /\ DOMAIN d = CallFields /\ d.then = "reload_job" /\ d.holder = c.holder
        /\ d.now = c.now /\ d.pc = "resubmit_job" /\ d.input = v /\ d.id = v.id
    BY <1>1, Fields
  <2> HIDE DEF d
  <2>4. CallHolds(d)
    BY <1>2, <2>1, <2>3 DEF CallHolds, Leases, Asks, HandsIn, Repeats, Concludes
  <2> QED BY <1>1, <2>2, <2>4, RestUnchanged, ReadsKeep
<1>4. CASE ~ReopenIsPending(c.ws)
  <2> DEFINE d == [c EXCEPT !.pc = "reload_job"]
  <2>1. /\ DOMAIN d = CallFields /\ d.then = c.then /\ d.holder = c.holder
        /\ d.now = c.now /\ d.pc = "reload_job"
    BY <1>1, Fields
  <2>2. Becomes(t, d) BY <1>4 DEF RecoverVerdict
  <2> HIDE DEF d
  <2>3. CallHolds(d)
    BY <1>1, <2>1, GoesOn DEF Leases, Asks, HandsIn, Repeats, Concludes
  <2> QED BY <1>1, <2>2, <2>3, RestUnchanged, ReadsKeep
<1> QED BY <1>3, <1>4

LEMMA RequestReloadKeeps ==
  ASSUME OperationsInv, NEW t \in Thread,
         RequestReloadJob(t) \/ RequestReloadWorkflow(t)
  PROVE  OperationsInv'
<1> DEFINE c == call[t]
<1>1. CallHolds(c) /\ DOMAIN c = CallFields BY Threads
<1>2. CASE RequestReloadJob(t)
  <2> DEFINE d == [c EXCEPT !.job = job, !.behind = 0, !.pc = "reload_workflow"]
  <2>1. /\ DOMAIN d = CallFields /\ d.then = c.then /\ d.holder = c.holder
        /\ d.now = c.now /\ d.pc = "reload_workflow" /\ c.pc = "reload_job"
    BY <1>1, <1>2, Fields DEF RequestReloadJob, At
  <2>2. Becomes(t, d) /\ Reads BY <1>2 DEF RequestReloadJob, LoadJob
  <2> HIDE DEF d
  <2>3. CallHolds(d)
    BY <1>1, <2>1, GoesOn DEF Leases, Asks, HandsIn, Repeats, Concludes
  <2> QED BY <2>2, <2>3, RestUnchanged, ReadsKeep
<1>3. CASE RequestReloadWorkflow(t)
  <2> DEFINE d == [c EXCEPT !.ws = Snapshot, !.input = None, !.id = 0,
                            !.pc = "request_reconcile"]
  <2>1. /\ DOMAIN d = CallFields /\ d.then = c.then /\ d.holder = c.holder
        /\ d.now = c.now /\ d.ws = Snapshot /\ d.pc = "request_reconcile"
        /\ c.pc = "reload_workflow"
    BY <1>1, <1>3, Fields DEF RequestReloadWorkflow, At
  <2>2. Becomes(t, d) /\ Reads BY <1>3 DEF RequestReloadWorkflow
  <2> HIDE DEF d
  <2>3. CallHolds(d)
    BY <1>1, <2>1, SnapshotIsPast, GoesOn
       DEF Leases, Asks, HandsIn, Repeats, Concludes
  <2> QED BY <2>2, <2>3, RestUnchanged, ReadsKeep
<1> QED BY <1>2, <1>3

LEMMA RequestReconcileKeeps ==
  ASSUME OperationsInv, NEW t \in Thread, RequestReconcile(t) \/ RequestSave(t)
  PROVE  OperationsInv'
<1> DEFINE c == call[t]
           record == Reconciled(c.ws, c.now)
           found == Reconciling(c)
           saving == [c EXCEPT !.record = record, !.pc = "request_save"]
<1>1. /\ CallHolds(c) /\ DOMAIN c = CallFields
      /\ c.pc \in {"request_reconcile", "request_save"}
  BY Threads DEF RequestReconcile, RequestSave, At
<1>2. IsPast(c.ws) BY <1>1 DEF CallHolds, Asks
<1> HIDE DEF record
<1>3. /\ DOMAIN found = CallFields /\ found.then = c.then /\ found.holder = c.holder
      /\ found.now = c.now /\ found.ws = c.ws /\ found.pc = "request_find"
  BY <1>1, Fields DEF Reconciling
<1>4. /\ DOMAIN saving = CallFields /\ saving.then = c.then
      /\ saving.holder = c.holder
      /\ saving.now = c.now /\ saving.ws = c.ws /\ saving.pc = "request_save"
  BY <1>1, Fields
<1>5. /\ RequestReconcile(t) =>
           (Becomes(t, found) \/ Becomes(t, saving)) /\ Reads
      /\ RequestSave(t) => SaveJob(t, c.record, found, found)
  BY DEF RequestReconcile, RequestSave, record
<1> HIDE DEF found, saving
<1>6. CallHolds(found) /\ CallHolds(saving)
  BY <1>1, <1>2, <1>3, <1>4, GoesOn DEF Leases, Asks, HandsIn, Repeats, Concludes
<1> QED BY <1>5, <1>6, RestUnchanged, ReadsKeep, SaveJobKeeps

LEMMA RequestFindKeeps ==
  ASSUME OperationsInv, NEW t \in Thread, RequestFind(t) \/ RequestCurrent(t)
  PROVE  OperationsInv'
<1> DEFINE c == call[t]
           id == First(LiveAt(c.ws.revision))
           current == [c EXCEPT !.pc = "request_current"]
           create == [c EXCEPT !.pc = "request_create"]
           lease == [c EXCEPT !.pc = "request_lease", !.id = id]
<1>1. /\ CallHolds(c) /\ DOMAIN c = CallFields
      /\ c.pc \in {"request_find", "request_current"}
      /\ Reads
  BY Threads DEF RequestFind, RequestCurrent, At
<1>2. IsPast(c.ws) BY <1>1 DEF CallHolds, Asks
<1> HIDE DEF id
<1>3. \A d \in {current, create, lease} :
        /\ DOMAIN d = CallFields /\ d.then = c.then /\ d.holder = c.holder
        /\ d.now = c.now /\ d.ws = c.ws
  BY <1>1, Fields
<1>4. /\ current.pc = "request_current" /\ create.pc = "request_create"
      /\ lease.pc = "request_lease"
  BY <1>1, Fields
<1>5. /\ RequestFind(t) => Return(t) \/ (Needed(c.ws) /\ Becomes(t, current))
      /\ RequestCurrent(t) => Becomes(t, create) \/ Becomes(t, lease)
      /\ RequestCurrent(t) => c.pc = "request_current"
  BY DEF RequestFind, RequestCurrent, At, id
<1> HIDE DEF current, create, lease
<1>6. CallHolds(lease)
  BY <1>1, <1>3, <1>4, GoesOn DEF Leases, Asks, HandsIn, Repeats, Concludes
<1>7. Needed(c.ws) => SemanticKind(c.ws) \in Kind
  BY DEF Needed, SemanticKind, Kind
<1>8. Needed(c.ws) => CallHolds(current)
  BY <1>1, <1>2, <1>3, <1>4, <1>7, GoesOn
     DEF Leases, Asks, HandsIn, Repeats, Concludes
<1>9. RequestCurrent(t) => CallHolds(create)
  <2>1. c.pc = "request_current" => SemanticKind(c.ws) \in Kind
    BY <1>1 DEF CallHolds
  <2> QED BY <1>1, <1>2, <1>3, <1>4, <1>5, <2>1, GoesOn
          DEF Leases, Asks, HandsIn, Repeats, Concludes
<1> QED BY <1>1, <1>5, <1>6, <1>8, <1>9, RestUnchanged, ReadsKeep, ReturnKeeps

\* A new request is for what its snapshot needs, and a snapshot of the present
\* revision is the present one.
LEMMA RequestCreateKeeps ==
  ASSUME OperationsInv, NEW t \in Thread, RequestCreate(t)
  PROVE  OperationsInv'
<1> DEFINE c == call[t]
<1>1. /\ CallHolds(c) /\ DOMAIN c = CallFields /\ c.pc = "request_create"
      /\ UNCHANGED courseVars
  BY Threads DEF RequestCreate, At
<1>2. IsPast(c.ws) /\ SemanticKind(c.ws) \in Kind BY <1>1 DEF CallHolds, Asks
<1>3. PICK id \in RequestId :
        /\ ~Store!Stored(id)
        /\ LET request == NewRequest(c.ws, id) IN
             IF Store!CreateOutcome(request) = "ok"
               THEN /\ Store!CreateRequest(request)
                    /\ Becomes(t, [c EXCEPT !.pc = "request_lease", !.id = id])
               ELSE /\ Becomes(t, [c EXCEPT !.pc = "request_again"])
                    /\ UNCHANGED storeVars
  BY DEF RequestCreate
<1> DEFINE request == NewRequest(c.ws, id)
           lease == [c EXCEPT !.pc = "request_lease", !.id = id]
           again == [c EXCEPT !.pc = "request_again"]
<1>4. \A d \in {lease, again} :
        /\ DOMAIN d = CallFields /\ d.then = c.then /\ d.holder = c.holder
        /\ d.now = c.now
  BY <1>1, Fields
<1>5. lease.pc = "request_lease" /\ again.pc = "request_again" BY <1>1, Fields
<1>6. CallHolds(lease) /\ CallHolds(again)
  <2> HIDE DEF lease, again
  <2> QED BY <1>1, <1>4, <1>5, GoesOn DEF Leases, Asks, HandsIn, Repeats, Concludes
<1>7. CASE Becomes(t, again) /\ UNCHANGED storeVars
  <2> HIDE DEF again
  <2> QED BY <1>1, <1>6, <1>7, ReadsKeep DEF storeVars
<1>8. CASE Store!CreateRequest(request) /\ Becomes(t, lease)
  <2> DEFINE row == [request |-> request, status |-> "pending", holder |-> None,
                     expires |-> None, result |-> None]
  <2>1. /\ request \in Request /\ request.id = id /\ request.operation = id
        /\ IsCurrent(request)
    BY <1>2, NewRequests
  <2> HIDE DEF request
  <2>2. rows' = [rows EXCEPT ![id] = row] /\ clock' = clock
    BY <1>8, <2>1 DEF Store!CreateRequest
  <2>3. /\ row \in RowOf(request.kind) /\ request.kind \in Kind
        /\ row.request = request /\ row.status = "pending" /\ row.result = None
    BY <2>1 DEF RowOf, Request
  <2> HIDE DEF row
  <2>4. IsRow(id, row) BY <2>1, <2>3 DEF IsRow
  <2>5. Remembers /\ StoresHold'
    BY <1>1, <1>3, <2>1, <2>2, <2>3, <2>4, RowIsWritten
  <2> HIDE DEF lease
  <2>6. PICK d : d = lease OBVIOUS
  <2>7. CallHolds(d)' BY <1>6, <2>5, <2>6, CallStays DEF OperationsInv, StoresHold
  <2>8. CallHolds(call[t])' BY <1>8, <2>6, <2>7, NewCall
  <2> QED BY <1>8, <2>5, <2>8, OtherCallsStay DEF OperationsInv, StoresHold
<1> QED BY <1>3, <1>7, <1>8

LEMMA RequestAgainKeeps ==
  ASSUME OperationsInv, NEW t \in Thread, RequestAgain(t)
  PROVE  OperationsInv'
<1> DEFINE c == call[t]
           id == First(LiveAt(c.ws.revision))
           d == [c EXCEPT !.pc = "request_lease", !.id = id]
<1>1. /\ CallHolds(c) /\ DOMAIN c = CallFields /\ c.pc = "request_again" /\ Reads
      /\ Return(t) \/ Becomes(t, d)
  BY Threads DEF RequestAgain, At
<1> HIDE DEF id
<1>2. /\ DOMAIN d = CallFields /\ d.then = c.then /\ d.holder = c.holder
      /\ d.now = c.now /\ d.pc = "request_lease"
  BY <1>1, Fields
<1> HIDE DEF d
<1>3. CallHolds(d)
  BY <1>1, <1>2, GoesOn DEF Leases, Asks, HandsIn, Repeats, Concludes
<1> QED BY <1>1, <1>3, RestUnchanged, ReadsKeep, ReturnKeeps

LEMMA StepKeeps ==
  ASSUME OperationsInv, Remembers, StoresHold', NEW t \in Thread, NEW d,
         Becomes(t, d), CallHolds(d)
  PROVE  OperationsInv'
<1>1. CallHolds(d)' BY CallStays DEF OperationsInv, StoresHold
<1>2. CallHolds(call[t])' BY <1>1, NewCall
<1> QED BY <1>2, OtherCallsStay DEF OperationsInv

LEMMA LeaseIsWritten ==
  ASSUME OperationsInv, UNCHANGED courseVars, NEW id, NEW h \in Holder,
         NEW now \in Nat, NEW d \in Duration, Store!AcquireLease(id, h, now, d),
         Store!LeaseOutcome(id, h, now) = "ok"
  PROVE  Remembers /\ StoresHold' /\ id \in RequestId
<1>1. /\ id \in RequestId /\ rows[id] # None /\ Store!Live(id)
      /\ rows[id].status # "accepted"
  <2>1. Store!Stored(id) BY DEF Store!LeaseOutcome
  <2>2. rows[id].status \in {"pending", "leased", "accepted", "rejected"}
    BY <2>1, RowIsThere
       DEF Store!Stored, OperationsInv, StoresHold, RowsHold, RowHolds, RowOf
  <2> QED BY <2>1, <2>2 DEF Store!LeaseOutcome, Store!Live, Store!Stored
<1> DEFINE old == rows[id]
           row == [old EXCEPT !.status = "leased", !.holder = h, !.expires = now + d]
<1>2. IsRow(id, old) /\ old \in RowOf(old.request.kind)
  BY <1>1, RowIsThere DEF OperationsInv, StoresHold, RowsHold, RowHolds
<1>3. now + d \in Nat BY OperationsAssumption
<1>4. /\ rows' = [rows EXCEPT ![id] = row] /\ clock' = clock
  BY DEF Store!AcquireLease
<1>5. /\ row \in RowOf(old.request.kind) /\ row.request = old.request
      /\ row.status = "leased" /\ row.result = old.result
  BY <1>2, <1>3 DEF RowOf
<1> HIDE DEF row
<1>6. IsRow(id, row) BY <1>1, <1>2, <1>5, RowIsThere DEF IsRow
<1> QED BY <1>1, <1>4, <1>5, <1>6, RowIsWritten

LEMMA RejectionIsWritten ==
  ASSUME OperationsInv, UNCHANGED courseVars, NEW id, MarkRejected(id)
  PROVE  Remembers /\ StoresHold'
<1>1. CASE ~Store!Live(id)
  BY <1>1, StoresRest
     DEF MarkRejected, storeVars, OperationsInv, StoresHold, RowsHold
<1>2. CASE Store!Live(id)
  <2>1. id \in RequestId /\ rows[id] # None /\ rows[id].status # "accepted"
    BY <1>2 DEF Store!Live, Store!Stored
  <2> DEFINE old == rows[id]
             row == [old EXCEPT !.status = "rejected"]
  <2>2. IsRow(id, old) /\ old \in RowOf(old.request.kind)
    BY <2>1, RowIsThere DEF OperationsInv, StoresHold, RowsHold, RowHolds
  <2>3. /\ rows' = [rows EXCEPT ![id] = row] /\ clock' = clock
    BY <1>2 DEF MarkRejected, Store!MarkRejected
  <2>4. /\ row \in RowOf(old.request.kind) /\ row.request = old.request
        /\ row.status = "rejected" /\ row.result = old.result
    BY <2>2 DEF RowOf
  <2> HIDE DEF row
  <2>5. IsRow(id, row) BY <2>1, <2>2, <2>4, RowIsThere DEF IsRow
  <2> QED BY <2>1, <2>3, <2>4, <2>5, RowIsWritten
<1> QED BY <1>1, <1>2

\* The row of a result that is recorded or evidence takes it, or has it already.
LEMMA AcceptanceIsWritten ==
  ASSUME OperationsInv, UNCHANGED courseVars, NEW c, CallHolds(c),
         c.pc = "submit_accept", Store!AcceptOutcome(c.input) = "ok",
         IF Store!Live(c.id) THEN Store!MarkAccepted(c.input)
                             ELSE UNCHANGED storeVars
  PROVE  /\ Remembers /\ StoresHold'
         /\ Accepted(c.id)' /\ rows'[c.id].result = c.input
<1> DEFINE id == c.id
           old == rows[id]
<1>1. /\ id \in RequestId /\ old # None /\ IsRow(id, old)
      /\ c.input \in Envelope[c.input.kind] /\ c.input.kind = old.request.kind
      /\ c.input # None /\ c.input.id = id
      /\ \E content \in Content[old.request.kind] :
           c.input = ResultOf(old.request, content)
  BY HandedIn DEF CallHolds, HandsIn, Concludes
<1>2. old \in RowOf(old.request.kind) BY <1>1, RowIsThere
<1>3. CASE Store!Live(id)
  <2> DEFINE row == [old EXCEPT !.status = "accepted", !.holder = None,
                                !.expires = None, !.result = c.input]
  <2>1. old.status # "accepted" BY <1>3 DEF Store!Live
  <2>2. /\ rows' = [rows EXCEPT ![id] = row] /\ clock' = clock
    BY <1>1, <1>3 DEF Store!MarkAccepted
  <2>3. /\ row \in RowOf(old.request.kind) /\ row.request = old.request
        /\ row.status = "accepted" /\ row.result = c.input
    BY <1>1, <1>2 DEF RowOf
  <2> HIDE DEF row
  <2>4. IsRow(id, row) BY <1>1, <2>3, RowIsThere DEF IsRow
  <2>5. c.input.kind \in EvidenceKind \/ Recorded(c.input)
    BY DEF CallHolds, Concludes
  <2>6. Remembers /\ StoresHold'
    BY <1>1, <2>1, <2>2, <2>3, <2>4, <2>5, RowIsWritten
  <2>7. rows'[id] = row /\ row # None
    BY <1>1, <2>2, <2>4, RowIsThere DEF OperationsInv, StoresHold, RowsHold
  <2> QED BY <1>1, <2>3, <2>6, <2>7 DEF Accepted, Store!Stored
<1>4. CASE ~Store!Live(id)
  <2>1. UNCHANGED storeVars BY <1>4
  <2>2. Remembers /\ StoresHold'
    BY <2>1, StoresRest DEF storeVars, OperationsInv, StoresHold, RowsHold
  <2>3. old.result = c.input BY <1>1, <1>4 DEF Store!AcceptOutcome
  <2>4. old.status = "accepted" BY <1>1, <2>3 DEF IsRow
  <2> QED BY <1>1, <2>1, <2>2, <2>3, <2>4 DEF storeVars, Accepted, Store!Stored
<1> QED BY <1>3, <1>4

LEMMA RequestLeaseKeeps ==
  ASSUME OperationsInv, NEW t \in Thread, RequestLease(t)
  PROVE  OperationsInv'
<1> DEFINE c == call[t]
<1>1. /\ CallHolds(c) /\ c.pc = "request_lease" /\ Return(t)
      /\ UNCHANGED courseVars
  BY Threads DEF RequestLease, At
<1>2. c.holder \in Holder /\ c.now \in Nat BY <1>1 DEF CallHolds, Leases
<1>3. CASE UNCHANGED storeVars BY <1>1, <1>3, ReturnKeeps DEF storeVars
<1>4. ASSUME NEW d \in Duration, Store!AcquireLease(c.id, c.holder, c.now, d),
             Store!LeaseOutcome(c.id, c.holder, c.now) = "ok"
      PROVE  OperationsInv'
  <2>1. Remembers /\ StoresHold' BY <1>1, <1>2, <1>4, LeaseIsWritten
  <2> QED BY <1>1, <2>1, IdleHolds, StepKeeps DEF Return
<1> QED BY <1>3, <1>4 DEF RequestLease

-----------------------------------------------------------------------------
(* The steps of a submission                                               *)

\* A thread that still holds the result it was given.
LEMMA HandsOn ==
  ASSUME NEW c, CallHolds(c), c.pc \in HandsIn, NEW d,
         DOMAIN d = CallFields, d.id = c.id, d.input = c.input, d.pc \in HandsIn,
         d.then = c.then,
         d.then = "reload_job" => d.holder = c.holder /\ d.now = c.now,
         d.pc \in Repeats => c.pc \in Repeats,
         d.pc = "reopen" => d.input.kind = "semantic_review",
         d.pc = "submit_transition" =>
           d.input.revision = d.ws.revision /\ d.input.kind \notin EvidenceKind,
         d.pc \in Concludes /\ d.input.kind \notin EvidenceKind =>
           c.pc \in Concludes \/ Recorded(d.input)
  PROVE  CallHolds(d)
BY DEF CallHolds, Asks, Leases, HandsIn, Repeats, Concludes

LEMMA AuthorisedCall ==
  ASSUME NEW c, DOMAIN c = CallFields, NEW pc
  PROVE  /\ DOMAIN Authorised(c, pc) = CallFields
         /\ Authorised(c, pc).pc = pc
         /\ Authorised(c, pc).id = c.id /\ Authorised(c, pc).input = c.input
         /\ Authorised(c, pc).ws = c.ws /\ Authorised(c, pc).then = c.then
         /\ c.then = "reload_job" => /\ Authorised(c, pc).holder = c.holder
                                     /\ Authorised(c, pc).now = c.now
BY Fields DEF Authorised

\* A receipt of the request, for the subject of the result, records it.
LEMMA ReceiptsRecord ==
  ASSUME OperationsInv, NEW c, CallHolds(c), c.pc \in HandsIn,
         c.input.kind \notin EvidenceKind,
         NEW r \in ReceiptsOf(Snapshot, c.id, "submit"),
         c.input.kind # "source_assessment" => r.subject = SubjectOf(c.input)
  PROVE  Recorded(c.input)
<1>1. /\ c.id \in RequestId /\ c.input.id = c.id /\ c.input.kind \in Kind
      /\ c.input.revision = rows[c.id].request.revision
  BY HandedIn
<1>2. PICK i \in Steps(c.id, "submit") : r = receipts[i]
  BY DEF ReceiptsOf, Steps, Snapshot
<1>3. receipts[i].to_revision = c.input.revision + 1
  BY <1>1 DEF OperationsInv, StoresHold, StepsHold
<1>4. Bears(r, c.input)
  <2>1. CASE c.input.kind = "source_assessment"
    BY <2>1 DEF Bears, LectureKind
  <2>2. CASE c.input.kind = "lecture_map_generation"
    BY <2>2 DEF Bears, SubjectOf, LectureKind, Course!MapSubject
  <2>3. CASE c.input.kind \in LectureKind
    BY <2>3 DEF Bears, SubjectOf, LectureKind
  <2> QED BY <1>1, <2>1, <2>2, <2>3 DEF Kind, EvidenceKind, LectureKind
<1> QED BY <1>1, <1>2, <1>3, <1>4 DEF Recorded

LEMMA SubmitJobKeeps ==
  ASSUME OperationsInv, NEW t \in Thread, SubmitJob(t) \/ ResubmitJob(t)
  PROVE  OperationsInv'
<1> DEFINE c == call[t]
           submit == [c EXCEPT !.job = job, !.behind = 0, !.pc = "submit_workflow"]
           resubmit == [c EXCEPT !.job = job, !.behind = 0, !.pc = "resubmit_workflow"]
<1>1. /\ CallHolds(c) /\ DOMAIN c = CallFields /\ Reads
      /\ \/ c.pc = "submit_job" /\ Becomes(t, submit)
         \/ c.pc = "resubmit_job" /\ Becomes(t, resubmit)
  BY Threads DEF SubmitJob, ResubmitJob, LoadJob, At
<1>2. \A d \in {submit, resubmit} :
        /\ DOMAIN d = CallFields /\ d.id = c.id /\ d.input = c.input
        /\ d.then = c.then /\ d.holder = c.holder /\ d.now = c.now
  BY <1>1, Fields
<1>3. submit.pc = "submit_workflow" /\ resubmit.pc = "resubmit_workflow"
  BY <1>1, Fields
<1> HIDE DEF submit, resubmit
<1>4. /\ c.pc = "submit_job" => CallHolds(submit)
      /\ c.pc = "resubmit_job" => CallHolds(resubmit)
  BY <1>1, <1>2, <1>3, HandsOn DEF HandsIn, Repeats, Concludes
<1> QED BY <1>1, <1>4, RestUnchanged, ReadsKeep

\* A submission that goes on past its transition has found the receipt of it.
LEMMA SubmitWorkflowKeeps ==
  ASSUME OperationsInv, NEW t \in Thread, SubmitWorkflow(t)
  PROVE  OperationsInv'
<1> DEFINE c == call[t]
           next == Resumption(Snapshot, c.input)
           d == [c EXCEPT !.ws = Snapshot, !.pc = next]
<1>1. /\ CallHolds(c) /\ DOMAIN c = CallFields /\ c.pc = "submit_workflow"
      /\ Reads
      /\ \/ Return(t)
         \/ next # "idle" /\ Becomes(t, d)
  BY Threads DEF SubmitWorkflow, At, Return
<1>2. /\ DOMAIN d = CallFields /\ d.id = c.id /\ d.input = c.input
      /\ d.then = c.then /\ d.holder = c.holder /\ d.now = c.now /\ d.pc = next
  BY <1>1, Fields
<1>3. next \in {"idle", "submit_lease", "submit_accept", "submit_resume"}
  BY DEF Resumption
<1>4. ASSUME next \in {"submit_accept", "submit_resume"},
             c.input.kind \notin EvidenceKind
      PROVE  Recorded(c.input)
  <2>1. /\ ReceiptsOf(Snapshot, c.input.id, "submit") # {}
        /\ c.input.kind # "source_assessment" =>
             \A r \in ReceiptsOf(Snapshot, c.input.id, "submit") :
               r.subject = SubjectOf(c.input)
    BY <1>4 DEF Resumption
  <2>2. c.input.id = c.id BY <1>1, HandedIn DEF HandsIn
  <2> QED BY <1>1, <1>4, <2>1, <2>2, ReceiptsRecord DEF HandsIn
<1> HIDE DEF d, next
<1>5. CASE next = "submit_lease"
  <2>1. c.pc \in HandsIn /\ d.pc \in HandsIn /\ d.pc \notin Repeats
        /\ d.pc # "reopen" /\ d.pc # "submit_transition" /\ d.pc \notin Concludes
    BY <1>1, <1>2, <1>5 DEF HandsIn, Repeats, Concludes
  <2>2. CallHolds(d) BY <1>1, <1>2, <2>1, HandsOn
  <2> QED BY <1>1, <2>2, RestUnchanged, ReadsKeep, ReturnKeeps
<1>6. CASE next \in {"submit_accept", "submit_resume"}
  <2>1. c.pc \in HandsIn /\ d.pc \in HandsIn /\ d.pc \notin Repeats
        /\ d.pc # "reopen" /\ d.pc # "submit_transition"
    BY <1>1, <1>2, <1>6 DEF HandsIn, Repeats, Concludes
  <2>2. d.input.kind \notin EvidenceKind => Recorded(d.input)
    BY <1>2, <1>4, <1>6
  <2>3. CallHolds(d) BY <1>1, <1>2, <2>1, <2>2, HandsOn
  <2> QED BY <1>1, <2>3, RestUnchanged, ReadsKeep, ReturnKeeps
<1>7. CASE next = "idle" BY <1>1, <1>7, RestUnchanged, ReturnKeeps
<1> QED BY <1>3, <1>5, <1>6, <1>7

LEMMA SubmitLeaseKeeps ==
  ASSUME OperationsInv, NEW t \in Thread, SubmitLease(t) \/ SubmitResume(t)
  PROVE  OperationsInv'
<1> DEFINE c == call[t]
           accept == Authorised(c, "submit_accept")
           transition == Authorised(c, "submit_transition")
           validation == Authorised(c, "submit_validation")
<1>1. /\ CallHolds(c) /\ DOMAIN c = CallFields /\ Reads
      /\ c.pc \in {"submit_lease", "submit_resume"}
      /\ \/ Return(t)
         \/ /\ Binds(c.ws, rows[c.id].request, c.input)
            /\ c.pc = "submit_lease"
            /\ \/ c.input.kind \in EvidenceKind /\ Becomes(t, accept)
               \/ c.input.kind \notin EvidenceKind /\ Becomes(t, transition)
         \/ c.pc = "submit_resume" /\ Becomes(t, validation)
  BY Threads DEF SubmitLease, SubmitResume, At
<1>2. \A d \in {accept, transition, validation} :
        /\ DOMAIN d = CallFields /\ d.id = c.id /\ d.input = c.input
        /\ d.ws = c.ws /\ d.then = c.then
        /\ c.then = "reload_job" => d.holder = c.holder /\ d.now = c.now
  BY <1>1, AuthorisedCall
<1>3. /\ accept.pc = "submit_accept" /\ transition.pc = "submit_transition"
      /\ validation.pc = "submit_validation"
  BY <1>1, AuthorisedCall
<1>4. Binds(c.ws, rows[c.id].request, c.input) => c.input.revision = c.ws.revision
  BY <1>1, HandedIn DEF Binds, HandsIn, Concludes
<1> HIDE DEF accept, transition, validation
<1>5. c.pc = "submit_lease" /\ c.input.kind \in EvidenceKind => CallHolds(accept)
  BY <1>1, <1>2, <1>3, HandsOn DEF HandsIn, Repeats, Concludes
<1>6. /\ c.pc = "submit_lease" /\ c.input.kind \notin EvidenceKind
      /\ Binds(c.ws, rows[c.id].request, c.input)
      => CallHolds(transition)
  BY <1>1, <1>2, <1>3, <1>4, HandsOn DEF HandsIn, Repeats, Concludes
<1>7. c.pc = "submit_resume" => CallHolds(validation)
  BY <1>1, <1>2, <1>3, HandsOn DEF HandsIn, Repeats, Concludes
<1> QED BY <1>1, <1>5, <1>6, <1>7, RestUnchanged, ReadsKeep, ReturnKeeps

LEMMA SubmitRepeatKeeps ==
  ASSUME OperationsInv, NEW t \in Thread, SubmitRepeat(t)
  PROVE  OperationsInv'
<1> DEFINE c == call[t]
           d == [c EXCEPT !.ws = Snapshot, !.pc = "submit_accept"]
<1>1. /\ CallHolds(c) /\ DOMAIN c = CallFields /\ c.pc = "submit_transition"
      /\ Reads /\ Becomes(t, d)
      /\ \E r \in ReceiptsOf(Snapshot, c.id, "submit") : r.subject = SubjectOf(c.input)
  BY Threads DEF SubmitRepeat, At
<1>2. /\ DOMAIN d = CallFields /\ d.id = c.id /\ d.input = c.input
      /\ d.then = c.then /\ d.holder = c.holder /\ d.now = c.now
      /\ d.pc = "submit_accept"
  BY <1>1, Fields
<1>3. c.input.kind \notin EvidenceKind BY <1>1 DEF CallHolds
<1>4. Recorded(c.input) BY <1>1, <1>3, ReceiptsRecord DEF HandsIn
<1> HIDE DEF d
<1>5. CallHolds(d) BY <1>1, <1>2, <1>4, HandsOn DEF HandsIn, Repeats, Concludes
<1> QED BY <1>1, <1>5, RestUnchanged, ReadsKeep

LEMMA SubmitRejectedKeeps ==
  ASSUME OperationsInv, NEW t \in Thread,
         SubmitRejected(t) \/ SubmitLost(t) \/ SubmitReject(t)
  PROVE  OperationsInv'
<1> DEFINE c == call[t]
           d == [c EXCEPT !.pc = "submit_reject"]
<1>1. CallHolds(c) /\ DOMAIN c = CallFields BY Threads
<1>2. CASE SubmitRejected(t)
  <2>1. /\ DOMAIN d = CallFields /\ d.id = c.id /\ d.input = c.input
        /\ d.then = c.then /\ d.holder = c.holder /\ d.now = c.now
        /\ d.pc = "submit_reject" /\ c.pc = "submit_transition"
    BY <1>1, <1>2, Fields DEF SubmitRejected, At
  <2>2. Becomes(t, d) /\ Reads BY <1>2 DEF SubmitRejected
  <2> HIDE DEF d
  <2>3. CallHolds(d) BY <1>1, <2>1, HandsOn DEF HandsIn, Repeats, Concludes
  <2> QED BY <2>2, <2>3, RestUnchanged, ReadsKeep
<1>3. CASE SubmitLost(t)
  BY <1>3, RestUnchanged, ReturnKeeps DEF SubmitLost
<1>4. CASE SubmitReject(t)
  <2>1. MarkRejected(c.id) /\ Return(t) /\ UNCHANGED courseVars
    BY <1>4 DEF SubmitReject
  <2> QED BY <2>1, RejectionIsWritten, IdleHolds, StepKeeps DEF Return
<1> QED BY <1>2, <1>3, <1>4

LEMMA SubmitAcceptKeeps ==
  ASSUME OperationsInv, NEW t \in Thread, SubmitAccept(t)
  PROVE  OperationsInv'
<1> DEFINE c == call[t]
           reopens == c.input.kind = "semantic_review" /\ c.input.content # {}
           d == [c EXCEPT !.pc = IF reopens THEN "reopen" ELSE "project"]
<1>1. /\ CallHolds(c) /\ DOMAIN c = CallFields /\ c.pc = "submit_accept"
      /\ UNCHANGED courseVars
  BY Threads DEF SubmitAccept, At
<1>2. CASE Store!AcceptOutcome(c.input) = "ok"
  <2>1. /\ IF Store!Live(c.id) THEN Store!MarkAccepted(c.input)
                               ELSE UNCHANGED storeVars
        /\ Becomes(t, d)
    BY <1>2 DEF SubmitAccept
  <2>2. PICK e : e = c OBVIOUS
  <2>3. /\ Remembers /\ StoresHold'
        /\ Accepted(e.id)' /\ rows'[e.id].result = e.input
    BY <1>1, <1>2, <2>1, <2>2, AcceptanceIsWritten
  <2>4. /\ DOMAIN d = CallFields /\ d.id = c.id /\ d.input = c.input
        /\ d.then = c.then /\ d.holder = c.holder /\ d.now = c.now
        /\ d.pc = IF reopens THEN "reopen" ELSE "project"
    BY <1>1, Fields
  <2> HIDE DEF d
  <2>5. CallHolds(e)' BY <1>1, <2>2, <2>3, CallStays DEF OperationsInv, StoresHold
  <2>6. PICK f : f = d OBVIOUS
  <2>7. CallHolds(f)'
    <3>1. /\ DOMAIN f = CallFields /\ f.id = e.id /\ f.input = e.input
          /\ f.then = e.then /\ f.holder = e.holder /\ f.now = e.now
          /\ f.pc \in {"reopen", "project"} /\ e.pc = "submit_accept"
          /\ f.pc = "reopen" => f.input.kind = "semantic_review"
      BY <1>1, <2>2, <2>4, <2>6
    <3>2. Accepted(f.id)' /\ rows'[f.id].result = f.input
      BY <2>3, <3>1
    <3> QED BY <2>5, <3>1, <3>2
            DEF CallHolds, Asks, Leases, HandsIn, Repeats, Concludes
  <2>8. CallHolds(call[t])' BY <2>1, <2>6, <2>7, NewCall
  <2> QED BY <2>1, <2>3, <2>8, OtherCallsStay DEF OperationsInv
<1>3. CASE Store!AcceptOutcome(c.input) # "ok"
  <2>1. Return(t) /\ UNCHANGED storeVars BY <1>3 DEF SubmitAccept
  <2> QED BY <1>1, <2>1, ReturnKeeps DEF storeVars
<1> QED BY <1>2, <1>3

LEMMA ResubmitWorkflowKeeps ==
  ASSUME OperationsInv, NEW t \in Thread, ResubmitWorkflow(t)
  PROVE  OperationsInv'
<1> DEFINE c == call[t]
           next == AfterAccept(Snapshot, c.input)
           e == [c EXCEPT !.ws = Snapshot]
           d == Authorised(e, next)
<1>1. /\ CallHolds(c) /\ DOMAIN c = CallFields /\ c.pc = "resubmit_workflow"
      /\ Reads
      /\ \/ Return(t)
         \/ next # "idle" /\ Becomes(t, d)
  BY Threads DEF ResubmitWorkflow, At, Return
<1>2. /\ next \in {"idle", "project", "reopen"}
      /\ next = "reopen" => c.input.kind = "semantic_review"
  BY DEF AfterAccept
<1>3. /\ DOMAIN e = CallFields /\ e.id = c.id /\ e.input = c.input
      /\ e.then = c.then /\ e.holder = c.holder /\ e.now = c.now
  BY <1>1, Fields
<1> HIDE DEF e, next
<1>4. /\ DOMAIN d = CallFields /\ d.id = c.id /\ d.input = c.input
      /\ d.then = c.then
      /\ c.then = "reload_job" => d.holder = c.holder /\ d.now = c.now
      /\ d.pc = next
  BY <1>3, AuthorisedCall
<1> HIDE DEF d
<1>5. next = "reopen" => CallHolds(d)
  BY <1>1, <1>2, <1>4, HandsOn DEF HandsIn, Repeats, Concludes
<1>6. next = "project" => CallHolds(d)
  <2> SUFFICES ASSUME next = "project"
               PROVE  CallHolds(d)
    OBVIOUS
  <2>1. d.pc = "project" BY <1>4
  <2>2. d.then = "reload_job" => d.holder \in Holder /\ d.now \in 0..clock
    BY <1>1, <1>4 DEF CallHolds
  <2>3. d.then \in {"idle", "supersede", "reload_job"} BY <1>1, <1>4 DEF CallHolds
  <2> QED BY <1>4, <2>1, <2>2, <2>3
          DEF CallHolds, Asks, Leases, HandsIn, Repeats, Concludes
<1> QED BY <1>1, <1>2, <1>5, <1>6, RestUnchanged, ReadsKeep, ReturnKeeps

-----------------------------------------------------------------------------
(* The transitions that the operations make                                *)

\* One transition under its operation, of the workflow as it is specified.
LEMMA CourseMoves ==
  ASSUME OperationsInv, Course!Next, NEW action, NEW subject, NEW operation,
         Course!Commit(action, subject), Advance(operation),
         \A id \in RequestId :
           operation = <<id, "submit">> =>
             Store!Stored(id) /\ rows[id].request.revision = revision,
         \A id \in RequestId :
           operation = <<id, "reopen">> =>
             Accepted(id) /\ subject.lectures = rows[id].result.content
  PROVE  Remembers /\ StoresHold'
<1>1. /\ operations' = Append(operations, operation)
      /\ UNCHANGED <<rows, clock>>
  BY DEF Advance, storeVars
<1>2. Remembers /\ CourseHolds' /\ RowsHold' BY <1>1, Advances
<1>3. /\ StepsHold' /\ AcceptedIsRecorded' /\ LiveRequestsAreCurrent'
      /\ ReopenedByVerdict'
  BY <1>1, AdvanceKeeps
<1>4. PlanHolds' BY PlanKept DEF OperationsInv, StoresHold
<1> QED BY <1>2, <1>3, <1>4 DEF StoresHold

\* The transition of a result is one of the workflow.
LEMMA TransitionIsPlanned ==
  ASSUME PlanHolds, NEW result, result.kind \in Kind \ EvidenceKind,
         result.content \in Content[result.kind], Transition(result)
  PROVE  Course!Next
<1>1. CASE result.kind = "source_assessment"
  <2>1. result.content \in Proposal BY <1>1 DEF Content, Kind
  <2>2. Course!RecordSourceAssessment(result.content)
    BY <1>1 DEF Transition, LectureKind
  <2> QED BY <2>1, <2>2 DEF Course!Next, Course!Planning
<1>2. CASE result.kind = "lecture_map_generation"
  <2>1. result.content[1] \in MapReference /\ result.content[2] \in MapSize
    BY <1>2 DEF Content, Kind
  <2>2. Course!RecordLectureMap(result.content[1], result.content[2])
    BY <1>2 DEF Transition, LectureKind
  <2> QED BY <2>1, <2>2 DEF Course!Next, Course!Planning
<1>3. CASE result.kind \in LectureKind
  <2> DEFINE document == result.content
  <2>1. document \in Document BY <1>3 DEF Content, Kind, LectureKind
  <2>2. Course!SubmitLectureCandidate(document.document_id, document)
    BY <1>3 DEF Transition, LectureKind
  <2>3. document.document_id \in 1..MaxLectures
    <3>1. document.document_id \in DOMAIN progress
      BY <2>2 DEF Course!SubmitLectureCandidate
    <3> QED BY <3>1, Lectures, MapSizes
  <2> QED BY <2>1, <2>2, <2>3 DEF Course!Next, Course!Production
<1> QED BY <1>1, <1>2, <1>3 DEF Kind, EvidenceKind, LectureKind

LEMMA ValidationIsPlanned ==
  ASSUME PlanHolds, NEW l, NEW v, v.disposition = "passed",
         v = [document |-> v.document, policy |-> v.policy,
              disposition |-> v.disposition],
         Course!RecordCandidateValidation(l, v)
  PROVE  /\ Course!Next
         /\ \E action, subject : Course!Commit(action, subject)
<1>1. /\ l \in DOMAIN progress /\ progress[l].candidate # None
      /\ v.document = progress[l].candidate /\ v.policy = policy
      /\ Course!Commit("record_candidate_validation",
                       Course!CandidateSubject(progress[l].candidate))
  BY DEF Course!RecordCandidateValidation, Course!EvidenceMatches
<1>2. l \in 1..MaxLectures /\ progress[l] \in Course!LectureProgress
  BY <1>1, Lectures, MapSizes
<1>3. progress[l].candidate \in Document
  BY <1>1, <1>2 DEF Course!LectureProgress
<1>4. v \in Course!Validation
  BY <1>1, <1>3 DEF Course!Validation, PlanHolds
<1>5. Course!Production BY <1>2, <1>4 DEF Course!Production
<1> QED BY <1>1, <1>5 DEF Course!Next

LEMMA ReopeningIsPlanned ==
  ASSUME CourseHolds, PlanHolds, NEW ids,
         Course!ReopenLecturesForCorrection(ids, revision)
  PROVE  /\ Course!Next
         /\ Course!Commit("reopen_lectures_for_correction",
                          Course!CorrectionSubject(ids, revision))
<1>1. /\ map # None /\ ids \subseteq 1..map.size
      /\ Course!Commit("reopen_lectures_for_correction",
                       Course!CorrectionSubject(ids, revision))
  BY DEF Course!ReopenLecturesForCorrection
<1>2. map.size \in 1..MaxLectures BY <1>1, MapSizes DEF PlanHolds
<1>3. ids \in SUBSET (1..MaxLectures) BY <1>1, <1>2, MapSizes
<1>4. Course!Production BY <1>3 DEF Course!Production, CourseHolds
<1> QED BY <1>1, <1>4 DEF Course!Next

LEMMA DecisionIsPlanned ==
  ASSUME PlanHolds, NEW input, Decision(input),
         input.subject.kind \in {"priority", "map"}
  PROVE  Course!Next
<1> DEFINE s == input.subject
<1>1. CASE s.kind = "priority"
  <2>1. Course!ApprovePriorityBasis(s) \/ Course!RejectPriorityBasis(s)
    BY <1>1 DEF Decision
  <2>2. basis # None /\ s = Course!PrioritySubject(basis.proposal)
    BY <2>1 DEF Course!ApprovePriorityBasis, Course!RejectPriorityBasis,
                Course!PriorityDecision, Course!BasisUnderDecision
  <2>3. basis.proposal \in Proposal BY <2>2 DEF PlanHolds
  <2>4. Course!Planning BY <2>1, <2>2, <2>3 DEF Course!Planning
  <2> QED BY <2>4 DEF Course!Next
<1>2. CASE s.kind = "map"
  <2>1. Course!ApproveLectureMap(s) \/ Course!RejectLectureMap(s)
    BY <1>2 DEF Decision
  <2>2. /\ map # None
        /\ s = Course!MapSubject(map.reference, map.size, map.reserved)
    BY <2>1 DEF Course!ApproveLectureMap, Course!RejectLectureMap,
                Course!MapDecision, Course!SubjectOf
  <2>3. /\ map.reference \in MapReference /\ map.size \in MapSize
        /\ map.reserved \in 0..MaxLectures
    BY <2>2 DEF PlanHolds
  <2>4. Course!Planning BY <2>1, <2>2, <2>3 DEF Course!Planning
  <2> QED BY <2>4 DEF Course!Next
<1> QED BY <1>1, <1>2

-----------------------------------------------------------------------------
(* The steps that advance the workflow                                     *)

\* After a transition, for a thread that then hands in what is recorded.
LEMMA Concluded ==
  ASSUME NEW c, CallHolds(c)', c.pc \in HandsIn, NEW d,
         DOMAIN d = CallFields, d.id = c.id, d.input = c.input,
         d.pc \in Concludes, d.then = "supersede",
         d.input.kind \in EvidenceKind \/ Recorded(d.input)'
  PROVE  CallHolds(d)'
<1>1. /\ d.pc \notin Asks /\ d.pc \notin Leases /\ d.pc \in HandsIn
      /\ d.pc \notin Repeats /\ d.pc # "reopen" /\ d.pc # "submit_transition"
      /\ d.pc # "decide" /\ d.pc \notin {"request_current", "request_create"}
  BY DEF Concludes, Asks, Leases, HandsIn, Repeats
<1>2. Store!Stored(d.id)'
      /\ \E content \in Content[rows'[d.id].request.kind] :
           d.input = ResultOf(rows'[d.id].request, content)
  BY DEF CallHolds
<1> QED BY <1>1, <1>2 DEF CallHolds

LEMMA SubmitTransitionKeeps ==
  ASSUME OperationsInv, NEW t \in Thread, SubmitTransition(t)
  PROVE  OperationsInv'
<1>1. PICK c : c = call[t] OBVIOUS
<1>2. /\ CallHolds(c) /\ DOMAIN c = CallFields /\ c.pc = "submit_transition"
      /\ revision = c.ws.revision /\ Transition(c.input)
      /\ Advance(<<c.id, "submit">>)
  BY <1>1, Threads DEF SubmitTransition, At
<1>3. PICK d : d = [c EXCEPT !.ws = Snapshot', !.then = "supersede",
                      !.pc = IF c.input.kind \in LectureKind THEN "submit_validation"
                                                             ELSE "submit_accept"]
  OBVIOUS
<1>4. Becomes(t, d) BY <1>1, <1>3 DEF SubmitTransition
<1>5. /\ DOMAIN d = CallFields /\ d.id = c.id /\ d.input = c.input
      /\ d.then = "supersede" /\ d.pc \in Concludes
  BY <1>2, <1>3, Fields DEF Concludes
<1>6. /\ c.pc \in HandsIn /\ c.input.kind \in Kind \ EvidenceKind
      /\ c.input.content \in Content[c.input.kind]
      /\ c.input.id = c.id /\ c.id \in RequestId
      /\ c.input.revision = rows[c.id].request.revision
      /\ c.input.revision = revision /\ Store!Stored(c.id)
  BY <1>2, HandedIn DEF CallHolds, HandsIn
<1>7. PlanHolds BY DEF OperationsInv, StoresHold
<1>8. Course!Next BY <1>2, <1>6, <1>7, TransitionIsPlanned
<1>9. PICK action, subject :
        /\ Course!Commit(action, subject)
        /\ \A receipt : receipt.subject = subject => Bears(receipt, c.input)
  BY <1>2, <1>6, TransitionCommits
<1>10. Remembers /\ StoresHold'
  <2>1. \A id \in RequestId : <<c.id, "submit">> # <<id, "reopen">> OBVIOUS
  <2>2. \A id \in RequestId :
          <<c.id, "submit">> = <<id, "submit">> =>
            Store!Stored(id) /\ rows[id].request.revision = revision
    BY <1>6
  <2>3. Course!Commit(action, subject) BY <1>9
  <2> QED BY <1>2, <1>8, <2>1, <2>2, <2>3, CourseMoves
<1>11. Recorded(c.input)'
  <2> DEFINE n == Len(operations) + 1
  <2>1. /\ n \in DOMAIN operations' /\ operations'[n] = <<c.id, "submit">>
        /\ receipts'[n].to_revision = revision + 1
        /\ receipts'[n].subject = subject
    BY <1>2, <1>9, Advances DEF Advance, storeVars
  <2> HIDE DEF n
  <2>2. n \in Steps(c.input.id, "submit")' BY <1>6, <2>1 DEF Steps
  <2>3. Bears(receipts'[n], c.input) BY <1>9, <2>1
  <2> QED BY <1>6, <2>1, <2>2, <2>3 DEF Recorded, Bears
<1>12. CallHolds(c)' BY <1>2, <1>10, CallStays DEF OperationsInv, StoresHold
<1>13. CallHolds(d)' BY <1>5, <1>6, <1>11, <1>12, Concluded
<1>14. CallHolds(call[t])' BY <1>4, <1>13, NewCall
<1> QED BY <1>4, <1>10, <1>14, OtherCallsStay DEF OperationsInv

LEMMA SubmitValidationKeeps ==
  ASSUME OperationsInv, NEW t \in Thread, SubmitValidation(t)
  PROVE  OperationsInv'
<1>1. PICK c : c = call[t] OBVIOUS
<1>2. PICK v : v = [document |-> c.ws.progress[c.ws.active].candidate,
                    policy |-> policy, disposition |-> "passed"]
  OBVIOUS
<1>3. /\ CallHolds(c) /\ DOMAIN c = CallFields /\ c.pc = "submit_validation"
      /\ Course!RecordCandidateValidation(c.ws.active, v)
      /\ Advance(<<c.id, "validation">>)
  BY <1>1, <1>2, Threads DEF SubmitValidation, At
<1>4. PICK d : d = [c EXCEPT !.ws = Snapshot', !.then = "supersede",
                             !.pc = "submit_accept"]
  OBVIOUS
<1>5. Becomes(t, d) BY <1>1, <1>4 DEF SubmitValidation
<1>6. /\ DOMAIN d = CallFields /\ d.id = c.id /\ d.input = c.input
      /\ d.then = "supersede" /\ d.pc \in Concludes
  BY <1>3, <1>4, Fields DEF Concludes
<1>7. c.pc \in HandsIn /\ c.pc \in Concludes BY <1>3 DEF HandsIn, Concludes
<1>8. PlanHolds BY DEF OperationsInv, StoresHold
<1>9. /\ v.disposition = "passed"
      /\ v = [document |-> v.document, policy |-> v.policy,
              disposition |-> v.disposition]
  BY <1>2
<1>10. Course!Next /\ \E action, subject : Course!Commit(action, subject)
  BY <1>3, <1>8, <1>9, ValidationIsPlanned
<1>11. Remembers /\ StoresHold'
  <2>1. PICK action, subject : Course!Commit(action, subject) BY <1>10
  <2>2. \A id \in RequestId : /\ <<c.id, "validation">> # <<id, "submit">>
                              /\ <<c.id, "validation">> # <<id, "reopen">>
    OBVIOUS
  <2> QED BY <1>3, <1>10, <2>1, <2>2, CourseMoves
<1>12. CallHolds(c)' BY <1>3, <1>11, CallStays DEF OperationsInv, StoresHold
<1>13. d.input.kind \in EvidenceKind \/ Recorded(d.input)'
  BY <1>6, <1>7, <1>12 DEF CallHolds
<1>14. CallHolds(d)' BY <1>6, <1>7, <1>12, <1>13, Concluded
<1>15. CallHolds(call[t])' BY <1>5, <1>14, NewCall
<1> QED BY <1>5, <1>11, <1>15, OtherCallsStay DEF OperationsInv

LEMMA SubmitValidationLostKeeps ==
  ASSUME OperationsInv, NEW t \in Thread, SubmitValidationLost(t)
  PROVE  OperationsInv'
<1> DEFINE c == call[t]
           d == [c EXCEPT !.ws = Snapshot, !.then = "supersede",
                          !.pc = "submit_accept"]
<1>1. /\ CallHolds(c) /\ DOMAIN c = CallFields /\ c.pc = "submit_validation"
      /\ Reads
      /\ Return(t) \/ Becomes(t, d)
  BY Threads DEF SubmitValidationLost, At, Return
<1>2. /\ DOMAIN d = CallFields /\ d.id = c.id /\ d.input = c.input
      /\ d.then = "supersede" /\ d.pc = "submit_accept"
  BY <1>1, Fields
<1> HIDE DEF d
<1>3. CallHolds(d)
  <2>1. /\ Store!Stored(c.id)
        /\ \E content \in Content[rows[c.id].request.kind] :
             c.input = ResultOf(rows[c.id].request, content)
        /\ c.input.kind \notin EvidenceKind => Recorded(c.input)
    BY <1>1 DEF CallHolds, HandsIn, Concludes
  <2> QED BY <1>2, <2>1 DEF CallHolds, Asks, Leases, HandsIn, Repeats, Concludes
<1> QED BY <1>1, <1>3, RestUnchanged, ReadsKeep, ReturnKeeps

\* Where a thread has nothing left to hand in.
Settles == {"project", "project_reload", "project_retry", "supersede",
            "supersede_next", "decide_workflow"}

LEMMA SettledCall ==
  ASSUME NEW c, CallHolds(c), NEW d, DOMAIN d = CallFields, d.pc \in Settles,
         \/ d.then \in {"idle", "supersede"}
         \/ d.then = c.then /\ d.holder = c.holder /\ d.now = c.now
  PROVE  CallHolds(d)
<1>1. /\ d.pc \notin Asks /\ d.pc \notin Leases /\ d.pc \notin HandsIn
      /\ d.pc \notin Repeats /\ d.pc \notin Concludes
      /\ d.pc \notin {"reopen", "submit_transition", "decide", "request_current",
                      "request_create"}
  BY DEF Settles, Concludes, Asks, Leases, HandsIn, Repeats
<1> QED BY <1>1 DEF CallHolds

LEMMA ReopenKeeps ==
  ASSUME OperationsInv, NEW t \in Thread, Reopen(t)
  PROVE  OperationsInv'
<1>1. PICK c : c = call[t] OBVIOUS
<1>2. /\ CallHolds(c) /\ DOMAIN c = CallFields /\ c.pc = "reopen"
      /\ Course!ReopenLecturesForCorrection(c.input.content, revision)
      /\ Advance(<<c.id, "reopen">>)
  BY <1>1, Threads DEF Reopen, At
<1>3. PICK d : d = [c EXCEPT !.ws = Snapshot', !.pc = "project"] OBVIOUS
<1>4. Becomes(t, d) BY <1>1, <1>3 DEF Reopen
<1>5. /\ DOMAIN d = CallFields /\ d.then = c.then /\ d.holder = c.holder
      /\ d.now = c.now /\ d.pc = "project"
  BY <1>2, <1>3, Fields
<1>6. Accepted(c.id) /\ rows[c.id].result = c.input
  BY <1>2 DEF CallHolds, Repeats
<1>7. /\ Course!Next
      /\ Course!Commit("reopen_lectures_for_correction",
                       Course!CorrectionSubject(c.input.content, revision))
  BY <1>2, ReopeningIsPlanned DEF OperationsInv, StoresHold
<1>8. Course!CorrectionSubject(c.input.content, revision).lectures = c.input.content
  BY DEF Course!CorrectionSubject
<1>9. Remembers /\ StoresHold'
  <2> DEFINE subject == Course!CorrectionSubject(c.input.content, revision)
  <2>1. \A id \in RequestId : <<c.id, "reopen">> # <<id, "submit">> OBVIOUS
  <2>2. \A id \in RequestId :
          <<c.id, "reopen">> = <<id, "reopen">> =>
            Accepted(id) /\ subject.lectures = rows[id].result.content
    BY <1>6, <1>8
  <2>3. Course!Commit("reopen_lectures_for_correction", subject) BY <1>7
  <2> HIDE DEF subject
  <2> QED BY <1>2, <1>7, <2>1, <2>2, <2>3, CourseMoves
<1>10. CallHolds(d)
  BY <1>2, <1>5, SettledCall DEF Settles
<1> QED BY <1>4, <1>9, <1>10, StepKeeps

LEMMA ReopenLostKeeps ==
  ASSUME OperationsInv, NEW t \in Thread, ReopenLost(t)
  PROVE  OperationsInv'
<1> DEFINE c == call[t]
           d == [c EXCEPT !.ws = Snapshot, !.pc = "project"]
<1>1. /\ CallHolds(c) /\ DOMAIN c = CallFields /\ Reads
      /\ Return(t) \/ Becomes(t, d)
  BY Threads DEF ReopenLost, At, Return
<1>2. /\ DOMAIN d = CallFields /\ d.then = c.then /\ d.holder = c.holder
      /\ d.now = c.now /\ d.pc = "project"
  BY <1>1, Fields
<1> HIDE DEF d
<1>3. CallHolds(d) BY <1>1, <1>2, SettledCall DEF Settles
<1> QED BY <1>1, <1>3, RestUnchanged, ReadsKeep, ReturnKeeps

-----------------------------------------------------------------------------
(* The steps that begin and end an operation                               *)

LEMMA StartRequestKeeps ==
  ASSUME OperationsInv, NEW t \in Thread, NEW h \in Holder, StartRequest(t, h)
  PROVE  OperationsInv'
<1> DEFINE d == [Idle EXCEPT !.pc = "request_workflow", !.holder = h,
                             !.now = clock, !.job = job]
<1>1. Becomes(t, d) /\ Reads BY DEF StartRequest
<1>2. /\ DOMAIN d = CallFields /\ d.pc = "request_workflow" /\ d.then = "idle"
      /\ d.holder = h /\ d.now = clock
  BY DEF Idle, CallFields
<1>3. clock \in 0..clock BY DEF OperationsInv, StoresHold, RowsHold
<1> HIDE DEF d
<1>4. CallHolds(d)
  BY <1>2, <1>3 DEF CallHolds, Asks, Leases, HandsIn, Repeats, Concludes
<1> QED BY <1>1, <1>4, RestUnchanged, ReadsKeep

LEMMA SubmitsKeeps ==
  ASSUME OperationsInv, NEW t \in Thread, NEW h \in Holder, NEW id \in RequestId,
         Submits(t, h, id)
  PROVE  OperationsInv'
<1>1. PICK content \in Content[rows[id].request.kind] :
        Store!Stored(id) /\ StartSubmit(t, h, id, content)
  BY DEF Submits
<1> DEFINE result == ResultOf(rows[id].request, content)
           d == [Idle EXCEPT
                   !.pc = IF rows[id].status = "accepted" THEN "resubmit_job"
                                                          ELSE "submit_job",
                   !.holder = h, !.now = clock, !.id = id, !.input = result]
<1>2. /\ rows[id].status = "accepted" => rows[id].result = result
      /\ Becomes(t, d) /\ Reads
  BY <1>1 DEF StartSubmit
<1>3. /\ DOMAIN d = CallFields /\ d.id = id /\ d.input = result
      /\ d.then = "idle"
      /\ d.pc = IF rows[id].status = "accepted" THEN "resubmit_job"
                                                ELSE "submit_job"
  BY DEF Idle, CallFields
<1>4. d.pc = "resubmit_job" => Accepted(id) /\ rows[id].result = result
  BY <1>1, <1>2, <1>3 DEF Accepted
<1>5. \E k \in Content[rows[id].request.kind] :
        d.input = ResultOf(rows[id].request, k)
  BY <1>3
<1>6. d.pc \in {"resubmit_job", "submit_job"} BY <1>3
<1> HIDE DEF d, result
<1>7. CallHolds(d)
  BY <1>1, <1>3, <1>4, <1>5, <1>6
     DEF CallHolds, Asks, Leases, HandsIn, Repeats, Concludes
<1> QED BY <1>2, <1>7, RestUnchanged, ReadsKeep

LEMMA DecidesKeeps ==
  ASSUME OperationsInv, NEW t \in Thread, Decides(t)
  PROVE  OperationsInv'
<1>1. PICK decision, subject : StartDecision(t, decision, subject)
  BY DEF Decides
<1> DEFINE d == [Idle EXCEPT
                   !.pc = "decide_workflow", !.job = job,
                   !.input = [decision |-> decision, subject |-> subject]]
<1>2. Becomes(t, d) /\ Reads BY <1>1 DEF StartDecision
<1>3. DOMAIN d = CallFields /\ d.pc = "decide_workflow" /\ d.then = "idle"
  BY DEF Idle, CallFields
<1> HIDE DEF d
<1>4. CallHolds(d) BY <1>3, IdleHolds, SettledCall DEF Settles
<1> QED BY <1>2, <1>4, RestUnchanged, ReadsKeep

LEMMA DecideWorkflowKeeps ==
  ASSUME OperationsInv, NEW t \in Thread, DecideWorkflow(t)
  PROVE  OperationsInv'
<1> DEFINE c == call[t]
           d == [c EXCEPT !.ws = Snapshot, !.pc = "decide"]
<1>1. /\ CallHolds(c) /\ DOMAIN c = CallFields /\ Reads
      /\ \/ Return(t)
         \/ AwaitsDecision(Snapshot, c.input.subject) /\ Becomes(t, d)
  BY Threads DEF DecideWorkflow, At
<1>2. AwaitsDecision(Snapshot, c.input.subject) =>
        c.input.subject.kind \in {"priority", "map"}
  BY DEF AwaitsDecision, Course!PrioritySubject, Course!SubjectOf, Course!MapSubject
<1>3. c.pc = "decide_workflow" BY DEF DecideWorkflow, At
<1>4. /\ DOMAIN d = CallFields /\ d.then = c.then /\ d.holder = c.holder
      /\ d.now = c.now /\ d.pc = "decide" /\ d.input = c.input
  BY <1>1, Fields
<1> HIDE DEF d
<1>5. c.input.subject.kind \in {"priority", "map"} => CallHolds(d)
  BY <1>1, <1>3, <1>4 DEF CallHolds, Asks, Leases, HandsIn, Repeats, Concludes
<1> QED BY <1>1, <1>2, <1>5, RestUnchanged, ReadsKeep, ReturnKeeps

LEMMA DecideKeeps ==
  ASSUME OperationsInv, NEW t \in Thread, Decide(t)
  PROVE  OperationsInv'
<1>1. PICK c : c = call[t] OBVIOUS
<1>2. /\ CallHolds(c) /\ DOMAIN c = CallFields /\ c.pc = "decide"
      /\ Decision(c.input) /\ Advance(<<0, "decision">>)
  BY <1>1, Threads DEF Decide, At
<1>3. PICK d : d = [c EXCEPT !.ws = Snapshot', !.then = "supersede",
                             !.input = None, !.pc = "project"]
  OBVIOUS
<1>4. Becomes(t, d) BY <1>1, <1>3 DEF Decide
<1>5. DOMAIN d = CallFields /\ d.then = "supersede" /\ d.pc = "project"
  BY <1>2, <1>3, Fields
<1>6. c.input.subject.kind \in {"priority", "map"} BY <1>2 DEF CallHolds
<1>7. Course!Next BY <1>2, <1>6, DecisionIsPlanned DEF OperationsInv, StoresHold
<1>8. Remembers /\ StoresHold'
  <2>1. PICK action : Course!Commit(action, c.input.subject)
    BY <1>2, <1>6, DecisionCommits
  <2>2. PICK subject : subject = c.input.subject OBVIOUS
  <2>3. \A id \in RequestId : /\ <<0, "decision">> # <<id, "submit">>
                              /\ <<0, "decision">> # <<id, "reopen">>
    OBVIOUS
  <2>4. Course!Commit(action, subject) BY <2>1, <2>2
  <2> QED BY <1>2, <1>7, <2>3, <2>4, CourseMoves
<1>9. CallHolds(d) BY <1>2, <1>5, SettledCall DEF Settles
<1> QED BY <1>4, <1>8, <1>9, StepKeeps

LEMMA DecideLostKeeps ==
  ASSUME OperationsInv, NEW t \in Thread, DecideLost(t)
  PROVE  OperationsInv'
BY RestUnchanged, ReturnKeeps DEF DecideLost

\* After a projection comes the end, the retirement of old requests or the
\* request that is being recovered for.
LEMMA ProjectedCall ==
  ASSUME NEW c, CallHolds(c)
  PROVE  CallHolds(Projected(c))
<1> DEFINE d == [c EXCEPT !.pc = c.then, !.job = None, !.behind = 0, !.then = "idle"]
<1>1. DOMAIN c = CallFields /\ c.then \in {"idle", "supersede", "reload_job"}
  BY DEF CallHolds
<1>2. CASE c.then = "idle" BY <1>2, IdleHolds DEF Projected
<1>3. CASE c.then # "idle"
  <2>1. Projected(c) = d BY <1>3 DEF Projected
  <2>2. /\ DOMAIN d = CallFields /\ d.pc = c.then /\ d.then = "idle"
        /\ d.holder = c.holder /\ d.now = c.now
    BY <1>1, Fields
  <2> HIDE DEF d
  <2>3. CASE c.then = "supersede"
    BY <2>1, <2>2, <2>3, SettledCall DEF Settles
  <2>4. CASE c.then = "reload_job"
    <3>1. c.holder \in Holder /\ c.now \in 0..clock BY <2>4 DEF CallHolds
    <3> QED BY <2>1, <2>2, <2>4, <3>1
            DEF CallHolds, Asks, Leases, HandsIn, Repeats, Concludes
  <2> QED BY <1>1, <1>3, <2>3, <2>4
<1> QED BY <1>2, <1>3

LEMMA ProjectKeeps ==
  ASSUME OperationsInv, NEW t \in Thread,
         Project(t) \/ ProjectReload(t) \/ ProjectRetry(t)
  PROVE  OperationsInv'
<1> DEFINE c == call[t]
           record == Projection(c.ws)
           reload == [c EXCEPT !.pc = "project_reload"]
           retry == [c EXCEPT !.job = job, !.behind = 0, !.pc = "project_retry"]
<1>1. CallHolds(c) /\ DOMAIN c = CallFields BY Threads
<1>2. \A d \in {reload, retry} :
        /\ DOMAIN d = CallFields /\ d.then = c.then /\ d.holder = c.holder
        /\ d.now = c.now /\ d.pc \in Settles
  BY <1>1, Fields DEF Settles
<1>3. \/ Becomes(t, Projected(c)) /\ Reads
      \/ SaveJob(t, record, Projected(c), reload)
      \/ Becomes(t, retry) /\ Reads
      \/ SaveJob(t, record, Projected(c), Idle)
  BY DEF Project, ProjectReload, ProjectRetry, LoadJob
<1> HIDE DEF reload, retry, record
<1>4. CallHolds(reload) /\ CallHolds(retry) BY <1>1, <1>2, SettledCall
<1>5. CallHolds(Projected(c)) BY <1>1, ProjectedCall
<1>6. CASE Becomes(t, Projected(c)) /\ Reads
  BY <1>5, <1>6, RestUnchanged, ReadsKeep
<1>7. CASE Becomes(t, retry) /\ Reads BY <1>4, <1>7, RestUnchanged, ReadsKeep
<1>8. CASE SaveJob(t, record, Projected(c), reload)
  BY <1>4, <1>5, <1>8, SaveJobKeeps
<1>9. CASE SaveJob(t, record, Projected(c), Idle)
  BY <1>5, <1>9, IdleHolds, SaveJobKeeps
<1> QED BY <1>3, <1>6, <1>7, <1>8, <1>9

LEMMA SupersedeKeeps ==
  ASSUME OperationsInv, NEW t \in Thread, Supersede(t) \/ SupersedeNext(t)
  PROVE  OperationsInv'
<1> DEFINE c == call[t]
<1>1. CallHolds(c) /\ DOMAIN c = CallFields BY Threads
<1>2. ASSUME NEW todo PROVE CallHolds(SupersedeOr(c, todo))
  <2> DEFINE d == [c EXCEPT !.pc = "supersede_next", !.todo = todo]
  <2>1. /\ DOMAIN d = CallFields /\ d.then = c.then /\ d.holder = c.holder
        /\ d.now = c.now /\ d.pc \in Settles
    BY <1>1, Fields DEF Settles
  <2>2. SupersedeOr(c, todo) \in {Idle, d} BY DEF SupersedeOr
  <2> HIDE DEF d
  <2>3. CallHolds(d) BY <1>1, <2>1, SettledCall
  <2> QED BY <2>2, <2>3, IdleHolds
<1>3. CASE Supersede(t)
  <2>1. PICK todo : Becomes(t, SupersedeOr(c, todo)) /\ Reads
    BY <1>3 DEF Supersede
  <2> QED BY <1>2, <2>1, RestUnchanged, ReadsKeep
<1>4. CASE SupersedeNext(t)
  <2>1. PICK id, todo : /\ MarkRejected(id) /\ Becomes(t, SupersedeOr(c, todo))
                        /\ UNCHANGED courseVars
    BY <1>4 DEF SupersedeNext
  <2> QED BY <1>2, <2>1, RejectionIsWritten, StepKeeps
<1> QED BY <1>3, <1>4

-----------------------------------------------------------------------------
(* The invariant                                                           *)

\* Nothing but the stores moves.
LEMMA CallsRest ==
  ASSUME OperationsInv, Remembers, StoresHold', UNCHANGED call
  PROVE  OperationsInv'
<1>1. ASSUME NEW t \in Thread PROVE CallHolds(call[t])'
  <2>1. PICK c : c = call[t] OBVIOUS
  <2>2. CallHolds(c)' BY <2>1, CallStays DEF OperationsInv, StoresHold
  <2> QED BY <2>1, <2>2
<1> QED BY <1>1 DEF OperationsInv

LEMMA TickKeeps ==
  ASSUME OperationsInv, Tick
  PROVE  OperationsInv'
<1>1. UNCHANGED <<courseVars, rows, call>> /\ clock' = clock + 1
  BY DEF Tick, Store!Tick
<1>2. clock' \in Nat /\ clock <= clock'
  BY <1>1 DEF OperationsInv, StoresHold, RowsHold
<1>3. Remembers /\ StoresHold' BY <1>1, <1>2, StoresRest
<1> QED BY <1>1, <1>3, CallsRest

LEMMA ElsewhereKeeps ==
  ASSUME OperationsInv, Elsewhere
  PROVE  OperationsInv'
<1>1. /\ Course!Next /\ Advance(<<0, "elsewhere">>) /\ UNCHANGED call
  BY DEF Elsewhere, Course!Next
<1>2. PICK action, subject : Course!Commit(action, subject)
  BY InterruptionCommits DEF Elsewhere
<1>3. \A id \in RequestId : /\ <<0, "elsewhere">> # <<id, "submit">>
                            /\ <<0, "elsewhere">> # <<id, "reopen">>
  OBVIOUS
<1>4. Remembers /\ StoresHold' BY <1>1, <1>2, <1>3, CourseMoves
<1> QED BY <1>1, <1>4, CallsRest

LEMMA AbandonKeeps ==
  ASSUME OperationsInv, NEW t \in Thread, Abandon(t)
  PROVE  OperationsInv'
BY ReturnKeeps DEF Abandon, storeVars

LEMMA RequestStepKeeps ==
  ASSUME OperationsInv, NEW t \in Thread, RequestStep(t)
  PROVE  OperationsInv'
BY RequestWorkflowKeeps, RequestReviewKeeps, RecoverWorkflowKeeps,
   RecoverVerdictKeeps, RequestReloadKeeps, RequestReconcileKeeps,
   RequestFindKeeps, RequestCreateKeeps, RequestAgainKeeps, RequestLeaseKeeps
   DEF RequestStep

LEMMA SubmitStepKeeps ==
  ASSUME OperationsInv, NEW t \in Thread, SubmitStep(t)
  PROVE  OperationsInv'
BY SubmitJobKeeps, SubmitWorkflowKeeps, SubmitLeaseKeeps, SubmitTransitionKeeps,
   SubmitRepeatKeeps, SubmitRejectedKeeps, SubmitValidationKeeps,
   SubmitValidationLostKeeps, SubmitAcceptKeeps, ReopenKeeps, ReopenLostKeeps,
   ResubmitWorkflowKeeps
   DEF SubmitStep

LEMMA DecideStepKeeps ==
  ASSUME OperationsInv, NEW t \in Thread, DecideStep(t)
  PROVE  OperationsInv'
BY DecideWorkflowKeeps, DecideKeeps, DecideLostKeeps DEF DecideStep

LEMMA ProjectStepKeeps ==
  ASSUME OperationsInv, NEW t \in Thread, ProjectStep(t)
  PROVE  OperationsInv'
BY ProjectKeeps, SupersedeKeeps DEF ProjectStep

LEMMA StutteringKeeps ==
  ASSUME OperationsInv, UNCHANGED vars
  PROVE  OperationsInv'
<1>1. UNCHANGED <<courseVars, rows, clock, call>> BY DEF vars, storeVars
<1>2. Remembers /\ StoresHold'
  BY <1>1, StoresRest DEF OperationsInv, StoresHold, RowsHold
<1> QED BY <1>1, <1>2, CallsRest

LEMMA NextKeeps ==
  ASSUME OperationsInv, [Next]_vars
  PROVE  OperationsInv'
BY RequestStepKeeps, SubmitStepKeeps, DecideStepKeeps, ProjectStepKeeps,
   StartRequestKeeps, SubmitsKeeps, DecidesKeeps, AbandonKeeps, TickKeeps,
   ElsewhereKeeps, StutteringKeeps
   DEF Next, Step

\* A job starts without requests, on a workflow that no request has advanced.
LEMMA StartHolds ==
  ASSUME Init
  PROVE  OperationsInv
<1>1. PICK ws \in Start : Restore(ws) BY DEF Init
<1>2. PlanHolds
  <2>1. /\ policy = ws.policy /\ basis = ws.basis /\ map = ws.map
        /\ context = ws.context /\ progress = ws.progress
    BY <1>1 DEF Restore
  <2>2. basis # None => DOMAIN basis = BasisFields /\ basis.proposal \in Proposal
    BY <1>1, <2>1, OperationsAssumption DEF Course!PriorityBasisRecord, BasisFields
  <2>3. map # None => /\ DOMAIN map = MapFields /\ map.reference \in MapReference
                      /\ map.size \in MapSize /\ map.reserved \in 0..MaxLectures
    BY <1>1, <2>1, OperationsAssumption DEF Course!LectureMapRecord, MapFields
  <2> QED BY <1>1, <2>1, <2>2, <2>3, OperationsAssumption DEF PlanHolds
<1>3. IsSeq(receipts)
  BY <1>1, OperationsAssumption DEF Restore, IsSeq
<1>4. /\ Len(receipts) \in Nat /\ DOMAIN receipts = 1..Len(receipts)
  BY <1>3, SequenceIndices
<1>5. operations = [i \in 1..Len(receipts) |-> <<0, "before">>]
  BY <1>4 DEF Init
<1>6. IsSeq(operations) /\ Len(operations) = Len(receipts)
  <2>1. operations \in [1..Len(receipts) -> {operations[i] : i \in DOMAIN operations}]
    BY <1>5
  <2>2. operations \in Seq({operations[i] : i \in DOMAIN operations})
    BY <1>4, <2>1
  <2> QED BY <1>4, <1>5, <2>2, LenProperties DEF IsSeq
<1>7. CourseHolds
  BY <1>1, <1>3, <1>6, OperationsAssumption DEF CourseHolds, Restore
<1>8. /\ rows = [id \in RequestId |-> None] /\ clock = 0
      /\ call = [t \in Thread |-> Idle]
  BY DEF Init, Store!Init
<1>9. RowsHold BY <1>8 DEF RowsHold, RowHolds
<1>10. \A id \in RequestId : ~Store!Stored(id) /\ ~Store!Live(id) /\ ~Accepted(id)
  BY <1>8 DEF Store!Stored, Store!Live, Accepted
<1>11. \A id \in RequestId : Steps(id, "submit") = {} /\ Steps(id, "reopen") = {}
  BY <1>5 DEF Steps
<1>12. /\ StepsHold /\ AcceptedIsRecorded /\ LiveRequestsAreCurrent
       /\ ReopenedByVerdict
  BY <1>10, <1>11
     DEF StepsHold, AcceptedIsRecorded, LiveRequestsAreCurrent, ReopenedByVerdict
<1>13. \A t \in Thread : CallHolds(call[t]) BY <1>8, IdleHolds
<1> QED BY <1>2, <1>7, <1>8, <1>9, <1>12, <1>13 DEF OperationsInv, StoresHold

\* The invariant of the operations: the stores agree with each other, and every
\* thread with them, between any two calls.
THEOREM OperationsInvariant == Spec => []OperationsInv
BY StartHolds, NextKeeps, PTL DEF Spec

\* An accepted result was recorded by the transition of its own request, and it
\* is the result that was recorded.
THEOREM AcceptedResultsAreRecorded == Spec => []AcceptedIsRecorded
BY OperationsInvariant, PTL DEF OperationsInv, StoresHold

\* A request that is to be answered asks for what the workflow needs at its
\* revision.
THEOREM RequestsAreCurrent == Spec => []LiveRequestsAreCurrent
BY OperationsInvariant, PTL DEF OperationsInv, StoresHold

\* A course is reopened only for the lectures of an accepted verdict.
THEOREM ReopeningsHaveVerdicts == Spec => []ReopenedByVerdict
BY OperationsInvariant, PTL DEF OperationsInv, StoresHold

-----------------------------------------------------------------------------
(* The operations use the workflow and the store as these are specified    *)

LEMMA RequestStepIsStoreStep ==
  ASSUME OperationsInv, NEW t \in Thread, RequestStep(t)
  PROVE  UNCHANGED courseVars /\ [Store!UsedNext]_storeVars
<1> DEFINE c == call[t]
<1>1. CASE Reads BY <1>1 DEF Reads
<1>2. CASE RequestSave(t) BY <1>2 DEF RequestSave, SaveJob
<1>3. CASE RequestCreate(t)
  <2>1. PICK id \in RequestId :
          \/ UNCHANGED storeVars
          \/ Store!CreateRequest(NewRequest(c.ws, id))
    BY <1>3 DEF RequestCreate
  <2>2. CallHolds(c) /\ c.pc = "request_create" BY <1>3, Threads DEF RequestCreate, At
  <2>3. NewRequest(c.ws, id) \in Request
    BY <2>2, NewRequests DEF CallHolds, Asks
  <2>4. Store!CreateRequest(NewRequest(c.ws, id)) => Store!UsedNext
    BY <2>3 DEF Store!UsedNext
  <2>5. UNCHANGED courseVars BY <1>3 DEF RequestCreate
  <2> QED BY <2>1, <2>4, <2>5
<1>4. CASE RequestLease(t)
  <2>1. \/ UNCHANGED storeVars
        \/ \E d \in Duration :
             /\ Store!LeaseOutcome(c.id, c.holder, c.now) = "ok"
             /\ Store!AcquireLease(c.id, c.holder, c.now, d)
    BY <1>4 DEF RequestLease
  <2>2. c.holder \in Holder /\ c.now \in 0..clock
    BY <1>4, Threads DEF RequestLease, At, CallHolds, Leases
  <2>3. Store!LeaseOutcome(c.id, c.holder, c.now) = "ok" => c.id \in RequestId
    BY DEF Store!LeaseOutcome, Store!Stored
  <2>4. UNCHANGED courseVars BY <1>4 DEF RequestLease
  <2> QED BY <2>1, <2>2, <2>3, <2>4 DEF Store!UsedNext
<1> QED
  BY <1>1, <1>2, <1>3, <1>4
     DEF RequestStep, RequestWorkflow, RequestReview, RecoverWorkflow, RecoverVerdict,
         RequestReloadJob, RequestReloadWorkflow, RequestReconcile, RequestFind,
         RequestCurrent, RequestAgain, LoadJob

LEMMA RejectionIsStoreStep ==
  ASSUME NEW id, MarkRejected(id)
  PROVE  [Store!UsedNext]_storeVars
BY DEF MarkRejected, Store!Live, Store!Stored, Store!UsedNext

LEMMA SubmitStepIsStoreStep ==
  ASSUME OperationsInv, NEW t \in Thread, SubmitStep(t)
  PROVE  [Course!Next]_courseVars /\ [Store!UsedNext]_storeVars
<1> DEFINE c == call[t]
<1> CallHolds(c) BY Threads
<1>1. CASE Reads BY <1>1 DEF Reads
<1>2. CASE SubmitTransition(t)
  <2>1. c.pc = "submit_transition" /\ Transition(c.input) /\ UNCHANGED storeVars
    BY <1>2 DEF SubmitTransition, At, Advance
  <2>2. /\ c.input.kind \in Kind \ EvidenceKind
        /\ c.input.content \in Content[c.input.kind]
    BY <2>1, HandedIn DEF CallHolds, HandsIn
  <2> QED BY <2>1, <2>2, TransitionIsPlanned DEF OperationsInv, StoresHold
<1>3. CASE SubmitValidation(t)
  <2> DEFINE v == [document |-> c.ws.progress[c.ws.active].candidate,
                   policy |-> policy, disposition |-> "passed"]
  <2>1. Course!RecordCandidateValidation(c.ws.active, v) /\ UNCHANGED storeVars
    BY <1>3 DEF SubmitValidation, Advance
  <2>2. /\ v.disposition = "passed"
        /\ v = [document |-> v.document, policy |-> v.policy,
                disposition |-> v.disposition]
    OBVIOUS
  <2> HIDE DEF v
  <2> QED BY <2>1, <2>2, ValidationIsPlanned DEF OperationsInv, StoresHold
<1>4. CASE SubmitReject(t)
  BY <1>4, RejectionIsStoreStep DEF SubmitReject
<1>5. CASE SubmitAccept(t)
  <2>1. /\ UNCHANGED courseVars
        /\ UNCHANGED storeVars \/ Store!MarkAccepted(c.input)
    BY <1>5 DEF SubmitAccept
  <2>2. c.input \in Result
    BY <1>5, HandedIn DEF SubmitAccept, At, HandsIn, Concludes
  <2> QED BY <2>1, <2>2 DEF Store!UsedNext
<1>6. CASE Reopen(t)
  <2>1. Course!ReopenLecturesForCorrection(c.input.content, revision)
        /\ UNCHANGED storeVars
    BY <1>6 DEF Reopen, Advance
  <2> QED BY <2>1, ReopeningIsPlanned DEF OperationsInv, StoresHold
<1> QED
  BY <1>1, <1>2, <1>3, <1>4, <1>5, <1>6
     DEF SubmitStep, SubmitJob, SubmitWorkflow, SubmitLease, SubmitResume,
         SubmitRepeat, SubmitRejected, SubmitLost, SubmitValidationLost, ReopenLost,
         ResubmitJob, ResubmitWorkflow, LoadJob

LEMMA OtherStepIsStoreStep ==
  ASSUME OperationsInv, NEW t \in Thread, DecideStep(t) \/ ProjectStep(t)
  PROVE  [Course!Next]_courseVars /\ [Store!UsedNext]_storeVars
<1> DEFINE c == call[t]
<1>1. CASE Reads BY <1>1 DEF Reads
<1>2. CASE Decide(t)
  <2>1. Decision(c.input) /\ c.pc = "decide" /\ UNCHANGED storeVars
    BY <1>2 DEF Decide, At, Advance
  <2>2. c.input.subject.kind \in {"priority", "map"}
    BY <2>1, Threads DEF CallHolds
  <2> QED BY <2>1, <2>2, DecisionIsPlanned DEF OperationsInv, StoresHold
<1>3. CASE Project(t) \/ ProjectRetry(t)
  BY <1>1, <1>3 DEF Project, ProjectRetry, SaveJob
<1>4. CASE SupersedeNext(t)
  BY SMTT(30), <1>4, RejectionIsStoreStep DEF SupersedeNext
<1> QED
  BY <1>1, <1>2, <1>3, <1>4
     DEF DecideStep, ProjectStep, DecideWorkflow, DecideLost, ProjectReload,
         Supersede, LoadJob

LEMMA NextComposes ==
  ASSUME OperationsInv, [Next]_vars
  PROVE  [Course!Next]_courseVars /\ [Store!UsedNext]_storeVars
<1>1. ASSUME NEW t \in Thread, Step(t)
      PROVE  [Course!Next]_courseVars /\ [Store!UsedNext]_storeVars
  BY <1>1, RequestStepIsStoreStep, SubmitStepIsStoreStep, OtherStepIsStoreStep
     DEF Step
<1>2. CASE Reads BY <1>2 DEF Reads
<1>3. CASE Tick BY <1>3 DEF Tick, Store!UsedNext
<1>4. CASE Elsewhere BY <1>4 DEF Elsewhere, Advance, Course!Next
<1>5. ASSUME NEW t \in Thread, Abandon(t)
      PROVE  UNCHANGED <<courseVars, storeVars>>
  BY <1>5 DEF Abandon
<1>6. CASE UNCHANGED vars BY <1>6 DEF vars
<1> QED BY <1>1, <1>2, <1>3, <1>4, <1>5, <1>6
        DEF Next, StartRequest, Submits, StartSubmit, Decides, StartDecision

\* Whatever the threads do together, every change of the workflow is one
\* transition of it, with inputs that Workflow allows.
THEOREM OperationsUseTheWorkflow == Spec => [][Course!Next]_(Course!vars)
<1>1. ASSUME OperationsInv, [Next]_vars PROVE [Course!Next]_(Course!vars)
  BY <1>1, NextComposes DEF courseVars, Course!vars
<1> QED BY <1>1, OperationsInvariant, PTL DEF Spec

\* The semantic work behaves as its store alone does: a lease is never asked for
\* at a time that has not come, and no result but an answer to its own request
\* reaches the store.
THEOREM OperationsImplementTheStore == Spec => Store!UsedSpec
<1>1. Init => Store!Init BY DEF Init
<1>2. ASSUME OperationsInv, [Next]_vars PROVE [Store!UsedNext]_(Store!storeVars)
  BY <1>2, NextComposes DEF storeVars, Store!storeVars
<1> QED BY <1>1, <1>2, OperationsInvariant, PTL DEF Spec, Store!UsedSpec

-----------------------------------------------------------------------------
(* Each request advances the workflow once by each of its steps            *)

\* A snapshot of a revision is the workflow's as long as the revision is.
Dated(ws) ==
  /\ ws.revision \in 0..revision
  /\ ws.revision = revision => ws = Snapshot

\* A transition that had not been made when the thread looked.
Untaken(c, step) == Dated(c.ws) /\ ReceiptsOf(c.ws, c.id, step) = {}

\* Where a thread is on the way to a transition after the first.
Resumes == {"submit_resume", "submit_validation"}

Careful == Resumes \cup {"submit_lease", "submit_accept", "reopen"}

Fresh(c) ==
  /\ c.pc \in Resumes => c.input.kind \in LectureKind /\ Untaken(c, "validation")
  /\ c.pc = "submit_lease" =>
       Dated(c.ws) /\ (ReceiptsOf(c.ws, c.id, "reopen") # {} => Accepted(c.id))
  /\ c.pc = "submit_accept" /\ c.input.kind = "semantic_review" => Untaken(c, "reopen")
  /\ c.pc = "reopen" => Untaken(c, "reopen")

\* Evidence has no transition of its own, and a validation follows one.
StepsAreDated ==
  \A id \in RequestId :
    /\ Steps(id, "submit") # {} =>
         /\ rows[id].request.revision < revision
         /\ rows[id].request.kind \notin EvidenceKind
    /\ Steps(id, "validation") # {} => Steps(id, "submit") # {}

\* What is inductive together with OperationsInv.
OnceInv ==
  /\ StepsAreDated
  /\ OperationsAdvanceOnce
  /\ \A t \in Thread : Fresh(call[t])

LEMMA ReceiptsAreSteps ==
  ASSUME NEW id, NEW step
  PROVE  ReceiptsOf(Snapshot, id, step) = {} <=> Steps(id, step) = {}
BY DEF ReceiptsOf, Steps, Snapshot

LEMMA UntakenNow ==
  ASSUME NEW c, NEW step, Untaken(c, step), c.ws.revision = revision
  PROVE  Steps(c.id, step) = {}
BY ReceiptsAreSteps DEF Untaken, Dated

LEMMA SnapshotIsDated ==
  ASSUME OperationsInv
  PROVE  Dated(Snapshot)
BY SnapshotIsPast DEF IsPast, Dated

LEMMA FreshStays ==
  ASSUME OperationsInv, Remembers, NEW c, Fresh(c)
  PROVE  Fresh(c)'
<1>1. \A ws : Dated(ws) => Dated(ws)'
  BY DEF Dated, Remembers, OperationsInv, StoresHold, CourseHolds
<1>2. \A step : Untaken(c, step) => Untaken(c, step)'
  BY <1>1 DEF Untaken, ReceiptsOf
<1>3. Accepted(c.id) => Accepted(c.id)' BY AcceptedStays
<1> QED BY <1>1, <1>2, <1>3 DEF Fresh, ReceiptsOf

LEMMA CarelessIsFresh ==
  ASSUME NEW c, c.pc \notin Careful
  PROVE  Fresh(c)
BY DEF Fresh, Careful, Resumes

\* Of what a thread is doing only these fields matter.
LEMMA SameFreshness ==
  ASSUME NEW c, Fresh(c), NEW d, d.pc = c.pc, d.ws = c.ws, d.id = c.id,
         d.input = c.input
  PROVE  Fresh(d)
BY DEF Fresh, Untaken

\* A step that leaves the workflow alone, seen from what the threads do next.
LEMMA QuietStep ==
  ASSUME OperationsInv, OnceInv, Remembers, UNCHANGED courseVars,
         NEW next, call' = next, \A t \in Thread : Fresh(next[t])
  PROVE  OnceInv'
<1>1. \A id, step : Steps(id, step)' = Steps(id, step) BY DEF Steps, courseVars
<1>2. OperationsAdvanceOnce' BY <1>1 DEF OnceInv, OperationsAdvanceOnce
<1>3. StepsAreDated'
  <2> SUFFICES ASSUME NEW id \in RequestId, Steps(id, "submit") # {}
               PROVE  rows'[id].request = rows[id].request
    BY <1>1 DEF OnceInv, StepsAreDated, courseVars
  <2>1. Store!Stored(id) BY DEF OperationsInv, StoresHold, StepsHold
  <2> QED BY <2>1, StoredStays
<1>4. ASSUME NEW t \in Thread PROVE Fresh(call[t])'
  <2>1. PICK d : d = call'[t] OBVIOUS
  <2>2. Fresh(d) BY <2>1
  <2>3. Fresh(d)' BY <2>2, FreshStays
  <2> QED BY <2>1, <2>3
<1> QED BY <1>2, <1>3, <1>4 DEF OnceInv

LEMMA QuietCall ==
  ASSUME OperationsInv, OnceInv, Remembers, UNCHANGED courseVars,
         NEW t \in Thread, NEW d, Becomes(t, d), Fresh(d)
  PROVE  OnceInv'
<1>1. PICK next : next = call' OBVIOUS
<1>2. \A u \in Thread : Fresh(next[u])
  BY <1>1 DEF OnceInv, OperationsInv, Becomes
<1> QED BY <1>1, <1>2, QuietStep

LEMMA ReadsAdvanceNothing ==
  ASSUME OperationsInv, OnceInv, Reads,
         NEW t \in Thread, NEW d, Becomes(t, d), Fresh(d)
  PROVE  OnceInv'
<1>1. UNCHANGED <<courseVars, rows, clock>> BY RestUnchanged
<1>2. Remembers BY <1>1, StoresRest DEF OperationsInv, StoresHold, RowsHold
<1> QED BY <1>1, <1>2, QuietCall

LEMMA IdleIsFresh == Fresh(Idle)
BY CarelessIsFresh DEF Idle, Careful, Resumes

LEMMA ReturnAdvancesNothing ==
  ASSUME OperationsInv, OnceInv, UNCHANGED <<courseVars, rows, clock>>,
         NEW t \in Thread, Return(t)
  PROVE  OnceInv'
<1>1. Remembers BY StoresRest DEF OperationsInv, StoresHold, RowsHold
<1> QED BY <1>1, IdleIsFresh, QuietCall DEF Return

\* A save of the job makes other records old, and changes nothing else of what
\* the threads do.
LEMMA SaveJobAdvancesNothing ==
  ASSUME OperationsInv, OnceInv, NEW t \in Thread, NEW record, NEW saved,
         NEW refused, Fresh(saved), Fresh(refused),
         SaveJob(t, record, saved, refused)
  PROVE  OnceInv'
<1>1. UNCHANGED <<courseVars, rows, clock>> BY DEF SaveJob, storeVars
<1>2. Remembers BY <1>1, StoresRest DEF OperationsInv, StoresHold, RowsHold
<1>3. CASE Becomes(t, saved) \/ Becomes(t, refused)
  BY <1>1, <1>2, <1>3, QuietCall
<1>4. CASE call' = [u \in Thread |->
                      IF u = t THEN saved
                      ELSE IF call[u].job = None THEN call[u]
                      ELSE [call[u] EXCEPT !.behind = IF @ = 0 THEN 1 ELSE 2]]
  <2>1. PICK next : next = call' OBVIOUS
  <2>2. ASSUME NEW u \in Thread PROVE Fresh(next[u])
    <3>1. CASE u = t BY <1>4, <2>1, <3>1
    <3>2. CASE u # t
      <4>1. Fresh(call[u]) /\ DOMAIN call[u] = CallFields
        BY Threads DEF OnceInv
      <4>2. /\ next[u].pc = call[u].pc /\ next[u].ws = call[u].ws
            /\ next[u].id = call[u].id /\ next[u].input = call[u].input
        BY <1>4, <2>1, <3>2, <4>1, Fields
      <4> QED BY <4>1, <4>2, SameFreshness
    <3> QED BY <3>1, <3>2
  <2> QED BY <1>1, <1>2, <2>1, <2>2, QuietStep
<1> QED BY <1>3, <1>4 DEF SaveJob

-----------------------------------------------------------------------------
(* The steps on the way to a transition                                    *)

\* A submission that resumes, or is about to be checked, has looked.
LEMMA SubmitWorkflowIsFresh ==
  ASSUME OperationsInv, OnceInv, NEW t \in Thread, SubmitWorkflow(t)
  PROVE  OnceInv'
<1> DEFINE c == call[t]
           next == Resumption(Snapshot, c.input)
           d == [c EXCEPT !.ws = Snapshot, !.pc = next]
<1>1. /\ CallHolds(c) /\ DOMAIN c = CallFields /\ c.pc = "submit_workflow"
      /\ Reads
      /\ Becomes(t, Idle) \/ Becomes(t, d)
  BY Threads DEF SubmitWorkflow, At
<1>2. d.pc = next /\ d.ws = Snapshot /\ d.id = c.id /\ d.input = c.input
  BY <1>1, Fields
<1>3. c.id \in RequestId /\ c.input.id = c.id
      /\ c.input.kind = rows[c.id].request.kind
  BY <1>1, HandedIn DEF HandsIn
<1> HIDE DEF d
<1>4. ASSUME next = "submit_resume" PROVE Fresh(d)
  <2>1. c.input.kind \in LectureKind /\ ReceiptsOf(Snapshot, c.id, "validation") = {}
    BY <1>3, <1>4 DEF Resumption
  <2> QED BY <1>2, <1>4, <2>1, SnapshotIsDated DEF Fresh, Untaken, Resumes
<1>5. ASSUME next = "submit_lease" PROVE Fresh(d)
  <2>1. ReceiptsOf(Snapshot, c.id, "reopen") # {} => Accepted(c.id)
    BY <1>3, ReceiptsAreSteps DEF OperationsInv, StoresHold, ReopenedByVerdict
  <2> QED BY <1>2, <1>5, <2>1, SnapshotIsDated DEF Fresh, Resumes
<1>6. ASSUME next = "submit_accept" PROVE Fresh(d)
  <2>1. Steps(c.id, "submit") # {}
    BY <1>3, <1>6, ReceiptsAreSteps DEF Resumption
  <2>2. c.input.kind # "semantic_review"
    BY <1>3, <2>1 DEF OnceInv, StepsAreDated, EvidenceKind
  <2> QED BY <1>2, <1>6, <2>2 DEF Fresh, Resumes
<1>7. ASSUME next = "idle" PROVE Fresh(d)
  BY <1>2, <1>7, CarelessIsFresh DEF Careful, Resumes
<1>8. next \in {"idle", "submit_lease", "submit_accept", "submit_resume"}
  BY DEF Resumption
<1>9. Fresh(d) BY <1>4, <1>5, <1>6, <1>7, <1>8
<1> QED BY <1>1, <1>9, IdleIsFresh, ReadsAdvanceNothing

\* Whoever holds the lease of a request has no verdict that was accepted for it.
LEMMA SubmitLeaseIsFresh ==
  ASSUME OperationsInv, OnceInv, NEW t \in Thread, SubmitLease(t) \/ SubmitResume(t)
  PROVE  OnceInv'
<1> DEFINE c == call[t]
           accept == Authorised(c, "submit_accept")
           transition == Authorised(c, "submit_transition")
           validation == Authorised(c, "submit_validation")
<1>1. /\ DOMAIN c = CallFields /\ Reads /\ Fresh(c)
      /\ \/ Becomes(t, Idle)
         \/ c.pc = "submit_lease" /\ HoldsLease(c) /\ Becomes(t, accept)
         \/ Becomes(t, transition)
         \/ c.pc = "submit_resume" /\ Becomes(t, validation)
  BY Threads DEF OnceInv, SubmitLease, SubmitResume, At, Return
<1>2. \A d \in {accept, transition, validation} :
        d.id = c.id /\ d.input = c.input /\ d.ws = c.ws
  BY <1>1, AuthorisedCall
<1>3. /\ accept.pc = "submit_accept" /\ transition.pc = "submit_transition"
      /\ validation.pc = "submit_validation"
  BY <1>1, AuthorisedCall
<1> HIDE DEF accept, transition, validation
<1>4. ASSUME c.pc = "submit_lease", HoldsLease(c) PROVE Fresh(accept)
  <2>1. ~Accepted(c.id) BY <1>4 DEF HoldsLease, Accepted
  <2>2. Untaken(accept, "reopen")
    BY <1>1, <1>2, <1>4, <2>1 DEF Fresh, Untaken
  <2> QED BY <1>3, <2>2 DEF Fresh, Resumes
<1>5. Fresh(transition) BY <1>3, CarelessIsFresh DEF Careful, Resumes
<1>6. c.pc = "submit_resume" => Fresh(validation)
  BY <1>1, <1>2, <1>3 DEF Fresh, Untaken, Resumes
<1> QED BY <1>1, <1>4, <1>5, <1>6, IdleIsFresh, ReadsAdvanceNothing

\* Neither a repeat nor a lost validation is of a verdict.
LEMMA SubmitRepeatIsFresh ==
  ASSUME OperationsInv, OnceInv, NEW t \in Thread,
         SubmitRepeat(t) \/ SubmitValidationLost(t)
  PROVE  OnceInv'
<1> DEFINE c == call[t]
           repeat == [c EXCEPT !.ws = Snapshot, !.pc = "submit_accept"]
           lost == [c EXCEPT !.ws = Snapshot, !.then = "supersede",
                             !.pc = "submit_accept"]
<1>1. /\ CallHolds(c) /\ Fresh(c) /\ DOMAIN c = CallFields /\ Reads
      /\ c.pc \in {"submit_transition", "submit_validation"}
      /\ Becomes(t, Idle) \/ Becomes(t, repeat) \/ Becomes(t, lost)
  BY Threads DEF OnceInv, SubmitRepeat, SubmitValidationLost, At
<1>2. \A d \in {repeat, lost} : d.input = c.input /\ d.pc = "submit_accept"
  BY <1>1, Fields
<1> HIDE DEF repeat, lost
<1>3. c.input.kind # "semantic_review"
  BY <1>1 DEF CallHolds, Fresh, Resumes, LectureKind, EvidenceKind
<1>4. Fresh(repeat) /\ Fresh(lost) BY <1>2, <1>3 DEF Fresh, Resumes
<1> QED BY <1>1, <1>4, IdleIsFresh, ReadsAdvanceNothing

\* The verdict is accepted after the thread has looked for its reopening.
LEMMA SubmitAcceptIsFresh ==
  ASSUME OperationsInv, OnceInv, NEW t \in Thread, SubmitAccept(t)
  PROVE  OnceInv'
<1> DEFINE c == call[t]
           reopens == c.input.kind = "semantic_review" /\ c.input.content # {}
           d == [c EXCEPT !.pc = IF reopens THEN "reopen" ELSE "project"]
<1>1. /\ CallHolds(c) /\ Fresh(c) /\ DOMAIN c = CallFields
      /\ c.pc = "submit_accept" /\ UNCHANGED courseVars
  BY Threads DEF OnceInv, SubmitAccept, At
<1>2. CASE Store!AcceptOutcome(c.input) = "ok"
  <2>1. /\ IF Store!Live(c.id) THEN Store!MarkAccepted(c.input)
                               ELSE UNCHANGED storeVars
        /\ Becomes(t, d)
    BY <1>2 DEF SubmitAccept
  <2>2. Remembers BY <1>1, <1>2, <2>1, AcceptanceIsWritten
  <2>3. /\ d.id = c.id /\ d.input = c.input /\ d.ws = c.ws
        /\ d.pc = IF reopens THEN "reopen" ELSE "project"
    BY <1>1, Fields
  <2> HIDE DEF d
  <2>4. ASSUME reopens PROVE Fresh(d)
    BY <1>1, <2>3, <2>4 DEF Fresh, Untaken, Resumes
  <2>5. ASSUME ~reopens PROVE Fresh(d)
    BY <2>3, <2>5, CarelessIsFresh DEF Careful, Resumes
  <2> QED BY <1>1, <2>1, <2>2, <2>4, <2>5, QuietCall
<1>3. CASE Store!AcceptOutcome(c.input) # "ok"
  BY <1>1, <1>3, ReturnAdvancesNothing DEF SubmitAccept, storeVars
<1> QED BY <1>2, <1>3

LEMMA ResubmitWorkflowIsFresh ==
  ASSUME OperationsInv, OnceInv, NEW t \in Thread, ResubmitWorkflow(t)
  PROVE  OnceInv'
<1> DEFINE c == call[t]
           next == AfterAccept(Snapshot, c.input)
           e == [c EXCEPT !.ws = Snapshot]
           d == Authorised(e, next)
<1>1. /\ CallHolds(c) /\ DOMAIN c = CallFields /\ c.pc = "resubmit_workflow"
      /\ Reads
      /\ Becomes(t, Idle) \/ Becomes(t, d)
  BY Threads DEF ResubmitWorkflow, At
<1>2. c.input.id = c.id BY <1>1, HandedIn DEF HandsIn, Repeats
<1>3. /\ DOMAIN e = CallFields /\ e.id = c.id /\ e.ws = Snapshot
  BY <1>1, Fields
<1> HIDE DEF e
<1>4. d.id = c.id /\ d.ws = Snapshot /\ d.pc = next
  BY <1>3, AuthorisedCall
<1> HIDE DEF d
<1>5. CASE next = "reopen"
  <2>1. ReceiptsOf(Snapshot, c.id, "reopen") = {}
    BY <1>2, <1>5 DEF AfterAccept
  <2> QED BY <1>1, <1>4, <1>5, <2>1, SnapshotIsDated, ReadsAdvanceNothing, IdleIsFresh
          DEF Fresh, Untaken, Resumes
<1>6. CASE next \in {"idle", "project"}
  BY <1>1, <1>4, <1>6, CarelessIsFresh, ReadsAdvanceNothing, IdleIsFresh
     DEF Careful, Resumes
<1> QED BY <1>5, <1>6 DEF AfterAccept

-----------------------------------------------------------------------------
(* The other steps that leave the workflow alone                           *)

LEMMA RequestStepIsFresh ==
  ASSUME OperationsInv, OnceInv, NEW t \in Thread, RequestStep(t)
  PROVE  OnceInv'
<1> DEFINE c == call[t]
<1>1. DOMAIN c = CallFields BY Threads
<1>2. CASE RequestSave(t)
  <2>1. Fresh(Reconciling(c))
    BY <1>1, Fields, CarelessIsFresh DEF Reconciling, Careful, Resumes
  <2> QED BY <1>2, <2>1, SaveJobAdvancesNothing DEF RequestSave
<1>3. CASE RequestCreate(t)
  <2>a. PICK id \in RequestId : \E d :
          /\ ~Store!Stored(id) /\ Becomes(t, d) /\ UNCHANGED courseVars
          /\ d \in {[c EXCEPT !.pc = "request_lease", !.id = id],
                    [c EXCEPT !.pc = "request_again"]}
          /\ \/ Store!CreateRequest(NewRequest(c.ws, id))
             \/ UNCHANGED storeVars
    BY <1>3 DEF RequestCreate
  <2>1. PICK d :
          /\ ~Store!Stored(id) /\ Becomes(t, d) /\ UNCHANGED courseVars
          /\ d \in {[c EXCEPT !.pc = "request_lease", !.id = id],
                    [c EXCEPT !.pc = "request_again"]}
          /\ \/ Store!CreateRequest(NewRequest(c.ws, id))
             \/ UNCHANGED storeVars
    BY <2>a
  <2>2. d.pc \in {"request_lease", "request_again"} BY <1>1, <2>1, Fields
  <2>3. Fresh(d) BY <2>2, CarelessIsFresh DEF Careful, Resumes
  <2>4. Remembers
    <3>1. /\ clock' = clock
          /\ \A i \in RequestId : Store!Stored(i) => rows'[i] = rows[i]
      BY <2>1 DEF Store!CreateRequest, storeVars, NewRequest, OperationsInv,
                  StoresHold, RowsHold
    <3> QED BY <2>1, <3>1
            DEF Remembers, courseVars, Snapshot, Store!Stored, OperationsInv,
                StoresHold, CourseHolds, RowsHold
  <2> QED BY <2>1, <2>3, <2>4, QuietCall
<1>4. CASE RequestLease(t)
  <2>1. Return(t) /\ UNCHANGED courseVars /\ CallHolds(c) /\ c.pc = "request_lease"
    BY <1>4, Threads DEF RequestLease, At
  <2>2. CASE UNCHANGED storeVars
    BY <2>1, <2>2, ReturnAdvancesNothing DEF storeVars
  <2>3. ASSUME NEW d \in Duration, Store!AcquireLease(c.id, c.holder, c.now, d),
               Store!LeaseOutcome(c.id, c.holder, c.now) = "ok"
        PROVE  OnceInv'
    <3>1. c.holder \in Holder /\ c.now \in Nat BY <2>1 DEF CallHolds, Leases
    <3>2. Remembers BY <2>1, <2>3, <3>1, LeaseIsWritten
    <3> QED BY <2>1, <3>2, IdleIsFresh, QuietCall DEF Return
  <2> QED BY <1>4, <2>2, <2>3 DEF RequestLease
<1>5. ASSUME Reads, NEW d, Becomes(t, d), d = Idle \/ d.pc \in Leases
      PROVE  OnceInv'
  BY <1>5, IdleIsFresh, CarelessIsFresh, ReadsAdvanceNothing
     DEF Leases, Asks, Careful, Resumes
<1>6. CASE RequestWorkflow(t)
  <2> DEFINE d == [c EXCEPT !.ws = Snapshot,
                            !.pc = IF InReview(Snapshot) THEN "request_review"
                                                         ELSE "request_reconcile"]
  <2>1. d.pc \in Leases BY <1>1, Fields DEF Leases, Asks
  <2> QED BY <1>5, <1>6, <2>1 DEF RequestWorkflow
<1>7. CASE RequestReview(t)
  <2> DEFINE d == [c EXCEPT !.pc = IF ReopenIsPending(c.ws) THEN "recover_workflow"
                                                            ELSE "request_reconcile"]
  <2>1. d.pc \in Leases BY <1>1, Fields DEF Leases, Asks
  <2> QED BY <1>5, <1>7, <2>1 DEF RequestReview
<1>8. CASE RecoverWorkflow(t)
  <2> DEFINE d == [c EXCEPT !.ws = Snapshot, !.pc = "recover_verdict"]
  <2>1. d.pc \in Leases BY <1>1, Fields DEF Leases, Asks
  <2> QED BY <1>5, <1>8, <2>1 DEF RecoverWorkflow
<1>9. CASE RecoverVerdict(t)
  <2> DEFINE verdict == [c EXCEPT !.input = VerdictOf(c.ws), !.id = VerdictOf(c.ws).id,
                                  !.then = "reload_job", !.pc = "resubmit_job"]
             reload == [c EXCEPT !.pc = "reload_job"]
  <2>1. Fresh(verdict) /\ Fresh(reload)
    BY <1>1, Fields, CarelessIsFresh DEF Careful, Resumes
  <2>2. Reads /\ (Becomes(t, verdict) \/ Becomes(t, reload))
    BY <1>9 DEF RecoverVerdict
  <2> QED BY <2>1, <2>2, ReadsAdvanceNothing
<1>10. CASE RequestReloadJob(t)
  <2> DEFINE d == [c EXCEPT !.job = job, !.behind = 0, !.pc = "reload_workflow"]
  <2>1. d.pc \in Leases BY <1>1, Fields DEF Leases, Asks
  <2> QED BY <1>5, <1>10, <2>1 DEF RequestReloadJob, LoadJob
<1>11. CASE RequestReloadWorkflow(t)
  <2> DEFINE d == [c EXCEPT !.ws = Snapshot, !.input = None, !.id = 0,
                            !.pc = "request_reconcile"]
  <2>1. d.pc \in Leases BY <1>1, Fields DEF Leases, Asks
  <2> QED BY <1>5, <1>11, <2>1 DEF RequestReloadWorkflow
<1>12. CASE RequestReconcile(t)
  <2> DEFINE save == [c EXCEPT !.record = Reconciled(c.ws, c.now),
                               !.pc = "request_save"]
  <2>1. save.pc \in Leases /\ Reconciling(c).pc \in Leases
    BY <1>1, Fields DEF Leases, Asks, Reconciling
  <2>2. Reads /\ (Becomes(t, save) \/ Becomes(t, Reconciling(c)))
    BY <1>12 DEF RequestReconcile
  <2> QED BY <1>5, <2>1, <2>2
<1>13. CASE RequestFind(t)
  <2> DEFINE d == [c EXCEPT !.pc = "request_current"]
  <2>1. d.pc \in Leases BY <1>1, Fields DEF Leases, Asks
  <2> QED BY <1>5, <1>13, <2>1 DEF RequestFind, Return
<1>14. CASE RequestCurrent(t) \/ RequestAgain(t)
  <2> DEFINE lease == [c EXCEPT !.pc = "request_lease",
                                !.id = First(LiveAt(c.ws.revision))]
             create == [c EXCEPT !.pc = "request_create"]
  <2>1. lease.pc \in Leases /\ create.pc \in Leases
    BY <1>1, Fields DEF Leases, Asks
  <2>2. Reads /\ (Becomes(t, lease) \/ Becomes(t, create) \/ Becomes(t, Idle))
    BY <1>14 DEF RequestCurrent, RequestAgain, Return
  <2> QED BY <1>5, <2>1, <2>2
<1> QED
  BY <1>2, <1>3, <1>4, <1>6, <1>7, <1>8, <1>9, <1>10, <1>11, <1>12, <1>13, <1>14
     DEF RequestStep

LEMMA SettledIsFresh ==
  ASSUME NEW d, d.pc \in Settles \cup {"submit_workflow", "resubmit_workflow",
                                       "submit_job", "resubmit_job", "submit_reject",
                                       "submit_transition", "decide", "idle",
                                       "request_workflow", "reload_job"}
  PROVE  Fresh(d)
BY CarelessIsFresh DEF Settles, Careful, Resumes

LEMMA OtherSubmitStepIsFresh ==
  ASSUME OperationsInv, OnceInv, NEW t \in Thread,
         \/ SubmitJob(t) \/ ResubmitJob(t) \/ SubmitRejected(t) \/ SubmitLost(t)
         \/ SubmitReject(t) \/ ReopenLost(t)
  PROVE  OnceInv'
<1> DEFINE c == call[t]
<1>1. DOMAIN c = CallFields BY Threads
<1>2. ASSUME Reads, NEW d, Becomes(t, d), Fresh(d) PROVE OnceInv'
  BY <1>2, ReadsAdvanceNothing
<1>3. CASE SubmitJob(t)
  <2> DEFINE d == [c EXCEPT !.job = job, !.behind = 0, !.pc = "submit_workflow"]
  <2>1. Fresh(d) BY <1>1, Fields, SettledIsFresh
  <2> QED BY <1>2, <1>3, <2>1 DEF SubmitJob, LoadJob
<1>4. CASE ResubmitJob(t)
  <2> DEFINE d == [c EXCEPT !.job = job, !.behind = 0, !.pc = "resubmit_workflow"]
  <2>1. Fresh(d) BY <1>1, Fields, SettledIsFresh
  <2> QED BY <1>2, <1>4, <2>1 DEF ResubmitJob, LoadJob
<1>5. CASE SubmitRejected(t)
  <2> DEFINE d == [c EXCEPT !.pc = "submit_reject"]
  <2>1. Fresh(d) BY <1>1, Fields, SettledIsFresh
  <2> QED BY <1>2, <1>5, <2>1 DEF SubmitRejected
<1>6. CASE SubmitLost(t)
  BY <1>2, <1>6, IdleIsFresh DEF SubmitLost, Return
<1>7. CASE SubmitReject(t)
  <2>1. MarkRejected(c.id) /\ Return(t) /\ UNCHANGED courseVars
    BY <1>7 DEF SubmitReject
  <2>2. Remembers BY <2>1, RejectionIsWritten
  <2> QED BY <2>1, <2>2, IdleIsFresh, QuietCall DEF Return
<1>8. CASE ReopenLost(t)
  <2> DEFINE d == [c EXCEPT !.ws = Snapshot, !.pc = "project"]
  <2>1. Fresh(d) BY <1>1, Fields, SettledIsFresh DEF Settles
  <2>2. Reads /\ (Becomes(t, d) \/ Becomes(t, Idle)) BY <1>8 DEF ReopenLost
  <2> QED BY <1>2, <2>1, <2>2, IdleIsFresh
<1> QED BY <1>3, <1>4, <1>5, <1>6, <1>7, <1>8

LEMMA ProjectedIsFresh ==
  ASSUME OperationsInv, NEW t \in Thread
  PROVE  Fresh(Projected(call[t]))
<1> DEFINE c == call[t]
           d == [c EXCEPT !.pc = c.then, !.job = None, !.behind = 0, !.then = "idle"]
<1>1. DOMAIN c = CallFields /\ c.then \in {"idle", "supersede", "reload_job"}
  BY Threads DEF CallHolds
<1>2. d.pc = c.then BY <1>1, Fields
<1> HIDE DEF d
<1>3. Fresh(d) BY <1>1, <1>2, SettledIsFresh DEF Settles
<1>4. Projected(c) \in {Idle, d} BY DEF Projected, d
<1> QED BY <1>3, <1>4, IdleIsFresh

LEMMA ProjectStepIsFresh ==
  ASSUME OperationsInv, OnceInv, NEW t \in Thread, ProjectStep(t)
  PROVE  OnceInv'
<1> DEFINE c == call[t]
           reload == [c EXCEPT !.pc = "project_reload"]
           retry == [c EXCEPT !.job = job, !.behind = 0, !.pc = "project_retry"]
<1>1. DOMAIN c = CallFields BY Threads
<1>2. Fresh(Projected(c)) BY ProjectedIsFresh
<1>3. Fresh(reload) /\ Fresh(retry)
  BY <1>1, Fields, SettledIsFresh DEF Settles
<1>4. \A todo : Fresh(SupersedeOr(c, todo))
  <2> TAKE todo
  <2> DEFINE d == [c EXCEPT !.pc = "supersede_next", !.todo = todo]
  <2>1. Fresh(d) BY <1>1, Fields, SettledIsFresh DEF Settles
  <2> QED BY <2>1, IdleIsFresh DEF SupersedeOr
<1>5. CASE Project(t)
  BY <1>2, <1>3, <1>5, ReadsAdvanceNothing, SaveJobAdvancesNothing DEF Project
<1>6. CASE ProjectReload(t)
  BY <1>2, <1>3, <1>6, ReadsAdvanceNothing DEF ProjectReload, LoadJob
<1>7. CASE ProjectRetry(t)
  BY <1>2, <1>7, IdleIsFresh, SaveJobAdvancesNothing DEF ProjectRetry
<1>8. CASE Supersede(t)
  BY <1>4, <1>8, ReadsAdvanceNothing DEF Supersede
<1>9. CASE SupersedeNext(t)
  <2>1. PICK id : MarkRejected(id) /\ UNCHANGED courseVars
                  /\ Becomes(t, SupersedeOr(c, c.todo \ {id}))
    BY <1>9 DEF SupersedeNext
  <2>2. Remembers BY <2>1, RejectionIsWritten
  <2> QED BY <1>4, <2>1, <2>2, QuietCall
<1> QED BY <1>5, <1>6, <1>7, <1>8, <1>9 DEF ProjectStep

LEMMA StartIsFresh ==
  ASSUME OperationsInv, OnceInv, NEW t \in Thread,
         \/ \E h \in Holder : StartRequest(t, h)
         \/ \E h \in Holder, id \in RequestId : Submits(t, h, id)
         \/ Decides(t) \/ DecideWorkflow(t) \/ DecideLost(t)
  PROVE  OnceInv'
<1>1. ASSUME Reads, NEW d, Becomes(t, d),
             d.pc \in {"request_workflow", "submit_job", "resubmit_job",
                       "decide_workflow", "decide", "idle"}
      PROVE  OnceInv'
  BY <1>1, SettledIsFresh, ReadsAdvanceNothing DEF Settles
<1>2. ASSUME NEW h \in Holder, StartRequest(t, h) PROVE OnceInv'
  <2> DEFINE d == [Idle EXCEPT !.pc = "request_workflow", !.holder = h,
                               !.now = clock, !.job = job]
  <2>1. d.pc = "request_workflow" BY DEF Idle
  <2> QED BY <1>1, <1>2, <2>1 DEF StartRequest
<1>3. ASSUME NEW h \in Holder, NEW id \in RequestId, Submits(t, h, id) PROVE OnceInv'
  <2>1. PICK content : StartSubmit(t, h, id, content) BY <1>3 DEF Submits
  <2> DEFINE d == [Idle EXCEPT
                     !.pc = IF rows[id].status = "accepted" THEN "resubmit_job"
                                                            ELSE "submit_job",
                     !.holder = h, !.now = clock, !.id = id,
                     !.input = ResultOf(rows[id].request, content)]
  <2>2. d.pc \in {"submit_job", "resubmit_job"} BY DEF Idle
  <2>3. Reads /\ Becomes(t, d) BY <2>1 DEF StartSubmit
  <2> HIDE DEF d
  <2> QED BY <1>1, <2>2, <2>3
<1>4. CASE Decides(t)
  <2>1. PICK decision, subject : StartDecision(t, decision, subject)
    BY <1>4 DEF Decides
  <2> DEFINE d == [Idle EXCEPT
                     !.pc = "decide_workflow", !.job = job,
                     !.input = [decision |-> decision, subject |-> subject]]
  <2>2. d.pc = "decide_workflow" BY DEF Idle
  <2> QED BY <1>1, <2>1, <2>2 DEF StartDecision
<1>5. CASE DecideWorkflow(t)
  <2> DEFINE d == [call[t] EXCEPT !.ws = Snapshot, !.pc = "decide"]
  <2>1. d.pc = "decide" BY Threads, Fields
  <2>2. Idle.pc = "idle" BY DEF Idle
  <2> QED BY <1>1, <1>5, <2>1, <2>2 DEF DecideWorkflow, Return
<1>6. CASE DecideLost(t)
  BY <1>1, <1>6 DEF DecideLost, Return, Idle
<1> QED BY <1>2, <1>3, <1>4, <1>5, <1>6

\* Time passes, or nothing does.
LEMMA RestIsFresh ==
  ASSUME OperationsInv, OnceInv, Tick \/ UNCHANGED vars
  PROVE  OnceInv'
<1>1. /\ UNCHANGED <<courseVars, rows, call>>
      /\ clock' \in Nat /\ clock <= clock'
  BY DEF Tick, Store!Tick, vars, storeVars, OperationsInv, StoresHold, RowsHold
<1>2. Remembers BY <1>1, StoresRest
<1>3. PICK next : next = call' OBVIOUS
<1>4. \A t \in Thread : Fresh(next[t]) BY <1>1, <1>3 DEF OnceInv
<1> QED BY <1>1, <1>2, <1>3, <1>4, QuietStep

-----------------------------------------------------------------------------
(* The steps that advance the workflow                                     *)

OnceSteps == {"submit", "validation", "reopen"}

\* A request takes a step that it has not taken, after those that come before.
LEMMA AdvancesOnce ==
  ASSUME OperationsInv, OnceInv, NEW action, NEW subject, NEW operation,
         Course!Commit(action, subject), Advance(operation),
         \A id \in RequestId, step \in OnceSteps :
           operation = <<id, step>> => Steps(id, step) = {},
         \A id \in RequestId :
           operation = <<id, "submit">> =>
             /\ rows[id].request.revision = revision
             /\ rows[id].request.kind \notin EvidenceKind,
         \A id \in RequestId :
           operation = <<id, "validation">> => Steps(id, "submit") # {}
  PROVE  Remembers /\ StepsAreDated' /\ OperationsAdvanceOnce'
<1> DEFINE n == Len(operations) + 1
<1>1. operations' = Append(operations, operation) /\ UNCHANGED <<rows, clock>>
  BY DEF Advance, storeVars
<1>2. /\ Remembers /\ revision' = revision + 1
      /\ DOMAIN operations' = DOMAIN operations \cup {n}
      /\ operations'[n] = operation
  BY <1>1, Advances
<1>3. n \notin DOMAIN operations
  BY SequenceIndices DEF OperationsInv, StoresHold, CourseHolds
<1> HIDE DEF n
<1>4. \A id, step : Steps(id, step)' =
        Steps(id, step) \cup (IF operation = <<id, step>> THEN {n} ELSE {})
  BY <1>2, <1>3 DEF Steps, Remembers
<1>5. OperationsAdvanceOnce'
  <2> SUFFICES ASSUME NEW id \in RequestId, NEW step \in OnceSteps,
                      NEW i \in Steps(id, step)', NEW j \in Steps(id, step)'
               PROVE  i = j
    BY DEF OperationsAdvanceOnce, OnceSteps
  <2>1. CASE operation = <<id, step>> BY <1>4, <2>1
  <2>2. CASE operation # <<id, step>>
    BY <1>4, <2>2 DEF OnceInv, OperationsAdvanceOnce, OnceSteps
  <2> QED BY <2>1, <2>2
<1>6. StepsAreDated'
  <2> SUFFICES ASSUME NEW id \in RequestId
               PROVE  /\ Steps(id, "submit")' # {} =>
                           /\ rows[id].request.revision < revision'
                           /\ rows[id].request.kind \notin EvidenceKind
                      /\ Steps(id, "validation")' # {} => Steps(id, "submit")' # {}
    BY <1>1 DEF StepsAreDated
  <2>1. revision \in Nat BY DEF OperationsInv, StoresHold, CourseHolds
  <2>2. Steps(id, "submit") # {} => rows[id].request.revision \in Nat
    <3>1. Steps(id, "submit") # {} => Store!Stored(id)
      BY DEF OperationsInv, StoresHold, StepsHold
    <3> QED BY <3>1, RowIsThere
            DEF OperationsInv, StoresHold, RowsHold, RowHolds, Store!Stored
  <2>3. Steps(id, "submit") # {} =>
          /\ rows[id].request.revision < revision
          /\ rows[id].request.kind \notin EvidenceKind
    BY DEF OnceInv, StepsAreDated
  <2>4. Steps(id, "validation") # {} => Steps(id, "submit") # {}
    BY DEF OnceInv, StepsAreDated
  <2> QED BY <1>2, <1>4, <2>1, <2>2, <2>3, <2>4
<1> QED BY <1>2, <1>5, <1>6

\* What the threads go on with after a transition.
LEMMA AdvancedCalls ==
  ASSUME OperationsInv, OnceInv, Remembers, NEW t \in Thread, NEW d, Becomes(t, d),
         Fresh(d)'
  PROVE  \A u \in Thread : Fresh(call[u])'
<1>1. ASSUME NEW u \in Thread \ {t} PROVE Fresh(call[u])'
  <2>1. PICK c : c = call[u] OBVIOUS
  <2>2. Fresh(c)' BY <2>1, FreshStays DEF OnceInv
  <2>3. call'[u] = call[u] BY DEF Becomes, OperationsInv
  <2> QED BY <2>1, <2>2, <2>3
<1>2. call'[t] = d BY NewCall
<1>3. Fresh(call[t])' BY <1>2
<1> QED BY <1>1, <1>3

LEMMA CarelessIsFreshNext ==
  ASSUME NEW d, d.pc \notin Careful
  PROVE  Fresh(d)'
BY DEF Fresh, Careful, Resumes

LEMMA SubmitTransitionAdvancesOnce ==
  ASSUME OperationsInv, OnceInv, NEW t \in Thread, SubmitTransition(t)
  PROVE  OnceInv'
<1>1. PICK c : c = call[t] OBVIOUS
<1>2. /\ CallHolds(c) /\ DOMAIN c = CallFields /\ c.pc = "submit_transition"
      /\ revision = c.ws.revision /\ Transition(c.input)
      /\ Advance(<<c.id, "submit">>)
  BY <1>1, Threads DEF SubmitTransition, At
<1>3. PICK d : d = [c EXCEPT !.ws = Snapshot', !.then = "supersede",
                      !.pc = IF c.input.kind \in LectureKind THEN "submit_validation"
                                                             ELSE "submit_accept"]
  OBVIOUS
<1>4. Becomes(t, d) BY <1>1, <1>3 DEF SubmitTransition
<1>5. /\ d.id = c.id /\ d.input = c.input /\ d.ws = Snapshot'
      /\ d.pc = IF c.input.kind \in LectureKind THEN "submit_validation"
                                                ELSE "submit_accept"
  BY <1>2, <1>3, Fields
<1>6. /\ c.input.kind \in Kind \ EvidenceKind
      /\ c.input.kind = rows[c.id].request.kind
      /\ c.id \in RequestId /\ rows[c.id].request.revision = revision
  BY <1>2, HandedIn DEF CallHolds, HandsIn
<1>7. revision \in Nat BY DEF OperationsInv, StoresHold, CourseHolds
<1>8. Steps(c.id, "submit") = {} /\ Steps(c.id, "validation") = {}
  BY <1>6, <1>7 DEF OnceInv, StepsAreDated
<1>9. PICK action, subject : Course!Commit(action, subject)
  BY <1>2, <1>6, TransitionCommits
<1>10. Remembers /\ StepsAreDated' /\ OperationsAdvanceOnce'
  BY <1>2, <1>6, <1>8, <1>9, AdvancesOnce
<1>11. Fresh(d)'
  <2>1. CASE c.input.kind \in LectureKind
    <3>1. Dated(d.ws)'
      <4>1. revision' \in Nat BY <1>10, OperationsAssumption DEF Remembers
      <4>2. d.ws.revision = revision' BY <1>5 DEF Snapshot
      <4> QED BY <1>5, <4>1, <4>2 DEF Dated
    <3>2. Steps(c.id, "validation")' = {}
      <4>1. UNCHANGED <<rows, clock>> /\ operations' = Append(operations, <<c.id, "submit">>)
        BY <1>2 DEF Advance, storeVars
      <4>2. /\ DOMAIN operations' = DOMAIN operations \cup {Len(operations) + 1}
            /\ operations'[Len(operations) + 1] = <<c.id, "submit">>
        BY <1>9, <4>1, Advances
      <4>3. \A i \in DOMAIN operations : operations'[i] = operations[i]
        BY <1>10 DEF Remembers
      <4> QED BY <1>8, <4>2, <4>3 DEF Steps
    <3>3. ReceiptsOf(d.ws, d.id, "validation") = {}
      BY <1>5, <3>2 DEF ReceiptsOf, Snapshot, Steps
    <3>4. Untaken(d, "validation")' BY <3>1, <3>3 DEF Untaken, ReceiptsOf
    <3> QED BY <1>5, <2>1, <3>4 DEF Fresh, Resumes
  <2>2. CASE c.input.kind \notin LectureKind
    BY <1>5, <1>6, <2>2 DEF Fresh, Resumes, EvidenceKind
  <2> QED BY <2>1, <2>2
<1> QED BY <1>4, <1>10, <1>11, AdvancedCalls DEF OnceInv

\* The thread has looked, and nothing has happened since.
LEMMA SubmitValidationAdvancesOnce ==
  ASSUME OperationsInv, OnceInv, NEW t \in Thread, SubmitValidation(t)
  PROVE  OnceInv'
<1>1. PICK c : c = call[t] OBVIOUS
<1>2. PICK v : v = [document |-> c.ws.progress[c.ws.active].candidate,
                    policy |-> policy, disposition |-> "passed"]
  OBVIOUS
<1>3. /\ CallHolds(c) /\ Fresh(c) /\ DOMAIN c = CallFields
      /\ c.pc = "submit_validation" /\ revision = c.ws.revision
      /\ Course!RecordCandidateValidation(c.ws.active, v)
      /\ Advance(<<c.id, "validation">>)
  BY <1>1, <1>2, Threads DEF OnceInv, SubmitValidation, At
<1>4. PICK d : d = [c EXCEPT !.ws = Snapshot', !.then = "supersede",
                             !.pc = "submit_accept"]
  OBVIOUS
<1>5. Becomes(t, d) BY <1>1, <1>4 DEF SubmitValidation
<1>6. d.input = c.input /\ d.pc = "submit_accept" BY <1>3, <1>4, Fields
<1>7. c.input.kind \in LectureKind /\ Untaken(c, "validation")
  BY <1>3 DEF Fresh, Resumes
<1>8. Steps(c.id, "validation") = {} BY <1>3, <1>7, UntakenNow
<1>9. Steps(c.id, "submit") # {}
  <2>1. Recorded(c.input)
    BY <1>3, <1>7 DEF CallHolds, Concludes, LectureKind, EvidenceKind
  <2>2. c.input.id = c.id BY <1>3, HandedIn DEF HandsIn, Concludes
  <2> QED BY <2>1, <2>2 DEF Recorded
<1>10. PICK action, subject : Course!Commit(action, subject)
  <2>1. v.disposition = "passed"
        /\ v = [document |-> v.document, policy |-> v.policy,
                disposition |-> v.disposition]
    BY <1>2
  <2> QED BY <1>3, <2>1, ValidationIsPlanned DEF OperationsInv, StoresHold
<1>11. Remembers /\ StepsAreDated' /\ OperationsAdvanceOnce'
  BY <1>3, <1>8, <1>9, <1>10, AdvancesOnce
<1>12. Fresh(d)' BY <1>6, <1>7 DEF Fresh, Resumes, LectureKind
<1> QED BY <1>5, <1>11, <1>12, AdvancedCalls DEF OnceInv

LEMMA ReopenAdvancesOnce ==
  ASSUME OperationsInv, OnceInv, NEW t \in Thread, Reopen(t)
  PROVE  OnceInv'
<1>1. PICK c : c = call[t] OBVIOUS
<1>2. /\ Fresh(c) /\ DOMAIN c = CallFields /\ c.pc = "reopen"
      /\ revision = c.ws.revision
      /\ Course!ReopenLecturesForCorrection(c.input.content, revision)
      /\ Advance(<<c.id, "reopen">>)
  BY <1>1, Threads DEF OnceInv, Reopen, At
<1>3. PICK d : d = [c EXCEPT !.ws = Snapshot', !.pc = "project"] OBVIOUS
<1>4. Becomes(t, d) BY <1>1, <1>3 DEF Reopen
<1>5. d.pc = "project" BY <1>2, <1>3, Fields
<1>6. Steps(c.id, "reopen") = {} BY <1>2, UntakenNow DEF Fresh
<1>7. PICK action, subject : Course!Commit(action, subject)
  BY <1>2, ReopeningIsPlanned DEF OperationsInv, StoresHold
<1>8. Remembers /\ StepsAreDated' /\ OperationsAdvanceOnce'
  BY <1>2, <1>6, <1>7, AdvancesOnce
<1>9. Fresh(d)' BY <1>5, CarelessIsFreshNext DEF Careful, Resumes
<1> QED BY <1>4, <1>8, <1>9, AdvancedCalls DEF OnceInv

LEMMA DecideAdvancesNoRequest ==
  ASSUME OperationsInv, OnceInv, NEW t \in Thread, Decide(t)
  PROVE  OnceInv'
<1>1. PICK c : c = call[t] OBVIOUS
<1>2. /\ CallHolds(c) /\ DOMAIN c = CallFields /\ c.pc = "decide"
      /\ Decision(c.input) /\ Advance(<<0, "decision">>)
  BY <1>1, Threads DEF Decide, At
<1>3. PICK d : d = [c EXCEPT !.ws = Snapshot', !.then = "supersede",
                             !.input = None, !.pc = "project"]
  OBVIOUS
<1>4. Becomes(t, d) BY <1>1, <1>3 DEF Decide
<1>5. d.pc = "project" BY <1>2, <1>3, Fields
<1>6. c.input.subject.kind \in {"priority", "map"} BY <1>2 DEF CallHolds
<1>7. PICK action : Course!Commit(action, c.input.subject)
  BY <1>2, <1>6, DecisionCommits
<1>8. Remembers /\ StepsAreDated' /\ OperationsAdvanceOnce'
  <2>1. \A id \in RequestId, step \in OnceSteps : <<0, "decision">> # <<id, step>>
    BY DEF OnceSteps
  <2> QED BY <1>2, <1>7, <2>1, AdvancesOnce DEF OnceSteps
<1>9. Fresh(d)' BY <1>5, CarelessIsFreshNext DEF Careful, Resumes
<1> QED BY <1>4, <1>8, <1>9, AdvancedCalls DEF OnceInv

LEMMA ElsewhereAdvancesNoRequest ==
  ASSUME OperationsInv, OnceInv, Elsewhere
  PROVE  OnceInv'
<1>1. Advance(<<0, "elsewhere">>) /\ UNCHANGED call BY DEF Elsewhere
<1>2. PICK action, subject : Course!Commit(action, subject)
  BY InterruptionCommits DEF Elsewhere
<1>3. Remembers /\ StepsAreDated' /\ OperationsAdvanceOnce'
  <2>1. \A id \in RequestId, step \in OnceSteps : <<0, "elsewhere">> # <<id, step>>
    BY DEF OnceSteps
  <2> QED BY <1>1, <1>2, <2>1, AdvancesOnce DEF OnceSteps
<1>4. ASSUME NEW t \in Thread PROVE Fresh(call[t])'
  <2>1. PICK c : c = call[t] OBVIOUS
  <2>2. Fresh(c)' BY <1>3, <2>1, FreshStays DEF OnceInv
  <2> QED BY <1>1, <2>1, <2>2
<1> QED BY <1>3, <1>4 DEF OnceInv

LEMMA NextAdvancesOnce ==
  ASSUME OperationsInv, OnceInv, [Next]_vars
  PROVE  OnceInv'
<1>1. ASSUME NEW t \in Thread, SubmitStep(t) PROVE OnceInv'
  BY <1>1, SubmitWorkflowIsFresh, SubmitLeaseIsFresh, SubmitRepeatIsFresh,
     SubmitAcceptIsFresh, ResubmitWorkflowIsFresh, OtherSubmitStepIsFresh,
     SubmitTransitionAdvancesOnce, SubmitValidationAdvancesOnce, ReopenAdvancesOnce
     DEF SubmitStep
<1>2. ASSUME NEW t \in Thread, DecideStep(t) PROVE OnceInv'
  BY <1>2, StartIsFresh, DecideAdvancesNoRequest DEF DecideStep
<1>3. ASSUME NEW t \in Thread, Step(t) PROVE OnceInv'
  BY <1>1, <1>2, <1>3, RequestStepIsFresh, ProjectStepIsFresh DEF Step
<1>4. ASSUME NEW t \in Thread, Abandon(t) PROVE OnceInv'
  BY <1>4, ReturnAdvancesNothing DEF Abandon, storeVars
<1> QED BY <1>3, <1>4, StartIsFresh, RestIsFresh, ElsewhereAdvancesNoRequest DEF Next

LEMMA StartIsOnce ==
  ASSUME Init
  PROVE  OnceInv
<1>1. \A id \in RequestId : \A step : Steps(id, step) = {}
  <2>1. \A i \in DOMAIN operations : operations[i] = <<0, "before">>
    BY DEF Init
  <2>2. \A id \in RequestId : \A step : <<id, step>> # <<0, "before">>
    BY DEF RequestId
  <2> QED BY <2>1, <2>2 DEF Steps
<1>2. \A t \in Thread : Fresh(call[t]) BY IdleIsFresh DEF Init
<1> QED BY <1>1, <1>2 DEF OnceInv, StepsAreDated, OperationsAdvanceOnce

\* A request leads to its transition, to the validation of its draft and to the
\* reopening for its verdict at most once each, for any number of threads that
\* hand results in, of repeats and of crashes in between.
THEOREM RequestsAdvanceOnce == Spec => []OperationsAdvanceOnce
<1>1. Init => OnceInv BY StartIsOnce
<1>2. OperationsInv /\ OnceInv /\ [Next]_vars => OnceInv' BY NextAdvancesOnce
<1>3. OnceInv => OperationsAdvanceOnce BY DEF OnceInv
<1> QED BY <1>1, <1>2, <1>3, OperationsInvariant, PTL DEF Spec

-----------------------------------------------------------------------------
(* What was proved of the parts holds of the whole                         *)

\* The theorems about the workflow and about the store, of the variables here.
CourseProofs == INSTANCE SnapshotProofs WITH
  Verdict       <- {"passed", "rejected"},
  OwnerDecision <- {"approved", "rejected"}

StoreProofs == INSTANCE SemanticWorkStoreProofs

\* They are about the same workflow: the same definitions of the same variables.
LEMMA SameWorkflow ==
  ASSUME Course!InputsAssumption, Course!InitialSourcesAssumption,
         Course!NoneAssumption
  PROVE  /\ CourseProofs!InputsAssumption
         /\ CourseProofs!InitialSourcesAssumption
         /\ CourseProofs!NoneAssumption
BY DEF Course!InputsAssumption, CourseProofs!InputsAssumption,
    Course!InitialSourcesAssumption, CourseProofs!InitialSourcesAssumption,
    Course!NoneAssumption, CourseProofs!NoneAssumption,
    Course!Stage, Course!FailureCode, Course!NewSourceStages,
    Course!PrioritySubject, Course!SourceSubject, Course!IssueSubject,
    Course!Validation, Course!Issue, Course!MapSubjects,
    Course!ApprovalRecord, Course!SourceAssessmentRecord,
    Course!PriorityBasisRecord, Course!LectureMapRecord,
    Course!MapReopenContext, Course!PendingSourceRecord,
    CourseProofs!Stage, CourseProofs!FailureCode,
    CourseProofs!NewSourceStages, CourseProofs!PrioritySubject,
    CourseProofs!SourceSubject, CourseProofs!IssueSubject,
    CourseProofs!Validation, CourseProofs!Issue, CourseProofs!MapSubjects,
    CourseProofs!ApprovalRecord, CourseProofs!SourceAssessmentRecord,
    CourseProofs!PriorityBasisRecord, CourseProofs!LectureMapRecord,
    CourseProofs!MapReopenContext, CourseProofs!PendingSourceRecord

LEMMA SameTransitions ==
  [Course!Next]_(Course!vars) <=> [CourseProofs!Next]_(CourseProofs!vars)
BY Zenon
DEF Course!vars, CourseProofs!vars,
    Course!Stage, Course!NormalDisposition, Course!FailureCode,
    Course!PrivateArtifactBlockerStarts,
    Course!ExternalPrerequisiteBlockerStages, Course!NewSourceStages,
    Course!PrioritySubject, Course!MapSubject, Course!SubjectOf,
    Course!SourceSubject, Course!CandidateSubject, Course!IssueSubject,
    Course!CorrectionSubject, Course!Approval, Course!PendingLecture,
    Course!AllPending, Course!HistoricalCandidate, Course!HistoryKey,
    Course!Archivable, Course!IssueDiagnostic, Course!CandidateWarning,
    Course!WithoutIssueDiagnostics, Course!WithoutCandidateWarnings,
    Course!Receipt, Course!Commit, Course!RecordSourceAssessment,
    Course!BasisUnderDecision, Course!PriorityDecision,
    Course!ApprovePriorityBasis, Course!RejectPriorityBasis,
    Course!Reserved, Course!RecordLectureMap, Course!MapDecision,
    Course!ApproveLectureMap, Course!BaselineProgress,
    Course!RejectLectureMap, Course!Superseded,
    Course!SubmitLectureCandidate, Course!ValidatedLecture, Course!Complete,
    Course!EvidenceMatches, Course!RecordCandidateValidation,
    Course!ReopenLecturesForCorrection, Course!PlanAndCourse, Course!Stop,
    Course!Resume, Course!RecordOperationFailure, Course!RetryFailed,
    Course!MarkBlocked, Course!ClearBlocker, Course!UnknownSource,
    Course!RecordNewSource, Course!NewSourceUnderReview,
    Course!DetectedStage, Course!DismissNewSource, Course!Invalidated,
    Course!ApproveMapReopen, Course!Validation, Course!Planning,
    Course!Production, Course!Interruption, Course!Next,
    CourseProofs!Stage, CourseProofs!NormalDisposition,
    CourseProofs!FailureCode, CourseProofs!PrivateArtifactBlockerStarts,
    CourseProofs!ExternalPrerequisiteBlockerStages,
    CourseProofs!NewSourceStages, CourseProofs!PrioritySubject,
    CourseProofs!MapSubject, CourseProofs!SubjectOf,
    CourseProofs!SourceSubject, CourseProofs!CandidateSubject,
    CourseProofs!IssueSubject, CourseProofs!CorrectionSubject,
    CourseProofs!Approval, CourseProofs!PendingLecture,
    CourseProofs!AllPending, CourseProofs!HistoricalCandidate,
    CourseProofs!HistoryKey, CourseProofs!Archivable,
    CourseProofs!IssueDiagnostic, CourseProofs!CandidateWarning,
    CourseProofs!WithoutIssueDiagnostics,
    CourseProofs!WithoutCandidateWarnings, CourseProofs!Receipt,
    CourseProofs!Commit, CourseProofs!RecordSourceAssessment,
    CourseProofs!BasisUnderDecision, CourseProofs!PriorityDecision,
    CourseProofs!ApprovePriorityBasis, CourseProofs!RejectPriorityBasis,
    CourseProofs!Reserved, CourseProofs!RecordLectureMap,
    CourseProofs!MapDecision, CourseProofs!ApproveLectureMap,
    CourseProofs!BaselineProgress, CourseProofs!RejectLectureMap,
    CourseProofs!Superseded, CourseProofs!SubmitLectureCandidate,
    CourseProofs!ValidatedLecture, CourseProofs!Complete,
    CourseProofs!EvidenceMatches, CourseProofs!RecordCandidateValidation,
    CourseProofs!ReopenLecturesForCorrection, CourseProofs!PlanAndCourse,
    CourseProofs!Stop, CourseProofs!Resume,
    CourseProofs!RecordOperationFailure, CourseProofs!RetryFailed,
    CourseProofs!MarkBlocked, CourseProofs!ClearBlocker,
    CourseProofs!UnknownSource, CourseProofs!RecordNewSource,
    CourseProofs!NewSourceUnderReview, CourseProofs!DetectedStage,
    CourseProofs!DismissNewSource, CourseProofs!Invalidated,
    CourseProofs!ApproveMapReopen, CourseProofs!Validation,
    CourseProofs!Planning, CourseProofs!Production,
    CourseProofs!Interruption, CourseProofs!Next

LEMMA CourseAssumptions ==
  /\ CourseProofs!InputsAssumption
  /\ CourseProofs!InitialSourcesAssumption
  /\ CourseProofs!NoneAssumption
  /\ CourseProofs!ContinuationAssumption
<1>1. CourseProofs!ContinuationAssumption
  BY PartsAssumption, OperationsAssumption
  DEF CourseProofs!ContinuationAssumption, CourseProofs!SemanticKinds, Kind,
      CourseProofs!FailureCode, Course!FailureCode
<1> QED BY <1>1, PartsAssumption, SameWorkflow

\* The store that the threads share is the store that was proved about.
LEMMA SameStore ==
  /\ StoreProofs!StoreAssumption
  /\ Store!Init <=> StoreProofs!Init
  /\ [Store!UsedNext]_(Store!storeVars) <=>
       [StoreProofs!UsedNext]_(StoreProofs!storeVars)
<1>1. StoreProofs!StoreAssumption
  BY PartsAssumption
  DEF Store!StoreAssumption, StoreProofs!StoreAssumption, Store!Row, StoreProofs!Row
<1>2. Store!Init <=> StoreProofs!Init BY DEF Store!Init, StoreProofs!Init
<1>3. [Store!UsedNext]_(Store!storeVars) <=>
        [StoreProofs!UsedNext]_(StoreProofs!storeVars)
  BY Zenon
  DEF Store!storeVars, StoreProofs!storeVars, Store!Stored, Store!Live,
      Store!LeaseActive, Store!OperationTaken, Store!RevisionTaken, Store!CreateOutcome, Store!LeaseOutcome,
      Store!Names, Store!AcceptOutcome, Store!CreateRequest,
      Store!AcquireLease, Store!ReofferExpired, Store!MarkAccepted,
      Store!MarkRejected, Store!Tick, Store!UsedNext,
      StoreProofs!Stored, StoreProofs!Live, StoreProofs!LeaseActive,
      StoreProofs!OperationTaken, StoreProofs!RevisionTaken,
      StoreProofs!CreateOutcome, StoreProofs!LeaseOutcome,
      StoreProofs!Names, StoreProofs!AcceptOutcome,
      StoreProofs!CreateRequest, StoreProofs!AcquireLease,
      StoreProofs!ReofferExpired, StoreProofs!MarkAccepted,
      StoreProofs!MarkRejected, StoreProofs!Tick, StoreProofs!UsedNext
<1> QED BY <1>1, <1>2, <1>3

\* No interleaving of threads, crash or repeat leads the workflow to a snapshot
\* that WorkflowState refuses, that is not the plan the owner agreed to or that
\* cannot be gone on from; nor to a step that loses a draft, changes more than
\* the stop it leaves or is not listed; if the job was given to the threads with a
\* snapshot of which the invariants hold (as they do of every one that the
\* workflow can reach).
THEOREM WorkflowStaysSound ==
  Spec /\ CourseProofs!SnapshotInv =>
    /\ [](CourseProofs!SnapshotInv /\ CourseProofs!SnapshotIsSound)
    /\ CourseProofs!CandidatesAreArchived
    /\ CourseProofs!StopsAreTransparent
    /\ CourseProofs!StepsAreListed
<1>1. ASSUME OperationsInv, [Next]_vars
      PROVE  [CourseProofs!Next]_(CourseProofs!vars)
  <2>1. [Course!Next]_(Course!vars)
    BY <1>1, NextComposes DEF courseVars, Course!vars
  <2> QED BY <2>1, SameTransitions
<1>2. CourseProofs!SnapshotInv /\ [][CourseProofs!Next]_(CourseProofs!vars) =>
        /\ [](CourseProofs!SnapshotInv /\ CourseProofs!SnapshotIsSound)
        /\ CourseProofs!CandidatesAreArchived
        /\ CourseProofs!StopsAreTransparent
        /\ CourseProofs!StepsAreListed
  BY CourseAssumptions, CourseProofs!CourseStaysSound
<1> QED BY <1>1, <1>2, OperationsInvariant, PTL DEF Spec

\* Whatever the threads do, the store keeps what it promises: one live request of
\* a revision, one executor of a request, results that are final and leases that
\* no one else is given (semantic_work_persistence.py as it is used here).
THEOREM StoreKeepsItsPromises ==
  Spec => /\ [](/\ StoreProofs!EveryRowDecodes
                /\ StoreProofs!OneLivePerRevision
                /\ StoreProofs!OneExecutor)
          /\ StoreProofs!AcceptedIsFinal
          /\ StoreProofs!LeaseIsExclusive
<1>1. StoreProofs!StoreAssumption BY SameStore
<1>2. Init => StoreProofs!Init BY SameStore DEF Init
<1>3. ASSUME OperationsInv, [Next]_vars
      PROVE  [StoreProofs!UsedNext]_(StoreProofs!storeVars)
  <2>1. [Store!UsedNext]_(Store!storeVars)
    BY <1>3, NextComposes DEF storeVars, Store!storeVars
  <2> QED BY <2>1, SameStore
<1>4. ASSUME [StoreProofs!UsedNext]_(StoreProofs!storeVars)
      PROVE  [StoreProofs!Next]_(StoreProofs!storeVars)
  BY <1>4 DEF StoreProofs!Next
<1>5. StoreProofs!UsedSpec => []StoreProofs!UsedInv
  BY <1>1, StoreProofs!UsedInvariant
<1>6. StoreProofs!Spec => StoreProofs!AcceptedIsFinal
  BY <1>1, StoreProofs!AcceptanceIsFinal
<1>7. StoreProofs!Spec => StoreProofs!LeaseIsExclusive
  BY <1>1, StoreProofs!LeasesAreExclusive
<1>8. StoreProofs!UsedInv => /\ StoreProofs!EveryRowDecodes
                             /\ StoreProofs!OneLivePerRevision
                             /\ StoreProofs!OneExecutor
  BY DEF StoreProofs!UsedInv, StoreProofs!StoreInv
<1> QED
  BY <1>2, <1>3, <1>4, <1>5, <1>6, <1>7, <1>8, OperationsInvariant, PTL
  DEF Spec, StoreProofs!UsedSpec, StoreProofs!Spec

=============================================================================
