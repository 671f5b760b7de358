---------------------- MODULE SemanticWorkStoreProofs ----------------------
(***************************************************************************)
(* Proofs about SemanticWorkStore, for every set of requests, results,     *)
(* holders and durations and every bound on the clock.                     *)
(*                                                                         *)
(* TypeOK, EveryRowDecodes and OperationsAreUnique are inductive together  *)
(* under every operation.  OneLivePerRevision and OneExecutor hold of the  *)
(* operations the program uses; the second needs ToldIsLeased, which ties  *)
(* what a holder was answered to the row as long as the lease runs.        *)
(***************************************************************************)
EXTENDS SemanticWorkStore, TLAPS

StoreInv == TypeOK /\ EveryRowDecodes /\ OperationsAreUnique

\* A lease a holder was told of and that has not run out is the one in the
\* row, or the request is closed.
ToldIsLeased ==
  \A id \in RequestId, h \in Holder :
     told[h][id] > clock =>
       /\ Stored(id)
       /\ rows[id].status # "pending"
       /\ rows[id].status = "leased" => /\ rows[id].holder = h
                                        /\ rows[id].expires = told[h][id]

UsedInv == StoreInv /\ OneLivePerRevision /\ ToldIsLeased /\ OneExecutor

----------------------------------------------------------------------------
\* No row has become something else than a row: a table entry that is not
\* None is a record with the five columns.
LEMMA StoredIsRow ==
  ASSUME TypeOK, NEW id \in RequestId, Stored(id)
  PROVE  /\ rows[id] \in Row
         /\ rows[id].request \in Request
         /\ rows[id].status \in {"pending", "leased", "accepted", "rejected"}
         /\ rows[id].holder \in Holder \cup {None}
         /\ rows[id].expires \in Nat \cup {None}
         /\ rows[id].result \in Result \cup {None}
  BY DEF TypeOK, Stored, Row

\* The table before any call.
LEMMA StoreInit == Init => UsedInv
  <1> SUFFICES ASSUME Init PROVE UsedInv
    OBVIOUS
  <1>1. TypeOK
    BY StoreAssumption DEF Init, TypeOK
  <1>2. \A id \in RequestId : ~Stored(id) /\ ~Live(id)
    BY DEF Init, Stored, Live
  <1>3. \A h \in Holder, id \in RequestId : ~(told[h][id] > clock)
    BY DEF Init
  <1> QED
    BY <1>1, <1>2, <1>3 DEF UsedInv, StoreInv, EveryRowDecodes,
       OperationsAreUnique, OneLivePerRevision, ToldIsLeased, OneExecutor

\* The five columns after a step that writes one row; the other rows stay.
LEMMA RowWritten ==
  ASSUME StoreInv, NEW id \in RequestId, NEW row \in Row,
         rows' = [rows EXCEPT ![id] = row],
         clock' = clock, told' \in [Holder -> [RequestId -> Nat]],
         RowDecodes(id, row),
         \A i \in RequestId \ {id} :
           Stored(i) => rows[i].request.operation # row.request.operation
  PROVE  StoreInv'
  <1>1. rows'[id] = row /\ \A i \in RequestId \ {id} : rows'[i] = rows[i]
    BY DEF StoreInv, TypeOK
  <1>2. TypeOK'
    BY DEF StoreInv, TypeOK
  <1>3. EveryRowDecodes'
    BY <1>1 DEF StoreInv, EveryRowDecodes, Stored, RowDecodes, Names
  <1>4. OperationsAreUnique'
    BY <1>1 DEF StoreInv, OperationsAreUnique, Stored
  <1> QED
    BY <1>2, <1>3, <1>4 DEF StoreInv

\* create_request compares the operation with every row, closed or not.
LEMMA CreateKeepsStore ==
  ASSUME StoreInv, NEW r \in Request, CreateRequest(r)
  PROVE  StoreInv'
  <1> DEFINE row == [request |-> r, status |-> "pending", holder |-> None,
                     expires |-> None, result |-> None]
  <1>1. r.id \in RequestId /\ row \in Row
    BY StoreAssumption DEF Row
  <1>2. ~OperationTaken(r)
    BY DEF CreateRequest, CreateOutcome
  <1>3. \A i \in RequestId \ {r.id} :
          Stored(i) => rows[i].request.operation # row.request.operation
    BY <1>2 DEF OperationTaken
  <1>4. RowDecodes(r.id, row)
    BY DEF RowDecodes
  <1>5. /\ rows' = [rows EXCEPT ![r.id] = row]
        /\ clock' = clock
        /\ told' \in [Holder -> [RequestId -> Nat]]
    BY DEF CreateRequest, StoreInv, TypeOK
  <1> HIDE DEF row
  <1> QED
    BY <1>1, <1>3, <1>4, <1>5, RowWritten

\* A step that rewrites a stored row without touching its request.
LEMMA RowRewritten ==
  ASSUME StoreInv, NEW id \in RequestId, Stored(id), NEW row \in Row,
         row.request = rows[id].request,
         rows' = [rows EXCEPT ![id] = row],
         clock' = clock, told' \in [Holder -> [RequestId -> Nat]],
         RowDecodes(id, row)
  PROVE  StoreInv'
  <1>1. \A i \in RequestId \ {id} :
          Stored(i) => rows[i].request.operation # row.request.operation
    BY DEF StoreInv, OperationsAreUnique
  <1> QED
    BY <1>1, RowWritten

\* acquire_lease sets the two lease columns together.
LEMMA AcquireKeepsStore ==
  ASSUME StoreInv, NEW id \in RequestId, NEW h \in Holder,
         NEW now \in Nat, NEW d \in Duration, AcquireLease(id, h, now, d)
  PROVE  StoreInv'
  <1> DEFINE row == [rows[id] EXCEPT !.status = "leased", !.holder = h,
                                  !.expires = now + d]
  <1>1. Stored(id)
    BY DEF AcquireLease, LeaseOutcome
  <1>2. now + d \in Nat /\ now + d # None
    BY StoreAssumption
  <1>3. row \in Row /\ h # None
    BY <1>1, <1>2, StoredIsRow, StoreAssumption DEF StoreInv, Row
  <1>4. rows' = [rows EXCEPT ![id] = row]
    BY <1>1, StoredIsRow DEF AcquireLease, StoreInv, Row
  <1>5. clock' = clock /\ told' \in [Holder -> [RequestId -> Nat]]
    BY <1>2 DEF AcquireLease, StoreInv, TypeOK
  <1>6. RowDecodes(id, row)
    BY <1>1, <1>2, <1>3 DEF RowDecodes, StoreInv, EveryRowDecodes
  <1>7. row.request = rows[id].request
    OBVIOUS
  <1> HIDE DEF row
  <1> QED
    BY <1>1, <1>3, <1>4, <1>5, <1>6, <1>7, RowRewritten

\* mark_accepted compares the envelope with the row before it stores it.
LEMMA AcceptKeepsStore ==
  ASSUME StoreInv, NEW result \in Result, MarkAccepted(result)
  PROVE  StoreInv'
  <1> DEFINE id == result.id
             row == [rows[id] EXCEPT !.status = "accepted", !.holder = None,
                                     !.expires = None, !.result = result]
  <1>1. Stored(id) /\ Names(result, rows[id]) /\ id \in RequestId
    BY DEF MarkAccepted, AcceptOutcome, Live, Stored
  <1>2. rows' = [rows EXCEPT ![id] = row]
    BY DEF MarkAccepted
  <1>3. result.id = id
    OBVIOUS
  <1>4. clock' = clock /\ told' \in [Holder -> [RequestId -> Nat]]
    BY DEF MarkAccepted, StoreInv, TypeOK
  <1> HIDE DEF id
  <1>5. rows[id] \in Row
    BY <1>1, StoredIsRow DEF StoreInv
  <1>6. row \in Row /\ result # None
    BY <1>5, StoreAssumption DEF Row
  <1>7. /\ row.request = rows[id].request
        /\ row.status = "accepted"
        /\ row.holder = None
        /\ row.expires = None
        /\ row.result = result
    BY <1>5 DEF Row
  <1> HIDE DEF row
  <1>8. RowDecodes(id, row)
    BY <1>1, <1>3, <1>6, <1>7 DEF RowDecodes, StoreInv, EveryRowDecodes, Names
  <1> QED
    BY <1>1, <1>2, <1>4, <1>6, <1>7, <1>8, RowRewritten

\* mark_rejected leaves the lease columns, which a rejected row may have.
LEMMA RejectKeepsStore ==
  ASSUME StoreInv, NEW id \in RequestId, MarkRejected(id)
  PROVE  StoreInv'
  <1> DEFINE row == [rows[id] EXCEPT !.status = "rejected"]
  <1>1. Stored(id)
    BY DEF MarkRejected, Live
  <1>2. row \in Row
    BY <1>1, StoredIsRow DEF StoreInv, Row
  <1>3. rows' = [rows EXCEPT ![id] = row]
    BY DEF MarkRejected
  <1>4. clock' = clock /\ told' \in [Holder -> [RequestId -> Nat]]
    BY DEF MarkRejected, StoreInv, TypeOK
  <1>5. row.request = rows[id].request /\ row.status = "rejected"
    BY <1>1, StoredIsRow DEF StoreInv, Row
  <1>6. RowDecodes(id, row)
    BY <1>1, <1>5 DEF RowDecodes, StoreInv, EveryRowDecodes
  <1> HIDE DEF row
  <1> QED
    BY <1>1, <1>2, <1>3, <1>4, <1>5, <1>6, RowRewritten

\* release_lease clears the two lease columns together.
LEMMA ReleaseKeepsStore ==
  ASSUME StoreInv, NEW id \in RequestId, ReleaseLease(id)
  PROVE  StoreInv'
  <1> DEFINE row == [rows[id] EXCEPT !.status = "pending", !.holder = None,
                                  !.expires = None]
  <1>1. Stored(id)
    BY DEF ReleaseLease
  <1>2. row \in Row
    BY <1>1, StoredIsRow DEF StoreInv, Row
  <1>3. rows' = [rows EXCEPT ![id] = row]
    BY <1>1, StoredIsRow DEF ReleaseLease, StoreInv, Row
  <1>4. clock' = clock /\ told' \in [Holder -> [RequestId -> Nat]]
    BY DEF ReleaseLease, StoreInv, TypeOK
  <1>5. RowDecodes(id, row)
    BY <1>1 DEF RowDecodes, StoreInv, EveryRowDecodes
  <1>6. row.request = rows[id].request
    OBVIOUS
  <1> HIDE DEF row
  <1> QED
    BY <1>1, <1>2, <1>3, <1>4, <1>5, <1>6, RowRewritten

\* Every operation keeps the table well formed.
LEMMA StoreStep == StoreInv /\ [Next]_storeVars => StoreInv'
  <1> SUFFICES ASSUME StoreInv, [Next]_storeVars PROVE StoreInv'
    OBVIOUS
  <1>1. CASE UNCHANGED storeVars
    BY <1>1 DEF storeVars, StoreInv, TypeOK, EveryRowDecodes, RowDecodes,
       OperationsAreUnique, Stored, Names
  <1>2. ASSUME NEW r \in Request, CreateRequest(r) PROVE StoreInv'
    BY <1>2, CreateKeepsStore
  <1>3. ASSUME NEW id \in RequestId, NEW h \in Holder, NEW now \in 0..clock,
               NEW d \in Duration, AcquireLease(id, h, now, d)
        PROVE  StoreInv'
    BY <1>3, AcquireKeepsStore DEF StoreInv, TypeOK
  <1>4. ASSUME NEW r \in Request, NEW h \in Holder, NEW now \in 0..clock,
               NEW d \in Duration, ReofferExpired(r.job, h, now, d)
        PROVE  StoreInv'
    BY <1>3, <1>4 DEF ReofferExpired
  <1>5. ASSUME NEW result \in Result, MarkAccepted(result) PROVE StoreInv'
    BY <1>5, AcceptKeepsStore
  <1>6. ASSUME NEW id \in RequestId, MarkRejected(id) PROVE StoreInv'
    BY <1>6, RejectKeepsStore
  <1>7. ASSUME NEW id \in RequestId, ReleaseLease(id) PROVE StoreInv'
    BY <1>7, ReleaseKeepsStore
  <1>8. CASE Tick
    <2>1. TypeOK'
      BY <1>8, StoreAssumption DEF Tick, StoreInv, TypeOK
    <2>2. EveryRowDecodes' /\ OperationsAreUnique'
      BY <1>8 DEF Tick, StoreInv, EveryRowDecodes, RowDecodes,
         OperationsAreUnique, Stored, Names
    <2> QED
      BY <2>1, <2>2 DEF StoreInv
  <1> QED
    BY <1>1, <1>2, <1>3, <1>4, <1>5, <1>6, <1>7, <1>8 DEF Next, UsedNext

\* Every row the store ever holds is one its readers accept, and no two rows
\* have an operation in common, whoever calls what in which order.
THEOREM StoreInvariant == Spec => []StoreInv
  <1>1. Init => StoreInv
    BY StoreInit DEF UsedInv
  <1> QED
    BY <1>1, StoreStep, PTL DEF Spec

\* The columns have their types: the status is of the vocabulary, the
\* lease columns are a holder and a time or empty.
THEOREM StoreTypeCorrect == Spec => []TypeOK
  BY StoreInvariant, PTL DEF StoreInv

\* No operation writes a row that _decode_row refuses.
THEOREM RowsAlwaysDecode == Spec => []EveryRowDecodes
  BY StoreInvariant, PTL DEF StoreInv

\* create_request never runs into the UNIQUE constraint of operation_id.
THEOREM OperationsStayUnique == Spec => []OperationsAreUnique
  BY StoreInvariant, PTL DEF StoreInv

----------------------------------------------------------------------------
\* What acquire_lease leaves in the row.
LEMMA AcquiredRow ==
  ASSUME StoreInv, NEW id \in RequestId, NEW h \in Holder,
         NEW now \in Nat, NEW d \in Duration, AcquireLease(id, h, now, d)
  PROVE  /\ Live(id)
         /\ rows'[id] # None
         /\ rows'[id].request = rows[id].request
         /\ rows'[id].status = "leased"
         /\ rows'[id].holder = h
         /\ rows'[id].expires = now + d
         /\ \A i \in RequestId \ {id} : rows'[i] = rows[i]
  <1>1. Live(id)
    BY StoredIsRow DEF AcquireLease, LeaseOutcome, Live, StoreInv
  <1>2. rows[id] \in Row /\ now + d \in Nat
    BY <1>1, StoredIsRow, StoreAssumption DEF Live, StoreInv
  <1> DEFINE row == [rows[id] EXCEPT !.status = "leased", !.holder = h,
                                     !.expires = now + d]
  <1>3. rows' = [rows EXCEPT ![id] = row]
    BY DEF AcquireLease
  <1>4. /\ row \in Row
        /\ row.request = rows[id].request
        /\ row.status = "leased"
        /\ row.holder = h
        /\ row.expires = now + d
    BY <1>2 DEF Row
  <1> HIDE DEF row
  <1>5. row # None
    BY <1>4, StoreAssumption
  <1>6. rows'[id] = row /\ \A i \in RequestId \ {id} : rows'[i] = rows[i]
    BY <1>3 DEF StoreInv, TypeOK
  <1> QED
    BY <1>1, <1>4, <1>5, <1>6

\* What closing a request, by its acceptance or its rejection, leaves.
LEMMA ClosedRow ==
  ASSUME StoreInv, NEW id \in RequestId,
         \/ MarkRejected(id)
         \/ \E result \in Result : result.id = id /\ MarkAccepted(result)
  PROVE  /\ Live(id)
         /\ rows'[id] # None
         /\ rows'[id].request = rows[id].request
         /\ rows'[id].status \in {"accepted", "rejected"}
         /\ clock' = clock /\ told' = told
         /\ \A i \in RequestId \ {id} : rows'[i] = rows[i]
  <1>1. CASE MarkRejected(id)
    <2> DEFINE row == [rows[id] EXCEPT !.status = "rejected"]
    <2>1. Live(id) /\ rows[id] \in Row
      BY <1>1, StoredIsRow DEF MarkRejected, Live, StoreInv
    <2>2. rows' = [rows EXCEPT ![id] = row]
      BY <1>1 DEF MarkRejected
    <2>3. row \in Row /\ row.request = rows[id].request /\ row.status = "rejected"
      BY <2>1 DEF Row
    <2> HIDE DEF row
    <2>4. row # None
      BY <2>3, StoreAssumption
    <2>5. rows'[id] = row /\ \A i \in RequestId \ {id} : rows'[i] = rows[i]
      BY <2>2 DEF StoreInv, TypeOK
    <2> QED
      BY <1>1, <2>1, <2>3, <2>4, <2>5 DEF MarkRejected
  <1>2. CASE \E result \in Result : result.id = id /\ MarkAccepted(result)
    <2>1. PICK result \in Result : result.id = id /\ MarkAccepted(result)
      BY <1>2
    <2> DEFINE row == [rows[id] EXCEPT !.status = "accepted", !.holder = None,
                                       !.expires = None, !.result = result]
    <2>2. Live(id) /\ rows[id] \in Row
      BY <2>1, StoredIsRow DEF MarkAccepted, Live, StoreInv
    <2>3. rows' = [rows EXCEPT ![id] = row]
      BY <2>1 DEF MarkAccepted
    <2>4. row \in Row /\ row.request = rows[id].request /\ row.status = "accepted"
      BY <2>2 DEF Row
    <2> HIDE DEF row
    <2>5. row # None
      BY <2>4, StoreAssumption
    <2>6. rows'[id] = row /\ \A i \in RequestId \ {id} : rows'[i] = rows[i]
      BY <2>3 DEF StoreInv, TypeOK
    <2> QED
      BY <2>1, <2>2, <2>4, <2>5, <2>6 DEF MarkAccepted
  <1> QED
    BY <1>1, <1>2

\* A lease is given only where no other holder was told of a running one.
LEMMA LeaseIsFree ==
  ASSUME StoreInv, ToldIsLeased, NEW id \in RequestId, NEW h \in Holder,
         NEW now \in 0..clock, NEW d, AcquireLease(id, h, now, d),
         NEW g \in Holder, told[g][id] > clock
  PROVE  g = h
  <1>1. LeaseOutcome(id, h, now) = "ok" /\ Stored(id)
    BY DEF AcquireLease, LeaseOutcome
  <1>2. rows[id].status = "leased"
    BY <1>1, StoredIsRow DEF LeaseOutcome, ToldIsLeased, StoreInv
  <1>3. rows[id].holder = g /\ rows[id].expires = told[g][id]
    BY <1>2 DEF ToldIsLeased
  <1>4. clock \in Nat /\ told[g][id] \in Nat /\ now \in Nat /\ now <= clock
    BY DEF StoreInv, TypeOK
  <1>5. LeaseActive(rows[id], now)
    BY <1>3, <1>4, StoreAssumption DEF LeaseActive
  <1> QED
    BY <1>1, <1>2, <1>3, <1>5 DEF LeaseOutcome

\* A step after which no row is live that was not.
LEMMA NoneRevived ==
  ASSUME OneLivePerRevision,
         \A i \in RequestId :
           Live(i)' => Live(i) /\ rows'[i].request = rows[i].request
  PROVE  OneLivePerRevision'
  BY DEF OneLivePerRevision

\* One live request of a revision, and one executor: kept by every operation
\* the program uses.
LEMMA UsedStep == UsedInv /\ [UsedNext]_storeVars => UsedInv'
  <1> SUFFICES ASSUME UsedInv, [UsedNext]_storeVars PROVE UsedInv'
    OBVIOUS
  <1> USE DEF UsedInv
  <1>1. StoreInv'
    BY StoreStep DEF Next
  <1>2. clock \in Nat /\ told \in [Holder -> [RequestId -> Nat]]
    BY DEF StoreInv, TypeOK
  <1>3. CASE UNCHANGED storeVars
    BY <1>1, <1>3 DEF storeVars, OneLivePerRevision, Live, Stored,
       ToldIsLeased, OneExecutor
  <1>4. ASSUME NEW r \in Request, CreateRequest(r) PROVE UsedInv'
    <2>1. /\ r.id \in RequestId
          /\ ~Stored(r.id)
          /\ ~RevisionTaken(r)
          /\ clock' = clock /\ told' = told
      BY <1>4, StoreAssumption DEF CreateRequest, CreateOutcome
    <2>2. /\ \A i \in RequestId \ {r.id} : rows'[i] = rows[i]
          /\ rows'[r.id].request = r
      BY <1>4, <2>1 DEF CreateRequest, StoreInv, TypeOK
    <2>3. OneLivePerRevision'
      BY <2>1, <2>2 DEF OneLivePerRevision, RevisionTaken, Live, Stored
    <2>4. \A h \in Holder : ~(told[h][r.id] > clock)
      BY <2>1 DEF ToldIsLeased
    <2>5. ToldIsLeased' /\ OneExecutor'
      BY <2>1, <2>2, <2>4 DEF ToldIsLeased, OneExecutor, Stored
    <2> QED
      BY <1>1, <2>3, <2>5
  <1>5. ASSUME NEW id \in RequestId, NEW h \in Holder, NEW now \in 0..clock,
               NEW d \in Duration, AcquireLease(id, h, now, d)
        PROVE  UsedInv'
    <2>1. /\ Live(id)
          /\ rows'[id] # None
          /\ rows'[id].request = rows[id].request
          /\ rows'[id].status = "leased"
          /\ rows'[id].holder = h
          /\ rows'[id].expires = now + d
          /\ \A i \in RequestId \ {id} : rows'[i] = rows[i]
      BY <1>2, <1>5, AcquiredRow
    <2>2. OneLivePerRevision'
      BY <2>1, NoneRevived DEF Live, Stored
    <2>3. /\ clock' = clock
          /\ told'[h][id] = now + d
          /\ \A g \in Holder, i \in RequestId :
               g # h \/ i # id => told'[g][i] = told[g][i]
      BY <1>2, <1>5 DEF AcquireLease
    <2>4. \A g \in Holder : told[g][id] > clock => g = h
      BY <1>5, LeaseIsFree
    <2>5. ToldIsLeased'
      BY <2>1, <2>3, <2>4 DEF ToldIsLeased, Stored
    <2>6. OneExecutor'
      BY <2>3, <2>4 DEF OneExecutor
    <2> QED
      BY <1>1, <2>2, <2>5, <2>6
  <1>6. ASSUME NEW r \in Request, NEW h \in Holder, NEW now \in 0..clock,
               NEW d \in Duration, ReofferExpired(r.job, h, now, d)
        PROVE  UsedInv'
    BY <1>5, <1>6 DEF ReofferExpired
  <1>7. ASSUME NEW id \in RequestId,
               \/ MarkRejected(id)
               \/ \E result \in Result : result.id = id /\ MarkAccepted(result)
        PROVE  UsedInv'
    <2>1. /\ Live(id)
          /\ rows'[id] # None
          /\ rows'[id].request = rows[id].request
          /\ rows'[id].status \in {"accepted", "rejected"}
          /\ clock' = clock /\ told' = told
          /\ \A i \in RequestId \ {id} : rows'[i] = rows[i]
      BY <1>7, ClosedRow
    <2>2. OneLivePerRevision'
      BY <2>1, NoneRevived DEF Live, Stored
    <2>3. ToldIsLeased' /\ OneExecutor'
      BY <2>1 DEF ToldIsLeased, OneExecutor, Stored
    <2> QED
      BY <1>1, <2>2, <2>3
  <1>8. ASSUME NEW result \in Result, MarkAccepted(result) PROVE UsedInv'
    <2>1. result.id \in RequestId
      BY <1>8 DEF MarkAccepted, Live, Stored
    <2> QED
      BY <1>7, <1>8, <2>1
  <1>9. CASE Tick
    <2>1. rows' = rows /\ told' = told /\ clock' = clock + 1
      BY <1>9 DEF Tick
    <2>2. OneLivePerRevision'
      BY <2>1 DEF OneLivePerRevision, Live, Stored
    <2>3. \A h \in Holder, id \in RequestId :
            told'[h][id] > clock' => told[h][id] > clock
      BY <1>2, <2>1
    <2>4. ToldIsLeased' /\ OneExecutor'
      BY <2>1, <2>3 DEF ToldIsLeased, OneExecutor, Stored
    <2> QED
      BY <1>1, <2>2, <2>4
  <1> QED
    BY <1>3, <1>4, <1>5, <1>6, <1>7, <1>8, <1>9 DEF UsedNext

\* The invariant of the operations the program uses.
THEOREM UsedInvariant == UsedSpec => []UsedInv
  BY StoreInit, UsedStep, PTL DEF UsedSpec

\* However requests are created, leased, re-offered and closed, a revision
\* of a job has one live request, so load_current_for_job never fails closed.
THEOREM OneLiveRequest == UsedSpec => []OneLivePerRevision
  BY UsedInvariant, PTL DEF UsedInv

\* Two executors never both hold, by their own answers, a running lease.
THEOREM LeasesExclude == UsedSpec => []OneExecutor
  BY UsedInvariant, PTL DEF UsedInv

\* An accepted envelope and the identity of a request never change.
THEOREM AcceptanceIsFinal == Spec => AcceptedIsFinal
  <1> DEFINE Kept(id) ==
        Stored(id) => /\ rows'[id] # None
                      /\ rows'[id].request = rows[id].request
                      /\ rows[id].status = "accepted" => rows'[id] = rows[id]
  <1>1. StoreInv /\ [Next]_storeVars => [\A id \in RequestId : Kept(id)]_storeVars
    <2> SUFFICES ASSUME StoreInv, Next PROVE \A id \in RequestId : Kept(id)
      BY DEF storeVars
    <2>1. ASSUME NEW r \in Request, CreateRequest(r)
          PROVE  \A id \in RequestId : Kept(id)
      BY <2>1 DEF CreateRequest, Stored, StoreInv, TypeOK
    <2>2. ASSUME NEW i \in RequestId, NEW h \in Holder, NEW now \in 0..clock,
                 NEW d \in Duration, AcquireLease(i, h, now, d)
          PROVE  \A id \in RequestId : Kept(id)
      BY <2>2, AcquiredRow DEF Live, Stored, StoreInv, TypeOK
    <2>3. ASSUME NEW r \in Request, NEW h \in Holder, NEW now \in 0..clock,
                 NEW d \in Duration, ReofferExpired(r.job, h, now, d)
          PROVE  \A id \in RequestId : Kept(id)
      BY <2>2, <2>3 DEF ReofferExpired
    <2>4. ASSUME NEW result \in Result, MarkAccepted(result)
          PROVE  \A id \in RequestId : Kept(id)
      <3>1. result.id \in RequestId
        BY <2>4 DEF MarkAccepted, Live, Stored
      <3> QED
        BY <2>4, <3>1, ClosedRow DEF Live, Stored
    <2>5. ASSUME NEW i \in RequestId, MarkRejected(i)
          PROVE  \A id \in RequestId : Kept(id)
      BY <2>5, ClosedRow DEF Live, Stored
    <2>6. ASSUME NEW i \in RequestId, ReleaseLease(i)
          PROVE  \A id \in RequestId : Kept(id)
      <3> DEFINE row == [rows[i] EXCEPT !.status = "pending", !.holder = None,
                                        !.expires = None]
      <3>1. rows[i] \in Row /\ rows[i].status # "accepted"
        BY <2>6, StoredIsRow DEF ReleaseLease, StoreInv
      <3>2. rows' = [rows EXCEPT ![i] = row]
        BY <2>6 DEF ReleaseLease
      <3>3. row \in Row /\ row.request = rows[i].request
        BY <3>1 DEF Row
      <3> HIDE DEF row
      <3> QED
        BY <3>1, <3>2, <3>3, StoreAssumption DEF StoreInv, TypeOK, Stored
    <2>7. CASE Tick
      BY <2>7 DEF Tick, Stored
    <2> QED
      BY <2>1, <2>2, <2>3, <2>4, <2>5, <2>6, <2>7 DEF Next, UsedNext
  <1> QED
    BY <1>1, StoreInvariant, PTL DEF Spec, AcceptedIsFinal

\* A running lease is never handed to another holder.
THEOREM LeasesAreExclusive == Spec => LeaseIsExclusive
  <1> DEFINE Kept(id, h) ==
        /\ Stored(id)
        /\ rows[id].status = "leased"
        /\ rows[id].holder = h
        /\ rows[id].expires > clock
        /\ rows'[id].status = "leased"
        => rows'[id].holder = h
  <1>1. StoreInv /\ [Next]_storeVars
          => [\A id \in RequestId, h \in Holder : Kept(id, h)]_storeVars
    <2> SUFFICES ASSUME StoreInv, Next, NEW id \in RequestId, NEW h \in Holder,
                        Stored(id), rows[id].status = "leased",
                        rows[id].holder = h, rows[id].expires > clock,
                        rows'[id].status = "leased"
                 PROVE  rows'[id].holder = h
      BY DEF storeVars
    <2>1. ASSUME rows'[id] = rows[id] PROVE rows'[id].holder = h
      BY <2>1
    <2>2. ASSUME NEW r \in Request, CreateRequest(r)
          PROVE  rows'[id] = rows[id]
      BY <2>2 DEF CreateRequest, Stored, StoreInv, TypeOK
    <2>3. ASSUME NEW i \in RequestId, NEW g \in Holder, NEW now \in 0..clock,
                 NEW d \in Duration, AcquireLease(i, g, now, d)
          PROVE  rows'[id].holder = h
      <3>1. clock \in Nat /\ now \in Nat /\ now <= clock
        BY DEF StoreInv, TypeOK
      <3>2. CASE i # id
        BY <2>1, <2>3, <3>1, <3>2, AcquiredRow
      <3>3. CASE i = id
        <4>1. rows[id].expires \in Nat /\ rows[id].expires # None
          BY StoredIsRow, StoreAssumption DEF StoreInv, EveryRowDecodes,
             RowDecodes
        <4>2. LeaseActive(rows[id], now)
          BY <3>1, <4>1 DEF LeaseActive
        <4>3. g = h
          BY <2>3, <3>3, <4>2 DEF AcquireLease, LeaseOutcome
        <4> QED
          BY <2>3, <3>1, <3>3, <4>3, AcquiredRow
      <3> QED
        BY <3>2, <3>3
    <2>4. ASSUME NEW r \in Request, NEW g \in Holder, NEW now \in 0..clock,
                 NEW d \in Duration, ReofferExpired(r.job, g, now, d)
          PROVE  rows'[id].holder = h
      BY <2>3, <2>4 DEF ReofferExpired
    <2>5. ASSUME NEW i \in RequestId,
                 \/ MarkRejected(i)
                 \/ \E result \in Result : result.id = i /\ MarkAccepted(result)
          PROVE  rows'[id] = rows[id]
      BY <2>5, ClosedRow
    <2>6. ASSUME NEW result \in Result, MarkAccepted(result)
          PROVE  rows'[id] = rows[id]
      <3>1. result.id \in RequestId
        BY <2>6 DEF MarkAccepted, Live, Stored
      <3> QED
        BY <2>5, <2>6, <3>1
    <2>7. ASSUME NEW i \in RequestId, ReleaseLease(i)
          PROVE  rows'[id] = rows[id]
      <3> DEFINE row == [rows[i] EXCEPT !.status = "pending", !.holder = None,
                                        !.expires = None]
      <3>1. rows[i] \in Row
        BY <2>7, StoredIsRow DEF ReleaseLease, StoreInv
      <3>2. rows' = [rows EXCEPT ![i] = row]
        BY <2>7 DEF ReleaseLease
      <3>3. row.status = "pending"
        BY <3>1 DEF Row
      <3> HIDE DEF row
      <3> QED
        BY <3>2, <3>3 DEF StoreInv, TypeOK
    <2>8. CASE Tick
      BY <2>1, <2>8 DEF Tick
    <2> QED
      BY <2>1, <2>2, <2>3, <2>4, <2>5, <2>6, <2>7, <2>8 DEF Next, UsedNext
  <1> QED
    BY <1>1, StoreInvariant, PTL DEF Spec, LeaseIsExclusive
============================================================================
