------------------------- MODULE SemanticWorkStore -------------------------
(***************************************************************************)
(* The local store of semantic work (semantic_work_persistence.py): one    *)
(* SQLite table of requests for work a language model does, each leased to *)
(* one executor at a time and finally accepted with the envelope of its    *)
(* result, or rejected.  Every public operation is one BEGIN IMMEDIATE     *)
(* transaction, so one action here; an operation that answers with a       *)
(* failure changes nothing, and the operators named ...Outcome say which   *)
(* answer the code gives.  Executors race each other and the clock.        *)
(*                                                                         *)
(* A workflow belongs to one job, so a request names the job only; its     *)
(* input references, its creation time and the diagnostics are left out.   *)
(* Requests are created without a lease, as semantic_operations.py creates *)
(* them.                                                                   *)
(***************************************************************************)
EXTENDS Integers, FiniteSets

CONSTANTS
  None,      \* Python's None
  RequestId, \* ids of requests
  Request,   \* requests an application may create
  Result,    \* envelopes of results an executor may submit
  Holder,    \* lease holders
  Duration,  \* lengths of a lease
  MaxTime    \* bound on the clock

Row == [request: Request,
        status: {"pending", "leased", "accepted", "rejected"},
        holder: Holder \cup {None},
        expires: Nat \cup {None},
        result: Result \cup {None}]

ASSUME StoreAssumption ==
  /\ None \notin Row \cup Holder \cup Nat \cup Result
  /\ Duration \subseteq Nat \ {0}
  /\ MaxTime \in Nat
  /\ \A r \in Request : r.id \in RequestId

VARIABLES
  rows,   \* table semantic_work_requests, by request id
  clock,  \* the machine's clock
  told    \* the expiry in the leased request a holder was last answered

storeVars == <<rows, clock, told>>

Stored(id) == id \in RequestId /\ rows[id] # None

Live(id) == Stored(id) /\ rows[id].status \in {"pending", "leased"}

\* _is_lease_active: strictly before the expiry.
SlipLeaseActive(row, now) == row.expires # None /\ now + 1 < row.expires

LeaseActive(row, now) == row.expires # None /\ now < row.expires

OperationTaken(r) ==
  \E id \in RequestId \ {r.id} :
     Stored(id) /\ rows[id].request.operation = r.operation

SlipRevisionTaken(r) ==
  \E id \in RequestId \ {r.id} :
     /\ Stored(id)
     /\ rows[id].status = "pending"
     /\ rows[id].request.job = r.job
     /\ rows[id].request.revision = r.revision

RevisionTaken(r) ==
  \E id \in RequestId \ {r.id} :
     /\ Live(id)
     /\ rows[id].request.job = r.job
     /\ rows[id].request.revision = r.revision

----------------------------------------------------------------------------
(* What an operation answers: "ok", or the code of the diagnostic.         *)

\* Against a stored row the request must be what the row decodes to, its
\* lease included: an accepted row decodes to its envelope.
CreateOutcome(r) ==
  CASE Stored(r.id) ->
         IF /\ rows[r.id].status # "accepted"
            /\ rows[r.id].request = r
            /\ rows[r.id].expires = None
         THEN "ok" ELSE "immutable_identity_conflict"
    [] OperationTaken(r) /\ ~Stored(r.id) -> "operation_identity_conflict"
    [] RevisionTaken(r) /\ ~OperationTaken(r) /\ ~Stored(r.id) ->
         "request_identity_conflict"
    [] OTHER -> "ok"

\* An accepted row decodes to an envelope, which is not a request, before
\* its status is looked at.
LeaseOutcome(id, h, now) ==
  IF ~Stored(id) THEN "request_not_found"
  ELSE CASE rows[id].status = "accepted" -> "stored_request_invalid"
         [] rows[id].status = "rejected" -> "stale_revision"
         [] rows[id].status = "pending" -> "ok"
         [] rows[id].status = "leased" ->
              IF LeaseActive(rows[id], now) /\ rows[id].holder # h
              THEN "lease_conflict" ELSE "ok"

Names(result, row) == /\ result.kind = row.request.kind
                      /\ result.operation = row.request.operation
                      /\ result.revision = row.request.revision

\* The lease is not looked at: whoever holds the result may hand it in.
AcceptOutcome(result) ==
  IF ~Stored(result.id) THEN "request_not_found"
  ELSE IF /\ Names(result, rows[result.id])
          /\ \/ Live(result.id)
             \/ rows[result.id].result = result
       THEN "ok" ELSE "immutable_identity_conflict"

----------------------------------------------------------------------------
Init == /\ rows = [id \in RequestId |-> None]
        /\ clock = 0
        /\ told = [h \in Holder |-> [id \in RequestId |-> 0]]

\* create_request; a repeat of a request that is there changes nothing.
CreateRequest(r) ==
  /\ CreateOutcome(r) = "ok"
  /\ ~Stored(r.id)
  /\ rows' = [rows EXCEPT ![r.id] =
                [request |-> r, status |-> "pending", holder |-> None,
                 expires |-> None, result |-> None]]
  /\ UNCHANGED <<clock, told>>

\* acquire_lease: the caller read the clock some time before the call.
AcquireLease(id, h, now, d) ==
  /\ LeaseOutcome(id, h, now) = "ok"
  /\ rows' = [rows EXCEPT ![id] = [@ EXCEPT !.status = "leased", !.holder = h,
                                            !.expires = now + d]]
  /\ told' = [told EXCEPT ![h][id] = now + d]
  /\ UNCHANGED clock

\* reoffer_expired: of the one live request of a job, when no lease of it is
\* active.
ReofferExpired(job, h, now, d) ==
  \E id \in RequestId :
    /\ {i \in RequestId : Live(i) /\ rows[i].request.job = job} = {id}
    /\ ~LeaseActive(rows[id], now)
    /\ AcquireLease(id, h, now, d)

SlipMarkAccepted(result) ==
  /\ AcceptOutcome(result) = "ok"
  /\ Live(result.id)
  /\ rows' = [rows EXCEPT ![result.id] =
                [@ EXCEPT !.status = "accepted", !.result = result]]
  /\ UNCHANGED <<clock, told>>

\* mark_accepted without the comparison with the envelope that is stored.
SlipAcceptAgain(result) ==
  /\ Stored(result.id)
  /\ Names(result, rows[result.id])
  /\ rows' = [rows EXCEPT ![result.id] =
                [@ EXCEPT !.status = "accepted", !.holder = None,
                          !.expires = None, !.result = result]]
  /\ UNCHANGED <<clock, told>>

\* mark_accepted; the repeat of an accepted envelope changes nothing.
MarkAccepted(result) ==
  /\ AcceptOutcome(result) = "ok"
  /\ Live(result.id)
  /\ rows' = [rows EXCEPT ![result.id] =
                [@ EXCEPT !.status = "accepted", !.holder = None,
                          !.expires = None, !.result = result]]
  /\ UNCHANGED <<clock, told>>

\* mark_rejected: the lease columns stay.
MarkRejected(id) ==
  /\ Live(id)
  /\ rows' = [rows EXCEPT ![id] = [@ EXCEPT !.status = "rejected"]]
  /\ UNCHANGED <<clock, told>>

\* release_lease: any row that decodes to a request becomes pending.
ReleaseLease(id) ==
  /\ Stored(id)
  /\ rows[id].status # "accepted"
  /\ rows' = [rows EXCEPT ![id] = [@ EXCEPT !.status = "pending",
                                            !.holder = None,
                                            !.expires = None]]
  /\ UNCHANGED <<clock, told>>

Tick == /\ clock < MaxTime
        /\ clock' = clock + 1
        /\ UNCHANGED <<rows, told>>

\* The operations the program uses: nothing in course_compiler/ calls
\* release_lease.
UsedNext ==
  \/ \E r \in Request : CreateRequest(r)
  \/ \E id \in RequestId, h \in Holder, now \in 0..clock, d \in Duration :
       AcquireLease(id, h, now, d)
  \/ \E r \in Request, h \in Holder, now \in 0..clock, d \in Duration :
       ReofferExpired(r.job, h, now, d)
  \/ \E result \in Result : MarkAccepted(result)
  \/ \E id \in RequestId : MarkRejected(id)
  \/ Tick

Next == UsedNext \/ \E id \in RequestId : ReleaseLease(id)

Spec == Init /\ [][Next]_storeVars

UsedSpec == Init /\ [][UsedNext]_storeVars

----------------------------------------------------------------------------
(* Properties.                                                             *)

\* Every row decodes (_decode_row): the lease columns agree with each other
\* and with the request, an accepted row has the envelope of its own request
\* and no lease.  A row that does not decode would block its revision forever,
\* for every operation on it fails and create_request counts it as live.
RowDecodes(id, row) ==
  /\ row.request.id = id
  /\ CASE row.status = "pending" -> row.holder = None /\ row.expires = None
       [] row.status = "leased" -> row.holder # None /\ row.expires # None
       [] row.status = "accepted" -> /\ row.holder = None
                                     /\ row.expires = None
                                     /\ row.result # None
                                     /\ row.result.id = id
                                     /\ Names(row.result, row)
       [] OTHER -> TRUE

TypeOK ==
  /\ rows \in [RequestId -> Row \cup {None}]
  /\ clock \in 0..MaxTime
  /\ told \in [Holder -> [RequestId -> Nat]]

EveryRowDecodes == \A id \in RequestId : Stored(id) => RowDecodes(id, rows[id])

\* The column operation_id is UNIQUE: no insertion ever meets the constraint,
\* which would answer persistence_unavailable instead of a conflict.
OperationsAreUnique ==
  \A i, j \in RequestId :
     /\ Stored(i)
     /\ Stored(j)
     /\ rows[i].request.operation = rows[j].request.operation
     => i = j

\* A job has one live request for a revision (load_current_for_job fails
\* closed on two, and the job could then never be scheduled again), however
\* creations, rejections, expiries and re-offers interleave.
OneLivePerRevision ==
  \A i, j \in RequestId :
     /\ Live(i)
     /\ Live(j)
     /\ rows[i].request.job = rows[j].request.job
     /\ rows[i].request.revision = rows[j].request.revision
     => i = j

\* Of two executors at most one holds, by what it was last answered, a lease
\* that has not run out: not even one that asked with an old reading of the
\* clock, or whose own lease was taken over and who asked again.
OneExecutor ==
  \A id \in RequestId, g, h \in Holder :
     told[g][id] > clock /\ told[h][id] > clock => g = h

\* An accepted envelope is final, and a request keeps the identity it was
\* created with: after an expiry the next executor gets the same request.
AcceptedIsFinal ==
  [][\A id \in RequestId :
       Stored(id) => /\ rows'[id] # None
                     /\ rows'[id].request = rows[id].request
                     /\ rows[id].status = "accepted" => rows'[id] = rows[id]
    ]_storeVars

\* An active lease is neither taken over nor cut short by another holder, and
\* only the end of the request or its release ends it.
LeaseIsExclusive ==
  [][\A id \in RequestId, h \in Holder :
       /\ Stored(id)
       /\ rows[id].status = "leased"
       /\ rows[id].holder = h
       /\ rows[id].expires > clock
       /\ rows'[id].status = "leased"
       => rows'[id].holder = h]_storeVars

============================================================================
