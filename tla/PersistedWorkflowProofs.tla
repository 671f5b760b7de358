---------------------- MODULE PersistedWorkflowProofs ----------------------
(***************************************************************************)
(* Proofs about PersistedWorkflow, for every set of callers, requests,     *)
(* references and associations and every number of outages.                *)
(*                                                                         *)
(* The stores only grow: that is proved first, of every step, and carries  *)
(* the rest.  The inductive invariant says what a call may rely on at each *)
(* of its steps, although the other callers write between them: what it    *)
(* has loaded stays loadable, the snapshot it has read is a beginning of   *)
(* the one that is stored, its draft extends what it has read.             *)
(***************************************************************************)
EXTENDS PersistedWorkflow, TLAPS

InReceipts(q, s) == \E i \in DOMAIN s.receipts : s.receipts[i] = q

\* s is a beginning of t.
Begins(s, t) ==
  /\ Len(s.receipts) <= Len(t.receipts)
  /\ \A i \in 1..Len(s.receipts) : t.receipts[i] = s.receipts[i]

\* One line of decisions, as in ReceiptsAreLinear.
IsLine(s) ==
  LET rs == s.receipts IN
  /\ rs # <<>>
  /\ rs[1].kind = "initialize"
  /\ \A i \in DOMAIN rs : i > 1 => /\ rs[i].kind = "transition"
                                   /\ rs[i].expected = i - 2
  /\ \A i, j \in DOMAIN rs : rs[i].op = rs[j].op => i = j

\* The references cover the dependencies of every receipt.
Covers(s) == \A i \in DOMAIN s.receipts : s.receipts[i].deps \subseteq s.refs

IsSound(s) == s \in Snapshot /\ IsLine(s) /\ Covers(s)

AllLoad(refs) == \A r \in refs : Loads(r)

Kind(k, kind) == k.request.kind = kind

\* What the steps of a call rely on.
CallIsSound(k) ==
  /\ k.at \notin {"idle", "association", "workflow", "content"} =>
       k.request \in Request
  /\ k.at # "idle" => k.outcome = None /\ k.association \in Association
  /\ k.at = "content" =>
       /\ Kind(k, "initialize") \/ (IsSound(k.base) /\ AllLoad(k.base.refs))
       /\ Kind(k, "read") \/ AllLoad(k.request.deps \ k.todo)
  /\ k.at \in {"document", "look", "write"} =>
       /\ IsSound(k.draft)
       /\ InReceipts(k.request, k.draft)
       /\ AllLoad(IF k.at = "document" THEN k.draft.refs \ {k.request.document}
                                       ELSE k.draft.refs)
  /\ k.at = "document" => k.request.document # None
  /\ k.at = "write" =>
       /\ Storable(k.seen, k.draft)
       /\ k.seen # None => snapshot # None /\ Begins(k.seen, snapshot)
  /\ k.at = "associate" => Receipted(k.request)

\* A transition that was applied when its call began stays on the way to the
\* answer "repeat".
RepeatIsOnItsWay(k) ==
  k.known /\ Kind(k, "transition") =>
    /\ k.at \in {"idle", "association", "workflow", "content"}
    /\ k.at # "idle" => Receipted(k.request) /\ k.association \in associations
    /\ k.at = "content" =>
         /\ InReceipts(k.request, k.base)
         /\ k.todo \subseteq k.request.deps
    /\ k.outcome # None => k.outcome \in {"repeat", "unavailable"}

SnapshotIsSound ==
  snapshot # None => IsSound(snapshot) /\ AllLoad(snapshot.refs)

PersistedInv ==
  /\ TypeOK
  /\ SnapshotIsSound
  /\ AnswersAreKept
  /\ \A c \in Caller : CallIsSound(calls[c]) /\ RepeatIsOnItsWay(calls[c])

-----------------------------------------------------------------------------
(* Content                                                                 *)

\* The stores of references.
LEMMA ReferenceStores ==
  ASSUME NEW r \in Reference
  PROVE  r.store \in {"source", "artifact", "policy", "document"} /\ r # None
  BY PersistedAssumption DEF Store

\* A row of a new id leaves every reference loadable that was: an id has at most
\* the row it was loaded by.
LEMMA SaveByIdKeeps ==
  ASSUME content \subseteq Reference, NEW s \in Reference, SaveById(s)
  PROVE  /\ content \subseteq content' /\ content' \subseteq Reference
         /\ \A r \in Reference : Loads(r) => Loads(r)'
  <1>1. content \subseteq content' /\ content' \subseteq Reference
    BY DEF SaveById
  <1>2. ASSUME NEW r \in Reference, LoadsById(r)
        PROVE  LoadsById(r)'
    <2>1. CASE RowsOfId(s) = {}
      <3>1. r \in content /\ ~(r.store = s.store /\ r.id = s.id)
        BY <1>2, <2>1 DEF LoadsById, RowsOfId
      <3> QED
        BY <1>2, <2>1, <3>1 DEF LoadsById, RowsOfId, SaveById
    <2>2. CASE RowsOfId(s) # {}
      BY <1>2, <2>2 DEF LoadsById, RowsOfId, SaveById
    <2> QED
      BY <2>1, <2>2
  <1> QED
    BY <1>1, <1>2 DEF Loads, LoadsPolicy, LoadsLecture

\* Policies and documents have no row of sources or artifacts.
LEMMA SaveByReferenceKeeps ==
  ASSUME content \subseteq Reference,
         NEW s \in Reference, s.store \in {"policy", "document"},
         content' = content \cup {s}
  PROVE  /\ content' \subseteq Reference
         /\ \A r \in Reference : Loads(r) => Loads(r)'
         /\ Loads(s)'
  <1>1. ASSUME NEW r \in Reference, r.store \in {"source", "artifact"}
        PROVE  RowsOfId(r)' = RowsOfId(r)
    BY <1>1 DEF RowsOfId
  <1>2. Loads(s)'
    BY DEF Loads, LoadsPolicy, LoadsLecture
  <1> QED
    BY <1>1, <1>2 DEF Loads, LoadsById, LoadsPolicy, LoadsLecture

-----------------------------------------------------------------------------
(* Growth                                                                  *)

StoreTypes ==
  /\ content \subseteq Reference
  /\ associations \subseteq Association
  /\ snapshot \in Snapshot \cup {None}
  /\ answered \subseteq Request
  /\ outages \in 0..MaxOutages

\* What no step takes back.
Grows ==
  /\ \A r \in Reference : Loads(r) => Loads(r)'
  /\ associations \subseteq associations'
  /\ snapshot # None => snapshot' # None /\ Begins(snapshot, snapshot')

LEMMA BeginsItself ==
  ASSUME NEW s \in Snapshot
  PROVE  Begins(s, s)
  BY DEF Begins

LEMMA BeginsOn ==
  ASSUME NEW s \in Snapshot, NEW t \in Snapshot, NEW u \in Snapshot,
         Begins(s, t), Begins(t, u)
  PROVE  Begins(s, u)
  <1>1. /\ Len(s.receipts) \in Nat /\ Len(t.receipts) \in Nat
        /\ Len(u.receipts) \in Nat
    BY DEF Snapshot
  <1> QED
    BY <1>1 DEF Begins

\* A receipt stays a receipt.
LEMMA ReceiptStays ==
  ASSUME NEW s \in Snapshot, NEW t \in Snapshot, Begins(s, t),
         NEW q, InReceipts(q, s)
  PROVE  InReceipts(q, t)
  BY DEF InReceipts, Begins, Snapshot

\* A snapshot that is next begins with the one it replaces.
LEMMA NextBegins ==
  ASSUME NEW s \in Snapshot, NEW t \in Snapshot, IsNext(s, t)
  PROVE  Begins(s, t)
  <1>1. /\ Len(s.receipts) \in Nat
        /\ Len(t.receipts) = Len(s.receipts) + 1
        /\ t.receipts \in Seq(Request)
    BY DEF Snapshot, IsNext
  <1>2. \A i \in 1..Len(s.receipts) :
           SubSeq(t.receipts, 1, Len(s.receipts))[i] = t.receipts[i]
    BY <1>1
  <1> QED
    BY <1>1, <1>2 DEF Begins, IsNext

\* Two snapshots of the same revision, one of which begins the other.
LEMMA SameRevision ==
  ASSUME NEW s \in Snapshot, NEW t \in Snapshot, Begins(s, t),
         Revision(s) = Revision(t)
  PROVE  s.receipts = t.receipts
  <1>1. /\ s.receipts \in Seq(Request) /\ t.receipts \in Seq(Request)
        /\ Len(s.receipts) = Len(t.receipts)
    BY DEF Snapshot, Revision
  <1> QED
    BY <1>1 DEF Begins

\* The request is a receipt of the stored snapshot.
LEMMA ReceiptedIs ==
  ASSUME NEW q
  PROVE  Receipted(q) <=> snapshot # None /\ InReceipts(q, snapshot)
  BY DEF Receipted, InReceipts

\* What a call relies on stays so, whatever the other callers do.
LEMMA CallGoesOn ==
  ASSUME StoreTypes, StoreTypes', Grows, NEW k \in Call,
         CallIsSound(k), RepeatIsOnItsWay(k)
  PROVE  CallIsSound(k)' /\ RepeatIsOnItsWay(k)'
  <1>1. ASSUME NEW q, Receipted(q)
        PROVE  Receipted(q)'
    <2>1. snapshot # None /\ InReceipts(q, snapshot)
      BY <1>1, ReceiptedIs
    <2>2. snapshot' # None /\ snapshot \in Snapshot /\ snapshot' \in Snapshot
                           /\ Begins(snapshot, snapshot')
      BY <2>1 DEF StoreTypes, Grows
    <2>3. InReceipts(q, snapshot')
      BY <2>1, <2>2, ReceiptStays
    <2> QED
      BY <2>2, <2>3 DEF Receipted, InReceipts
  <1>2. ASSUME NEW refs \in SUBSET Reference, AllLoad(refs)
        PROVE  AllLoad(refs)'
    BY <1>2 DEF AllLoad, Grows
  <1>3. ASSUME NEW s \in Snapshot, snapshot # None, Begins(s, snapshot)
        PROVE  snapshot' # None /\ Begins(s, snapshot')
    BY <1>3, BeginsOn DEF StoreTypes, Grows
  <1>4. /\ k.todo \subseteq Reference
        /\ k.request \in Request => k.request.deps \subseteq Reference
        /\ k.request.deps \subseteq Reference
        /\ k.seen \in Snapshot \cup {None}
    BY PersistedAssumption DEF Call, IsRequest, ReadRequest
  <1>5. ASSUME NEW s, IsSound(s)
        PROVE  s.refs \subseteq Reference
    BY <1>5 DEF IsSound, Snapshot
  <1>6. CallIsSound(k)'
    <2>1. k.at = "content" /\ ~Kind(k, "initialize") => AllLoad(k.base.refs)'
      BY <1>2, <1>5 DEF CallIsSound
    <2>2. k.at = "content" /\ ~Kind(k, "read") =>
            AllLoad(k.request.deps \ k.todo)'
      BY <1>2, <1>4 DEF CallIsSound
    <2>3. k.at \in {"document", "look", "write"} =>
            AllLoad(IF k.at = "document"
                      THEN k.draft.refs \ {k.request.document}
                      ELSE k.draft.refs)'
      BY <1>2, <1>5 DEF CallIsSound
    <2>4. k.at = "write" /\ k.seen # None =>
            snapshot' # None /\ Begins(k.seen, snapshot')
      BY <1>3, <1>4 DEF CallIsSound
    <2>5. k.at = "associate" => Receipted(k.request)'
      BY <1>1 DEF CallIsSound
    <2> QED
      BY <2>1, <2>2, <2>3, <2>4, <2>5 DEF CallIsSound
  <1>7. RepeatIsOnItsWay(k)'
    BY <1>1 DEF RepeatIsOnItsWay, Grows
  <1> QED
    BY <1>6, <1>7

\* One call goes on while the stores grow.
LEMMA OneCall ==
  ASSUME PersistedInv, Grows, StoreTypes', SnapshotIsSound', AnswersAreKept',
         NEW c \in Caller, NEW k \in Call, Proceed(c, k),
         CallIsSound(k)', RepeatIsOnItsWay(k)'
  PROVE  PersistedInv'
  <1>1. calls \in [Caller -> Call] /\ calls' = [calls EXCEPT ![c] = k]
    BY DEF PersistedInv, TypeOK, Proceed
  <1>2. TypeOK'
    BY <1>1 DEF TypeOK, StoreTypes
  <1>3. ASSUME NEW d \in Caller
        PROVE  (CallIsSound(calls[d]) /\ RepeatIsOnItsWay(calls[d]))'
    <2>1. CASE d = c
      BY <1>1, <2>1
    <2>2. CASE d # c
      <3>1. calls'[d] = calls[d] /\ calls[d] \in Call
        BY <1>1, <2>2
      <3>2. CallIsSound(calls[d]) /\ RepeatIsOnItsWay(calls[d]) /\ StoreTypes
        BY DEF PersistedInv, TypeOK, StoreTypes
      <3>3. \A e \in Call : CallIsSound(e) /\ RepeatIsOnItsWay(e) =>
                              CallIsSound(e)' /\ RepeatIsOnItsWay(e)'
        BY <3>2, CallGoesOn
      <3> QED
        BY <3>1, <3>2, <3>3
    <2> QED
      BY <2>1, <2>2
  <1> QED
    BY <1>2, <1>3 DEF PersistedInv

\* A step that leaves the stores as they are.
LEMMA StoresStay ==
  ASSUME PersistedInv, UNCHANGED Stores
  PROVE  /\ Grows /\ SnapshotIsSound'
         /\ answered' = answered => AnswersAreKept'
         /\ answered' = answered /\ outages' \in 0..MaxOutages => StoreTypes'
         /\ \A k : CallIsSound(k) => CallIsSound(k)'
         /\ \A k : RepeatIsOnItsWay(k) => RepeatIsOnItsWay(k)'
  <1> USE DEF PersistedInv, Stores
  <1>1. \A r : Loads(r)' <=> Loads(r)
    BY DEF Loads, LoadsById, LoadsPolicy, LoadsLecture, RowsOfId
  <1>2. \A q : Receipted(q)' <=> Receipted(q)
    BY DEF Receipted
  <1>3. Grows
    BY <1>1, BeginsItself DEF Grows, TypeOK
  <1>4. SnapshotIsSound'
    BY <1>1 DEF SnapshotIsSound, AllLoad
  <1>5. answered' = answered => AnswersAreKept'
    BY <1>2 DEF AnswersAreKept
  <1>6. answered' = answered /\ outages' \in 0..MaxOutages => StoreTypes'
    BY DEF StoreTypes, TypeOK
  <1>7. \A k : CallIsSound(k) => CallIsSound(k)'
    BY <1>1, <1>2 DEF CallIsSound, AllLoad
  <1>8. \A k : RepeatIsOnItsWay(k) => RepeatIsOnItsWay(k)'
    BY <1>2 DEF RepeatIsOnItsWay
  <1> QED
    BY <1>3, <1>4, <1>5, <1>6, <1>7, <1>8

-----------------------------------------------------------------------------
(* Calls                                                                   *)

Outcomes ==
  {"advanced", "repeat", "rejected", "failed", "missing", "not_found",
   "unavailable", "reopened"}

\* A call that only reads.
LEMMA CallReads ==
  ASSUME PersistedInv, UNCHANGED <<Stores, answered, outages>>,
         NEW c \in Caller, NEW k \in Call, Proceed(c, k),
         CallIsSound(k), RepeatIsOnItsWay(k)
  PROVE  PersistedInv'
  <1>1. outages' \in 0..MaxOutages
    BY DEF PersistedInv, TypeOK
  <1> QED
    BY <1>1, StoresStay, OneCall

\* A call of the invariant.
LEMMA CallFacts ==
  ASSUME PersistedInv, NEW c \in Caller
  PROVE  /\ calls[c] \in Call
         /\ CallIsSound(calls[c])
         /\ RepeatIsOnItsWay(calls[c])
         /\ StoreTypes
         /\ calls[c].request \in Request \/ Kind(calls[c], "read")
  <1>1. /\ calls[c] \in Call /\ CallIsSound(calls[c])
        /\ RepeatIsOnItsWay(calls[c]) /\ StoreTypes
    BY DEF PersistedInv, TypeOK, StoreTypes
  <1> QED
    BY <1>1 DEF Call, Kind, ReadRequest

\* A call that has ended.
LEMMA FinishedCall ==
  ASSUME PersistedInv, NEW c \in Caller, NEW outcome \in Outcomes
  PROVE  /\ Finished(c, outcome) \in Call
         /\ Finished(c, outcome).at = "idle"
         /\ Finished(c, outcome).known = calls[c].known
         /\ Finished(c, outcome).request = calls[c].request
         /\ Finished(c, outcome).outcome = outcome
  BY CallFacts DEF Finished, Idle, Call, Outcomes

\* An idle call relies on nothing.
LEMMA IdleIsSound ==
  ASSUME NEW k, k.at = "idle",
         k.known /\ Kind(k, "transition") /\ k.outcome # None
           => k.outcome \in {"repeat", "unavailable"}
  PROVE  /\ CallIsSound(k) /\ RepeatIsOnItsWay(k)
         /\ CallIsSound(k)' /\ RepeatIsOnItsWay(k)'
  BY DEF CallIsSound, RepeatIsOnItsWay

\* A call that is answered without having changed anything.
LEMMA CallIsAnswered ==
  ASSUME PersistedInv, UNCHANGED Stores, outages' \in 0..MaxOutages,
         NEW c \in Caller, NEW outcome \in Outcomes \ {"advanced"},
         Answer(c, outcome),
         calls[c].known /\ Kind(calls[c], "transition")
           => outcome \in {"repeat", "unavailable"}
  PROVE  PersistedInv'
  <1> DEFINE k == Finished(c, outcome)
  <1>1. k \in Call /\ CallIsSound(k) /\ RepeatIsOnItsWay(k)
    BY FinishedCall, IdleIsSound DEF Kind
  <1>2. Proceed(c, k) /\ answered' = answered
    BY DEF Answer
  <1> HIDE DEF k
  <1> QED
    BY <1>1, <1>2, StoresStay, OneCall

\* A call begins: an initialisation with what it names, any other with its
\* association.
LEMMA BeginKeeps ==
  ASSUME PersistedInv, NEW c \in Caller, NEW q \in Request \cup {ReadRequest},
         NEW a \in Association, Begin(c, q, a)
  PROVE  PersistedInv'
  <1> DEFINE known == Receipted(q) /\ a \in associations
             k == [Idle EXCEPT
                     !.at = IF q.kind = "initialize" THEN "content"
                                                     ELSE "association",
                     !.request = q,
                     !.association = a,
                     !.todo = IF q.kind = "initialize" THEN q.deps ELSE {},
                     !.known = known]
  <1>1. q.deps \subseteq Reference
    BY PersistedAssumption DEF IsRequest, ReadRequest
  <1>2. known \in BOOLEAN
    <2>1. CASE known
      BY <2>1
    <2>2. CASE ~known
      BY <2>2
    <2> QED
      BY <2>1, <2>2
  <1>3. Proceed(c, k) /\ UNCHANGED <<Stores, answered, outages>>
    BY DEF Begin
  <1>4. /\ k.request = q /\ k.association = a /\ k.outcome = None
        /\ k.known = known
        /\ k.at = IF q.kind = "initialize" THEN "content" ELSE "association"
        /\ k.todo = IF q.kind = "initialize" THEN q.deps ELSE {}
    BY DEF Idle
  <1>5. k \in Call
    BY <1>1, <1>2 DEF Idle, Call
  <1>6. CallIsSound(k)
    BY <1>4 DEF CallIsSound, Kind, AllLoad
  <1>7. RepeatIsOnItsWay(k)
    <2>1. CASE known
      BY <1>4, <2>1 DEF RepeatIsOnItsWay, Kind
    <2>2. CASE ~known
      <3>1. k.known = FALSE
        <4>1. known = FALSE
          BY <2>2
        <4> HIDE DEF known, k
        <4> QED
          BY ONLY <1>4, <4>1
      <3> QED
        BY <3>1 DEF RepeatIsOnItsWay
    <2> QED
      BY <2>1, <2>2
  <1> HIDE DEF k
  <1> QED
    BY <1>3, <1>5, <1>6, <1>7, CallReads

\* An association that is there is found.
LEMMA LoadAssociationKeeps ==
  ASSUME PersistedInv, NEW c \in Caller, LoadAssociation(c)
  PROVE  PersistedInv'
  <1>1. CASE calls[c].association \in associations
    <2> DEFINE k == [calls[c] EXCEPT !.at = "workflow"]
    <2>1. k \in Call /\ CallIsSound(k) /\ RepeatIsOnItsWay(k)
      BY ZenonT(60), CallFacts
      DEF LoadAssociation, Call, CallIsSound, RepeatIsOnItsWay, Kind
    <2>2. Proceed(c, k) /\ UNCHANGED <<Stores, answered, outages>>
      BY <1>1 DEF LoadAssociation
    <2> QED
      BY <2>1, <2>2, CallReads
  <1>2. CASE calls[c].association \notin associations
    <2>1. /\ Answer(c, "not_found") /\ UNCHANGED <<Stores, outages>>
          /\ outages' \in 0..MaxOutages
      BY <1>2 DEF LoadAssociation, PersistedInv, TypeOK
    <2>2. ~(calls[c].known /\ Kind(calls[c], "transition"))
      BY <1>2, CallFacts DEF LoadAssociation, RepeatIsOnItsWay
    <2> QED
      BY <2>1, <2>2, CallIsAnswered DEF Outcomes
  <1> QED
    BY <1>1, <1>2

\* The stored snapshot, which has the receipt of a repeat.
LEMMA LoadWorkflowKeeps ==
  ASSUME PersistedInv, NEW c \in Caller, LoadWorkflow(c)
  PROVE  PersistedInv'
  <1>1. CASE snapshot = None
    <2>1. /\ Answer(c, "not_found") /\ UNCHANGED <<Stores, outages>>
          /\ outages' \in 0..MaxOutages
      BY <1>1 DEF LoadWorkflow, PersistedInv, TypeOK
    <2>2. ~(calls[c].known /\ Kind(calls[c], "transition"))
      BY <1>1, CallFacts DEF LoadWorkflow, RepeatIsOnItsWay, Receipted
    <2> QED
      BY <2>1, <2>2, CallIsAnswered DEF Outcomes
  <1>2. CASE snapshot # None
    <2> DEFINE k == [calls[c] EXCEPT
                       !.at = "content",
                       !.base = snapshot,
                       !.todo = IF calls[c].request.kind = "read"
                                  THEN snapshot.refs ELSE calls[c].request.deps]
    <2>1. IsSound(snapshot) /\ AllLoad(snapshot.refs)
      BY <1>2 DEF PersistedInv, SnapshotIsSound
    <2>2. calls[c].request.deps \subseteq Reference
      BY CallFacts, PersistedAssumption DEF Call, IsRequest, ReadRequest
    <2>3. k \in Call
      BY ZenonT(60), <2>1, <2>2, CallFacts DEF Call, IsSound, Snapshot
    <2>4. /\ k.at = "content" /\ k.base = snapshot
          /\ k.request = calls[c].request /\ k.known = calls[c].known
          /\ k.association = calls[c].association
          /\ k.outcome = calls[c].outcome
          /\ ~Kind(k, "read") => k.todo = calls[c].request.deps
      BY CallFacts DEF Call, Kind
    <2>5. CallIsSound(k)
      BY <2>1, <2>4, CallFacts DEF LoadWorkflow, CallIsSound, AllLoad
    <2>6. RepeatIsOnItsWay(k)
      BY <2>4, CallFacts, ReceiptedIs DEF LoadWorkflow, RepeatIsOnItsWay, Kind
    <2>7. Proceed(c, k) /\ UNCHANGED <<Stores, answered, outages>>
      BY <1>2 DEF LoadWorkflow
    <2> HIDE DEF k
    <2> QED
      BY <2>3, <2>5, <2>6, <2>7, CallReads
  <1> QED
    BY <1>1, <1>2

\* A dependency of a repeat is a reference of the snapshot that has its receipt.
LEMMA RepeatLoads ==
  ASSUME PersistedInv, NEW c \in Caller, calls[c].at = "content",
         calls[c].known, Kind(calls[c], "transition"), NEW r \in calls[c].todo
  PROVE  Loads(r)
  <1>1. /\ InReceipts(calls[c].request, calls[c].base)
        /\ calls[c].todo \subseteq calls[c].request.deps
    BY CallFacts DEF RepeatIsOnItsWay
  <1>2. IsSound(calls[c].base) /\ AllLoad(calls[c].base.refs)
    BY CallFacts DEF CallIsSound, Kind
  <1>3. calls[c].request.deps \subseteq calls[c].base.refs
    BY <1>1, <1>2 DEF InReceipts, IsSound, Covers
  <1> QED
    BY <1>1, <1>2, <1>3 DEF AllLoad

\* One more reference is loaded, or the call ends.
LEMMA LoadContentKeeps ==
  ASSUME PersistedInv, NEW c \in Caller, LoadContent(c)
  PROVE  PersistedInv'
  <1> PICK r \in calls[c].todo :
        /\ UNCHANGED <<Stores, outages>>
        /\ Loads(r) => /\ Proceed(c, [calls[c] EXCEPT !.todo = @ \ {r}])
                       /\ UNCHANGED answered
        /\ ~Loads(r) => Answer(c, "missing")
    BY DEF LoadContent
  <1>0. calls[c].at = "content"
    BY DEF LoadContent
  <1>1. CASE Loads(r)
    <2> DEFINE k == [calls[c] EXCEPT !.todo = @ \ {r}]
    <2>1. k \in Call
      BY CallFacts DEF Call
    <2>2. /\ k.at = "content" /\ k.base = calls[c].base
          /\ k.request = calls[c].request /\ k.known = calls[c].known
          /\ k.association = calls[c].association
          /\ k.outcome = calls[c].outcome
          /\ k.todo = calls[c].todo \ {r}
      BY <1>0, CallFacts DEF Call
    <2>3. CallIsSound(k)
      BY <1>0, <1>1, <2>2, CallFacts DEF CallIsSound, AllLoad, Kind
    <2>4. RepeatIsOnItsWay(k)
      BY <1>0, <2>2, CallFacts DEF RepeatIsOnItsWay, Kind
    <2>5. Proceed(c, k) /\ UNCHANGED <<Stores, answered, outages>>
      BY <1>1
    <2> HIDE DEF k
    <2> QED
      BY <2>1, <2>3, <2>4, <2>5, CallReads
  <1>2. CASE ~Loads(r)
    <2>1. ~(calls[c].known /\ Kind(calls[c], "transition"))
      BY <1>0, <1>2, RepeatLoads
    <2>2. outages' \in 0..MaxOutages
      BY DEF PersistedInv, TypeOK
    <2> QED
      BY <1>2, <2>1, <2>2, CallIsAnswered DEF Outcomes
  <1> QED
    BY <1>1, <1>2

\* A reader answers.
LEMMA FinishReadKeeps ==
  ASSUME PersistedInv, NEW c \in Caller, FinishRead(c)
  PROVE  PersistedInv'
  <1>1. /\ Answer(c, "reopened") /\ UNCHANGED Stores
        /\ outages' \in 0..MaxOutages
        /\ ~Kind(calls[c], "transition")
    BY DEF FinishRead, PersistedInv, TypeOK, Kind
  <1> QED
    BY <1>1, CallIsAnswered DEF Outcomes

\* A call ends between two steps.
LEMMA OutageKeeps ==
  ASSUME PersistedInv, NEW c \in Caller, Outage(c)
  PROVE  PersistedInv'
  <1>1. /\ Answer(c, "unavailable") /\ UNCHANGED Stores
        /\ outages' \in 0..MaxOutages
    BY PersistedAssumption DEF Outage, PersistedInv, TypeOK
  <1> QED
    BY <1>1, CallIsAnswered DEF Outcomes

-----------------------------------------------------------------------------
(* Drafts                                                                  *)

\* Revision zero.
LEMMA InitialIsSound ==
  ASSUME NEW q \in Request, q.kind = "initialize"
  PROVE  IsSound(Initial(q)) /\ InReceipts(q, Initial(q))
  <1>1. q.deps \subseteq Reference
    BY PersistedAssumption DEF IsRequest
  <1>2. /\ Initial(q).receipts = <<q>> /\ Initial(q).refs = q.deps
        /\ Initial(q) \in Snapshot
    BY <1>1 DEF Initial, Snapshot
  <1> QED
    BY <1>2 DEF IsSound, IsLine, Covers, InReceipts

\* A fresh transition extends the line it was decided on.
LEMMA ExtendedIsSound ==
  ASSUME NEW s, IsSound(s), NEW q \in Request, q.kind = "transition", Fresh(s, q)
  PROVE  IsSound(Extended(s, q)) /\ InReceipts(q, Extended(s, q))
  <1> DEFINE t == Extended(s, q)
             n == Len(s.receipts)
  <1>1. /\ s.receipts \in Seq(Request) /\ n \in Nat
        /\ s.refs \subseteq Reference
        /\ Named(q) \subseteq Reference /\ q.deps \subseteq Named(q)
    BY PersistedAssumption DEF IsSound, Snapshot, IsRequest, Named
  <1>2. /\ t.receipts = Append(s.receipts, q)
        /\ t.refs = s.refs \cup Named(q)
    BY DEF Extended
  <1>3. /\ t.receipts \in Seq(Request) /\ Len(t.receipts) = n + 1
        /\ t.receipts[n + 1] = q
        /\ \A i \in 1..n : t.receipts[i] = s.receipts[i]
        /\ DOMAIN t.receipts = 1..(n + 1) /\ DOMAIN s.receipts = 1..n
    BY <1>1, <1>2
  <1>4. t \in Snapshot
    BY <1>1, <1>2, <1>3 DEF Snapshot, Extended
  <1>5. n >= 1 /\ q.expected = n - 1
    BY <1>1 DEF IsSound, IsLine, Fresh, Revision
  <1>6. \A i \in 1..n : s.receipts[i].op # q.op
    BY <1>3 DEF Fresh, Operations
  <1> HIDE DEF t
  <1>7. IsLine(t)
    <2>1. t.receipts # <<>> /\ t.receipts[1].kind = "initialize"
      BY <1>1, <1>3, <1>5 DEF IsSound, IsLine
    <2>2. ASSUME NEW i \in 1..(n + 1), i > 1
          PROVE  /\ t.receipts[i].kind = "transition"
                 /\ t.receipts[i].expected = i - 2
      <3>1. CASE i = n + 1
        BY <1>1, <1>3, <1>5, <3>1
      <3>2. CASE i # n + 1
        <4>1. i \in DOMAIN s.receipts /\ t.receipts[i] = s.receipts[i]
          BY <1>1, <1>3, <3>2
        <4> QED
          BY <2>2, <4>1 DEF IsSound, IsLine
      <3> QED
        BY <3>1, <3>2
    <2>3. ASSUME NEW i \in 1..(n + 1), NEW j \in 1..(n + 1),
                 t.receipts[i].op = t.receipts[j].op
          PROVE  i = j
      <3>1. CASE i \in 1..n /\ j \in 1..n
        BY <1>3, <2>3, <3>1 DEF IsSound, IsLine
      <3>2. CASE i = n + 1 /\ j \in 1..n
        BY <1>3, <1>6, <2>3, <3>2
      <3>3. CASE i \in 1..n /\ j = n + 1
        BY <1>3, <1>6, <2>3, <3>3
      <3>4. CASE i = n + 1 /\ j = n + 1
        BY <3>4
      <3> QED
        BY <1>1, <3>1, <3>2, <3>3, <3>4
    <2> QED
      BY <1>3, <2>1, <2>2, <2>3 DEF IsLine
  <1>8. Covers(t)
    BY <1>1, <1>2, <1>3 DEF IsSound, Covers
  <1>9. InReceipts(q, t)
    BY <1>1, <1>3 DEF InReceipts
  <1> QED
    BY <1>4, <1>7, <1>8, <1>9 DEF IsSound, t

\* An initialisation has loaded what it names.
LEMMA ApplyInitializeKeeps ==
  ASSUME PersistedInv, NEW c \in Caller, ApplyInitialize(c)
  PROVE  PersistedInv'
  <1> DEFINE q == calls[c].request
             k == [calls[c] EXCEPT !.at = "look", !.draft = Initial(q)]
  <1>1. q \in Request /\ q.kind = "initialize"
    BY CallFacts DEF ApplyInitialize, Kind
  <1>2. IsSound(Initial(q)) /\ InReceipts(q, Initial(q))
    BY <1>1, InitialIsSound
  <1>3. AllLoad(Initial(q).refs)
    <2>1. calls[c].at = "content" /\ calls[c].todo = {} /\ ~Kind(calls[c], "read")
      BY <1>1 DEF ApplyInitialize, Kind
    <2>2. AllLoad(q.deps)
      BY <2>1, CallFacts DEF CallIsSound, AllLoad
    <2> QED
      BY <2>2 DEF Initial
  <1>4. k \in Call
    BY <1>2, CallFacts DEF Call, IsSound
  <1>5. /\ k.at = "look" /\ k.request = q /\ k.draft = Initial(q)
        /\ k.outcome = None /\ k.association \in Association /\ ~Kind(k, "transition")
    BY <1>1, CallFacts DEF Call, CallIsSound, ApplyInitialize, Kind
  <1>6. Proceed(c, k) /\ UNCHANGED <<Stores, answered, outages>>
    BY DEF ApplyInitialize
  <1> HIDE DEF k
  <1>7. CallIsSound(k) /\ RepeatIsOnItsWay(k)
    BY <1>1, <1>2, <1>3, <1>5 DEF CallIsSound, RepeatIsOnItsWay
  <1> QED
    BY <1>4, <1>6, <1>7, CallReads

\* A repeat is recognised; what is not fresh is rejected; the rest becomes a
\* draft that extends the snapshot it was decided on.
LEMMA ApplyTransitionKeeps ==
  ASSUME PersistedInv, NEW c \in Caller, ApplyTransition(c)
  PROVE  PersistedInv'
  <1> DEFINE q == calls[c].request
             s == calls[c].base
  <1>1. /\ q \in Request /\ q.kind = "transition" /\ Kind(calls[c], "transition")
        /\ calls[c].at = "content" /\ calls[c].todo = {}
        /\ UNCHANGED <<Stores, outages>> /\ outages' \in 0..MaxOutages
    BY CallFacts DEF ApplyTransition, Kind, PersistedInv, TypeOK
  <1>2. IsSound(s) /\ AllLoad(s.refs) /\ AllLoad(q.deps)
    BY <1>1, CallFacts DEF CallIsSound, AllLoad, Kind
  <1>3. calls[c].known => Applied(s, q)
    BY <1>1, CallFacts DEF RepeatIsOnItsWay, InReceipts, Applied
  <1>4. CASE Answer(c, "repeat")
    BY <1>1, <1>4, CallIsAnswered DEF Outcomes
  <1>5. CASE ~Applied(s, q) /\ Answer(c, "rejected")
    BY <1>1, <1>3, <1>5, CallIsAnswered DEF Outcomes
  <1>6. ASSUME ~Applied(s, q), Fresh(s, q),
               Proceed(c, [calls[c] EXCEPT
                 !.at = IF q.document = None THEN "look" ELSE "document",
                 !.draft = Extended(s, q)]),
               UNCHANGED answered
        PROVE  PersistedInv'
    <2> DEFINE k == [calls[c] EXCEPT
                       !.at = IF q.document = None THEN "look" ELSE "document",
                       !.draft = Extended(s, q)]
    <2>1. IsSound(Extended(s, q)) /\ InReceipts(q, Extended(s, q))
      BY <1>1, <1>2, <1>6, ExtendedIsSound
    <2>2. /\ k \in Call
          /\ k.at = IF q.document = None THEN "look" ELSE "document"
          /\ k.request = q /\ k.draft = Extended(s, q)
          /\ k.outcome = calls[c].outcome /\ k.known = calls[c].known
          /\ k.association = calls[c].association
      BY <2>1, CallFacts DEF Call, IsSound
    <2>3. AllLoad(IF k.at = "document" THEN k.draft.refs \ {k.request.document}
                                       ELSE k.draft.refs)
      BY <1>2, <2>2 DEF AllLoad, Extended, Named
    <2> HIDE DEF k
    <2>4. CallIsSound(k)
      BY <1>1, <2>1, <2>2, <2>3, CallFacts DEF CallIsSound
    <2>5. RepeatIsOnItsWay(k)
      BY <1>3, <1>6, <2>2 DEF RepeatIsOnItsWay
    <2> QED
      BY <1>1, <1>6, <2>2, <2>4, <2>5, CallReads DEF k
  <1> QED
    BY <1>4, <1>5, <1>6 DEF ApplyTransition

\* The row is looked at: an absent one for revision zero, the same one, or one
\* that the draft extends by one receipt.
LEMMA LookAtSnapshotKeeps ==
  ASSUME PersistedInv, NEW c \in Caller, LookAtSnapshot(c)
  PROVE  PersistedInv'
  <1>0. /\ calls[c].at = "look" /\ outages' \in 0..MaxOutages
        /\ UNCHANGED <<Stores, outages>>
        /\ ~(calls[c].known /\ Kind(calls[c], "transition"))
    BY CallFacts DEF LookAtSnapshot, RepeatIsOnItsWay, PersistedInv, TypeOK
  <1>1. CASE Storable(snapshot, calls[c].draft)
    <2> DEFINE k == [calls[c] EXCEPT !.at = "write", !.seen = snapshot]
    <2>1. /\ k \in Call /\ k.at = "write" /\ k.seen = snapshot
          /\ k.request = calls[c].request /\ k.draft = calls[c].draft
          /\ k.outcome = calls[c].outcome /\ k.known = calls[c].known
          /\ k.association = calls[c].association
      BY CallFacts DEF Call, StoreTypes
    <2>2. Proceed(c, k) /\ UNCHANGED answered
      BY <1>1 DEF LookAtSnapshot
    <2> HIDE DEF k
    <2>3. snapshot # None => Begins(snapshot, snapshot)
      BY CallFacts, BeginsItself DEF StoreTypes
    <2>4. CallIsSound(k)
      BY <1>0, <1>1, <2>1, <2>3, CallFacts DEF CallIsSound
    <2>5. RepeatIsOnItsWay(k)
      BY <1>0, <2>1 DEF RepeatIsOnItsWay, Kind
    <2> QED
      BY <1>0, <2>1, <2>2, <2>4, <2>5, CallReads
  <1>2. CASE ~Storable(snapshot, calls[c].draft)
    <2>1. Answer(c, "failed")
      BY <1>2 DEF LookAtSnapshot
    <2> QED
      BY <1>0, <2>1, CallIsAnswered DEF Outcomes
  <1> QED
    BY <1>1, <1>2

-----------------------------------------------------------------------------
(* Writes                                                                  *)

\* Content is added; the other stores stay.
LEMMA ContentGrows ==
  ASSUME PersistedInv, content' \subseteq Reference,
         \A r \in Reference : Loads(r) => Loads(r)',
         UNCHANGED <<associations, snapshot, answered, outages>>
  PROVE  Grows /\ StoreTypes' /\ SnapshotIsSound' /\ AnswersAreKept'
  <1> USE DEF PersistedInv
  <1>1. Grows
    BY BeginsItself DEF Grows, TypeOK
  <1>2. StoreTypes'
    BY DEF StoreTypes, TypeOK
  <1>3. SnapshotIsSound'
    BY DEF SnapshotIsSound, AllLoad, IsSound, Snapshot
  <1>4. AnswersAreKept'
    BY DEF AnswersAreKept, Receipted
  <1> QED
    BY <1>1, <1>2, <1>3, <1>4

\* The stores grow beside all calls.
LEMMA CallsGoOn ==
  ASSUME PersistedInv, Grows, StoreTypes', SnapshotIsSound', AnswersAreKept',
         UNCHANGED calls
  PROVE  PersistedInv'
  <1>1. TypeOK'
    BY DEF PersistedInv, TypeOK, StoreTypes
  <1>2. ASSUME NEW d \in Caller
        PROVE  (CallIsSound(calls[d]) /\ RepeatIsOnItsWay(calls[d]))'
    <2>1. \A e \in Call : CallIsSound(e) /\ RepeatIsOnItsWay(e) =>
                            CallIsSound(e)' /\ RepeatIsOnItsWay(e)'
      BY CallFacts, CallGoesOn
    <2> QED
      BY <2>1, CallFacts
  <1> QED
    BY <1>1, <1>2 DEF PersistedInv

\* What others store.
LEMMA OthersKeep ==
  ASSUME PersistedInv, NEW r \in Reference,
         \/ IngestSource(r) \/ IngestArtifact(r)
         \/ SeedPolicy(r) \/ KeepDraft(r)
  PROVE  PersistedInv'
  <1>1. content \subseteq Reference
    BY DEF PersistedInv, TypeOK
  <1>2. /\ content' \subseteq Reference
        /\ \A s \in Reference : Loads(s) => Loads(s)'
    <2>1. CASE SaveById(r)
      BY <1>1, <2>1, SaveByIdKeeps
    <2>2. CASE r.store \in {"policy", "document"} /\ content' = content \cup {r}
      BY <1>1, <2>2, SaveByReferenceKeeps
    <2> QED
      BY <2>1, <2>2 DEF IngestSource, IngestArtifact, SeedPolicy, KeepDraft,
         SavePolicy, SaveLecture
  <1>3. UNCHANGED <<associations, snapshot, answered, outages>> /\ UNCHANGED calls
    BY DEF IngestSource, IngestArtifact, SeedPolicy, KeepDraft, Others
  <1> QED
    BY <1>2, <1>3, ContentGrows, CallsGoOn

\* One more association.
LEMMA AssociationsGrow ==
  ASSUME PersistedInv, NEW a \in Association,
         associations' = associations \cup {a},
         answered' \subseteq Request,
         \A q \in answered' \ answered : Receipted(q),
         UNCHANGED <<content, snapshot, outages>>
  PROVE  Grows /\ StoreTypes' /\ SnapshotIsSound' /\ AnswersAreKept'
  <1> USE DEF PersistedInv
  <1>1. \A r : Loads(r)' <=> Loads(r)
    BY DEF Loads, LoadsById, LoadsPolicy, LoadsLecture, RowsOfId
  <1>2. Grows
    BY <1>1, BeginsItself DEF Grows, TypeOK
  <1>3. StoreTypes'
    BY DEF StoreTypes, TypeOK
  <1>4. SnapshotIsSound'
    BY <1>1 DEF SnapshotIsSound, AllLoad
  <1>5. AnswersAreKept'
    BY DEF AnswersAreKept, Receipted
  <1> QED
    BY <1>2, <1>3, <1>4, <1>5

LEMMA CreateCourseKeeps ==
  ASSUME PersistedInv, NEW a \in Association, CreateCourse(a)
  PROVE  PersistedInv'
  <1>1. answered' \subseteq Request /\ answered' \ answered = {}
    BY DEF CreateCourse, PersistedInv, TypeOK
  <1> QED
    BY <1>1, AssociationsGrow, CallsGoOn DEF CreateCourse

\* The association of an initialisation, whose receipt is stored.
LEMMA SaveAssociationKeeps ==
  ASSUME PersistedInv, NEW c \in Caller, SaveAssociation(c)
  PROVE  PersistedInv'
  <1> PICK k : k = Finished(c, "advanced")
    OBVIOUS
  <1>1. /\ calls[c].at = "associate" /\ calls[c].request \in Request
        /\ calls[c].association \in Association
        /\ Receipted(calls[c].request)
        /\ ~(calls[c].known /\ Kind(calls[c], "transition"))
    BY CallFacts DEF SaveAssociation, CallIsSound, RepeatIsOnItsWay
  <1>2. /\ Proceed(c, k)
        /\ answered' = answered \cup {calls[c].request}
        /\ associations' = associations \cup {calls[c].association}
        /\ UNCHANGED <<content, snapshot, outages>>
    BY DEF SaveAssociation, Answer
  <1>3. answered' \subseteq Request
    BY <1>1, <1>2 DEF PersistedInv, TypeOK
  <1>4. k \in Call /\ CallIsSound(k)' /\ RepeatIsOnItsWay(k)'
    BY <1>1, FinishedCall, IdleIsSound DEF Outcomes, Kind
  <1>5. Grows /\ StoreTypes' /\ SnapshotIsSound' /\ AnswersAreKept'
    BY <1>1, <1>2, <1>3, AssociationsGrow
  <1> QED
    BY <1>2, <1>4, <1>5, OneCall

\* The document is stored; from here on the whole draft can be loaded.
LEMMA SaveDocumentKeeps ==
  ASSUME PersistedInv, NEW c \in Caller, SaveDocument(c)
  PROVE  PersistedInv'
  <1> PICK d : d = calls[c].request.document
    OBVIOUS
  <1> PICK k : k = [calls[c] EXCEPT !.at = "look"]
    OBVIOUS
  <1>1. /\ calls[c].at = "document" /\ calls[c].request \in Request
        /\ d \in Reference /\ d.store = "document"
    BY CallFacts, PersistedAssumption DEF SaveDocument, CallIsSound, IsRequest
  <1>2. /\ content' = content \cup {d} /\ Proceed(c, k)
        /\ UNCHANGED <<associations, snapshot, answered, outages>>
    BY DEF SaveDocument, SaveLecture
  <1>3. /\ content' \subseteq Reference
        /\ \A r \in Reference : Loads(r) => Loads(r)'
        /\ Loads(d)'
    BY <1>1, <1>2, SaveByReferenceKeeps DEF PersistedInv, TypeOK
  <1>4. Grows /\ StoreTypes' /\ SnapshotIsSound' /\ AnswersAreKept'
    BY <1>2, <1>3, ContentGrows
  <1>5. /\ k \in Call /\ k.at = "look" /\ k.request = calls[c].request
        /\ k.draft = calls[c].draft /\ k.outcome = calls[c].outcome
        /\ k.known = calls[c].known
        /\ k.association = calls[c].association
    BY CallFacts DEF Call
  <1>6. IsSound(k.draft) /\ AllLoad(k.draft.refs \ {d})
    BY <1>1, <1>5, CallFacts DEF CallIsSound
  <1>7. AllLoad(k.draft.refs)'
    <2>1. k.draft.refs \subseteq Reference
      BY <1>6 DEF IsSound, Snapshot
    <2> QED
      BY <1>3, <1>6, <2>1 DEF AllLoad
  <1>8. CallIsSound(k)'
    BY <1>1, <1>5, <1>6, <1>7, CallFacts DEF CallIsSound
  <1>9. RepeatIsOnItsWay(k)'
    BY <1>1, <1>5, CallFacts DEF RepeatIsOnItsWay, Kind
  <1> QED
    BY <1>2, <1>4, <1>5, <1>8, <1>9, OneCall

\* The comparison of revisions is enough: the row a call has read is a beginning
\* of the one that is stored, so if both have the same revision, they have the
\* same receipts.
LEMMA WriteIsNext ==
  ASSUME PersistedInv, NEW c \in Caller, calls[c].at = "write", RowIsAsSeen(c)
  PROVE  /\ snapshot # None =>
              \/ calls[c].draft = snapshot
              \/ IsNext(snapshot, calls[c].draft)
         /\ IsSound(calls[c].draft)
  <1> DEFINE seen == calls[c].seen
             new == calls[c].draft
  <1>1. /\ IsSound(new) /\ Storable(seen, new)
        /\ seen # None => snapshot # None /\ Begins(seen, snapshot)
        /\ seen \in Snapshot \cup {None} /\ snapshot \in Snapshot \cup {None}
    BY CallFacts DEF CallIsSound, Call, StoreTypes
  <1>2. ASSUME snapshot # None
        PROVE  new = snapshot \/ IsNext(snapshot, new)
    <2>1. seen # None
      BY <1>2 DEF RowIsAsSeen
    <2>2. CASE seen = new
      BY <2>1, <2>2 DEF RowIsAsSeen
    <2>3. CASE seen # new
      <3>1. Revision(snapshot) = Revision(seen) /\ IsNext(seen, new)
        BY <1>1, <2>1, <2>3 DEF RowIsAsSeen, Storable
      <3>2. seen.receipts = snapshot.receipts
        BY <1>1, <1>2, <2>1, <3>1, SameRevision
      <3> QED
        BY <3>1, <3>2 DEF IsNext
    <2> QED
      BY <2>2, <2>3
  <1> QED
    BY <1>1, <1>2

\* A write that finds its row replaces it by the draft.
LEMMA SnapshotGrows ==
  ASSUME PersistedInv, NEW c \in Caller, calls[c].at = "write", RowIsAsSeen(c),
         snapshot' = calls[c].draft,
         answered' \subseteq answered \cup {calls[c].request},
         UNCHANGED <<content, associations, outages>>
  PROVE  /\ Grows /\ StoreTypes' /\ SnapshotIsSound' /\ AnswersAreKept'
         /\ \A q : q = calls[c].request => Receipted(q)'
  <1> DEFINE new == calls[c].draft
  <1>1. /\ IsSound(new) /\ new \in Snapshot /\ new # None
        /\ InReceipts(calls[c].request, new) /\ AllLoad(new.refs)
        /\ calls[c].request \in Request
    BY CallFacts, PersistedAssumption DEF CallIsSound, IsSound
  <1>2. snapshot # None => snapshot \in Snapshot /\ Begins(snapshot, new)
    BY <1>1, WriteIsNext, NextBegins, BeginsItself, CallFacts DEF StoreTypes
  <1>3. \A r : Loads(r)' <=> Loads(r)
    BY DEF Loads, LoadsById, LoadsPolicy, LoadsLecture, RowsOfId
  <1>4. Grows
    BY <1>1, <1>2, <1>3 DEF Grows
  <1>5. StoreTypes'
    BY <1>1, CallFacts DEF StoreTypes
  <1>6. SnapshotIsSound'
    BY <1>1, <1>3 DEF SnapshotIsSound, AllLoad
  <1>7. ASSUME NEW q, Receipted(q)
        PROVE  Receipted(q)'
    <2>1. InReceipts(q, new)
      BY <1>1, <1>2, <1>7, ReceiptedIs, ReceiptStays
    <2> QED
      BY <1>1, <2>1 DEF Receipted, InReceipts
  <1>8. ASSUME NEW q, q = calls[c].request
        PROVE  Receipted(q)'
    BY <1>1, <1>8 DEF Receipted, InReceipts
  <1>9. AnswersAreKept'
    BY <1>7, <1>8 DEF PersistedInv, AnswersAreKept
  <1> QED
    BY <1>4, <1>5, <1>6, <1>8, <1>9

LEMMA WriteSnapshotKeeps ==
  ASSUME PersistedInv, NEW c \in Caller, WriteSnapshot(c)
  PROVE  PersistedInv'
  <1>0. /\ calls[c].at = "write" /\ calls[c].request \in Request
        /\ ~(calls[c].known /\ Kind(calls[c], "transition"))
        /\ calls[c].outcome = None /\ calls[c].association \in Association
        /\ UNCHANGED <<content, associations, outages>>
        /\ outages' \in 0..MaxOutages
    BY CallFacts DEF WriteSnapshot, CallIsSound, RepeatIsOnItsWay, PersistedInv,
       TypeOK
  <1>1. CASE ~RowIsAsSeen(c)
    <2>1. Answer(c, "failed") /\ UNCHANGED Stores
      BY <1>0, <1>1 DEF WriteSnapshot, Stores
    <2> QED
      BY <1>0, <2>1, CallIsAnswered DEF Outcomes
  <1>2. CASE RowIsAsSeen(c) /\ calls[c].request.kind = "initialize"
    <2> PICK k : k = [calls[c] EXCEPT !.at = "associate"]
      OBVIOUS
    <2>1. Proceed(c, k) /\ snapshot' = calls[c].draft /\ answered' = answered
      BY <1>2 DEF WriteSnapshot
    <2>2. /\ k \in Call /\ k.at = "associate" /\ k.request = calls[c].request
          /\ k.outcome = calls[c].outcome /\ k.known = calls[c].known
          /\ k.association = calls[c].association
      BY CallFacts DEF Call
    <2>3. /\ Grows /\ StoreTypes' /\ SnapshotIsSound' /\ AnswersAreKept'
          /\ \A q : q = calls[c].request => Receipted(q)'
      BY <1>0, <1>2, <2>1, SnapshotGrows
    <2>4. CallIsSound(k)' /\ RepeatIsOnItsWay(k)'
      BY <1>0, <2>2, <2>3 DEF CallIsSound, RepeatIsOnItsWay, Kind
    <2> QED
      BY <2>1, <2>2, <2>3, <2>4, OneCall
  <1>3. CASE RowIsAsSeen(c) /\ calls[c].request.kind # "initialize"
    <2> PICK k : k = Finished(c, "advanced")
      OBVIOUS
    <2>1. /\ Proceed(c, k) /\ snapshot' = calls[c].draft
          /\ answered' = answered \cup {calls[c].request}
      BY <1>3 DEF WriteSnapshot, Answer
    <2>2. k \in Call /\ CallIsSound(k)' /\ RepeatIsOnItsWay(k)'
      BY <1>0, FinishedCall, IdleIsSound DEF Outcomes, Kind
    <2>3. Grows /\ StoreTypes' /\ SnapshotIsSound' /\ AnswersAreKept'
      BY <1>0, <1>3, <2>1, SnapshotGrows
    <2> QED
      BY <2>1, <2>2, <2>3, OneCall
  <1> QED
    BY <1>1, <1>2, <1>3

-----------------------------------------------------------------------------
(* Theorems                                                                *)

LEMMA PersistedInit == Init => PersistedInv
  <1> SUFFICES ASSUME Init PROVE PersistedInv
    OBVIOUS
  <1>1. TypeOK
    <2>1. Idle \in Call
      BY DEF Idle, Call
    <2> QED
      BY <2>1, PersistedAssumption DEF Init, TypeOK
  <1>2. SnapshotIsSound /\ AnswersAreKept
    BY DEF Init, SnapshotIsSound, AnswersAreKept
  <1>3. CallIsSound(Idle) /\ RepeatIsOnItsWay(Idle)
    <2>1. Idle.at = "idle" /\ Idle.known = FALSE
      BY DEF Idle
    <2> QED
      BY <2>1, IdleIsSound
  <1>4. \A c \in Caller : calls[c] = Idle
    BY DEF Init
  <1> QED
    BY <1>1, <1>2, <1>3, <1>4 DEF PersistedInv

LEMMA PersistedNext == PersistedInv /\ [Next]_vars => PersistedInv'
  <1> SUFFICES ASSUME PersistedInv, [Next]_vars PROVE PersistedInv'
    OBVIOUS
  <1>1. ASSUME NEW c \in Caller, Step(c) \/ Outage(c)
        PROVE  PersistedInv'
    BY <1>1, LoadAssociationKeeps, LoadWorkflowKeeps, LoadContentKeeps,
       FinishReadKeeps, ApplyInitializeKeeps, ApplyTransitionKeeps,
       SaveDocumentKeeps, LookAtSnapshotKeeps, WriteSnapshotKeeps,
       SaveAssociationKeeps, OutageKeeps
       DEF Step
  <1>2. ASSUME NEW c \in Caller, NEW q \in Request \cup {ReadRequest},
               NEW a \in Association, Begin(c, q, a)
        PROVE  PersistedInv'
    BY <1>2, BeginKeeps
  <1>3. ASSUME NEW r \in Reference,
               \/ IngestSource(r) \/ IngestArtifact(r)
               \/ SeedPolicy(r) \/ KeepDraft(r)
        PROVE  PersistedInv'
    BY <1>3, OthersKeep
  <1>4. ASSUME NEW a \in Association, CreateCourse(a)
        PROVE  PersistedInv'
    BY <1>4, CreateCourseKeeps
  <1>5. CASE UNCHANGED vars
    <2>1. /\ UNCHANGED Stores /\ answered' = answered /\ UNCHANGED calls
          /\ outages' \in 0..MaxOutages
      BY <1>5 DEF vars, Stores, PersistedInv, TypeOK
    <2> QED
      BY <2>1, StoresStay, CallsGoOn
  <1> QED
    BY <1>1, <1>2, <1>3, <1>4, <1>5 DEF Next

\* The invariant of the stores and of every call.
THEOREM PersistedIsSound == Spec => []PersistedInv
  BY PersistedInit, PersistedNext, PTL DEF Spec

\* Types.
THEOREM PersistedTypes == Spec => []TypeOK
  <1>1. PersistedInv => TypeOK
    BY DEF PersistedInv
  <1> QED
    BY PersistedIsSound, <1>1, PTL

\* Whatever the stored snapshot names can be loaded under its complete reference,
\* whoever writes between the loading of the dependencies and the save.
THEOREM SnapshotsResolve == Spec => []ReferencesResolve
  <1>1. PersistedInv => ReferencesResolve
    BY DEF PersistedInv, SnapshotIsSound, ReferencesResolve, AllLoad
  <1> QED
    BY PersistedIsSound, <1>1, PTL

\* The receipts of the stored snapshot are one line of decisions, each made on
\* the snapshot it extends.
THEOREM DecisionsAreLinear == Spec => []ReceiptsAreLinear
  <1>1. PersistedInv => ReceiptsAreLinear
    BY DEF PersistedInv, SnapshotIsSound, IsSound, IsLine, ReceiptsAreLinear
  <1> QED
    BY PersistedIsSound, <1>1, PTL

\* No update that was answered with "advanced" is lost.
THEOREM NoUpdateIsLost == Spec => []AnswersAreKept
  <1>1. PersistedInv => AnswersAreKept
    BY DEF PersistedInv
  <1> QED
    BY PersistedIsSound, <1>1, PTL

\* A repeated transition is recognised whatever has happened since it was
\* applied.
THEOREM RepeatsAreKnown == Spec => []RepeatsAreRecognised
  <1>1. PersistedInv => RepeatsAreRecognised
    BY DEF PersistedInv, RepeatIsOnItsWay, Kind, RepeatsAreRecognised
  <1> QED
    BY PersistedIsSound, <1>1, PTL

\* History is not rewritten: the comparison of revisions under which a snapshot is
\* replaced is enough for its receipts to be extended.
THEOREM HistoryIsKept == Spec => StoresOnlyGrow
  <1> DEFINE Kept == /\ content \subseteq content'
                     /\ associations \subseteq associations'
                     /\ snapshot # None =>
                          /\ snapshot' # None
                          /\ snapshot' = snapshot \/ IsNext(snapshot, snapshot')
  <1>1. PersistedInv /\ [Next]_vars => [Kept]_vars
    <2> SUFFICES ASSUME PersistedInv, [Next]_vars PROVE [Kept]_vars
      OBVIOUS
    <2>1. ASSUME NEW c \in Caller, WriteSnapshot(c)
          PROVE  Kept
      <3>1. CASE ~RowIsAsSeen(c)
        BY <2>1, <3>1 DEF WriteSnapshot
      <3>2. CASE RowIsAsSeen(c)
        <4>1. /\ calls[c].at = "write" /\ snapshot' = calls[c].draft
              /\ UNCHANGED <<content, associations>>
          BY <2>1, <3>2 DEF WriteSnapshot
        <4>2. calls[c].draft # None
          BY <4>1, <3>2, WriteIsNext, PersistedAssumption DEF IsSound
        <4> QED
          BY <3>2, <4>1, <4>2, WriteIsNext
      <3> QED
        BY <3>1, <3>2
    <2>2. ASSUME NEW c \in Caller, Step(c) \/ Outage(c), ~WriteSnapshot(c)
          PROVE  Kept
      BY <2>2 DEF Step, Outage, LoadAssociation, LoadWorkflow, LoadContent,
         FinishRead, ApplyInitialize, ApplyTransition, SaveDocument, SaveLecture,
         LookAtSnapshot, SaveAssociation, Stores
    <2>3. ASSUME NEW c \in Caller, NEW q \in Request \cup {ReadRequest},
                 NEW a \in Association, Begin(c, q, a)
          PROVE  Kept
      BY <2>3 DEF Begin, Stores
    <2>4. ASSUME NEW r \in Reference,
                 \/ IngestSource(r) \/ IngestArtifact(r)
                 \/ SeedPolicy(r) \/ KeepDraft(r)
          PROVE  Kept
      BY <2>4 DEF IngestSource, IngestArtifact, SeedPolicy, KeepDraft, SaveById,
         SavePolicy, SaveLecture, Others
    <2>5. ASSUME NEW a \in Association, CreateCourse(a)
          PROVE  Kept
      BY <2>5 DEF CreateCourse
    <2> QED
      BY <2>1, <2>2, <2>3, <2>4, <2>5 DEF Next
  <1> QED
    BY PersistedIsSound, <1>1, PTL DEF Spec, StoresOnlyGrow

-----------------------------------------------------------------------------
(* The stores implement the log of decisions                               *)

\* What is in a draft, whatever happens to the stores: the request and what its
\* caller has seen.
DraftHolds(k) ==
  /\ k.at \in {"association", "workflow"} => ~Kind(k, "initialize")
  /\ k.at \in {"document", "look", "write"} =>
       \/ /\ Kind(k, "initialize")
          /\ k.draft = Initial(k.request)
       \/ /\ Kind(k, "transition")
          /\ IsSound(k.base)
          /\ Fresh(k.base, k.request)
          /\ k.draft = Extended(k.base, k.request)

DraftInv == \A c \in Caller : DraftHolds(calls[c])

\* A step of one call leaves the drafts of the others alone.
LEMMA OneDraft ==
  ASSUME PersistedInv, DraftInv, NEW c \in Caller, NEW k, Proceed(c, k),
         DraftHolds(k)
  PROVE  DraftInv'
  <1>1. calls' = [calls EXCEPT ![c] = k] /\ DOMAIN calls = Caller
    BY DEF Proceed, PersistedInv, TypeOK
  <1>2. ASSUME NEW d \in Caller PROVE DraftHolds(calls'[d])
    BY <1>1 DEF DraftInv
  <1>3. \A d \in Caller : DraftHolds(calls[d])' <=> DraftHolds(calls'[d])
    BY DEF DraftHolds, Kind
  <1> QED
    BY <1>2, <1>3 DEF DraftInv

\* A call that has ended has no draft.
LEMMA AnswerEndsDraft ==
  ASSUME PersistedInv, DraftInv, NEW c \in Caller, NEW outcome, Answer(c, outcome)
  PROVE  DraftInv'
  <1>1. DraftHolds(Finished(c, outcome))
    BY DEF Finished, Idle, DraftHolds
  <1> QED
    BY <1>1, OneDraft DEF Answer

\* A step of a call that goes on.
LEMMA DraftsStep ==
  ASSUME PersistedInv, DraftInv, NEW c \in Caller, Step(c) \/ Outage(c)
  PROVE  DraftInv'
  <1> DEFINE k == calls[c]
  <1>1. k \in Call /\ DraftHolds(k) /\ CallIsSound(k)
    BY CallFacts DEF DraftInv
  <1>2. CASE \E outcome : Answer(c, outcome)
    BY <1>2, AnswerEndsDraft
  <1>3. ASSUME NEW at, NEW e, Proceed(c, e), e = [k EXCEPT !.at = at],
               at \in {"workflow", "associate"} \/ (k.at = "document" /\ at = "look"),
               at = "workflow" => k.at = "association"
        PROVE  DraftInv'
    <2>1. e.at = at /\ e.request = k.request /\ e.draft = k.draft /\ e.base = k.base
      BY <1>1, <1>3 DEF Call
    <2>2. DraftHolds(e)
      BY <1>1, <1>3, <2>1 DEF DraftHolds, Kind
    <2> QED
      BY <1>3, <2>2, OneDraft
  <1>4. CASE LoadAssociation(c)
    BY <1>2, <1>3, <1>4 DEF LoadAssociation
  <1>5. CASE LoadWorkflow(c) \/ LoadContent(c)
    <2>1. ASSUME NEW e, Proceed(c, e), e.at = "content"
          PROVE  DraftInv'
      BY <2>1, OneDraft DEF DraftHolds
    <2>2. \A todo, base : [k EXCEPT !.at = "content", !.base = base, !.todo = todo].at
                            = "content"
      BY <1>1 DEF Call
    <2>3. k.at = "content" => \A todo : [k EXCEPT !.todo = todo].at = "content"
      BY <1>1 DEF Call
    <2> QED
      BY <1>2, <1>5, <2>1, <2>2, <2>3 DEF LoadWorkflow, LoadContent
  <1>6. CASE ApplyInitialize(c)
    <2> PICK e : e = [k EXCEPT !.at = "look", !.draft = Initial(k.request)]
      OBVIOUS
    <2>1. /\ e.at = "look" /\ e.request = k.request
          /\ e.draft = Initial(k.request) /\ Kind(k, "initialize")
      BY <1>1, <1>6 DEF Call, ApplyInitialize, Kind
    <2>2. DraftHolds(e)
      BY <2>1 DEF DraftHolds, Kind
    <2> QED
      BY <1>6, <2>2, OneDraft DEF ApplyInitialize
  <1>7. CASE ApplyTransition(c)
    <2>1. k.at = "content" /\ Kind(k, "transition")
      BY <1>7 DEF ApplyTransition, Kind
    <2>2. IsSound(k.base)
      BY <1>1, <2>1 DEF CallIsSound, Kind
    <2>3. ASSUME NEW at, NEW e, Proceed(c, e), Fresh(k.base, k.request),
                 at \in {"look", "document"},
                 e = [k EXCEPT !.at = at, !.draft = Extended(k.base, k.request)]
          PROVE  DraftInv'
      <3>1. /\ e.at = at /\ e.request = k.request /\ e.base = k.base
            /\ e.draft = Extended(k.base, k.request)
        BY <1>1, <2>3 DEF Call
      <3>2. DraftHolds(e)
        BY <2>1, <2>2, <2>3, <3>1 DEF DraftHolds, Kind
      <3> QED
        BY <2>3, <3>2, OneDraft
    <2> QED
      BY <1>2, <1>7, <2>3 DEF ApplyTransition
  <1>8. CASE SaveDocument(c)
    BY <1>3, <1>8 DEF SaveDocument
  <1>9. CASE LookAtSnapshot(c)
    <2> PICK e : e = [k EXCEPT !.at = "write", !.seen = snapshot]
      OBVIOUS
    <2>1. /\ e.at = "write" /\ e.request = k.request /\ e.base = k.base
          /\ e.draft = k.draft /\ k.at = "look"
      BY <1>1, <1>9 DEF Call, LookAtSnapshot
    <2>2. DraftHolds(e)
      BY <1>1, <2>1 DEF DraftHolds, Kind
    <2> QED
      BY <1>2, <1>9, <2>2, OneDraft DEF LookAtSnapshot
  <1>10. CASE WriteSnapshot(c)
    BY <1>2, <1>3, <1>10 DEF WriteSnapshot
  <1> QED
    BY <1>2, <1>4, <1>5, <1>6, <1>7, <1>8, <1>9, <1>10
    DEF Step, Outage, FinishRead, SaveAssociation

LEMMA DraftsNext ==
  ASSUME PersistedInv, DraftInv, [Next]_vars
  PROVE  DraftInv'
  <1>1. ASSUME NEW c \in Caller, NEW q \in Request \cup {ReadRequest},
               NEW a \in Association, Begin(c, q, a)
        PROVE  DraftInv'
    <2> PICK e : e = [Idle EXCEPT
                        !.at = IF q.kind = "initialize" THEN "content"
                                                        ELSE "association",
                        !.request = q,
                        !.association = a,
                        !.todo = IF q.kind = "initialize" THEN q.deps ELSE {},
                        !.known = Receipted(q) /\ a \in associations]
      OBVIOUS
    <2>1. /\ e.request = q
          /\ e.at = IF q.kind = "initialize" THEN "content" ELSE "association"
      BY DEF Idle
    <2>2. DraftHolds(e)
      BY <2>1 DEF DraftHolds, Kind
    <2> QED
      BY <1>1, <2>2, OneDraft DEF Begin
  <1>2. UNCHANGED calls => DraftInv'
    BY DEF DraftInv, DraftHolds, Kind
  <1> QED
    BY <1>1, <1>2, DraftsStep
    DEF Next, vars, IngestSource, IngestArtifact, SeedPolicy, KeepDraft, Others,
        CreateCourse

-----------------------------------------------------------------------------
(* Steps of the log                                                        *)

Clients == [c \in Caller |-> View(calls[c])]

LEMMA OneClient ==
  ASSUME PersistedInv, NEW c \in Caller, NEW k, Proceed(c, k)
  PROVE  /\ Clients' = [Clients EXCEPT ![c] = View(k)]
         /\ Clients[c] = View(calls[c])
         /\ View(k) = View(calls[c]) => UNCHANGED Clients
  <1>1. calls' = [calls EXCEPT ![c] = k] /\ DOMAIN calls = Caller
    BY DEF Proceed, PersistedInv, TypeOK
  <1>2. \A d \in Caller : View(calls[d])' = View(calls'[d])
    BY DEF View, Phase, SeenBy
  <1>3. \A d \in Caller : View(calls'[d]) = IF d = c THEN View(k) ELSE View(calls[d])
    BY <1>1
  <1> QED
    BY <1>2, <1>3 DEF Clients

\* What the log knows of a call.
LEMMA ViewIs ==
  ASSUME PersistedInv, DraftInv, NEW c \in Caller, calls[c].at # "idle"
  PROVE  LET k == calls[c] IN
         /\ View(k).request = k.request /\ View(k).outcome = None
         /\ View(k).phase = IF k.at = "associate" THEN "applied" ELSE "pending"
         /\ k.at \in {"association", "workflow"} => View(k).seen = <<>>
         /\ Kind(k, "initialize") => View(k).seen = <<>>
         /\ k.at \in {"content", "document", "look", "write"}
              /\ ~Kind(k, "initialize") => View(k).seen = k.base.receipts
  BY CallFacts DEF View, Phase, SeenBy, CallIsSound, Kind

LEMMA AnswerOfLog ==
  ASSUME PersistedInv, NEW c \in Caller, NEW outcome, Answer(c, outcome)
  PROVE  Log!Becomes(c, Log!Resting(outcome))
  <1>1. View(Finished(c, outcome)) = Log!Resting(outcome)
    BY DEF Finished, Idle, View, Phase, SeenBy, Log!Resting
  <1>2. Clients' = [Clients EXCEPT ![c] = View(Finished(c, outcome))]
    BY OneClient DEF Answer
  <1> QED
    BY <1>1, <1>2 DEF Log!Becomes, Clients

LogStep == Log!Next \/ UNCHANGED <<Decisions, Clients>>

\* A step the log does not see.
LEMMA LogStutters ==
  ASSUME PersistedInv, NEW c \in Caller, NEW k, Proceed(c, k),
         View(k) = View(calls[c]), UNCHANGED snapshot
  PROVE  LogStep
  BY OneClient DEF LogStep, Decisions

\* A call that is answered without a decision.
LEMMA LogRefuses ==
  ASSUME PersistedInv, DraftInv, NEW c \in Caller,
         NEW why \in {"rejected", "failed", "missing", "not_found"},
         Answer(c, why), calls[c].at \notin {"idle", "associate"},
         UNCHANGED snapshot
  PROVE  LogStep
  <1>1. Clients[c].phase = "pending"
    BY ViewIs DEF Clients
  <1>2. Log!Becomes(c, Log!Resting(why))
    BY AnswerOfLog
  <1> QED
    BY <1>1, <1>2 DEF Log!Refuse, Log!Next, LogStep, Clients, Decisions

LEMMA BeginIsCall ==
  ASSUME PersistedInv, NEW c \in Caller, NEW q \in Request \cup {ReadRequest},
         NEW a \in Association, Begin(c, q, a)
  PROVE  LogStep
  <1> PICK e : e = [Idle EXCEPT
                      !.at = IF q.kind = "initialize" THEN "content"
                                                      ELSE "association",
                      !.request = q,
                      !.association = a,
                      !.todo = IF q.kind = "initialize" THEN q.deps ELSE {},
                      !.known = Receipted(q) /\ a \in associations]
    OBVIOUS
  <1>1. /\ e.request = q /\ e.outcome = None
        /\ e.at = IF q.kind = "initialize" THEN "content" ELSE "association"
    BY DEF Idle
  <1>2. View(e) = [phase |-> "pending", request |-> q, seen |-> <<>>,
                   outcome |-> None]
    BY <1>1 DEF View, Phase, SeenBy
  <1>3. Clients[c].phase = "idle"
    BY DEF Begin, Clients, View, Phase
  <1>4. Clients' = [Clients EXCEPT ![c] = View(e)] /\ UNCHANGED Decisions
    BY OneClient DEF Begin, Stores, Decisions
  <1> QED
    BY <1>2, <1>3, <1>4 DEF Log!Call, Log!Becomes, Log!Next, LogStep, Clients,
        RequestOrRead

\* What a transition or a reader looks at is the line of decisions as it is.
LEMMA LoadWorkflowIsLook ==
  ASSUME PersistedInv, DraftInv, NEW c \in Caller, LoadWorkflow(c)
  PROVE  LogStep
  <1> DEFINE k == calls[c]
  <1>0. k.at = "workflow" /\ UNCHANGED snapshot
    BY DEF LoadWorkflow, Stores
  <1>1. CASE snapshot = None
    BY <1>0, <1>1, LogRefuses DEF LoadWorkflow
  <1>2. CASE snapshot # None
    <2> PICK e : e = [k EXCEPT !.at = "content", !.base = snapshot,
                               !.todo = IF k.request.kind = "read"
                                          THEN snapshot.refs ELSE k.request.deps]
      OBVIOUS
    <2>1. /\ e.at = "content" /\ e.base = snapshot /\ e.request = k.request
          /\ e.outcome = k.outcome
      BY CallFacts DEF Call
    <2>2. Proceed(c, e)
      BY <1>2 DEF LoadWorkflow
    <2>3. k.request.kind \in {"transition", "read"}
      BY <1>0, CallFacts, PersistedAssumption DEF DraftInv, DraftHolds, Kind, IsRequest
    <2>4. Decisions = snapshot.receipts /\ Decisions # <<>> /\ UNCHANGED Decisions
      BY <1>0, <1>2 DEF Decisions, PersistedInv, SnapshotIsSound, IsSound, IsLine
    <2>5. View(e) = [View(k) EXCEPT !.seen = Decisions]
      BY <1>0, <2>1, <2>3, <2>4 DEF View, Phase, SeenBy
    <2>6. Clients[c] = View(k) /\ Clients' = [Clients EXCEPT ![c] = View(e)]
      BY <2>2, OneClient
    <2>7. /\ View(k).phase = "pending" /\ View(k).seen = <<>>
          /\ View(k).request = k.request
      BY <1>0, ViewIs
    <2> QED
      BY <2>3, <2>4, <2>5, <2>6, <2>7
      DEF Log!Look, Log!Asks, Log!Becomes, Log!Next, LogStep, Clients
  <1> QED
    BY <1>1, <1>2

LEMMA FinishReadIsReopen ==
  ASSUME PersistedInv, DraftInv, NEW c \in Caller, FinishRead(c)
  PROVE  LogStep
  <1>1. /\ calls[c].at = "content" /\ Kind(calls[c], "read")
        /\ Answer(c, "reopened") /\ UNCHANGED snapshot
    BY DEF FinishRead, Stores, Kind
  <1>2. calls[c].base.receipts # <<>>
    BY <1>1, CallFacts DEF CallIsSound, Kind, IsSound, IsLine
  <1>3. /\ Clients[c].phase = "pending" /\ Clients[c].request.kind = "read"
        /\ Clients[c].seen # <<>>
    BY <1>1, <1>2, ViewIs DEF Clients, Kind
  <1>4. Log!Becomes(c, Log!Resting("reopened")) /\ UNCHANGED Decisions
    BY <1>1, AnswerOfLog DEF Decisions
  <1> QED
    BY <1>3, <1>4 DEF Log!Reopen, Log!Asks, Log!Next, LogStep, Clients

\* An exact repeat is in the line the call has looked at.
LEMMA RepeatIsTrue ==
  ASSUME PersistedInv, DraftInv, NEW c \in Caller, ApplyTransition(c)
  PROVE  LogStep
  <1> DEFINE k == calls[c]
  <1>1. k.at = "content" /\ Kind(k, "transition") /\ UNCHANGED snapshot
    BY DEF ApplyTransition, Stores, Kind
  <1>2. CASE Answer(c, "rejected")
    BY <1>1, <1>2, LogRefuses
  <1>3. CASE Applied(k.base, k.request) /\ Answer(c, "repeat")
    <2>1. /\ Clients[c].phase = "pending" /\ Clients[c].request = k.request
          /\ Clients[c].seen = k.base.receipts
      BY <1>1, ViewIs DEF Clients, Kind
    <2>2. Log!Becomes(c, Log!Resting("repeat")) /\ UNCHANGED Decisions
      BY <1>1, <1>3, AnswerOfLog DEF Decisions
    <2> QED
      BY <1>1, <1>3, <2>1, <2>2
      DEF Log!Repeat, Log!Asks, Log!Next, LogStep, Clients, Applied, Kind
  <1>4. ASSUME NEW at \in {"look", "document"}, NEW draft, NEW e, Proceed(c, e),
               e = [k EXCEPT !.at = at, !.draft = draft]
        PROVE  LogStep
    <2>1. /\ e.at = at /\ e.request = k.request /\ e.base = k.base
          /\ e.outcome = k.outcome
      BY <1>4, CallFacts DEF Call
    <2>2. View(e) = View(k)
      BY <1>1, <2>1 DEF View, Phase, SeenBy
    <2> QED
      BY <1>1, <1>4, <2>2, LogStutters
  <1> QED
    BY <1>2, <1>3, <1>4 DEF ApplyTransition

\* Steps of a call that has looked and has not written.
LEMMA QuietSteps ==
  ASSUME PersistedInv, DraftInv, NEW c \in Caller,
         \/ LoadAssociation(c) \/ LoadContent(c) \/ ApplyInitialize(c)
         \/ SaveDocument(c) \/ LookAtSnapshot(c)
  PROVE  LogStep
  <1> DEFINE k == calls[c]
  <1>0. /\ k \in Call /\ UNCHANGED snapshot
        /\ k.at \in {"association", "content", "document", "look"}
    BY CallFacts DEF LoadAssociation, LoadContent, ApplyInitialize, SaveDocument,
       LookAtSnapshot, Stores
  <1>1. ASSUME NEW why \in {"missing", "not_found", "failed"}, Answer(c, why)
        PROVE  LogStep
    BY <1>0, <1>1, LogRefuses
  <1>2. ASSUME NEW e, Proceed(c, e), e.request = k.request, e.base = k.base,
               e.outcome = k.outcome,
               \/ k.at = "association" /\ e.at = "workflow"
               \/ k.at = "content" /\ e.at = "content"
               \/ k.at = "content" /\ e.at = "look"
               \/ k.at = "document" /\ e.at = "look"
               \/ k.at = "look" /\ e.at = "write"
        PROVE  LogStep
    <2>1. View(e) = View(k)
      BY <1>2 DEF View, Phase, SeenBy
    <2> QED
      BY <1>0, <1>2, <2>1, LogStutters
  <1>3. CASE LoadAssociation(c)
    <2> PICK e : e = [k EXCEPT !.at = "workflow"]
      OBVIOUS
    <2>1. /\ e.at = "workflow" /\ e.request = k.request /\ e.base = k.base
          /\ e.outcome = k.outcome
      BY <1>0 DEF Call
    <2> QED
      BY <1>1, <1>2, <1>3, <2>1 DEF LoadAssociation
  <1>4. CASE LoadContent(c)
    <2>1. PICK r \in k.todo :
            \/ Proceed(c, [k EXCEPT !.todo = k.todo \ {r}])
            \/ Answer(c, "missing")
      BY <1>4 DEF LoadContent
    <2> PICK e : e = [k EXCEPT !.todo = k.todo \ {r}]
      OBVIOUS
    <2>2. /\ e.at = "content" /\ e.request = k.request /\ e.base = k.base
          /\ e.outcome = k.outcome /\ k.at = "content"
      BY <1>0, <1>4 DEF Call, LoadContent
    <2> QED
      BY <1>1, <1>2, <2>1, <2>2
  <1>5. CASE ApplyInitialize(c)
    <2> PICK e : e = [k EXCEPT !.at = "look", !.draft = Initial(k.request)]
      OBVIOUS
    <2>1. /\ e.at = "look" /\ e.request = k.request /\ e.base = k.base
          /\ e.outcome = k.outcome
      BY <1>0 DEF Call
    <2> QED
      BY <1>2, <1>5, <2>1 DEF ApplyInitialize
  <1>6. CASE SaveDocument(c)
    <2> PICK e : e = [k EXCEPT !.at = "look"]
      OBVIOUS
    <2>1. /\ e.at = "look" /\ e.request = k.request /\ e.base = k.base
          /\ e.outcome = k.outcome
      BY <1>0 DEF Call
    <2> QED
      BY <1>2, <1>6, <2>1 DEF SaveDocument
  <1>7. CASE LookAtSnapshot(c)
    <2> PICK e : e = [k EXCEPT !.at = "write", !.seen = snapshot]
      OBVIOUS
    <2>1. /\ e.at = "write" /\ e.request = k.request /\ e.base = k.base
          /\ e.outcome = k.outcome
      BY <1>0 DEF Call
    <2> QED
      BY <1>1, <1>2, <1>7, <2>1 DEF LookAtSnapshot
  <1> QED
    BY <1>3, <1>4, <1>5, <1>6, <1>7

\* What the row is that a write replaces: the line its caller decided on, or the
\* one that another caller has made of it by the same decision.
LEMMA WriteOfTransition ==
  ASSUME PersistedInv, DraftInv, NEW c \in Caller, calls[c].at = "write",
         RowIsAsSeen(c), Kind(calls[c], "transition")
  PROVE  LET k == calls[c] IN
         /\ k.base.receipts # <<>>
         /\ Log!Fits(k.request, k.base.receipts)
         /\ Decisions \in {k.base.receipts, Append(k.base.receipts, k.request)}
         /\ k.draft.receipts = Append(k.base.receipts, k.request)
         /\ k.draft # None
  <1> DEFINE k == calls[c]
             seen == k.seen
             line == k.base.receipts
  <1>1. /\ IsSound(k.base) /\ Fresh(k.base, k.request)
        /\ k.draft = Extended(k.base, k.request)
    BY DEF DraftInv, DraftHolds, Kind, Initial
  <1>2. /\ IsSound(k.draft) /\ Storable(seen, k.draft)
        /\ seen # None => snapshot # None /\ Begins(seen, snapshot)
        /\ seen \in Snapshot \cup {None} /\ snapshot \in Snapshot \cup {None}
        /\ k.request \in Request /\ k.draft # None
    BY CallFacts, PersistedAssumption DEF CallIsSound, Call, StoreTypes, IsSound
  <1>3. /\ line \in Seq(Request) /\ line # <<>> /\ Len(line) \in Nat
        /\ Len(line) >= 1
    BY <1>1 DEF IsSound, Snapshot, IsLine
  <1>4. /\ k.draft.receipts = Append(line, k.request)
        /\ Len(k.draft.receipts) = Len(line) + 1
    BY <1>1, <1>2, <1>3 DEF Extended
  <1>5. Log!Fits(k.request, line)
    BY <1>1 DEF Fresh, Operations, Revision, Log!Fits
  <1>6. seen # None
    BY <1>2, <1>3, <1>4 DEF Storable, Revision
  <1>7. ASSUME seen = k.draft
        PROVE  Decisions \in {line, Append(line, k.request)}
    BY <1>2, <1>4, <1>6, <1>7 DEF RowIsAsSeen, Decisions
  <1>8. ASSUME seen # k.draft
        PROVE  Decisions \in {line, Append(line, k.request)}
    <2>1. Revision(snapshot) = Revision(seen) /\ IsNext(seen, k.draft)
      BY <1>2, <1>6, <1>8 DEF RowIsAsSeen, Storable
    <2>2. snapshot.receipts = seen.receipts
      BY <1>2, <1>6, <2>1, SameRevision
    <2>3. seen.receipts \in Seq(Request) /\ Len(seen.receipts) = Len(line)
      BY <1>2, <1>3, <1>4, <1>6, <2>1 DEF Snapshot, IsNext
    <2>4. SubSeq(Append(line, k.request), 1, Len(line)) = seen.receipts
      BY <1>4, <2>1, <2>3 DEF IsNext
    <2>5. \A i \in 1..Len(line) : seen.receipts[i] = line[i]
      BY <1>2, <1>3, <2>3, <2>4
    <2>6. seen.receipts = line
      BY <1>3, <2>3, <2>5
    <2> QED
      BY <1>2, <1>6, <2>2, <2>6 DEF Decisions
  <1> QED
    BY <1>2, <1>3, <1>4, <1>5, <1>7, <1>8

LEMMA WriteOfInitialization ==
  ASSUME PersistedInv, DraftInv, NEW c \in Caller, calls[c].at = "write",
         RowIsAsSeen(c), Kind(calls[c], "initialize")
  PROVE  LET k == calls[c] IN
         /\ Decisions \in {<<>>, <<k.request>>}
         /\ k.draft.receipts = <<k.request>>
         /\ k.draft # None
  <1> DEFINE k == calls[c]
             seen == k.seen
  <1>1. k.draft = Initial(k.request)
    BY DEF DraftInv, DraftHolds, Kind
  <1>2. /\ IsSound(k.draft) /\ Storable(seen, k.draft) /\ k.draft # None
        /\ seen \in Snapshot \cup {None} /\ snapshot \in Snapshot \cup {None}
    BY CallFacts, PersistedAssumption DEF CallIsSound, Call, StoreTypes, IsSound
  <1>3. k.draft.receipts = <<k.request>> /\ Len(k.draft.receipts) = 1
    BY <1>1 DEF Initial
  <1>4. ASSUME seen = None
        PROVE  Decisions \in {<<>>, <<k.request>>}
    BY <1>4 DEF RowIsAsSeen, Decisions
  <1>5. ASSUME seen # None, seen = k.draft
        PROVE  Decisions \in {<<>>, <<k.request>>}
    BY <1>3, <1>5 DEF RowIsAsSeen, Decisions
  <1>6. ASSUME seen # None, seen # k.draft
        PROVE  Decisions \in {<<>>, <<k.request>>}
    <2>1. /\ snapshot # None /\ Revision(snapshot) = Revision(seen)
          /\ IsNext(seen, k.draft)
      BY <1>2, <1>6 DEF RowIsAsSeen, Storable
    <2>2. Len(seen.receipts) \in Nat /\ Len(snapshot.receipts) \in Nat
      BY <1>2, <1>6, <2>1 DEF Snapshot
    <2>3. Len(snapshot.receipts) = 0
      BY <1>3, <2>1, <2>2 DEF IsNext, Revision
    <2>4. snapshot.receipts # <<>> /\ snapshot.receipts \in Seq(Request)
      BY <1>2, <2>1 DEF PersistedInv, SnapshotIsSound, IsSound, IsLine, Snapshot
    <2> QED
      BY <2>3, <2>4
  <1> QED
    BY <1>2, <1>3, <1>4, <1>5, <1>6

\* The write is the moment at which a decision takes effect.
LEMMA WriteIsDecision ==
  ASSUME PersistedInv, DraftInv, NEW c \in Caller, WriteSnapshot(c)
  PROVE  LogStep
  <1> DEFINE k == calls[c]
  <1>0. k.at = "write" /\ k.request \in Request
    BY CallFacts DEF WriteSnapshot, CallIsSound
  <1>1. CASE ~RowIsAsSeen(c)
    BY <1>0, <1>1, LogRefuses DEF WriteSnapshot
  <1>2. CASE RowIsAsSeen(c) /\ Kind(k, "initialize")
    <2> PICK e : e = [k EXCEPT !.at = "associate"]
      OBVIOUS
    <2>1. Proceed(c, e) /\ snapshot' = k.draft
      BY <1>2 DEF WriteSnapshot, Kind
    <2>2. e.at = "associate" /\ e.request = k.request /\ e.outcome = k.outcome
      BY CallFacts DEF Call
    <2>3. /\ View(k).phase = "pending" /\ View(k).request = k.request
          /\ View(k).seen = <<>>
      BY <1>0, <1>2, ViewIs
    <2>4. View(e) = [View(k) EXCEPT !.phase = "applied"]
      BY <1>0, <1>2, <2>2, <2>3 DEF View, Phase, SeenBy, Kind
    <2>5. Clients[c] = View(k) /\ Clients' = [Clients EXCEPT ![c] = View(e)]
      BY <2>1, OneClient
    <2>6. Decisions \in {<<>>, <<k.request>>} /\ Decisions' = <<k.request>>
      BY <1>0, <1>2, <2>1, WriteOfInitialization DEF Decisions
    <2> QED
      BY <1>2, <2>3, <2>4, <2>5, <2>6
      DEF Log!Initialize, Log!Asks, Log!Becomes, Log!Next, LogStep, Clients, Kind
  <1>3. CASE RowIsAsSeen(c) /\ Kind(k, "transition")
    <2>1. Answer(c, "advanced") /\ snapshot' = k.draft
      BY <1>3 DEF WriteSnapshot, Kind
    <2>2. /\ Clients[c].phase = "pending" /\ Clients[c].request = k.request
          /\ Clients[c].seen = k.base.receipts
      BY <1>0, <1>3, ViewIs DEF Clients, Kind
    <2>3. Log!Becomes(c, Log!Resting("advanced"))
      BY <2>1, AnswerOfLog
    <2>4. /\ k.base.receipts # <<>> /\ Log!Fits(k.request, k.base.receipts)
          /\ Decisions \in {k.base.receipts, Append(k.base.receipts, k.request)}
          /\ Decisions' = Append(k.base.receipts, k.request)
      BY <1>0, <1>3, <2>1, WriteOfTransition DEF Decisions
    <2> QED
      BY <1>3, <2>2, <2>3, <2>4
      DEF Log!Advance, Log!Asks, Log!Next, LogStep, Clients, Kind
  <1> QED
    BY <1>0, <1>1, <1>2, <1>3, PersistedAssumption DEF IsRequest, Kind

LEMMA SaveAssociationIsConfirm ==
  ASSUME PersistedInv, DraftInv, NEW c \in Caller, SaveAssociation(c)
  PROVE  LogStep
  <1>1. calls[c].at = "associate" /\ Answer(c, "advanced") /\ UNCHANGED Decisions
    BY DEF SaveAssociation, Decisions
  <1>2. Clients[c].phase = "applied" /\ Log!Becomes(c, Log!Resting("advanced"))
    BY <1>1, ViewIs, AnswerOfLog DEF Clients
  <1> QED
    BY <1>1, <1>2 DEF Log!Confirm, Log!Next, LogStep, Clients

LEMMA OutageIsCutShort ==
  ASSUME PersistedInv, DraftInv, NEW c \in Caller, Outage(c)
  PROVE  LogStep
  <1>1. calls[c].at # "idle" /\ Answer(c, "unavailable") /\ UNCHANGED Decisions
    BY DEF Outage, Stores, Decisions
  <1>2. /\ Clients[c].phase # "idle"
        /\ Log!Becomes(c, Log!Resting("unavailable"))
    BY <1>1, ViewIs, AnswerOfLog DEF Clients
  <1> QED
    BY <1>1, <1>2 DEF Log!CutShort, Log!Next, LogStep, Clients

LEMMA NextIsLogStep ==
  ASSUME PersistedInv, DraftInv, [Next]_vars
  PROVE  LogStep
  <1>1. ASSUME NEW c \in Caller, Step(c) \/ Outage(c)
        PROVE  LogStep
    BY <1>1, QuietSteps, LoadWorkflowIsLook, FinishReadIsReopen, RepeatIsTrue,
       WriteIsDecision, SaveAssociationIsConfirm, OutageIsCutShort DEF Step
  <1>2. UNCHANGED <<snapshot, calls>> => LogStep
    BY DEF LogStep, Decisions, Clients, View, Phase, SeenBy
  <1> QED
    BY <1>1, <1>2, BeginIsCall
    DEF Next, vars, IngestSource, IngestArtifact, SeedPolicy, KeepDraft, Others,
        CreateCourse

LEMMA InitIsLogInit == Init => Log!Init /\ DraftInv
  <1> SUFFICES ASSUME Init PROVE Log!Init /\ DraftInv
    OBVIOUS
  <1>1. \A c \in Caller : calls[c] = Idle
    BY DEF Init
  <1>2. View(Idle) = Log!Resting(None)
    BY DEF Idle, View, Phase, SeenBy, Log!Resting
  <1>3. DraftHolds(Idle)
    BY DEF Idle, DraftHolds
  <1> QED
    BY <1>1, <1>2, <1>3 DEF Init, DraftInv, Log!Init, Decisions

\* What is in a draft, on every step of a call: the request, and the snapshot its
\* caller decided on, whatever has been stored since.
THEOREM DraftsAreOfTheirBase == Spec => []DraftInv
  BY PersistedIsSound, InitIsLogInit, DraftsNext, PTL DEF Spec

\* The stores, with all their callers between a load and a save, implement one
\* log on which every call takes effect at one moment.
THEOREM StoresAreALog == Spec => Log!Spec /\ ImplementsDecisionLog
  <1>1. PersistedInv /\ DraftInv /\ [Next]_vars => [Log!Next]_(Log!vars)
    BY NextIsLogStep DEF LogStep, Log!vars, Clients
  <1>2. [Log!Next]_(Log!vars) => [Log!vars' # Log!vars => Log!Next]_(Log!vars)
    OBVIOUS
  <1> QED
    BY PersistedIsSound, DraftsAreOfTheirBase, InitIsLogInit, <1>1, <1>2, PTL
    DEF Spec, ImplementsDecisionLog, Log!Spec

=============================================================================
