------------------------- MODULE PersistedWorkflow -------------------------
(***************************************************************************)
(* The stores around the workflow state machine: one workflow snapshot,    *)
(* its associations with courses, and the four stores of immutable content *)
(* (sources, artifacts, policies, lecture documents).  Callers of the two  *)
(* server processes run apply_persisted_course_workflow_request and the    *)
(* readers of course_workflow_operations.py; every store call is a step of *)
(* its own, for every store opens its own transaction.                     *)
(*                                                                         *)
(* The state machine is abstracted to what its persistence can tell apart: *)
(* a snapshot is the sequence of the requests it was built by, its         *)
(* receipts, and the references it ever named.  Whether a handler accepts  *)
(* a request that is neither repeated nor stale is left open: module       *)
(* Workflow has the handlers.  A reference is a store, an id and a digest; *)
(* the bytes are the digest.                                               *)
(***************************************************************************)
EXTENDS Naturals, Sequences, FiniteSets

CONSTANTS
  Caller,       \* threads of the application and of the MCP server
  Association,  \* course associations, all of the one workflow
  Reference,    \* records [store, id, digest]
  Request,      \* records [op, kind, expected, deps, document]
  MaxRevision,  \* _MAX_REVISION
  MaxOutages,   \* calls that end in a crash or an unavailable store
  None

Store == {"source", "artifact", "policy", "document"}

ReadRequest ==
  [op |-> None, kind |-> "read", expected |-> 0, deps |-> {}, document |-> None]

\* What _workflow_request builds: an initialisation names sources and the
\* policies of the server and expects no revision; a transition names sources and
\* artifacts, and a candidate brings its document.
IsRequest(q) ==
  /\ q.kind \in {"initialize", "transition"}
  /\ q.expected \in Nat
  /\ q.deps \subseteq Reference
  /\ q.document # None => q.document \in Reference /\ q.document.store = "document"
  /\ IF q.kind = "initialize"
       THEN /\ q.expected = 0 /\ q.document = None
            /\ \A r \in q.deps : r.store \in {"source", "policy"}
       ELSE \A r \in q.deps : r.store \in {"source", "artifact"}

\* A snapshot is the requests that built it and the references it ever named.
Snapshot == [receipts : Seq(Request), refs : SUBSET Reference]

ASSUME PersistedAssumption ==
  /\ MaxRevision \in Nat
  /\ MaxOutages \in Nat
  /\ \A r \in Reference : r.store \in Store
  /\ None \notin Reference \cup Snapshot
  /\ \A q \in Request : IsRequest(q)

VARIABLES
  content,       \* rows of the four content stores
  associations,  \* rows of the association store
  snapshot,      \* the row of the workflow: [receipts, refs], or None
  calls,         \* what each caller is doing
  answered,      \* requests that were answered with "advanced"
  outages

vars == <<content, associations, snapshot, calls, answered, outages>>

-----------------------------------------------------------------------------
(* Content stores: a row is written once and never changed.                *)

\* Sources and artifacts are stored under their id.
RowsOfId(r) == {s \in content : s.store = r.store /\ s.id = r.id}

SlipSaveById(r) == content' = (content \ RowsOfId(r)) \cup {r}

\* save inserts the row of a new id under BEGIN IMMEDIATE; an id that has a row
\* is confirmed or refused, and the row stays.
SaveById(r) == content' = IF RowsOfId(r) = {} THEN content \cup {r} ELSE content

\* Policies and documents are stored under their complete reference, so a row
\* that is there has the same content.
SavePolicy(r)   == content' = content \cup {r}
SaveLecture(r)  == content' = content \cup {r}

\* The row of the id, which must have the digest of the reference too.
LoadsById(r) == RowsOfId(r) = {r}

\* The row of the complete reference.
LoadsPolicy(r)  == r \in content
LoadsLecture(r) == r \in content

Loads(r) ==
  \/ r.store \in {"source", "artifact"} /\ LoadsById(r)
  \/ r.store = "policy" /\ LoadsPolicy(r)
  \/ r.store = "document" /\ LoadsLecture(r)

-----------------------------------------------------------------------------
(* The snapshot                                                            *)

Revision(s) == Len(s.receipts) - 1

Operations(s) == {s.receipts[i].op : i \in DOMAIN s.receipts}

SlipApplied(s, q) == s.receipts[Len(s.receipts)] = q

\* An exact repeat: the operation has a receipt of the same content.
Applied(s, q) == \E i \in DOMAIN s.receipts : s.receipts[i] = q

Named(q) == q.deps \cup (IF q.document = None THEN {} ELSE {q.document})

Initial(q) == [receipts |-> <<q>>, refs |-> q.deps]

Extended(s, q) ==
  [receipts |-> Append(s.receipts, q), refs |-> s.refs \cup Named(q)]

\* _is_next_t003_snapshot: the receipts extend the stored ones by one.
IsNext(old, new) ==
  /\ Len(new.receipts) = Len(old.receipts) + 1
  /\ SubSeq(new.receipts, 1, Len(old.receipts)) = old.receipts

-----------------------------------------------------------------------------
(* Callers                                                                 *)

\* The request has a receipt in the stored snapshot.
Receipted(q) ==
  /\ snapshot # None
  /\ q \in {snapshot.receipts[i] : i \in DOMAIN snapshot.receipts}

\* known: when the call began, its request was already applied under an
\* association that was stored.
Idle ==
  [at |-> "idle", request |-> ReadRequest, association |-> None,
   todo |-> {}, base |-> None, draft |-> None, seen |-> None,
   known |-> FALSE, outcome |-> None]

Init ==
  /\ content = {}
  /\ associations = {}
  /\ snapshot = None
  /\ calls = [c \in Caller |-> Idle]
  /\ answered = {}
  /\ outages = 0

Stores == <<content, associations, snapshot>>

Proceed(c, fields) == calls' = [calls EXCEPT ![c] = fields]

Finished(c, outcome) ==
  [Idle EXCEPT !.request = calls[c].request, !.known = calls[c].known,
               !.outcome = outcome]

Answer(c, outcome) ==
  /\ Proceed(c, Finished(c, outcome))
  /\ answered' = IF outcome = "advanced"
                   THEN answered \cup {calls[c].request} ELSE answered

\* An initialisation loads the sources and policies it names and nothing else
\* before it builds revision zero.
Begin(c, q, a) ==
  /\ calls[c].at = "idle"
  /\ Proceed(c, [Idle EXCEPT
       !.at = IF q.kind = "initialize" THEN "content" ELSE "association",
       !.request = q,
       !.association = a,
       !.todo = IF q.kind = "initialize" THEN q.deps ELSE {},
       !.known = Receipted(q) /\ a \in associations])
  /\ UNCHANGED <<Stores, answered, outages>>

LoadAssociation(c) ==
  /\ calls[c].at = "association"
  /\ IF calls[c].association \in associations
       THEN Proceed(c, [calls[c] EXCEPT !.at = "workflow"]) /\ UNCHANGED answered
       ELSE Answer(c, "not_found")
  /\ UNCHANGED <<Stores, outages>>

\* What is still to be loaded: the dependencies of a transition, or all that a
\* reader reopens from the snapshot.
LoadWorkflow(c) ==
  /\ calls[c].at = "workflow"
  /\ IF snapshot = None
       THEN Answer(c, "not_found")
       ELSE /\ Proceed(c, [calls[c] EXCEPT
                 !.at = "content",
                 !.base = snapshot,
                 !.todo = IF calls[c].request.kind = "read"
                            THEN snapshot.refs ELSE calls[c].request.deps])
            /\ UNCHANGED answered
  /\ UNCHANGED <<Stores, outages>>

LoadContent(c) ==
  /\ calls[c].at = "content"
  /\ \E r \in calls[c].todo :
       IF Loads(r)
         THEN /\ Proceed(c, [calls[c] EXCEPT !.todo = @ \ {r}])
              /\ UNCHANGED answered
         ELSE Answer(c, "missing")
  /\ UNCHANGED <<Stores, outages>>

FinishRead(c) ==
  /\ calls[c].at = "content"
  /\ calls[c].todo = {}
  /\ calls[c].request.kind = "read"
  /\ Answer(c, "reopened")
  /\ UNCHANGED <<Stores, outages>>

ApplyInitialize(c) ==
  /\ calls[c].at = "content"
  /\ calls[c].todo = {}
  /\ calls[c].request.kind = "initialize"
  /\ Proceed(c, [calls[c] EXCEPT !.at = "look",
                                 !.draft = Initial(calls[c].request)])
  /\ UNCHANGED <<Stores, answered, outages>>

SlipFresh(s, q) == q.op \notin Operations(s)

\* The checks of apply_workflow_request before it turns to the handler, for a
\* request that is no exact repeat.
Fresh(s, q) ==
  /\ q.op \notin Operations(s)
  /\ q.expected = Revision(s)
  /\ Revision(s) < MaxRevision

\* apply_workflow_request on the snapshot that was loaded.  The handler of the
\* action may still reject.
ApplyTransition(c) ==
  LET q == calls[c].request
      s == calls[c].base
  IN
  /\ calls[c].at = "content"
  /\ calls[c].todo = {}
  /\ q.kind = "transition"
  /\ \/ /\ Applied(s, q)
        /\ Answer(c, "repeat")
     \/ /\ ~Applied(s, q)
        /\ Answer(c, "rejected")
     \/ /\ ~Applied(s, q)
        /\ Fresh(s, q)
        /\ Proceed(c, [calls[c] EXCEPT
             !.at = IF q.document = None THEN "look" ELSE "document",
             !.draft = Extended(s, q)])
        /\ UNCHANGED answered
  /\ UNCHANGED <<Stores, outages>>

SlipSaveDocument(c) ==
  /\ calls[c].at = "document"
  /\ Proceed(c, [calls[c] EXCEPT !.at = "look"])
  /\ UNCHANGED <<Stores, answered, outages>>

\* The document of a candidate is stored before the snapshot that names it.
SaveDocument(c) ==
  /\ calls[c].at = "document"
  /\ SaveLecture(calls[c].request.document)
  /\ Proceed(c, [calls[c] EXCEPT !.at = "look"])
  /\ UNCHANGED <<associations, snapshot, answered, outages>>

SlipStorable(old, new) ==
  IF old = None THEN Revision(new) = 0 ELSE IsNext(old, new)

\* What LocalWorkflowStateStore.save decides on the row it has read.
Storable(old, new) ==
  \/ old = None /\ Revision(new) = 0
  \/ old # None /\ old = new
  \/ old # None /\ IsNext(old, new)

\* save reads the row outside of the transaction that writes it.
LookAtSnapshot(c) ==
  /\ calls[c].at = "look"
  /\ IF Storable(snapshot, calls[c].draft)
       THEN /\ Proceed(c, [calls[c] EXCEPT !.at = "write", !.seen = snapshot])
            /\ UNCHANGED answered
       ELSE Answer(c, "failed")
  /\ UNCHANGED <<Stores, outages>>

SlipRowIsAsSeen(c) == TRUE

\* INSERT meets the primary key, the confirmation the whole row, and the update
\* of an advance the revision that was read.
RowIsAsSeen(c) ==
  LET seen == calls[c].seen
      new == calls[c].draft
  IN
  IF seen = None THEN snapshot = None
  ELSE /\ snapshot # None
       /\ IF seen = new THEN snapshot = new
                        ELSE Revision(snapshot) = Revision(seen)

WriteSnapshot(c) ==
  /\ calls[c].at = "write"
  /\ IF ~RowIsAsSeen(c)
       THEN Answer(c, "failed") /\ UNCHANGED snapshot
       ELSE /\ snapshot' = calls[c].draft
            /\ IF calls[c].request.kind = "initialize"
                 THEN /\ Proceed(c, [calls[c] EXCEPT !.at = "associate"])
                      /\ UNCHANGED answered
                 ELSE Answer(c, "advanced")
  /\ UNCHANGED <<content, associations, outages>>

SaveAssociation(c) ==
  /\ calls[c].at = "associate"
  /\ associations' = associations \cup {calls[c].association}
  /\ Answer(c, "advanced")
  /\ UNCHANGED <<content, snapshot, outages>>

\* A call ends between two steps: the process stops or a store is unavailable.
Outage(c) ==
  /\ calls[c].at # "idle"
  /\ outages < MaxOutages
  /\ outages' = outages + 1
  /\ Answer(c, "unavailable")
  /\ UNCHANGED Stores

Others == <<associations, snapshot, calls, answered, outages>>

\* Sources are ingested by the owner, at any time.
IngestSource(r) ==
  /\ r.store = "source"
  /\ SaveById(r)
  /\ UNCHANGED Others

IngestArtifact(r) ==
  /\ r.store = "artifact"
  /\ SaveById(r)
  /\ UNCHANGED Others

\* A server stores the policies of the skill when it starts.
SeedPolicy(r) ==
  /\ r.store = "policy"
  /\ SavePolicy(r)
  /\ UNCHANGED Others

\* submit_semantic_result stores the document of a draft before it submits it.
KeepDraft(r) ==
  /\ r.store = "document"
  /\ SaveLecture(r)
  /\ UNCHANGED Others

\* The application creates its association with the course, before there is a
\* workflow.
CreateCourse(a) ==
  /\ associations' = associations \cup {a}
  /\ UNCHANGED <<content, snapshot, calls, answered, outages>>

Step(c) ==
  \/ LoadAssociation(c)
  \/ LoadWorkflow(c)
  \/ LoadContent(c)
  \/ FinishRead(c)
  \/ ApplyInitialize(c)
  \/ ApplyTransition(c)
  \/ SaveDocument(c)
  \/ LookAtSnapshot(c)
  \/ WriteSnapshot(c)
  \/ SaveAssociation(c)

Next ==
  \/ \E c \in Caller : Step(c) \/ Outage(c)
  \/ \E c \in Caller, q \in Request \cup {ReadRequest}, a \in Association :
       Begin(c, q, a)
  \/ \E r \in Reference :
       IngestSource(r) \/ IngestArtifact(r) \/ SeedPolicy(r) \/ KeepDraft(r)
  \/ \E a \in Association : CreateCourse(a)

Spec == Init /\ [][Next]_vars

-----------------------------------------------------------------------------
(* Types                                                                   *)

Call ==
  [at : {"idle", "association", "workflow", "content", "document", "look",
         "write", "associate"},
   request : Request \cup {ReadRequest},
   association : Association \cup {None},
   todo : SUBSET Reference,
   base : Snapshot \cup {None},
   draft : Snapshot \cup {None},
   seen : Snapshot \cup {None},
   known : BOOLEAN,
   outcome : {"advanced", "repeat", "rejected", "failed", "missing",
              "not_found", "unavailable", "reopened", None}]

TypeOK ==
  /\ content \subseteq Reference
  /\ associations \subseteq Association
  /\ snapshot \in Snapshot \cup {None}
  /\ calls \in [Caller -> Call]
  /\ answered \subseteq Request
  /\ outages \in 0..MaxOutages

-----------------------------------------------------------------------------
(* Properties                                                              *)

\* Whatever the stored snapshot names can be loaded under its complete
\* reference: a document is stored before the snapshot, dependencies are loaded
\* before it, and no later save takes the key of either away, so a reader that
\* has found the snapshot finds everything in it.
ReferencesResolve ==
  snapshot # None => \A r \in snapshot.refs : Loads(r)

\* The receipts are one line of decisions: the first is an initialisation, every
\* other was decided on exactly the snapshot that it extends, and no operation
\* is in it twice, although the snapshot a caller decides on, the row save reads
\* and the row it writes are read at three different times.
ReceiptsAreLinear ==
  snapshot # None =>
    LET rs == snapshot.receipts IN
    /\ rs # <<>>
    /\ rs[1].kind = "initialize"
    /\ \A i \in DOMAIN rs : i > 1 => /\ rs[i].kind = "transition"
                                     /\ rs[i].expected = i - 2
    /\ \A i, j \in DOMAIN rs : rs[i].op = rs[j].op => i = j

\* No update is lost: a request that was answered with "advanced" is a receipt
\* of the snapshot from then on.
AnswersAreKept ==
  \A q \in answered : Receipted(q)

\* A transition that is repeated after it was applied is recognised as such.
RepeatsAreRecognised ==
  \A c \in Caller :
    LET k == calls[c] IN
    k.known /\ k.request.kind = "transition" /\ k.outcome # None
      => k.outcome \in {"repeat", "unavailable"}

\* History is not rewritten: a stored snapshot is replaced only by one whose
\* receipts extend its own, and content and associations are never taken back.
StoresOnlyGrow ==
  [][/\ content \subseteq content'
     /\ associations \subseteq associations'
     /\ snapshot # None =>
          /\ snapshot' # None
          /\ snapshot' = snapshot \/ IsNext(snapshot, snapshot')]_vars

-----------------------------------------------------------------------------
(* What the stores implement                                               *)

\* The step of a call at which it has read the snapshot, written it or answered.
Phase(k) ==
  CASE k.at = "idle"      -> "idle"
    [] k.at = "associate" -> "applied"
    [] OTHER              -> "pending"

\* What a call has seen of the line of decisions; an initialisation looks at
\* nothing.
SeenBy(k) ==
  IF k.request.kind # "initialize" /\ k.at \in {"content", "document", "look", "write"}
    THEN k.base.receipts ELSE <<>>

\* A call as its client sees it.
View(k) ==
  [phase   |-> Phase(k),
   request |-> IF k.at = "idle" THEN None ELSE k.request,
   seen    |-> SeenBy(k),
   outcome |-> k.outcome]

Decisions == IF snapshot = None THEN <<>> ELSE snapshot.receipts

RequestOrRead == Request \cup {ReadRequest}

Log == INSTANCE DecisionLog WITH
  Client  <- Caller,
  Request <- RequestOrRead,
  log     <- Decisions,
  client  <- [c \in Caller |-> View(calls[c])]

\* The stores, written by callers that load, decide, look and write in separate
\* transactions, behave as one log on which every call takes effect at one
\* moment: no decision is made on anything but all that precede it, none is lost
\* or taken twice, and every answer is true of the log.  This is Log!Spec, with
\* the steps the log does not see set aside first.
ImplementsDecisionLog ==
  Log!Init /\ [][Log!vars' # Log!vars => Log!Next]_(Log!vars)

-----------------------------------------------------------------------------
(* Liveness                                                                *)

\* A call that is running takes its next step, and the client of an
\* initialisation repeats it.
Fairness ==
  /\ \A c \in Caller : WF_vars(Step(c))
  /\ \A q \in {r \in Request : r.kind = "initialize"}, a \in Association :
       SF_vars(\E c \in Caller : Begin(c, q, a))

FairSpec == Spec /\ Fairness

\* The gap between the two saves of an initialisation closes: a workflow that is
\* stored becomes one that some course is associated with.
InitializationCompletes ==
  snapshot # None ~> associations # {}

=============================================================================
