# Verification of the course compiler

TLA+ specifications of the course compiler, model-checked with TLC and, for the
parts where it says so, proved with TLAPS. Paths are relative to the repository
root; `course_compiler/` is left out where a file name is unambiguous.

Contents: 1 the system, 2 its components, 3 the modules, 4 the runs, 5 fairness
and deadlock, 6 the proofs, 7 findings, 8 observations without a run, 9 what is
not modelled, 10 the plan, 11 how to run it.

## 1. The system

The compiler turns source material (slides, exercises) into a course document of
several lectures. The text is written by a language model outside the program;
the program decides what has to be written next, hands out *requests* for it,
takes *results*, asks the owner to approve the plan, validates what it is given
and compiles the accepted lectures into a PDF. Its state is a handful of SQLite
files and content-addressed directories.

What matters for verification:

- **One thread per HTTP request.** `CourseCompilerServer` is a
  `ThreadingHTTPServer` (`app/server.py:2532`). No lock is held around an
  operation. An operation of `semantic_operations.py`, `course_operations.py` or
  `build_operations.py` is a sequence of calls on separate stores, and each
  store opens its own database and transaction for each call. So operations
  interleave between any two store calls, and what an operation has read is old
  when it is used.
- **No transaction spans two stores.** A crash, an exception or an unavailable
  store between two calls leaves the first done and the second not done.
- **A second process**, the MCP server (`mcp_runtime.py`), applies workflow
  transitions to the same workflow store, and downloads files from addresses
  that its client names.
- **Clients repeat themselves.** The browser page and the language model's tool
  calls are retried; operation ids make repeats recognisable.
- **A page that awaits.** The relay of the page leases a request, shows its
  prompt and posts the pasted answer in flows that give way to the user, and to
  one another, at every call.
- **Two quality modes.** `fast` delivers a completed course at once; `review`
  asks for one semantic review of the completed course, whose verdict either
  makes it final or sends lectures back for correction.

### Who calls whom

    browser page / relay      MCP client
            |                     |
      app/server.py          mcp_adapter.py --- mcp_file_ingress.py
            |                     |                    |
     course / semantic / build / workflow operations   |
            |                     |                    |
    +-------+------+-------+------+------+-------------+
    | course | job | semantic work | workflow | build | immutable
    | store  |store| store         | store    | store | content
    +--------+-----+---------------+----------+-------+----------
                                      ^
                          workflow.py: apply_workflow_request

The workflow snapshot is the authority. The job is a projection of it, the
requests are derived from it, the course record points to the job, and a build
names the revision and the documents it was made of. The immutable stores hold
what the snapshot names: sources, artifacts, policies and lecture documents.

## 2. Components

| Component | State | Operations | What makes it correct |
| --- | --- | --- | --- |
| Workflow state machine (`workflow.py`, `workflow_policy.py`) | one immutable snapshot: revision, stage, disposition, sources, plan (priority basis, lecture map), progress of each lecture, history, issue, approvals, diagnostics, receipts | `apply_workflow_request`: sixteen transitions; `derive_workflow_handoff` | a transition never builds a snapshot the constructor refuses; nothing is produced without an approved plan; a lecture is accepted only on its own evidence; drafts and lectures are not lost through stops and reopenings; what is listed as possible is possible |
| Semantic work store (`semantic_work_persistence.py`) | one row per request: request, status, lease holder and expiry, result | create, lease, re-offer, release, accept, reject | one live request for each revision of a job, one executor at a time, an accepted envelope is final, rows stay readable |
| Semantic operations (`semantic_operations.py`) | none of its own; drives workflow, work store and job | `request_semantic_work`, `submit_semantic_result`, the two owner decisions, `start_generation` | results reach the workflow once and as handed in, after crashes and repeats too; requests are for what is needed now; verdicts are carried out |
| Courses (`course_operations.py`, `course_persistence.py`) | the course record: sources, settings, pointer to the job | create, attach, update, status | no update loses another one's part; settings are locked after the start |
| Course jobs (`course_job_persistence.py`) | a projection of the workflow, settings and build pointer | `save`, `reconcile_from_workflow` | one job for a workflow; a projection never takes the build away; it catches up |
| Builds (`build_operations.py`, `build_persistence.py`, `compilation.py`) | build records, a cache of files | `build_pdf`, `get_artifact`, `reconcile_job_build_projection` | only reviewed revisions are built in review mode; only current and intact files are served |
| Workflow persistence (`workflow_persistence.py`, `course_workflow_persistence.py`, `course_workflow_transition_operations.py`) | the stored snapshot, associations | initialise, apply a transition, reopen | advances are one line; no update is lost; repeats are recognised; a started initialisation can be completed |
| Immutable content stores (`source_`, `policy_`, `workflow_artifact_`, `lecture_document_persistence.py`) | content-addressed tables | save once, load | the first writer wins, and whatever a snapshot names can be loaded |
| Course workflow operations (`course_workflow_operations.py`, `evidence_access.py`) | none | reopening for the next step, evidence of a request | every snapshot can be shown; a task sees its subject |
| Server and page (`app/server.py`, `app/static/app.js`) | the page's relay state | relay handlers, synthetic generation, the dialog | a pasted answer goes to the request it was made for; a prompt is of one revision; "saved" is true |
| MCP boundary (`mcp_adapter.py`, `mcp_runtime.py`, `mcp_file_ingress.py`) | the connection of a download | tools, file ingress | a download ends in time, is bounded, connects only where it was judged and closes what it opened |
| Assembly, rendering, contracts, prompts | none | pure functions | text and layout |

The hard behaviours, each at its line, are the `hazards` of `PROJECT.json`. In
short: long sequences of legal transitions that paint the workflow into a corner;
leases that expire under their holder; operations cut short between two stores;
results repeated, raced or late; projections and pointers written from old
readings; builds and files that are no longer current when they are used;
snapshots that name content no store has; page state read again after an await;
names that resolve to another address when they are used; timeouts that do not
add up to a deadline.

## 3. Modules

| Module | What it is |
| --- | --- |
| `Workflow` | `apply_workflow_request`, one action for each transition handler |
| `CourseProduction` | what the workflow promises, without its records (abstract specification) |
| `Continuation` | what is shown of a snapshot: handoff, continuation, evidence; functions over `Workflow` |
| `WorkflowProofs` | theorems about `Workflow`: its invariant, and that it implements `CourseProduction` |
| `SnapshotProofs` | theorems about every snapshot: the plan in force, its validity, what is shown of it |
| `SemanticWorkStore` | the store of requests, one action for each operation that writes |
| `SemanticWorkStoreProofs` | theorems about it |
| `SemanticOperations` | threads running the semantic operations, one action for each store call; composes `Workflow` and `SemanticWorkStore` by `INSTANCE` |
| `SemanticOperationsProofs` | theorems about it, and that it uses both as they are specified |
| `CourseJobs` | threads running the course, start and build operations over the course, job and build records |
| `CourseJobsProofs` | theorems about it |
| `PersistedWorkflow` | callers of both processes over the snapshot, the associations and the content stores, one action for each store call |
| `DecisionLog` | what a store of one workflow promises: one line of decisions, of which each caller holds a beginning (abstract specification) |
| `PersistedWorkflowProofs` | theorems about `PersistedWorkflow`, and that it implements `DecisionLog` |
| `FileIngress` | the tool that ingests a file and the download under its three policies |
| `FileIngressProofs` | theorems about it |
| `Relay` | tabs of the page, the flows of their dialogs, and the handlers they call |
| `RelayProofs` | theorems about it |
| `MC...` | values of the constants that a `.cfg` cannot write |

A definition named `Slip...` is never used by a specification. It stands just
before the definition it belongs to and is that definition with a plausible
mistake; `PROJECT.json` names the property that notices the mistake.

### Workflow

State: the fields of `WorkflowState`, one variable each. The revision doubles as
the number of receipts less one. A handler that rejects, repeats or raises leaves
the snapshot alone, so it is a stuttering step; the guard of an action is the
conjunction of the handler's conditions. The constructor raises on an invalid
snapshot: the handlers are therefore *not* guarded by the validity rules, and
`SnapshotsAreValid` shows that they never need to be, except for the uniqueness
of history keys, which really does fail (section 7) and is the guard `Archivable`.

Abstractions: lecture ids are forced to be `l1..ln`, so a lecture is its
position; a digest is the value digested; a document is an id, an order, a body
and whether it draws a warning; `history` and `approvals` are sets since their
entries are unique. Field validation of a request is left out: its inputs are
valid.

### Continuation

No state of its own: the operators are functions of the variables of `Workflow`.
`LegalActions` is the table of `derive_workflow_handoff`; `HandoffIsValid`,
`ShowsStage` and `ShowsProgress` are what the constructors of `WorkflowHandoff`
and of the continuation demand; `SemanticKind` is the scheduler's choice, and
`ArtifactEvidence`, `SourceEvidence`, `DocumentEvidence` the manifest of a kind.
The properties relate the table to the handlers and the manifest to the task.
That what a snapshot names can be *loaded* is the subject of `PersistedWorkflow`.

### SemanticWorkStore

State: `rows` (request, status, holder, expiry, result), the `clock`, and `told`,
the expiry each holder was last told, which is not in the code and exists to
state `OneExecutor`. Callers read the clock before the call and may pass an old
reading, so every operation takes any `now <= clock`. Every answer of an
operation, failures included, is a branch; the ones that write nothing stutter.
`UsedSpec` has the operations the program calls, `Spec` also has `release_lease`,
which nothing in `course_compiler/` calls.

### SemanticOperations

State: all of `Workflow`, all of `SemanticWorkStore`, the job's projection, and
for each thread its program counter and what it holds. An operation begins
(`StartRequest`, `StartSubmit`, `StartDecision`), makes one store call a step and
ends. Computation between calls belongs to the call before. The transition calls
(`SubmitTransition`, `SubmitValidation`, `Reopen`, `Decide`) conjoin the action
of `Workflow` with the compare-and-swap on the revision the thread has read; the
`...Lost` and `...Rejected` steps are the other answers. The cases A1 to A4 of
`submit_semantic_result` and both recoveries of `request_semantic_work` are
there. `operations` says which request a receipt belongs to, which is what the
operation ids of the code say. `Abandon` cuts an operation short anywhere.
`Elsewhere` is the other process: failures, blockers, new sources.

The runs start from snapshots that the program reaches (`MCSemanticOperations`
builds each as the result of the transitions in its receipts) because a run from
an empty course through all stages under two threads is out of reach.

### CourseJobs

State: the stored sources, the course record, the workflow, the accepted verdict
of each revision, job and build records, cache files, and the calls in progress.
The workflow is abstracted to what these operations read of it (revision, phase,
the accepted documents together); `WorkflowMoves` changes it as `Workflow` may,
including a reopening after a verdict that passed, since a second request for one
revision can exist (section 8).

Abstractions: the job's `metadata_revision` counts saves and is compared for
equality only, so a call carries `behind`: 0 if the record it holds is the present
one, 1 if one save was made over it, 2 if more. The store accepts a save over the
record that was loaded, or a save that repeats the record just written
(`JobSaves`). The record of a build and its cache file are written in one step,
since the file may be lost at any moment right after. `create_course` saves the
association with a workflow before the course, so no operation here meets a
course without one.

### PersistedWorkflow

State: the rows of the four content stores together (`content`, each row a store,
an id and a digest), the associations, the snapshot, and for each caller the call
it is in. `apply_persisted_course_workflow_request` is `Begin`,
`LoadAssociation`, `LoadWorkflow`, `LoadContent`, `ApplyInitialize` or
`ApplyTransition`, `SaveDocument`, `LookAtSnapshot`, `WriteSnapshot`,
`SaveAssociation`; a reader takes the loading steps. `save` reads the row in one
transaction and writes in another, hence two steps, and `RowIsAsSeen` is what
its `WHERE` compares. Sources and artifacts are rows under an id, policies and
documents under their complete reference; the two kinds load differently
(`LoadsById`, `LoadsPolicy`). `Outage` is a crash or an unavailable store between
any two steps.

The state machine is abstracted to what persistence can tell apart: a snapshot is
the sequence of requests it was built by and the references it ever named. A
handler may reject what is neither repeated nor stale; `Workflow` has the
handlers.

`DecisionLog` is the same without stores, rows and crashes: a line of decisions and
for each caller what it has seen of it. A caller asks, looks, and decides on all
of the line or is told that it is late; an answer is whole as soon as it is given.
`PersistedWorkflow` implements it under the mapping `Log`: the line is the
snapshot's, a caller has seen what it loaded (`SeenBy`), and every step of a call
but reading the snapshot, writing it and answering is a stutter. So the one
moment at which a decision takes effect is the `UPDATE` of the row, although
four stores are written around it.

### FileIngress

State: the policy of the server, the source that is stored, the observed host,
and of the download its phase, url, hop, age, the addresses of the last lookup and
the hop it was made for, the open connections, the response head, the bytes kept
and the result. `Call`,
`ObserveHost` and `StoreSource` are the tool `ingest_course_source`; `StartHop`,
`Resolve`, `Judge`, `Connect`, `Handshake`, `Exchange`, `Redirected`, `BeginBody`
and `ReadBody` the engine that binds its connections, each a step because time
passes or the network answers in it. `Exchange` is one write of the request or
one read of the head, after which the head may be incomplete still, so that a
server that drips it takes many. A redirect whose location cannot be parsed ends
in an exception (`Redirected`, section 8). `Init` chooses among the policies that `create_runtime_config` makes
(`RuntimePolicy`) and those a caller may construct.

Time is a number of units; only blocking calls take time, the resolver without a
limit of its own, network operations at most `BoundedTimeout`. Resolver, servers
and network answer anything. A url is what the checks look at.

The exact-host path is `StartExact`, `ExactOpen` (a connection up to the head of
its response), `ExactRedirect`, `ExactBegin` and `ExactBody`. What `urllib` raises
on an error status, or on a redirect that is not followed, holds the response
open, and the `with` statement is never entered: the model leaves the connection
open there. No time is counted on this path, which has no deadline, and nothing
is assumed about its calls returning.

### Relay

State of the server: for each job its revision, what it waits for, its requests,
the lease of the current one and what was accepted; of a tab: `gptRelayState`,
the dialog, the prompt that is shown, the box, the button; and the flows that
await something. A flow's `at` is a call on its way (`acquire`, `pending`,
`renew`, `post`, ...) or its response (`acquired`, `pended`, ...): the handlers
(`Grant`, `Deny`, `Observe`, `BuildPrompt`, `ReadEvidence`, `TakeAnswer`,
`RepeatAnswer`, `RefuseAnswer`) take the first to the second, the callbacks
(`OnAcquired`, `OnPrompt`, `OnRenewed`, `OnAnswered`) go on from there with the
`gptRelayState` of that moment, as the code does. `Fails` loses a call before or
after it was handled. `BuildPrompt` is a step after `Observe`, since the handler
reads the request and the continuation one after the other. The human is
`OpenRelay`, `RevisePlan`, `Click`, `Paste`, `Close`.

Nothing is assumed of `HolderOf`, the holder of each tab and job: a duplicated tab
copies the holders of the first, and tabs that cannot store theirs all use one
(`app.js:675`). The runs give each its own.

`told` and `overlapped` are not in the code: what a tab said was saved, and the
tabs that opened a relay beside a running flow. A text is known by what it was
written for, a job by what the relay can tell apart.

## 4. Runs

All passing runs check the complete state space within the bounds. Times are for
two workers on an otherwise idle machine.

| Run | Properties | Bounds | Size |
| --- | --- | --- | --- |
| `workflow_stops` | `SnapshotsAreValid`, `AcceptedOnEvidence`, `EvidenceCoversTheWork`, `ContinuationIsAvailable`, `ListedActionsAreAnswerable`, `CandidatesAreArchived`, `StepsAreListed` | 1 initial source, the 4 kinds of later source, 2 proposals, maps of 1 or 2 lectures, documents for the right and the wrong place, 2 policies, both verdicts and decisions, both blockers; 11 revisions, 3 attempts | 358 668 states |
| `workflow_reopen` | `SnapshotsAreValid`, `PlanInForce`, `StopsAreTransparent`, `ImplementsCourseProduction` | 1 proposal, maps of 1 or 2 lectures, 2 texts, new sources with clashing ids and digests, no other stops; 18 revisions, 2 attempts | 776 315 |
| `store` | `EveryRowDecodes`, `OneLivePerRevision`, `AcceptedIsFinal`, `LeaseIsExclusive` | 6 requests with clashing ids, operations, revisions and jobs, 4 results (another's outputs, a wrong revision), 2 holders, clock to 2 | 443 624, 92 s |
| `ops` | `AcceptedIsRecorded`, `LiveRequestsAreCurrent`, `ReopenedByVerdict`, `OperationsAdvanceOnce` | 2 threads, four snapshots to start from, 2 requests, 10 revisions; one crash or a lease that expires, where `Budget` says | 793 803, 4 min |
| `ops_liveness` | `ValidationFollows`, `CorrectionsFollow`, `JobCatchesUp` | 1 thread, failures, blockers and new sources from elsewhere, 1 crash, a lease that lasts | 21 178 |
| `jobs` | `OneJobPerCourse`, `BuiltIsReviewed`, `ServedIsCurrent`, `NothingIsLost`, `BuildIsKept` | 2 threads, 1 source, settings fast and review, 1 document set, 2 revisions by the owner, 4 of the workflow, 2 builds, crashes without bound | 2 445 275, 105 s |
| `persisted` | `ReferencesResolve`, `ReceiptsAreLinear`, `ImplementsDecisionLog`, `RepeatsAreRecognised`, `StoresOnlyGrow`, `InitializationCompletes` | 2 callers, 1 association, 5 references (two contents under one id), 2 initialisations, 3 transitions of which two share an operation id and two a revision, 3 revisions, 1 outage | 422 095, 3 min |
| `ingress` | `DeadlineHolds`, `ConnectsWhereJudged`, `ConnectionsAreClosed`, `DownloadEnds` | all policies, 5 urls, 3 addresses and pairs of them, 4 status codes, absent and malformed locations, malformed, small and large lengths, 2 redirects, a deadline of 5 with operations of 2 and lookups of 6, 2 calls of the tool | 1 163 066, 70 s |
| `relay` | `OnlyReopeningRebinds`, `MixedPromptsAreNotAnswered`, `SavedIsAccepted` | 1 job, 1 tab with 2 flows at a time, 2 requests, of which the second asks for a verdict, 2 revisions | 749 047, 44 s |
| `history_keys`, `ops_stranded`, `relay_rebound` | one each, violated | see section 7 | seconds |

Why the bounds are enough:

- **Workflow.** Two lectures are the least for which "the next lecture", "the
  other lecture" and a map that grows are different things. Eleven revisions
  reach both owner gates with a rejection before the approval, a stop and its
  resolution in every stage, and a lecture rejected and accepted; eighteen reach
  two complete reopenings with a rejected map between them; the stops of that run
  are new sources, failures and blockers are the theorem's (`StopsAreTransparent`
  is proved for all). Three attempts
  include the limit. What is shown of a snapshot depends on its stage, issue and
  progress only, all of whose combinations the eleven revisions reach.
- **Store.** The rows of different ids meet only through the uniqueness of ids,
  operations and revisions; the six requests contain each pairwise clash. Two
  holders and three clock values give a lease, its expiry under an old reading
  and its take-over.
- **Operations.** Every race in these operations is between two calls: one that
  reads, one that writes between its reading and its use. Two requests allow one
  to be retired by the other. One crash suffices for each property, since
  recovery is repeated until it succeeds. The constraint `Budget` gives each
  start what its properties need: calls are cut short once the plan is made,
  and leases expire while a course is written, since no property of the planning
  stages depends on either. `ops_liveness` has one thread; with two the graph of
  the temporal check does not fit the time of a run, so `JobCatchesUp` is about
  calls that die and about the other process, not about two retries that race.
- **Jobs.** `behind` needs two calls that save over a third's reading, which the
  two threads produce by one of them running several operations. One document set
  suffices for the races, that a file is served with the documents of its own
  revision is the theorem's. Four workflow
  revisions are production, completion, reopening and completion again, which is
  what lets a build go stale. The theorems of section 6 remove the bounds.
- **Persisted.** The races of `save` are between two callers; the requests are
  one of each relation that the store or `apply_workflow_request` compares: same
  operation and same content, same operation and other content, same revision.
  One outage at any step of any call and the repetition of the call are the
  crash and its recovery. The theorems remove the bounds.
- **Ingress.** The deadline is more than two operations and less than one lookup,
  so that it can pass in a blocked resolver, between operations and in one. Two
  redirects let the third be the one too many. Two addresses give a safe answer
  beside an unsafe one. The theorems remove the bounds, the liveness property
  has no theorem.
- **Relay.** What goes wrong in a page goes wrong between two flows of a tab:
  two slots. Another tab, another client or a synthetic generation act through
  the server, as `Elsewhere`, `Expire` and the demo do; several tabs are the
  theorems'. `relay_rebound` has two jobs and needs no transition.

The safety runs of `SemanticOperations` and `CourseJobs` use the symmetry of
threads, that of `Relay` the symmetry of its slots (and jobs and tabs): no
constant, guard or property names one. The runs with a liveness property do not.

### What the properties are for

- *Workflow.* `SnapshotsAreValid` is the heart: `_state_violation` raising means a
  stuck course. `PlanInForce` says that what is in force is what the owner last
  approved and that no lecture of it is lost; `CandidatesAreArchived` that no
  draft is; `StopsAreTransparent` that a failure or blocker has no effect besides
  the delay. `ImplementsCourseProduction` says the same from outside: agreed
  plans, one draft at a time, delivery exactly when everything is accepted.
- *Continuation.* `ContinuationIsAvailable` and `ListedActionsAreAnswerable` say
  that there is always a way to go on and that it is the one shown;
  `StepsAreListed` that there is no other; `EvidenceCoversTheWork` that a task is
  given its subject, and the sources it is about.
- *Store.* `OneLivePerRevision`, `LeaseIsExclusive` and `AcceptedIsFinal` are what
  the operations above rely on.
- *Operations.* `AcceptedIsRecorded` relates two stores: an accepted envelope has
  its receipt in the workflow, from the revision it was asked for, with that very
  content. `ReopenedByVerdict` does the same for corrections.
  `LiveRequestsAreCurrent` relates requests made from old readings to the
  present workflow. `OperationsAdvanceOnce` is idempotency without the help of
  the workflow: it would refuse an operation id that it has a receipt of, and the
  transitions of the model leave that refusal out, since a call that goes on to
  one has looked for the receipt in the snapshot it would save over.
- *Jobs.* `OneJobPerCourse` under racing and interrupted starts; `NothingIsLost`
  and `BuildIsKept` under whole-record saves from old readings; `BuiltIsReviewed`
  and `ServedIsCurrent` under a workflow that moves between check and use.
- *Persisted.* `ReferencesResolve` relates the snapshot to four other stores that
  no transaction spans; `ReceiptsAreLinear` is that advances are serialised, and
  `ImplementsDecisionLog` that no caller can tell them from advances that happen
  at once: nothing is decided on less than the whole line, answered without being
  kept, or kept twice; `RepeatsAreRecognised` is idempotency as
  the client sees it; `InitializationCompletes` recovery from a crash.
- *Ingress.* `DeadlineHolds` over all hops and operations together;
  `ConnectsWhereJudged` between two lookups of one name; `ConnectionsAreClosed`
  on every way out but the two that section 8 names: a response that was a file is
  always closed, and in the engine every response; `DownloadEnds`, of the engine,
  also on a server that redirects forever or drips.
- *Relay.* `OnlyReopeningRebinds` is the identity check that holds where the
  documented one (section 7) does not; `MixedPromptsAreNotAnswered` is why the
  prompt may be put together from two readings; `SavedIsAccepted` why the page
  may tell the user so after a lost response.

## 5. Fairness and deadlock

`SemanticOperations`, `PersistedWorkflow` and `FileIngress` have a `FairSpec`;
every other specification is safety only, with `[][Next]_vars`.

- `SemanticOperations`: `WF` on the steps of each thread, for the operating
  system runs threads and no step waits for another thread; `SF` on each client
  asking for work, for the page and the skill poll (a thread has to be free for
  it, which is so again and again, hence strong fairness); `SF` on a client
  handing in a request that is not accepted yet, for clients retry until they
  are answered. Nothing is assumed of owners, of crashes, of the clock or of the
  other process. `ops_liveness` has a lease that lasts (`MaxTime = 0`);
  `ops_stranded` is the same claim with a lease that runs out, and fails.
- `PersistedWorkflow`: `WF` on the steps of each call, as above, and `SF` on the
  client repeating an initialisation that was not answered. Nothing is assumed
  of other callers.
- `FileIngress`: `WF` on the steps of the engine that binds its connections
  (`BoundDownload`), which are single operations: those on the network have
  timeouts, and the resolver gives up. Nothing is assumed of the exact-host path:
  `urllib` has a timeout for each read and none for a call, so a dripping head or
  an endless row of interim responses may hold it forever.

Every configuration says `CHECK_DEADLOCK FALSE`: behaviours end at the bounds
(revisions, requests, clock, calls), and a completed course may really rest.

## 6. Proofs

Everything below holds for every value of the constants that satisfies the
`ASSUME`s, which TLC evaluates on the instances: every number of threads,
callers, holders, lectures, sources, requests, references and revisions, every
deadline and every set of addresses.

**WorkflowProofs** (assumptions `InputsAssumption`, `InitialSourcesAssumption`).
The inductive invariant `WorkflowInv` is `TypeOK` with `PlanFitsStage`,
`ApprovalsAreHeld`, `CourseInv` (progress follows the map; one candidate;
completion), `StopsAreCoherent` and `SourcesDistinct`. None of the properties is
inductive alone: completion needs that progress has the length of the map, that
needs the plan to fit the stage, and leaving a stop needs what the stop
remembered. There is one lemma for each action. From it follow `TypeOK`,
`SourcesDistinct`, `StopsAreCoherent`, `OneCandidateInValidation`,
`CompletedIffAllAccepted`, `AcceptedOnEvidence` (with one more lemma about the
policy) and the action properties `StopsAreTransparent`, `CandidatesAreArchived`.

The same module shows `Spec => Abstract!ProductionSpec` under the mapping
`Abstract` of `Workflow`: agreed = a production stage; suspended = an issue is
active; each status is a word; before a new map is approved the abstract course
is the reserved lectures, all to do. Each action is simulated by one abstract
action or a stutter, given `WorkflowInv` before and after.

**SnapshotProofs**, the plan (the same assumptions). `PlanInv` is inductive given
`WorkflowInv`. `MapsOnlyGrow` speaks of two approvals at different times, so it
needs to be known when decisions were made and what became of them: a decision
carries the revision it led to, so none has a later date than the snapshot
(`ApprovalsAreDated`); the approval of the basis that stands is later than every
reopening and that of the map later still (`PlanIsOrdered`); and every map that
was ever approved fits into the map that stands or into the baseline that a
reopening kept (`BaselineIsLargest`). The history is of approved maps and places
in them (`HistoryIsApproved`), which with the baseline gives `HistoryLineage`.
`PlanInForce` and `SnapshotsAreValid` follow.

**SnapshotProofs**, what is shown (also `ContinuationAssumption`: the absent value
is no issue code and no kind of request). The handoff finds the actions of a stop by
the code of the issue, so it must be a code that the stage can have:
`IssueFitsStage` is inductive given `WorkflowInv`. Then every action that changes
the workflow is one of those listed for its stage, disposition and code
(`StepIsListed`, hence `StepsAreListed`). The converse is `WhatIsListedIsAccepted`: for
every action that is listed there is an input with which its handler makes a
step (`ListedActionsAreAccepted`), without which the owner or the agent would be
shown a button that does nothing. It needs the second half of `IssueFitsStage`,
that an issue is about what its digest was made of, since a retry and a
clearance name the digest they answer; and that a reviewer's verdict finds the
one candidate, a map decision its proposal, and a resumption the stage it
returns to. For each action a lemma (`PriorityCanBeApproved` and those after it)
names the state its handler leads to when the conditions hold; apart from them it
asks only for room within the bounds and for a new key of what it archives
(section 7, 1). `ContinuationIsAvailable`
follows from the same invariants without further steps. `EvidenceCoversTheWork`
also says which sources a task sees: those the assessment in force is of, none that
the owner dismissed, and those the map was reopened for. The last needs
`SourcesAreTaken`, which is part of `PlanInv`.

**SemanticWorkStoreProofs.** `StoreInv` (types, decodable rows, unique
operations) is inductive with `release_lease` included; `UsedInv` adds
`OneLivePerRevision` and `OneExecutor`, which needs `ToldIsLeased`: a lease that a
holder believes in is the one in the row, unless the request is closed. Then
`AcceptedIsFinal` and `LeaseIsExclusive`.

**SemanticOperationsProofs** (assumptions `PartsAssumption`, see below, and
`OperationsAssumption`: the absent value is no kind, row or result, and the
snapshots a job starts from are well formed and within the bounds). `OperationsInv` has two parts. `StoresHold`: what workflow and
requests say of one another, the three safety properties among it; the plan is
typed (`PlanHolds`), each receipt of a result is of the revision its request was
made for (`StepsHold`), and only an accepted row has a result, the envelope of an
answer to its request (`RowsHold`). `CallHolds(c)`: what a thread may rely on at
each of its calls. A snapshot it holds is the workflow's if it has its revision
(`IsPast`), what it hands in answers a request that is stored, what it is about to
accept is recorded, what it is about to reopen for is accepted. None of the
properties is inductive without these: the call that accepts a result does not
look at the workflow again, and a request is created from a snapshot that may be
old. The argument is that nothing is forgotten (`Remembers`: revisions grow,
receipts are only added, requests and accepted results stay), so what a thread has
established survives the steps of all others (`CallStays`), and each operation
needs only its own step. `AcceptedResultsAreRecorded`, `RequestsAreCurrent` and
`ReopeningsHaveVerdicts` follow.

That something is *missing* does not survive the steps of others. `RequestsAdvanceOnce`
therefore has a second invariant on top of the first, `OnceInv`: a thread on its way
to a validation or a reopening has found no receipt of it in the snapshot it holds
(`Untaken`); when it comes to save, either the revision is still that of the
snapshot, and so is the receipt's absence, or the save is refused. Two of the ways
to a reopening do not look: a verdict under a lease is not accepted, and what is
not accepted was not reopened for. A first transition needs no look at all: its
request is of the present revision, and a receipt would be of an earlier one
(`StepsAreDated`).

The same invariant gives both compositions. `OperationsUseTheWorkflow`: each step
is a step of `Workflow`'s `Next` or leaves it alone, with inputs that `Workflow`
allows. `OperationsImplementTheStore`: `Spec => Store!UsedSpec`, so that no lease is
asked for at a time that has not come and no result but an answer reaches the
store.

So what was proved of the parts holds of the whole. The theorems of `SnapshotProofs`
and `SemanticWorkStoreProofs` are taken with the variables of `SemanticOperations`
(`CourseProofs`, `StoreProofs`; `SameTransitions` and `SameStore` say that these are
the parts the operations are composed from), and `PartsAssumption` is what the
parts assume of their constants. `WorkflowStaysSound`: under every interleaving of
threads, crashes, repeats and steps from elsewhere, the workflow keeps
`SnapshotInv`, hence `SnapshotsAreValid`, `PlanInForce`, `AcceptedOnEvidence`,
`ContinuationIsAvailable`, `EvidenceCoversTheWork` and `ListedActionsAreAccepted`,
and its steps `CandidatesAreArchived`, `StopsAreTransparent` and `StepsAreListed`
(`CourseStaysSound`, which asks for no particular start). It is stated of a job that was given a snapshot with `SnapshotInv`, for the
operations start from any in `Start`; the handlers produce no other. (`ops` has two
starts with a cleared blocker while `IssueDigest` is empty, to keep further stops out;
of those it would hold with the blocker's subject in `IssueDigest`.)
`StoreKeepsItsPromises`: one live request of a revision, one executor of a
request, accepted results that are final, exclusive leases.

**CourseJobsProofs** (assumption `JobsAssumption`: the absent value is none of
the values it stands for). `JobsInv` has three parts.
`StoresInv`: what the stores say of one another (one job at most, its pointer,
the job of each build, no build without its review). `Follows(c)`: what a call
has read remains true as far as it will be used, e.g. a course record it holds is
the present one if it has its revision, and a review it saw passed has passed.
`Agrees(c)`: a job record that no one saved over still names the job's build.
The argument is that stores only grow (`Grows`), so `Follows` survives every step
of every other call (`FollowsOn`), and the one thing that does not grow, the
job's record, is guarded by `behind` (`JobAdvances`). Then each operation needs
only its own step. `JobsTyped`, `OneJob`, `OnlyReviewedIsBuilt`,
`OnlyCurrentIsServed`, `NoneIsLost` and `BuildStays` follow.

**PersistedWorkflowProofs** (assumption `PersistedAssumption`). `PersistedInv` is
`TypeOK` with what each call may rely on (`CallIsSound`), `RepeatIsOnItsWay` and
`SnapshotIsSound`. The argument: every step makes content, associations and
snapshot grow (`Grows`; the snapshot in the order `Begins`, by which one is a
beginning of the other). What a call has read is therefore a beginning of what is
stored, and of two beginnings of one line the revision tells which is longer; so
the comparison of revisions in `save` is as good as the comparison of whole
rows, a draft of the stored revision extends exactly the stored snapshot, and
what was loaded from a content store can still be loaded. `SnapshotsResolve`,
`DecisionsAreLinear`, `NoUpdateIsLost`, `RepeatsAreKnown` and `HistoryIsKept`
follow.

The refinement, `StoresAreALog`, is `Spec => Log!Spec`. `PersistedInv` is not enough
for it: it says that a draft is an extension of what is stored if its revision is
the next, but not on what its caller decided. `DraftInv` does: a draft is the
snapshot the call loaded with its own request added, and nothing in that snapshot
has the request's operation id. It is inductive, since a step of one call leaves
the drafts of the others alone (`OneDraft`). Then there is a lemma for each kind of
step: most are stutters (`QuietSteps`), loading the workflow is the caller's look,
a write is the decision on the line as it was seen (`WriteIsDecision`, the one that
needs both invariants: the row compared by its revision is the line itself), and
a write of the same row is the same decision again, which the abstract step
allows. `ImplementsDecisionLog` is the step part of `Log!Spec` with the stutters set
aside, as the run checks it.

**FileIngressProofs** (assumption `IngressAssumption`). `IngressInv` is `TypeOK`
with `PhaseFacts` (what each phase has established), `TimeFacts` (only a blocked
resolver is past the deadline, and only until `Judge`) and `StreamFacts` (which
connections are open in which phase, that each goes to the first address of
a lookup of its own hop that was judged as a whole, and what may be left open at
the end: a stream the deadline met between connection and handshake, or the
response of an error or of a redirect not followed by `urllib`). One lemma for
each action. From it
`DeadlineIsKept`, `ConnectionsAreJudged`, `NoConnectionIsLeft` and `SizeIsLimited`.

**RelayProofs** (assumptions `RelayAssumption` and `NoneAssumption`). `RelayInv` is
`TypeOK` with what a tab shows (`PageHolds`), what each flow carries (`FlowHolds`),
`OneFlowActs` and the properties. Two arguments. Of revisions: a request keeps its
revision and that of the workflow only grows, so what was read for a request is of
its revision or the request is stale (`PromptHolds`) and its answer is refused;
that is `MixedPromptsFail`. Of flows: as long as a tab has not opened a relay
beside a running flow, one flow at a time acts on its relay, an opening relay has
an empty box, and what a submitting flow carries suits the request the relay is
bound to (`Undisturbed`); this survives renewals, lost calls, other tabs, owner
decisions and synthetic generations, and gives `RebindingNeedsReopening`, the
strongest form of the documented identity check that holds (section 7, 3).
`SavedIsKept`: the server says ok only of what it has accepted, and that stays.

The theorems also establish properties that no run lists, since an invariant
that is proved needs no run: `SourcesDistinct`, `StopsAreCoherent`,
`OneCandidateInValidation`, `CompletedIffAllAccepted`, `ApprovalsAreReceipted`,
`HistoryLineage`, `DiagnosticsAreCurrent` of the workflow,
`ListedActionsAreAccepted` of what is shown of it, `OperationsAreUnique` and
`OneExecutor` of the store, `AnswersAreKept` and `DraftInv` of the persistence,
`SizeIsBounded` of the ingress, and the types of six modules.

**Only model-checked**: `ListedActionsAreAnswerable`, which is made of `ENABLED` (its
conditions and the steps they lead to are proved, see above; that an action with
a witness is `ENABLED` is not expressible here), and the liveness properties of
`SemanticOperations`, `PersistedWorkflow` and `FileIngress`. Liveness stays with TLC: the prover has no support for fairness and `ENABLED`.
Neither does it handle induction over data through theorems with operator
parameters, nor `RECURSIVE` operators; the modules use recursive functions and
folds instead, and no theorem needs such an induction.

## 7. Findings

Each is a passing counterexample search: the named run violates the named
property, which states what a comment, docstring or test of the repository says.

1. `history_keys`, `ListedReopenIsAccepted` (`workflow.py:2611`). Attempts start
   again at 1 after a map is reopened. If a reopened map is approved unchanged,
   a later reopening archives a draft under a key that is in the history, the
   constructor raises and no result is returned, although `approve_map_reopen`
   is listed among the legal next actions.
2. `ops_stranded`, `ValidationFollows` (`semantic_operations.py:1613`). A crash
   between a candidate's transition and its validation, then a lease that runs
   out: the retry is refused as stale, and no request is ever leased again in
   `lecture_validation`. The comments promise that the exact retry resumes.
3. `relay_rebound`, `AnswersReachTheirRequest` (`app/static/app.js:761`). A relay is
   closed while its prompt is on the way, and another opened, for another job.
   `openGptRelay` has emptied the box before its calls (line 697) and binds what
   comes back to whichever `gptRelayState` is there (761): the first prompt is
   shown in the second relay and answered there; then the second prompt and
   identity take its place, and the answer stays in the box. The next click
   renews the second job's request, finds the identity in order (881) and posts
   the first job's text as its result, which the server accepts, contrary to the
   comment of the identity check (`app.js:625`). The submit handler has the same
   weakness in longer runs: it reads the text when the button is clicked and
   `gptRelayState` again after each call (866, 881, 893).

## 8. Observations without a run

Met while modelling. They are in the models where these have the component; no
run is spent on them, since none contradicts a property stated above.

Semantic operations and courses:

- Accepted rows are searched, the current row is loaded, then the request is
  inserted (`semantic_operations.py:1042`, 1059, 1102): a verdict accepted in
  between is asked for a second time, contrary to the comment at 1038. The late
  second verdict may reopen a course that was final.
- Settings are "fail-closed after" initialisation (`course_operations.py:495`,
  `coarse-workflow.md`), but the workflow is looked at (line 537) before the
  course is saved (575) and initialisation does not touch the course.
- An exact repeat of an accepted result that is evidence only has no receipt in
  the workflow and is answered as a store failure (`semantic_operations.py:1971`).
- The recovery of a source assessment compares the action of the receipt, not its
  content (`semantic_operations.py:1689`).
- `release_lease` looks at no status (`semantic_work_persistence.py:754`); nothing
  calls it.
- The bytes of an attached source are stored before the course is looked at
  (`course_operations.py:279`).

Workflow persistence:

- A repeated initialisation is applied to no workflow
  (`course_workflow_transition_operations.py:266`), builds revision zero, and
  fails in the store once the workflow has advanced: the repeat of an answered
  initialisation is a store failure then, although `mcp_adapter.py` promises
  idempotency by operation id.
  `RepeatsAreRecognised` is therefore stated for transitions.

Ingress:

- `start_tls` computes its timeout (`mcp_file_ingress.py:614`) before its `try`: a
  deadline that passes between connect and handshake leaves the stream without
  an owner that closes it, contrary to the comment at 620. `ConnectionsAreClosed`
  names this way out.
- On the exact-host path a redirect that the handler refuses (268) and an error
  status are raised out of `opener.open`, so that the `with` at 331 never has the
  response: it stays open until it is collected. `ConnectionsAreClosed` names
  this one too.
- A redirect of the engine whose location `urljoin` cannot parse (line 892, e.g.
  an unfinished IPv6 host) raises `ValueError` out of `download_openai_file`, which
  promises bytes or one of four failures (lines 34-35). The tool answers
  `mcp_adapter_exception` (`mcp_adapter.py:832`) and stores nothing; the connection
  is closed.
- The exact-host path has no bound on the whole download: a server that drips a
  head, or the body of a redirect, keeps it as long as it likes. The comment at 198
  says as much. `DownloadEnds` is stated of the engine.

Relay, server and page:

- A repeated semantic review raises in `matches_accepted_text`
  (`chatgpt_relay.py:255`, 269), which looks for the lectures of a workflow it
  was not given, and nothing catches it: after a lost response the page cannot
  find out that its verdict was taken (`app.js:864` says it can).
- `revise-plan` clicks the submit button whether or not its relay became ready.
- The `finally` of an older submit flow enables the button of a newer relay.
- A post that is accepted after the user closed the relay is reported as a
  network error: the line that follows reads the state that is gone.
- `loadCourses` draws the cards again every 15 seconds and drops edits that are
  not saved.
- A synthetic generation leases with a clock of 2026-01-01, so that any other
  holder may take its lease.
- The prompt of the map author asks for exactly one accepted review of the basis
  (`server.py:1245`): there are two after a rejection and an identical proposal,
  and none after an approval over MCP; no prompt can be built then.
- The status card loads the workflow before it looks at the gate
  (`server.py:679`), so the two may be of different revisions.

Evidence:

- The manifests of lecture generation, review and correction name a priority
  proposal, which the continuation loads in the planning stages only.
- The manifest of a lecture that is written again has neither the rejected draft
  nor its validation.

## 9. Not modelled

- **The v1 transition contract** of the workflow, kept for old snapshots.
- **The kinds `visual_selection` and `visual_placement`** of semantic work: the
  scheduler never asks for them.
- **Static files, configuration, status codes** of the server, and the handlers
  that do nothing but call one operation, which is modelled where it lives.
- **The cards, forms and layout** of the page; **the JSON shapes** of the tools.
- **Assembly, rendering, compilation, contracts, prompts.** Pure functions over
  text and PDF; string grammars are out of the model checker's useful reach. A
  compiled file is a function of the documents.
- **Schema recognition and JSON codecs** of the stores, except that
  `EveryRowDecodes` states what the decoder of the work store demands.
- **Source snippets and previews**: functions of the pages of one source.
- **Tooling** in `ci/` and `scripts/`, and the text of the skill.

## 10. Plan

Done, in this order: the workflow and its abstraction, the work store, their
proofs; the composition of both under threads; the course, its job and its
builds, their proofs; what is shown of a snapshot; the stores around the
workflow and their proofs; the download and its proofs; the relay; the theorems
about the plan in force and about what is shown of a snapshot; those about the
semantic operations, their two compositions and the relay; that what is listed is
accepted; that the theorems of workflow and store hold of the operations; the abstract log of the persistence and its refinement.

What is left:

1. That `CourseJobs` implements the job that `SemanticOperations` has of it.
2. The composition of the relay with the semantic operations, for the rule of
   exactly one review (section 8).
3. Liveness of the job and its pointer: a start that is repeated ends with a job
   the course points to.

## 11. Running it

    tlc -workers 2 -config WorkflowStops.cfg MCWorkflow
    tlapm CourseJobsProofs.tla

`PROJECT.json` lists every run with its module and configuration, every mutation
with the property that notices it, the theorems, and for each definition the
lines of the source it models. The proof of `SemanticOperationsProofs` takes four to five
minutes on four cores, `CourseJobsProofs` and `RelayProofs` two to three, the others
less.
