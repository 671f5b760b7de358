---------------------------- MODULE CourseJobs ----------------------------
(***************************************************************************)
(* One course, the job that produces it and its builds                     *)
(* (course_operations.py, start_generation of semantic_operations.py,      *)
(* build_operations.py).  The course, the job, the builds, the sources and *)
(* the workflow are kept in separate stores.  Operations run in threads of *)
(* their own and are sequences of calls on these stores with nothing       *)
(* around them; each call is one step here.  A record is replaced under a  *)
(* compare-and-swap on its metadata revision; a build, a source and an     *)
(* accepted review never change.                                           *)
(*                                                                         *)
(* The workflow is what Workflow makes it, seen from here: it is started   *)
(* once with the sources of the course, produces until every document is   *)
(* accepted, stops and goes on, and is reopened by a verdict that asks for *)
(* corrections.  Abandon stands for a crash or an unavailable store        *)
(* between any two calls.                                                  *)
(***************************************************************************)
EXTENDS Naturals, Sequences, FiniteSets

CONSTANTS
  None,
  Thread,        \* threads that serve operations
  Source,        \* what may be attached, by name and digest
  InitialSettings,  \* what its owner may create the course with
  Settings,      \* title, modes and guidance of a course; "review" among them
  Document,      \* what the accepted documents of a course say together
  MaxMetadata,   \* bound on the revisions of the course by its owner
  MaxRevision,   \* bound on the revisions of the workflow
  MaxBuilds      \* bound on the builds

VARIABLES
  evidence,   \* sources whose bytes are stored
  course,     \* the record of the course
  workflow,   \* the workflow, None before it is started
  reviews,    \* the accepted verdict for each revision of the workflow
  jobs,       \* records of jobs, in the order they were made
  builds,     \* records of builds, in the order they were made
  cache,      \* the file kept for each document
  call        \* what each thread is doing

stores == <<evidence, course, workflow, reviews, jobs, builds, cache>>

vars == <<stores, call>>

\* A compiled file is determined by its documents; a cache entry may be spoilt.
File == Document \cup {"spoilt"}

Idle == [pc |-> "idle", course |-> None, job |-> None, behind |-> 0,
         id |-> 0, ws |-> None, source |-> None, settings |-> None,
         build |-> None, file |-> None]

At(t, pc) == call[t].pc = pc

Goes(t, c) == call' = [call EXCEPT ![t] = c]

\* A step that reads, and then goes on as c.
Reads(t, c) == Goes(t, c) /\ UNCHANGED stores

Ends(t) == Reads(t, Idle)

----------------------------------------------------------------------------
(* The record of the course (LocalCourseStore.save): the next revision of  *)
(* what the caller has read, or the very record that is stored.            *)

Revised(c) == [c EXCEPT !.revision = @ + 1]

SlipCourseSaves(read, new) == TRUE

CourseSaves(read, new) == course.revision = read.revision \/ course = Revised(new)

SaveCourse(new) == course' = Revised(new)

\* No two sources of a course share a name or say the same.
Admissible(source) ==
  \A s \in course.sources : s.id # source.id /\ s.digest # source.digest

AttachIngest(t, source) ==
  /\ call[t] = Idle
  /\ course.revision < MaxMetadata
  /\ \A s \in evidence : s.id = source.id => s = source
  /\ evidence' = evidence \cup {source}
  /\ Goes(t, [Idle EXCEPT !.pc = "attach_course", !.source = source])
  /\ UNCHANGED <<course, workflow, reviews, jobs, builds, cache>>

AttachCourse(t) ==
  /\ At(t, "attach_course")
  /\ Reads(t, IF Admissible(call[t].source)
                THEN [call[t] EXCEPT !.pc = "attach_save", !.course = course]
                ELSE Idle)

AttachSave(t) ==
  /\ At(t, "attach_save")
  /\ LET new == [call[t].course EXCEPT !.sources = @ \cup {call[t].source}]
     IN IF CourseSaves(call[t].course, new) THEN SaveCourse(new)
                                            ELSE UNCHANGED course
  /\ Goes(t, Idle)
  /\ UNCHANGED <<evidence, workflow, reviews, jobs, builds, cache>>

\* update_course_metadata: the caller names the revision it has seen.
UpdateCourse(t, settings) ==
  /\ call[t] = Idle
  /\ course.revision < MaxMetadata
  /\ course.pointer = None
  /\ Reads(t, [Idle EXCEPT !.pc = "update_workflow", !.course = course,
                           !.settings = settings])

UpdateWorkflow(t) ==
  /\ At(t, "update_workflow")
  /\ Reads(t, IF workflow = None THEN [call[t] EXCEPT !.pc = "update_save"]
                                 ELSE Idle)

UpdateSave(t) ==
  /\ At(t, "update_save")
  /\ LET new == [call[t].course EXCEPT !.settings = call[t].settings]
     IN IF CourseSaves(call[t].course, new) THEN SaveCourse(new)
                                            ELSE UNCHANGED course
  /\ Goes(t, Idle)
  /\ UNCHANGED <<evidence, workflow, reviews, jobs, builds, cache>>

----------------------------------------------------------------------------
(* The record of a job (LocalCourseJobStore.save): one for each workflow,  *)
(* and a projection of it.                                                 *)

\* derive_job_status
JobStatus(ws, build) ==
  CASE ws.phase = "completed" /\ build # None -> "completed"
    [] ws.phase = "completed" /\ build = None -> "deterministic_building"
    [] ws.phase = "stopped"                   -> "needs_attention"
    [] OTHER                                  -> "awaiting_semantic"

Shows(job, ws) ==
  job.status = JobStatus(ws, job.build) /\ job.revision = ws.revision

Projected(job, ws) ==
  [job EXCEPT !.status = JobStatus(ws, job.build), !.revision = ws.revision]

NewJob(settings, ws) ==
  [status |-> JobStatus(ws, None), revision |-> ws.revision,
   settings |-> settings, build |-> None]

SlipWorkflowIsTaken == FALSE

\* The workflow of a course is the workflow of one job at most.
WorkflowIsTaken == jobs # <<>>

\* A save is accepted over the record that was loaded, or when another call
\* saved the very same record over it.
JobSaves(c, new) == c.behind = 0 \/ (c.behind = 1 /\ jobs[c.id] = new)

\* The thread goes on as c; of every other call that holds the record this one
\* is behind by one save more.
SaveJob(t, new, c) ==
  IF call[t].behind = 0
    THEN /\ jobs' = [jobs EXCEPT ![call[t].id] = new]
         /\ call' = [u \in Thread |->
              IF u = t THEN c
              ELSE IF call[u].job # None
                THEN [call[u] EXCEPT !.behind = IF @ = 0 THEN 1 ELSE 2]
                ELSE call[u]]
    ELSE UNCHANGED jobs /\ Goes(t, c)

\* get_job_status: loads, compares, and loads the job once more before it
\* saves (reconcile_from_workflow).
StatusJob(t) ==
  /\ call[t] = Idle
  /\ jobs # <<>>
  /\ \E id \in DOMAIN jobs :
       Reads(t, [Idle EXCEPT !.pc = "status_workflow", !.id = id,
                             !.job = jobs[id]])

StatusWorkflow(t) ==
  /\ At(t, "status_workflow")
  /\ Reads(t, IF Shows(call[t].job, workflow) THEN Idle
              ELSE [call[t] EXCEPT !.pc = "status_reload", !.job = None,
                                   !.behind = 0, !.ws = workflow])

StatusReload(t) ==
  /\ At(t, "status_reload")
  /\ LET job == jobs[call[t].id] IN
       Reads(t, IF Shows(job, call[t].ws) THEN Idle
                ELSE [call[t] EXCEPT !.pc = "status_save", !.ws = None,
                                     !.job = Projected(job, call[t].ws)])

StatusSave(t) ==
  /\ At(t, "status_save")
  /\ IF JobSaves(call[t], call[t].job)
       THEN SaveJob(t, call[t].job, Idle)
       ELSE UNCHANGED jobs /\ Goes(t, Idle)
  /\ UNCHANGED <<evidence, course, workflow, reviews, builds, cache>>

----------------------------------------------------------------------------
(* start_generation                                                        *)

\* A pointer to a job wins; else the job is looked for by its workflow.
StartCourse(t) ==
  /\ call[t] = Idle
  /\ course.sources # {}
  /\ Reads(t, [Idle EXCEPT !.course = course, !.id = course.pointer,
                           !.pc = IF course.pointer = None THEN "start_find"
                                                           ELSE "start_job"])

StartJob(t) ==
  /\ At(t, "start_job")
  /\ Reads(t, [call[t] EXCEPT !.pc = "project", !.course = None,
                              !.job = jobs[call[t].id]])

StartFind(t) ==
  /\ At(t, "start_find")
  /\ Reads(t, IF WorkflowIsTaken
                THEN [call[t] EXCEPT !.pc = "start_repair", !.id = 1,
                                     !.job = jobs[1]]
                ELSE [call[t] EXCEPT !.pc = "start_workflow"])

\* The workflow may be there already, from a call that was cut short.
StartWorkflow(t) ==
  /\ At(t, "start_workflow")
  /\ Reads(t, IF workflow = None
                THEN [call[t] EXCEPT !.pc = "start_init"]
                ELSE [call[t] EXCEPT !.pc = "start_save", !.ws = workflow])

\* initialize_workflow through apply_persisted_course_workflow_request; of two
\* that come this far the second is refused by the store.
StartInit(t) ==
  /\ At(t, "start_init")
  /\ IF workflow = None
       THEN LET ws == [revision |-> 0, phase |-> "production", document |-> None]
            IN /\ workflow' = ws
               /\ Goes(t, [call[t] EXCEPT !.pc = "start_save", !.ws = ws])
       ELSE Goes(t, Idle) /\ UNCHANGED workflow
  /\ UNCHANGED <<evidence, course, reviews, jobs, builds, cache>>

StartSave(t) ==
  /\ At(t, "start_save")
  /\ IF WorkflowIsTaken
       THEN /\ UNCHANGED jobs
            /\ Goes(t, [call[t] EXCEPT !.pc = "start_again", !.ws = None])
       ELSE /\ jobs' = Append(jobs, NewJob(call[t].course.settings, call[t].ws))
            /\ Goes(t, [call[t] EXCEPT !.pc = "start_repair", !.ws = None,
                                       !.id = Len(jobs) + 1])
  /\ UNCHANGED <<evidence, course, workflow, reviews, builds, cache>>

StartAgain(t) ==
  /\ At(t, "start_again")
  /\ Reads(t, [call[t] EXCEPT !.pc = "start_repair", !.id = 1])

\* _repair_course_pointer, best effort.  A job that was found is projected next;
\* a new one is answered with.
StartRepair(t) ==
  /\ At(t, "start_repair")
  /\ LET c   == call[t]
         new == [c.course EXCEPT !.pointer = c.id]
     IN /\ IF CourseSaves(c.course, new) THEN SaveCourse(new)
                                         ELSE UNCHANGED course
        /\ Goes(t, IF c.job = None
                     THEN Idle
                     ELSE [c EXCEPT !.pc = "project", !.course = None])
  /\ UNCHANGED <<evidence, workflow, reviews, jobs, builds, cache>>

\* _reconcile_job_projection of a job that was loaded before.
Project(t) ==
  /\ At(t, "project")
  /\ Reads(t, IF Shows(call[t].job, workflow)
                THEN Idle
                ELSE [call[t] EXCEPT !.pc = "project_save", !.ws = workflow])

ProjectSave(t) ==
  /\ At(t, "project_save")
  /\ LET c   == call[t]
         new == Projected(c.job, c.ws)
     IN IF JobSaves(c, new)
          THEN SaveJob(t, new, Idle)
          ELSE /\ Goes(t, [c EXCEPT !.pc = "project_reload"])
               /\ UNCHANGED jobs
  /\ UNCHANGED <<evidence, course, workflow, reviews, builds, cache>>

SlipReloaded(c, job) ==
  [c EXCEPT !.pc = "project_retry", !.ws = None, !.behind = 0,
            !.job = Projected(c.job, c.ws)]

\* One retry, over the record as it is now and its build.
Reloaded(c, job) ==
  IF Shows(job, c.ws)
    THEN Idle
    ELSE [c EXCEPT !.pc = "project_retry", !.ws = None, !.behind = 0,
                   !.job = Projected(job, c.ws)]

ProjectReload(t) ==
  /\ At(t, "project_reload")
  /\ Reads(t, Reloaded(call[t], jobs[call[t].id]))

ProjectRetry(t) ==
  /\ At(t, "project_retry")
  /\ IF JobSaves(call[t], call[t].job)
       THEN SaveJob(t, call[t].job, Idle)
       ELSE UNCHANGED jobs /\ Goes(t, Idle)
  /\ UNCHANGED <<evidence, course, workflow, reviews, builds, cache>>

----------------------------------------------------------------------------
(* The workflow, moved by the semantic operations and the other processes. *)

Review(job) == job.settings = "review"

Moves(phase, document) ==
  /\ workflow.revision < MaxRevision
  /\ workflow' = [workflow EXCEPT !.revision = @ + 1, !.phase = phase,
                                  !.document = document]
  /\ UNCHANGED <<evidence, course, reviews, jobs, builds, cache, call>>

Stop   == workflow.phase = "production" /\ Moves("stopped", None)

GoOn   == workflow.phase = "stopped" /\ Moves("production", None)

Finish(document) ==
  workflow.phase = "production" /\ Moves("completed", document)

\* The first verdict accepted for a revision is the one that counts.
AcceptVerdict(verdict) ==
  /\ workflow.phase = "completed"
  /\ jobs # <<>> /\ Review(jobs[1])
  /\ reviews[workflow.revision] = None
  /\ reviews' = [reviews EXCEPT ![workflow.revision] = verdict]
  /\ UNCHANGED <<evidence, course, workflow, jobs, builds, cache, call>>

\* Also after a verdict that passed: a second request for the same revision may
\* be live, as SemanticOperations shows.
ReopenForCorrection ==
  /\ workflow.phase = "completed"
  /\ reviews[workflow.revision] # None
  /\ Moves("production", None)

----------------------------------------------------------------------------
(* build_pdf                                                               *)

BuildJob(t) ==
  /\ call[t] = Idle
  /\ \E id \in DOMAIN jobs :
       Reads(t, [Idle EXCEPT !.pc = "build_context", !.id = id,
                             !.job = jobs[id]])

\* A job that names a build is only checked, never built again.
Gated(c, ws) ==
  IF c.job.build = None
    THEN [c EXCEPT !.ws = ws, !.pc = "build_record"]
    ELSE [c EXCEPT !.ws = ws, !.pc = "build_check", !.build = c.job.build,
                   !.job = None, !.behind = 0]

BuildContext(t) ==
  /\ At(t, "build_context")
  /\ LET c == call[t] IN
       Reads(t, IF workflow.phase # "completed" THEN Idle
                ELSE IF Review(c.job)
                       THEN [c EXCEPT !.ws = workflow, !.pc = "build_review"]
                       ELSE Gated(c, workflow))

SlipReviewAllows(ws) == reviews[ws.revision] # None

\* derive_review_progress is semantic_final.
ReviewAllows(ws) == reviews[ws.revision] = "passed"

BuildReview(t) ==
  /\ At(t, "build_review")
  /\ Reads(t, IF ReviewAllows(call[t].ws) THEN Gated(call[t], call[t].ws)
                                          ELSE Idle)

SlipVerified(build, id, ws) ==
  /\ ws.phase = "completed"
  /\ builds[build].job = id

\* _verify_exact_build_identity, of a succeeded build.
Verified(build, id, ws) ==
  /\ ws.phase = "completed"
  /\ builds[build].job = id
  /\ builds[build].revision = ws.revision
  /\ builds[build].document = ws.document

PutInCache(document, file) == cache' = [cache EXCEPT ![document] = file]

BuildCheck(t) ==
  /\ At(t, "build_check")
  /\ LET c == call[t] IN
       IF Verified(c.build, c.id, c.ws) /\ cache[c.ws.document] = None
         THEN PutInCache(c.ws.document, c.ws.document)
         ELSE UNCHANGED cache
  /\ Goes(t, Idle)
  /\ UNCHANGED <<evidence, course, workflow, reviews, jobs, builds>>

\* The cache may change right after, so its file is written with the record.
BuildRecord(t) ==
  /\ At(t, "build_record")
  /\ Len(builds) < MaxBuilds
  /\ builds' = Append(builds, [job |-> call[t].id,
                               revision |-> call[t].ws.revision,
                               document |-> call[t].ws.document])
  /\ PutInCache(call[t].ws.document, call[t].ws.document)
  /\ Goes(t, [call[t] EXCEPT !.pc = "build_save", !.build = Len(builds) + 1])
  /\ UNCHANGED <<evidence, course, workflow, reviews, jobs>>

Completed(job, build, ws) ==
  [job EXCEPT !.status = "completed", !.revision = ws.revision, !.build = build]

BuildSave(t) ==
  /\ At(t, "build_save")
  /\ LET c   == call[t]
         new == Completed(c.job, c.build, c.ws)
     IN IF JobSaves(c, new) THEN SaveJob(t, new, Idle)
                            ELSE UNCHANGED jobs /\ Goes(t, Idle)
  /\ UNCHANGED <<evidence, course, workflow, reviews, builds, cache>>

----------------------------------------------------------------------------
(* reconcile_job_build_projection: adopts the last build of a job that a   *)
(* call which was cut short did not name.                                  *)

RepairJob(t) ==
  /\ call[t] = Idle
  /\ \E id \in DOMAIN jobs :
       Reads(t, [Idle EXCEPT !.pc = "repair_context", !.id = id,
                             !.job = jobs[id]])

RepairContext(t) ==
  /\ At(t, "repair_context")
  /\ Reads(t, [call[t] EXCEPT !.pc = "repair_build", !.ws = workflow])

\* The last build of a job, if it has one.
Latest(id) ==
  LET own == {b \in DOMAIN builds : builds[b].job = id}
  IN {b \in own : \A o \in own : o <= b}

Adopts(build, c) == Verified(build, c.id, c.ws) /\ c.job.status # "completed"

RepairBuild(t) ==
  /\ At(t, "repair_build")
  /\ \/ \E build \in Latest(call[t].id) :
          /\ Adopts(build, call[t])
          /\ Reads(t, [call[t] EXCEPT !.pc = "build_save", !.build = build])
     \/ /\ \A build \in Latest(call[t].id) : ~Adopts(build, call[t])
        /\ Ends(t)

----------------------------------------------------------------------------
(* get_artifact: the build, its job and the workflow must agree before any *)
(* file leaves; a file of the cache is used only if it is the one built.   *)

ArtifactJob(t) ==
  /\ call[t] = Idle
  /\ \E b \in DOMAIN builds :
       /\ jobs[builds[b].job].build = b
       /\ Reads(t, [Idle EXCEPT !.pc = "artifact_context", !.build = b,
                                !.id = builds[b].job])

ArtifactContext(t) ==
  /\ At(t, "artifact_context")
  /\ Reads(t, IF Verified(call[t].build, call[t].id, workflow)
                THEN [call[t] EXCEPT !.pc = "artifact_file", !.ws = workflow]
                ELSE Idle)

Usable(file, document) == file = document

ArtifactFile(t) ==
  /\ At(t, "artifact_file")
  /\ LET document == builds[call[t].build].document
         kept     == cache[document]
         file     == IF Usable(kept, document) THEN kept ELSE document
     IN /\ PutInCache(document, file)
        /\ Goes(t, [call[t] EXCEPT !.pc = "artifact_answer", !.file = file])
  /\ UNCHANGED <<evidence, course, workflow, reviews, jobs, builds>>

ArtifactAnswer(t) == At(t, "artifact_answer") /\ Ends(t)

\* The cache is a directory: files are removed from it and spoilt.
CacheChanges(document) ==
  /\ cache[document] # None
  /\ \E file \in {None, "spoilt"} : PutInCache(document, file)
  /\ UNCHANGED <<evidence, course, workflow, reviews, jobs, builds, call>>

----------------------------------------------------------------------------
Abandon(t) ==
  /\ call[t] # Idle
  /\ Goes(t, Idle)
  /\ UNCHANGED stores

\* After create_course, which saves the association with a workflow of a name
\* drawn for it before the course itself.
Init ==
  /\ evidence = {}
  /\ course \in [revision : {0}, sources : {{}}, settings : InitialSettings,
                 pointer : {None}]
  /\ workflow = None
  /\ reviews = [r \in 0..MaxRevision |-> None]
  /\ jobs = <<>>
  /\ builds = <<>>
  /\ cache = [d \in Document |-> None]
  /\ call = [t \in Thread |-> Idle]

Owner(t) ==
  \/ \E source \in Source : AttachIngest(t, source)
  \/ \E settings \in Settings : UpdateCourse(t, settings)
  \/ StartCourse(t)
  \/ StatusJob(t) \/ BuildJob(t) \/ RepairJob(t) \/ ArtifactJob(t)

Step(t) ==
  \/ AttachCourse(t) \/ AttachSave(t)
  \/ UpdateWorkflow(t) \/ UpdateSave(t)
  \/ StatusWorkflow(t) \/ StatusReload(t) \/ StatusSave(t)
  \/ StartJob(t) \/ StartFind(t) \/ StartWorkflow(t) \/ StartInit(t)
  \/ StartSave(t) \/ StartAgain(t) \/ StartRepair(t)
  \/ Project(t) \/ ProjectSave(t) \/ ProjectReload(t) \/ ProjectRetry(t)
  \/ BuildContext(t) \/ BuildReview(t) \/ BuildCheck(t) \/ BuildRecord(t)
  \/ BuildSave(t)
  \/ RepairContext(t) \/ RepairBuild(t)
  \/ ArtifactContext(t) \/ ArtifactFile(t) \/ ArtifactAnswer(t)

WorkflowMoves ==
  /\ workflow # None
  /\ \/ Stop \/ GoOn \/ ReopenForCorrection
     \/ \E document \in Document : Finish(document)
     \/ \E verdict \in {"passed", "corrections"} : AcceptVerdict(verdict)

Next ==
  \/ \E t \in Thread : Owner(t) \/ Step(t) \/ Abandon(t)
  \/ WorkflowMoves
  \/ \E document \in Document : CacheChanges(document)

Spec == Init /\ [][Next]_vars

----------------------------------------------------------------------------
(* What the records are.                                                   *)

CourseRecord ==
  [revision : Nat, sources : SUBSET Source,
   settings : InitialSettings \cup Settings, pointer : Nat \cup {None}]

\* A workflow has its documents when it is completed.
WorkflowState ==
  [revision : 0..MaxRevision, phase : {"production", "stopped"},
   document : {None}]
  \cup [revision : 0..MaxRevision, phase : {"completed"}, document : Document]

JobRecord ==
  [status : {"completed", "deterministic_building", "needs_attention",
             "awaiting_semantic"},
   revision : 0..MaxRevision, settings : InitialSettings \cup Settings,
   build : Nat \cup {None}]

Build == [job : Nat, revision : 0..MaxRevision, document : Document]

Attaching == {"attach_course", "attach_save"}
Updating  == {"update_workflow", "update_save"}
Starting  == {"start_find", "start_workflow", "start_init", "start_save",
              "start_again", "start_repair"}
Following == {"start_job", "status_workflow", "status_reload", "status_save",
              "project", "project_save", "project_reload", "project_retry",
              "repair_context", "repair_build",
              "build_context", "build_review", "build_record"}
Naming    == {"build_check", "build_save", "artifact_context", "artifact_file",
              "artifact_answer"}

Call ==
  [pc : {"idle"} \cup Attaching \cup Updating \cup Starting \cup Following
          \cup Naming,
   course : CourseRecord \cup {None}, job : JobRecord \cup {None},
   behind : 0..2, id : Nat \cup {None}, ws : WorkflowState \cup {None},
   source : Source \cup {None}, settings : Settings \cup {None},
   build : Nat \cup {None}, file : File \cup {None}]

\* The absent value is none of the values it stands in for.
ASSUME JobsAssumption ==
  /\ MaxRevision \in Nat
  /\ None \notin Nat /\ None # "passed"
  /\ None \notin CourseRecord
  /\ None \notin JobRecord
  /\ None \notin WorkflowState

\* The constructors of CourseRecord, CourseJobRecord and BuildRecord.
TypeOK ==
  /\ evidence \in SUBSET Source
  /\ course \in CourseRecord
  /\ workflow \in WorkflowState \cup {None}
  /\ reviews \in [0..MaxRevision -> {"passed", "corrections", None}]
  /\ jobs \in Seq(JobRecord)
  /\ builds \in Seq(Build)
  /\ cache \in [Document -> File \cup {None}]
  /\ call \in [Thread -> Call]

----------------------------------------------------------------------------
(* Properties                                                              *)

\* start_generation: "At most one Job per Course exists."  However many calls
\* race or are cut short, they answer with one job, and it is the one the course
\* points to.
OneJobPerCourse ==
  /\ Len(jobs) <= 1
  /\ course.pointer \in {None} \cup DOMAIN jobs

\* A source that was attached and the pointer to the job are never overwritten
\* by an operation that read the course before them: attaching, updating and
\* repairing all save the whole record.
NothingIsLost ==
  [][/\ course.sources \subseteq course'.sources
     /\ course.pointer # None => course'.pointer = course.pointer]_vars

\* The gate of build_pdf: of a course in review nothing is built, and nothing is
\* named as its build, but the very revision whose review passed.
BuiltIsReviewed ==
  /\ \A b \in DOMAIN builds :
       Review(jobs[builds[b].job]) => reviews[builds[b].revision] = "passed"
  /\ \A id \in DOMAIN jobs :
       jobs[id].build # None => builds[jobs[id].build].job = id

\* "projecting a workflow-completed job neither wipes the pointers nor
\* downgrades": however projections, builds and repairs race for its record, a
\* job that names a build goes on naming one, of no earlier revision.
BuildIsKept ==
  [][\A id \in DOMAIN jobs :
       jobs[id].build # None =>
         /\ jobs'[id].build # None
         /\ builds[jobs[id].build].revision
              <= builds'[jobs'[id].build].revision]_vars

\* get_artifact: "A stale or cross-Job BuildRecord is never downloadable merely
\* because a cache file happens to exist."
ServedIsCurrent ==
  \A t \in Thread : At(t, "artifact_answer") =>
    LET build == builds[call[t].build] IN
      /\ call[t].file = build.document
      /\ call[t].ws.revision = build.revision
      /\ call[t].ws.document = build.document

=============================================================================
