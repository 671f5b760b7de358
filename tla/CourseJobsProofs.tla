-------------------------- MODULE CourseJobsProofs --------------------------
(***************************************************************************)
(* Proofs about CourseJobs, for every set of threads, sources, settings    *)
(* and documents and every bound on revisions and builds.                  *)
(*                                                                         *)
(* The stores only grow (Grows): the course by revisions, the job by       *)
(* projections that leave its settings, the builds at their end.  So what  *)
(* a call has read stays true of the stores as far as it matters           *)
(* (Follows), but for the record of the job itself, which is current while *)
(* no other call has saved one (Agrees).  JobsInv is inductive, and the    *)
(* theorems follow from it.                                                *)
(***************************************************************************)
EXTENDS CourseJobs, SequenceTheorems, TLAPS

Known == DOMAIN jobs

\* What the stores say of one another.
StoresInv ==
  /\ evidence \in SUBSET Source
  /\ course \in CourseRecord
  /\ workflow \in WorkflowState \cup {None}
  /\ reviews \in [0..MaxRevision -> {"passed", "corrections", None}]
  /\ jobs \in Seq(JobRecord)
  /\ builds \in Seq(Build)
  /\ cache \in [Document -> File \cup {None}]
  /\ Len(jobs) <= 1
  /\ course.pointer \in Known \cup {None}
  /\ jobs # <<>> => workflow # None
  /\ \A id \in Known :
       /\ jobs[id].build \in DOMAIN builds \cup {None}
       /\ jobs[id].build # None => builds[jobs[id].build].job = id
  /\ \A b \in DOMAIN builds :
       /\ builds[b].job \in Known
       /\ builds[b].revision <= workflow.revision
       /\ Review(jobs[builds[b].job]) => reviews[builds[b].revision] = "passed"

\* What a call holds of the course: the present record, or an older one, and
\* one without a pointer when it is to be given one or changed.
HoldsCourse(c) ==
  /\ c.course # None =>
       /\ c.course.revision <= course.revision
       /\ c.course.revision = course.revision => c.course = course
  /\ c.pc \in Updating \cup Starting \cup {"attach_save"} => c.course # None
  /\ c.pc \in Updating \cup Starting => c.course.pointer = None

\* What it holds of the workflow.
HoldsState(c) ==
  /\ c.ws # None => workflow # None /\ c.ws.revision <= workflow.revision
  /\ c.pc \in {"start_save", "status_reload", "project_save", "project_reload",
               "build_review", "build_record", "build_check", "build_save",
               "repair_build", "artifact_file", "artifact_answer"}
       => c.ws # None
  /\ c.pc \in {"build_review", "build_record", "build_check", "build_save",
               "artifact_file", "artifact_answer"}
       => c.ws.phase = "completed"

\* What it holds of the job.
HoldsJob(c) ==
  /\ c.pc \in Following \cup Naming \cup {"start_repair"} => c.id \in Known
  /\ c.pc \in {"status_workflow", "status_save", "project", "project_save",
               "project_reload", "project_retry", "build_context",
               "build_review", "build_record", "build_save",
               "repair_context", "repair_build"}
       => c.job # None
  /\ c.pc = "start_again" => Known # {}
  /\ c.job = None => c.behind = 0
  /\ c.job # None =>
       /\ c.id \in Known
       /\ c.job.settings = jobs[c.id].settings
       /\ c.job.build \in DOMAIN builds \cup {None}
       /\ c.job.build # None => builds[c.job.build].job = c.id

\* What it holds of the builds.
HoldsBuild(c) ==
  /\ c.pc \in Naming => /\ c.build \in DOMAIN builds
                        /\ builds[c.build].job = c.id
  /\ c.pc = "build_record" =>
       /\ c.job.build = None
       /\ Review(c.job) => reviews[c.ws.revision] = "passed"
  /\ c.pc \in {"build_save", "repair_build"} /\ c.job.build # None =>
       builds[c.job.build].revision <= c.ws.revision
  /\ c.pc \in {"build_save", "artifact_file", "artifact_answer"} =>
       builds[c.build].revision = c.ws.revision
  /\ c.pc \in {"artifact_file", "artifact_answer"} =>
       builds[c.build].document = c.ws.document
  /\ c.pc = "artifact_answer" => c.file = builds[c.build].document

Follows(c) ==
  /\ c \in Call
  /\ c.pc \in Attaching => c.source \in Source
  /\ c.pc \in Updating => c.settings \in Settings
  /\ HoldsCourse(c)
  /\ HoldsState(c)
  /\ HoldsJob(c)
  /\ HoldsBuild(c)

Agrees(c) == c.job # None /\ c.behind = 0 => c.job.build = jobs[c.id].build

\* The inductive invariant.
JobsInv ==
  /\ StoresInv
  /\ call \in [Thread -> Call]
  /\ \A t \in Thread : Follows(call[t]) /\ Agrees(call[t])

----------------------------------------------------------------------------
\* What no operation does to the stores is to take something back.
Grows ==
  /\ course' = course \/ course'.revision = course.revision + 1
  /\ workflow # None =>
       workflow' # None /\ workflow.revision <= workflow'.revision
  /\ \A r \in 0..MaxRevision :
       reviews[r] = "passed" => reviews'[r] = "passed"
  /\ \A id \in Known : id \in Known' /\ jobs'[id].settings = jobs[id].settings
  /\ \A b \in DOMAIN builds :
       b \in DOMAIN builds' /\ builds'[b] = builds[b]

\* The records are records.
LEMMA Absent ==
  /\ \A r \in CourseRecord \cup JobRecord \cup WorkflowState : r # None
  /\ \A n \in Nat : n # None
BY JobsAssumption

\* Whatever the stores come to, what a call has read goes on being true.
LEMMA FollowsOn ==
  ASSUME StoresInv, StoresInv', Grows, NEW c, Follows(c)
  PROVE  Follows(c)'
<1> USE DEF Follows
<1>1. HoldsCourse(c)'
  BY DEF HoldsCourse, Grows, StoresInv, CourseRecord, Call
<1>2. HoldsState(c)'
  BY Absent DEF HoldsState, Grows, StoresInv, WorkflowState, Call
<1>3. HoldsJob(c)'
  BY DEF HoldsJob, Grows, StoresInv, Known
<1>4. HoldsBuild(c)'
  BY Absent DEF HoldsBuild, HoldsJob, HoldsState, Grows, StoresInv, Known, Call,
     WorkflowState, Review, Naming
<1> QED BY <1>1, <1>2, <1>3, <1>4

\* A step of one call that leaves the records of jobs alone.
LEMMA CallGoes ==
  ASSUME JobsInv, StoresInv', Grows,
         \A id \in Known : jobs'[id] = jobs[id],
         NEW t \in Thread, NEW c, Goes(t, c), Follows(c)', Agrees(c)'
  PROVE  JobsInv'
<1>1. call' \in [Thread -> Call]
  BY DEF JobsInv, Goes, Follows
<1>2. ASSUME NEW u \in Thread PROVE (Follows(call[u]) /\ Agrees(call[u]))'
  <2>1. CASE u = t
    BY <2>1 DEF JobsInv, Goes
  <2>2. CASE u # t
    <3>1. call'[u] = call[u]
      BY <2>2 DEF JobsInv, Goes
    <3>2. Follows(call[u]) /\ Agrees(call[u])
      BY DEF JobsInv
    <3>3. \A d : Follows(d) => Follows(d)'
      BY FollowsOn DEF JobsInv
    <3>4. \A d : Follows(d) /\ Agrees(d) => Agrees(d)'
      BY DEF Agrees, Follows, HoldsJob
    <3> QED BY <3>1, <3>2, <3>3, <3>4
  <2> QED BY <2>1, <2>2
<1> QED BY <1>1, <1>2 DEF JobsInv

\* A step of one call that only reads.
LEMMA CallReads ==
  ASSUME JobsInv, NEW t \in Thread, NEW c, Reads(t, c), Follows(c), Agrees(c)
  PROVE  JobsInv'
<1>1. StoresInv' /\ Grows
  BY DEF JobsInv, StoresInv, Grows, Reads, stores, Known, Review, WorkflowState,
     JobRecord, CourseRecord, Build, File
<1>2. Follows(c)'
  BY <1>1, FollowsOn DEF JobsInv
<1>3. Agrees(c)'
  BY DEF Agrees, Reads, stores
<1> QED BY <1>1, <1>2, <1>3, CallGoes DEF Reads, stores

\* A fact the provers must be told.
LEMMA NotBehind == 0 \in 0..2
OBVIOUS

LEMMA IdleIsCall == Idle \in Call
BY DEF Idle, Call

\* One field of a call replaced.
LEMMA CallWith ==
  ASSUME NEW d \in Call
  PROVE  /\ \A pc \in Attaching \cup Updating \cup Starting \cup Following
                      \cup Naming : [d EXCEPT !.pc = pc] \in Call
         /\ [d EXCEPT !.course = None] \in Call
         /\ \A r \in CourseRecord : [d EXCEPT !.course = r] \in Call
         /\ [d EXCEPT !.job = None] \in Call
         /\ \A job \in JobRecord : [d EXCEPT !.job = job] \in Call
         /\ [d EXCEPT !.behind = 0] \in Call
         /\ [d EXCEPT !.id = None] \in Call
         /\ \A id \in Nat : [d EXCEPT !.id = id] \in Call
         /\ [d EXCEPT !.ws = None] \in Call
         /\ \A ws \in WorkflowState : [d EXCEPT !.ws = ws] \in Call
         /\ \A source \in Source : [d EXCEPT !.source = source] \in Call
         /\ \A s \in Settings : [d EXCEPT !.settings = s] \in Call
         /\ \A b \in Nat : [d EXCEPT !.build = b] \in Call
         /\ \A f \in File : [d EXCEPT !.file = f] \in Call
<1>1. \A pc \in Attaching \cup Updating \cup Starting \cup Following
                \cup Naming : [d EXCEPT !.pc = pc] \in Call
  BY DEF Call
<1>2. /\ [d EXCEPT !.course = None] \in Call
      /\ [d EXCEPT !.job = None] \in Call
  BY DEF Call
<1>3. /\ [d EXCEPT !.ws = None] \in Call
      /\ [d EXCEPT !.id = None] \in Call
  BY DEF Call
<1>4. \A r \in CourseRecord : [d EXCEPT !.course = r] \in Call
  BY DEF Call
<1>5. \A job \in JobRecord : [d EXCEPT !.job = job] \in Call
  BY DEF Call
<1>6. [d EXCEPT !.behind = 0] \in Call
  BY NotBehind DEF Call
<1>7. \A n \in Nat : /\ [d EXCEPT !.id = n] \in Call
                     /\ [d EXCEPT !.build = n] \in Call
  BY DEF Call
<1>8. \A ws \in WorkflowState : [d EXCEPT !.ws = ws] \in Call
  BY DEF Call
<1>9. \A source \in Source : [d EXCEPT !.source = source] \in Call
  BY DEF Call
<1>10. \A s \in Settings : [d EXCEPT !.settings = s] \in Call
  BY DEF Call
<1>11. \A f \in File : [d EXCEPT !.file = f] \in Call
  BY DEF Call
<1> QED BY <1>1, <1>2, <1>3, <1>4, <1>5, <1>6, <1>7, <1>8, <1>9, <1>10, <1>11

LEMMA IdleFollows ==
  ASSUME JobsInv
  PROVE  Follows(Idle) /\ Agrees(Idle)
BY IdleIsCall DEF Follows, Agrees, Idle, Call, HoldsCourse, HoldsState, HoldsJob,
   HoldsBuild, Attaching, Updating, Starting, Following, Naming

----------------------------------------------------------------------------
(* The course.                                                             *)

\* The compare-and-swap: who may save has the present record, or the record
\* that is there already is the one to be saved.
LEMMA SavedOver ==
  ASSUME StoresInv, NEW c, HoldsCourse(c), c.course # None, NEW new,
         CourseSaves(c.course, new)
  PROVE  course = c.course \/ course = Revised(new)
BY DEF CourseSaves, HoldsCourse

LEMMA RevisedRecord ==
  ASSUME NEW r \in CourseRecord
  PROVE  /\ Revised(r) \in CourseRecord
         /\ Revised(r).revision = r.revision + 1
         /\ Revised(r).pointer = r.pointer
BY DEF Revised, CourseRecord

\* A record of the course is replaced by the next one.
LEMMA CourseAdvances ==
  ASSUME JobsInv, NEW t \in Thread, NEW c, Goes(t, c), Follows(c), Agrees(c),
         course' \in CourseRecord,
         course' = course \/ course'.revision = course.revision + 1,
         course'.pointer \in Known \cup {None},
         UNCHANGED <<evidence, workflow, reviews, jobs, builds, cache>>
  PROVE  JobsInv'
<1>1. StoresInv'
  BY DEF JobsInv, StoresInv, Known, Review
<1>2. Grows
  BY DEF JobsInv, StoresInv, Grows, Known, WorkflowState
<1>3. Follows(c)' /\ Agrees(c)'
  BY <1>1, <1>2, FollowsOn DEF JobsInv, Agrees
<1> QED BY <1>1, <1>2, <1>3, CallGoes

LEMMA AttachKeeps ==
  ASSUME JobsInv, NEW t \in Thread,
         \/ \E source \in Source : AttachIngest(t, source)
         \/ AttachCourse(t) \/ AttachSave(t)
  PROVE  JobsInv'
<1> USE DEF Attaching, Updating, Starting, Following, Naming
<1>1. ASSUME NEW source \in Source, AttachIngest(t, source) PROVE JobsInv'
  <2> DEFINE c == [Idle EXCEPT !.pc = "attach_course", !.source = source]
  <2>1. Follows(c) /\ Agrees(c)
    <3>1. c \in Call
      BY IdleIsCall, CallWith
    <3> QED BY <3>1 DEF Follows, Agrees, Idle, HoldsCourse, HoldsState,
               HoldsJob, HoldsBuild
  <2>2. StoresInv' /\ Grows
    <3>1. evidence' \in SUBSET Source
      BY <1>1 DEF AttachIngest, JobsInv, StoresInv
    <3>2. UNCHANGED <<course, workflow, reviews, jobs, builds, cache>>
      BY <1>1 DEF AttachIngest
    <3> QED BY <3>1, <3>2 DEF JobsInv, StoresInv, Grows, Known, Review,
               WorkflowState
  <2>3. Goes(t, c) /\ UNCHANGED jobs
    BY <1>1 DEF AttachIngest
  <2>4. Follows(c)' /\ Agrees(c)'
    BY <2>1, <2>2, <2>3, FollowsOn DEF JobsInv, Agrees
  <2> HIDE DEF c
  <2> QED BY <2>2, <2>3, <2>4, CallGoes
<1>2. CASE AttachCourse(t)
  <2> DEFINE c == [call[t] EXCEPT !.pc = "attach_save", !.course = course]
  <2>0. /\ Follows(call[t]) /\ Agrees(call[t])
        /\ At(t, "attach_course")
        /\ course \in CourseRecord
    BY <1>2 DEF AttachCourse, JobsInv, StoresInv
  <2>1. Follows(c) /\ Agrees(c)
    <3> USE <2>0 DEF Follows, At
    <3>1. c \in Call
      BY DEF Call
    <3>2. HoldsCourse(c)
      BY Absent DEF Call, HoldsCourse, CourseRecord
    <3>3. HoldsState(c) /\ HoldsJob(c) /\ HoldsBuild(c) /\ Agrees(c)
      BY DEF Call, HoldsState, HoldsJob, HoldsBuild, Agrees
    <3>4. c.pc = "attach_save" /\ c.source \in Source
      BY DEF Call
    <3> QED BY <3>1, <3>2, <3>3, <3>4
  <2>2. Reads(t, c) \/ Reads(t, Idle)
    BY <1>2 DEF AttachCourse
  <2> HIDE DEF c
  <2> QED BY <2>1, <2>2, IdleFollows, CallReads
<1>3. CASE AttachSave(t)
  <2> DEFINE c   == call[t]
             new == [c.course EXCEPT !.sources = @ \cup {c.source}]
  <2>1. /\ Follows(c)
        /\ c.course # None
        /\ c.source \in Source
        /\ c.course \in CourseRecord
    BY <1>3 DEF AttachSave, At, JobsInv, Follows, HoldsCourse, Call
  <2>2. CASE CourseSaves(c.course, new)
    <3>1. course' = Revised(new)
      BY <1>3, <2>2 DEF AttachSave, SaveCourse
    <3>2. course = c.course \/ course = Revised(new)
      BY <2>1, <2>2, SavedOver DEF JobsInv, Follows
    <3>. new \in CourseRecord /\ new.pointer = c.course.pointer
                             /\ new.revision = c.course.revision
      BY <2>1 DEF CourseRecord
    <3> HIDE DEF new
    <3>3. course' \in CourseRecord
      BY <3>1, RevisedRecord
    <3>4. course' = course \/ course'.revision = course.revision + 1
      BY <3>1, <3>2, RevisedRecord
    <3>5. course'.pointer \in Known \cup {None}
      BY <3>1, <3>2, RevisedRecord DEF JobsInv, StoresInv
    <3>6. /\ Goes(t, Idle)
          /\ UNCHANGED <<evidence, workflow, reviews, jobs, builds, cache>>
      BY <1>3 DEF AttachSave
    <3> QED BY <3>3, <3>4, <3>5, <3>6, IdleFollows, CourseAdvances
  <2>3. CASE ~CourseSaves(c.course, new)
    BY <1>3, <2>3, IdleFollows, CallReads DEF AttachSave, Reads, stores
  <2> QED BY <2>2, <2>3
<1> QED BY <1>1, <1>2, <1>3

LEMMA UpdateKeeps ==
  ASSUME JobsInv, NEW t \in Thread,
         \/ \E settings \in Settings : UpdateCourse(t, settings)
         \/ UpdateWorkflow(t) \/ UpdateSave(t)
  PROVE  JobsInv'
<1> USE DEF Attaching, Updating, Starting, Following, Naming
<1>1. ASSUME NEW settings \in Settings, UpdateCourse(t, settings)
      PROVE  JobsInv'
  <2> DEFINE c == [Idle EXCEPT !.pc = "update_workflow", !.course = course,
                               !.settings = settings]
  <2>1. Follows(c) /\ Agrees(c)
    <3>1. c \in Call
      <4>1. course \in CourseRecord
        BY DEF JobsInv, StoresInv
      <4> QED BY <4>1, IdleIsCall, CallWith
    <3>2. c.pc = "update_workflow" /\ c.settings \in Settings /\ c.course = course
      BY DEF Idle
    <3>3. HoldsCourse(c)
      <4>1. course.pointer = None /\ course \in CourseRecord
        BY <1>1 DEF UpdateCourse, JobsInv, StoresInv
      <4> HIDE DEF c
      <4> QED BY <3>2, <4>1, Absent DEF HoldsCourse, CourseRecord
    <3>4. HoldsState(c) /\ HoldsJob(c) /\ HoldsBuild(c) /\ Agrees(c)
      BY DEF Idle, HoldsState, HoldsJob, HoldsBuild, Agrees
    <3> QED BY <3>1, <3>2, <3>3, <3>4 DEF Follows
  <2>2. Reads(t, c)
    BY <1>1 DEF UpdateCourse
  <2> HIDE DEF c
  <2> QED BY <2>1, <2>2, CallReads
<1>2. CASE UpdateWorkflow(t)
  <2> DEFINE c == [call[t] EXCEPT !.pc = "update_save"]
  <2>0. Follows(call[t]) /\ Agrees(call[t]) /\ At(t, "update_workflow")
    BY <1>2 DEF UpdateWorkflow, JobsInv
  <2>1. Follows(c) /\ Agrees(c)
    <3> USE <2>0 DEF Follows, At
    <3>1. c \in Call
      BY DEF Call
    <3>2. HoldsCourse(c)
      BY DEF Call, HoldsCourse
    <3>3. HoldsState(c) /\ HoldsJob(c) /\ HoldsBuild(c) /\ Agrees(c)
      BY DEF Call, HoldsState, HoldsJob, HoldsBuild, Agrees
    <3>4. c.pc = "update_save" /\ c.settings \in Settings
      BY DEF Call
    <3> QED BY <3>1, <3>2, <3>3, <3>4
  <2>2. Reads(t, c) \/ Reads(t, Idle)
    BY <1>2 DEF UpdateWorkflow
  <2> HIDE DEF c
  <2> QED BY <2>1, <2>2, IdleFollows, CallReads
<1>3. CASE UpdateSave(t)
  <2> DEFINE c   == call[t]
             new == [c.course EXCEPT !.settings = c.settings]
  <2>1. /\ Follows(c)
        /\ c.course # None
        /\ c.settings \in Settings
        /\ c.course \in CourseRecord
    BY <1>3 DEF UpdateSave, At, JobsInv, Follows, HoldsCourse, Call
  <2>2. CASE CourseSaves(c.course, new)
    <3>1. course' = Revised(new)
      BY <1>3, <2>2 DEF UpdateSave, SaveCourse
    <3>2. course = c.course \/ course = Revised(new)
      BY <2>1, <2>2, SavedOver DEF JobsInv, Follows
    <3>. new \in CourseRecord /\ new.pointer = c.course.pointer
                             /\ new.revision = c.course.revision
      BY <2>1 DEF CourseRecord
    <3> HIDE DEF new
    <3>3. course' \in CourseRecord
      BY <3>1, RevisedRecord
    <3>4. course' = course \/ course'.revision = course.revision + 1
      BY <3>1, <3>2, RevisedRecord
    <3>5. course'.pointer \in Known \cup {None}
      BY <3>1, <3>2, RevisedRecord DEF JobsInv, StoresInv
    <3>6. /\ Goes(t, Idle)
          /\ UNCHANGED <<evidence, workflow, reviews, jobs, builds, cache>>
      BY <1>3 DEF UpdateSave
    <3> QED BY <3>3, <3>4, <3>5, <3>6, IdleFollows, CourseAdvances
  <2>3. CASE ~CourseSaves(c.course, new)
    BY <1>3, <2>3, IdleFollows, CallReads DEF UpdateSave, Reads, stores
  <2> QED BY <2>2, <2>3
<1> QED BY <1>1, <1>2, <1>3

----------------------------------------------------------------------------
(* The record of the job.                                                  *)

\* A projection is a record of a job, of the same settings and build.
LEMMA ProjectedRecord ==
  ASSUME NEW job \in JobRecord, NEW ws \in WorkflowState
  PROVE  /\ Projected(job, ws) \in JobRecord
         /\ Projected(job, ws).settings = job.settings
         /\ Projected(job, ws).build = job.build
BY DEF Projected, JobRecord, WorkflowState, JobStatus

\* Who saves the record over the one it has read saves over the present one, and
\* leaves every other call that holds it behind.
LEMMA JobAdvances ==
  ASSUME JobsInv, NEW t \in Thread, NEW new, NEW c,
         call[t].job # None, SaveJob(t, new, c),
         UNCHANGED <<evidence, course, workflow, reviews, builds, cache>>,
         new \in JobRecord, new.settings = jobs[call[t].id].settings,
         new.build \in DOMAIN builds \cup {None},
         new.build # None => builds[new.build].job = call[t].id,
         Follows(c), c.job = None
  PROVE  JobsInv'
<1>1. CASE call[t].behind # 0
  BY <1>1, CallReads DEF JobsInv, SaveJob, Reads, stores, Agrees
<1>2. CASE call[t].behind = 0
  <2>1. call[t].id \in Known /\ Known = 1..Len(jobs)
    BY DEF JobsInv, Follows, HoldsJob, StoresInv, Known
  <2>2. jobs' = [jobs EXCEPT ![call[t].id] = new]
    BY <1>2 DEF SaveJob
  <2>3. jobs' \in Seq(JobRecord) /\ Len(jobs') = Len(jobs)
    <3>1. jobs \in Seq(JobRecord)
      BY DEF JobsInv, StoresInv
    <3> QED BY <2>1, <2>2, <3>1
  <2>4. Known' = Known
    BY <2>2 DEF Known
  <2>5. \A id \in Known : jobs'[id] = IF id = call[t].id THEN new ELSE jobs[id]
    BY <2>1, <2>2 DEF Known
  <2>6. StoresInv'
    BY <2>1, <2>3, <2>4, <2>5 DEF JobsInv, StoresInv, Review
  <2>7. Grows
    BY <2>4, <2>5 DEF JobsInv, StoresInv, Grows, WorkflowState
  <2>8. \A d : Follows(d) => Follows(d)'
    BY <2>6, <2>7, FollowsOn DEF JobsInv
  <2>9. ASSUME NEW u \in Thread PROVE (Follows(call[u]) /\ Agrees(call[u]))'
    <3>1. CASE u = t
      <4>1. call'[u] = c
        BY <1>2, <3>1 DEF SaveJob
      <4>2. Follows(c)' /\ Agrees(c)'
        BY <2>8 DEF Agrees
      <4> QED BY <4>1, <4>2
    <3>2. CASE u # t /\ call[u].job = None
      <4>1. call'[u] = call[u]
        BY <1>2, <3>2 DEF SaveJob
      <4>2. Follows(call[u])
        BY DEF JobsInv
      <4>3. \A d : Follows(d) /\ d.job = None => Follows(d)' /\ Agrees(d)'
        BY <2>8 DEF Agrees
      <4> QED BY <3>2, <4>1, <4>2, <4>3
    <3>3. CASE u # t /\ call[u].job # None
      <4> DEFINE d == [call[u] EXCEPT !.behind = IF @ = 0 THEN 1 ELSE 2]
      <4>1. call'[u] = d
        BY <1>2, <3>3 DEF SaveJob
      <4>2. /\ d \in Call /\ d.behind # 0
            /\ d.pc = call[u].pc /\ d.course = call[u].course
            /\ d.job = call[u].job /\ d.id = call[u].id
            /\ d.ws = call[u].ws /\ d.source = call[u].source
            /\ d.settings = call[u].settings /\ d.build = call[u].build
            /\ d.file = call[u].file
        BY DEF JobsInv, Call
      <4>3. Follows(call[u])
        BY DEF JobsInv
      <4> HIDE DEF d
      <4>4. Follows(d)
        BY <3>3, <4>2, <4>3 DEF Follows, HoldsCourse, HoldsState, HoldsJob,
           HoldsBuild
      <4>5. \A e : Follows(e) /\ e.behind # 0 => Follows(e)' /\ Agrees(e)'
        BY <2>8 DEF Agrees
      <4> QED BY <4>1, <4>2, <4>4, <4>5
    <3> QED BY <3>1, <3>2, <3>3
  <2>10. call' \in [Thread -> Call]
    <3>1. call' = [u \in Thread |-> call'[u]]
      BY <1>2 DEF SaveJob
    <3>2. \A u \in Thread : call'[u] \in Call
      BY <2>9 DEF Follows
    <3> QED BY <3>1, <3>2
  <2> QED BY <2>6, <2>9, <2>10 DEF JobsInv
<1> QED BY <1>1, <1>2

LEMMA StatusKeeps ==
  ASSUME JobsInv, NEW t \in Thread,
         StatusJob(t) \/ StatusWorkflow(t) \/ StatusReload(t) \/ StatusSave(t)
  PROVE  JobsInv'
<1> USE DEF Attaching, Updating, Starting, Following, Naming
<1>1. CASE StatusJob(t)
  <2>1. PICK id \in Known : Reads(t, [Idle EXCEPT !.pc = "status_workflow",
                                                  !.id = id, !.job = jobs[id]])
    BY <1>1 DEF StatusJob, Known
  <2> DEFINE c == [Idle EXCEPT !.pc = "status_workflow", !.id = id,
                               !.job = jobs[id]]
  <2>2. /\ id \in Nat /\ jobs[id] \in JobRecord
        /\ jobs[id].build \in DOMAIN builds \cup {None}
        /\ jobs[id].build # None => builds[jobs[id].build].job = id
    BY DEF JobsInv, StoresInv, Known
  <2>3. c \in Call
    BY <2>2, IdleIsCall, CallWith
  <2>4. HoldsCourse(c) /\ HoldsState(c) /\ HoldsBuild(c) /\ Agrees(c)
    BY DEF Idle, HoldsCourse, HoldsState, HoldsBuild, Agrees
  <2>5. HoldsJob(c)
    <3>1. c.id = id /\ c.job = jobs[id] /\ c.pc = "status_workflow"
      BY DEF Idle
    <3> HIDE DEF c
    <3> QED BY <2>2, <3>1, Absent DEF HoldsJob
  <2>6. Follows(c)
    BY <2>3, <2>4, <2>5 DEF Idle, Follows
  <2> HIDE DEF c
  <2> QED BY <2>1, <2>4, <2>6, CallReads DEF c
<1>2. CASE StatusWorkflow(t)
  <2> DEFINE c == [call[t] EXCEPT !.pc = "status_reload", !.job = None,
                                  !.behind = 0, !.ws = workflow]
  <2>1. Follows(call[t]) /\ call[t].pc = "status_workflow"
    BY <1>2 DEF StatusWorkflow, At, JobsInv
  <2>2. workflow \in WorkflowState
    BY <2>1 DEF Follows, HoldsJob, JobsInv, StoresInv, Known
  <2>3. c \in Call
    <3>1. call[t] \in Call
      BY DEF JobsInv
    <3> QED BY <2>2, <3>1, CallWith
  <2>4. HoldsCourse(c) /\ HoldsBuild(c) /\ Agrees(c)
    BY <2>1 DEF Call, Follows, HoldsCourse, HoldsBuild, Agrees
  <2>5. HoldsState(c)
    BY <2>1, <2>2, Absent DEF Call, Follows, HoldsState, WorkflowState
  <2>6. HoldsJob(c)
    BY <2>1 DEF Call, Follows, HoldsJob
  <2>7. Follows(c)
    BY <2>1, <2>3, <2>4, <2>5, <2>6 DEF Call, Follows
  <2>8. Reads(t, c) \/ Reads(t, Idle)
    BY <1>2 DEF StatusWorkflow
  <2> HIDE DEF c
  <2> QED BY <2>4, <2>7, <2>8, IdleFollows, CallReads
<1>3. CASE StatusReload(t)
  <2> DEFINE job == jobs[call[t].id]
             c   == [call[t] EXCEPT !.pc = "status_save", !.ws = None,
                                    !.job = Projected(job, call[t].ws)]
  <2>1. Follows(call[t]) /\ call[t].pc = "status_reload"
    BY <1>3 DEF StatusReload, At, JobsInv
  <2>2. call[t].id \in Known /\ call[t].ws \in WorkflowState
    BY <2>1 DEF Follows, HoldsJob, HoldsState, Call
  <2>3. /\ job \in JobRecord
        /\ job.build \in DOMAIN builds \cup {None}
        /\ job.build # None => builds[job.build].job = call[t].id
    BY <2>2 DEF JobsInv, StoresInv, Known
  <2>4. /\ Projected(job, call[t].ws) \in JobRecord
        /\ Projected(job, call[t].ws).settings = job.settings
        /\ Projected(job, call[t].ws).build = job.build
    BY <2>2, <2>3, ProjectedRecord
  <2>5. c \in Call
    BY <2>1, <2>4 DEF Call, Follows
  <2>6. HoldsCourse(c) /\ HoldsState(c) /\ HoldsBuild(c)
    BY <2>1 DEF Call, Follows, HoldsCourse, HoldsState, HoldsBuild
  <2>7. HoldsJob(c)
    BY <2>1, <2>2, <2>3, <2>4, Absent DEF Call, Follows, HoldsJob
  <2>8. Agrees(c)
    BY <2>1, <2>4 DEF Call, Follows, Agrees
  <2>9. Follows(c)
    BY <2>1, <2>5, <2>6, <2>7 DEF Call, Follows
  <2>10. Reads(t, c) \/ Reads(t, Idle)
    BY <1>3 DEF StatusReload
  <2> HIDE DEF c
  <2> QED BY <2>8, <2>9, <2>10, IdleFollows, CallReads
<1>4. CASE StatusSave(t)
  <2>1. Follows(call[t]) /\ call[t].pc = "status_save"
    BY <1>4 DEF StatusSave, At, JobsInv
  <2>2. /\ call[t].job # None /\ call[t].job \in JobRecord
        /\ call[t].job.settings = jobs[call[t].id].settings
        /\ call[t].job.build \in DOMAIN builds \cup {None}
        /\ call[t].job.build # None =>
             builds[call[t].job.build].job = call[t].id
    BY <2>1 DEF Follows, HoldsJob, Call
  <2>3. \/ SaveJob(t, call[t].job, Idle)
        \/ UNCHANGED jobs /\ Goes(t, Idle)
    BY <1>4 DEF StatusSave
  <2>4. UNCHANGED <<evidence, course, workflow, reviews, builds, cache>>
    BY <1>4 DEF StatusSave
  <2>5. CASE SaveJob(t, call[t].job, Idle)
    BY <2>2, <2>4, <2>5, IdleFollows, JobAdvances DEF Idle
  <2>6. CASE UNCHANGED jobs /\ Goes(t, Idle)
    BY <2>4, <2>6, IdleFollows, CallReads DEF Reads, stores
  <2> QED BY <2>3, <2>5, <2>6
<1> QED BY <1>1, <1>2, <1>3, <1>4

----------------------------------------------------------------------------
(* start_generation.                                                       *)

LEMMA StartFindKeeps ==
  ASSUME JobsInv, NEW t \in Thread,
         StartCourse(t) \/ StartJob(t) \/ StartFind(t) \/ StartAgain(t)
  PROVE  JobsInv'
<1> USE DEF Attaching, Updating, Starting, Following, Naming
<1>1. CASE StartCourse(t)
  <2> DEFINE c == [Idle EXCEPT !.course = course, !.id = course.pointer,
                     !.pc = IF course.pointer = None THEN "start_find"
                                                     ELSE "start_job"]
  <2>1. /\ course \in CourseRecord /\ course.revision <= course.revision
        /\ course.pointer \in Known \cup {None} /\ Known \subseteq Nat
    BY DEF JobsInv, StoresInv, CourseRecord, Known
  <2>2. c \in Call
    <3>3. CASE course.pointer = None
      BY <2>1, <3>3, IdleIsCall, CallWith
    <3>4. CASE course.pointer # None
      BY <2>1, <3>4, IdleIsCall, CallWith
    <3> QED BY <3>3, <3>4
  <2>3. HoldsState(c) /\ HoldsBuild(c) /\ Agrees(c)
    BY DEF Idle, HoldsState, HoldsBuild, Agrees
  <2>4. /\ c.course = course /\ c.id = course.pointer
        /\ c.job = None /\ c.behind = 0
        /\ c.pc = IF course.pointer = None THEN "start_find" ELSE "start_job"
    BY DEF Idle
  <2>5. Reads(t, c)
    BY <1>1 DEF StartCourse
  <2> HIDE DEF c
  <2>6. HoldsCourse(c) /\ HoldsJob(c)
    BY <2>1, <2>4, Absent DEF HoldsCourse, HoldsJob
  <2>7. Follows(c)
    BY <2>2, <2>3, <2>4, <2>6 DEF Follows
  <2> QED BY <2>3, <2>5, <2>7, CallReads
<1>2. CASE StartJob(t)
  <2> DEFINE c == [call[t] EXCEPT !.pc = "project", !.course = None,
                                  !.job = jobs[call[t].id]]
  <2>1. Follows(call[t]) /\ Agrees(call[t]) /\ call[t].pc = "start_job"
    BY <1>2 DEF StartJob, At, JobsInv
  <2>2. /\ call[t] \in Call
        /\ call[t].id \in Known /\ jobs[call[t].id] \in JobRecord
        /\ jobs[call[t].id].build \in DOMAIN builds \cup {None}
        /\ jobs[call[t].id].build # None =>
             builds[jobs[call[t].id].build].job = call[t].id
    BY <2>1 DEF Follows, HoldsJob, JobsInv, StoresInv, Known
  <2>3. c \in Call
    BY <2>2, CallWith
  <2>4. HoldsCourse(c) /\ HoldsState(c) /\ HoldsBuild(c) /\ Agrees(c)
    BY <2>1, <2>2 DEF Call, Follows, HoldsCourse, HoldsState, HoldsBuild, Agrees
  <2>5. HoldsJob(c)
    BY <2>2, Absent DEF Call, HoldsJob
  <2>6. Follows(c)
    BY <2>2, <2>3, <2>4, <2>5 DEF Call, Follows
  <2>7. Reads(t, c)
    BY <1>2 DEF StartJob
  <2> HIDE DEF c
  <2> QED BY <2>4, <2>6, <2>7, CallReads
<1>3. CASE StartFind(t)
  <2>1. Follows(call[t]) /\ Agrees(call[t]) /\ call[t].pc = "start_find"
    BY <1>3 DEF StartFind, At, JobsInv
  <2>2. CASE jobs # <<>>
    <3> DEFINE c == [call[t] EXCEPT !.pc = "start_repair", !.id = 1,
                                    !.job = jobs[1]]
    <3>1. 1 \in Known
      BY <2>2 DEF JobsInv, StoresInv, Known
    <3>2. /\ call[t] \in Call /\ jobs[1] \in JobRecord
          /\ jobs[1].build \in DOMAIN builds \cup {None}
          /\ jobs[1].build # None => builds[jobs[1].build].job = 1
      BY <3>1 DEF JobsInv, StoresInv, Known
    <3>3. c \in Call
      BY <3>2, CallWith
    <3>4. HoldsCourse(c) /\ HoldsState(c) /\ HoldsBuild(c) /\ Agrees(c)
      BY <2>1, <3>2
         DEF Call, Follows, HoldsCourse, HoldsState, HoldsBuild, Agrees
    <3>5. HoldsJob(c)
      BY <3>1, <3>2, Absent DEF Call, HoldsJob
    <3>6. Follows(c)
      BY <3>2, <3>3, <3>4, <3>5 DEF Call, Follows
    <3>7. Reads(t, c)
      BY <1>3, <2>2 DEF StartFind, WorkflowIsTaken
    <3> HIDE DEF c
    <3> QED BY <3>4, <3>6, <3>7, CallReads
  <2>3. CASE jobs = <<>>
    <3> DEFINE c == [call[t] EXCEPT !.pc = "start_workflow"]
    <3>1. Follows(c) /\ Agrees(c)
      BY <2>1 DEF Call, Follows, HoldsCourse, HoldsState, HoldsJob, HoldsBuild,
         Agrees
    <3>2. Reads(t, c)
      BY <1>3, <2>3 DEF StartFind, WorkflowIsTaken
    <3> HIDE DEF c
    <3> QED BY <3>1, <3>2, CallReads
  <2> QED BY <2>2, <2>3
<1>4. CASE StartAgain(t)
  <2> DEFINE c == [call[t] EXCEPT !.pc = "start_repair", !.id = 1]
  <2>1. Follows(call[t]) /\ Agrees(call[t]) /\ call[t].pc = "start_again"
    BY <1>4 DEF StartAgain, At, JobsInv
  <2>2. 1 \in Known /\ \A id \in Known : id = 1
    BY <2>1 DEF Follows, HoldsJob, JobsInv, StoresInv, Known
  <2>3. c \in Call
    BY <2>1 DEF Call, Follows
  <2>4. HoldsCourse(c) /\ HoldsState(c) /\ HoldsBuild(c)
    BY <2>1 DEF Call, Follows, HoldsCourse, HoldsState, HoldsBuild
  <2>5. HoldsJob(c) /\ Agrees(c)
    BY <2>1, <2>2 DEF Call, Follows, HoldsJob, Agrees
  <2>6. Follows(c)
    BY <2>1, <2>3, <2>4, <2>5 DEF Call, Follows
  <2>7. Reads(t, c)
    BY <1>4 DEF StartAgain
  <2> HIDE DEF c
  <2> QED BY <2>5, <2>6, <2>7, CallReads
<1> QED BY <1>1, <1>2, <1>3, <1>4

LEMMA StartMakesKeeps ==
  ASSUME JobsInv, NEW t \in Thread,
         StartWorkflow(t) \/ StartInit(t) \/ StartSave(t) \/ StartRepair(t)
  PROVE  JobsInv'
<1> USE DEF Attaching, Updating, Starting, Following, Naming
<1>1. CASE StartWorkflow(t)
  <2>1. Follows(call[t]) /\ Agrees(call[t]) /\ call[t].pc = "start_workflow"
    BY <1>1 DEF StartWorkflow, At, JobsInv
  <2>2. CASE workflow = None
    <3> DEFINE c == [call[t] EXCEPT !.pc = "start_init"]
    <3>1. Follows(c) /\ Agrees(c)
      BY <2>1 DEF Call, Follows, HoldsCourse, HoldsState, HoldsJob, HoldsBuild,
         Agrees
    <3>2. Reads(t, c)
      BY <1>1, <2>2 DEF StartWorkflow
    <3> HIDE DEF c
    <3> QED BY <3>1, <3>2, CallReads
  <2>3. CASE workflow # None
    <3> DEFINE c == [call[t] EXCEPT !.pc = "start_save", !.ws = workflow]
    <3>1. workflow \in WorkflowState
      BY <2>3 DEF JobsInv, StoresInv
    <3>2. c \in Call
      BY <2>1, <3>1 DEF Call, Follows
    <3>3. HoldsCourse(c) /\ HoldsJob(c) /\ HoldsBuild(c) /\ Agrees(c)
      BY <2>1 DEF Call, Follows, HoldsCourse, HoldsJob, HoldsBuild, Agrees
    <3>4. HoldsState(c)
      BY <2>1, <3>1, Absent DEF Call, Follows, HoldsState, WorkflowState
    <3>5. Follows(c)
      BY <2>1, <3>2, <3>3, <3>4 DEF Call, Follows
    <3>6. Reads(t, c)
      BY <1>1, <2>3 DEF StartWorkflow
    <3> HIDE DEF c
    <3> QED BY <3>3, <3>5, <3>6, CallReads
  <2> QED BY <2>2, <2>3
<1>2. CASE StartInit(t)
  <2>0. PICK d : d = call[t]
    OBVIOUS
  <2>1. /\ Follows(d) /\ Agrees(d) /\ d.pc = "start_init" /\ d \in Call
    BY <1>2, <2>0 DEF StartInit, At, JobsInv
  <2>2. CASE workflow = None
    <3> DEFINE ws == [revision |-> 0, phase |-> "production", document |-> None]
               c  == [d EXCEPT !.pc = "start_save", !.ws = ws]
    <3>1. /\ workflow' = ws /\ Goes(t, c)
          /\ UNCHANGED <<evidence, course, reviews, jobs, builds, cache>>
      BY <1>2, <2>0, <2>2 DEF StartInit
    <3>2. ws \in WorkflowState /\ ws # None /\ ws.revision = 0
      BY Absent, JobsAssumption DEF WorkflowState
    <3> HIDE DEF ws
    <3>3. Known = {} /\ DOMAIN builds = {}
      BY <2>2 DEF JobsInv, StoresInv, Known
    <3>4. StoresInv' /\ Grows
      BY <2>2, <3>1, <3>2, <3>3
         DEF JobsInv, StoresInv, Grows, Known, Review
    <3>. c \in Call
      BY <2>1, <3>2, CallWith
    <3>5. /\ c \in Call /\ c.pc = "start_save" /\ c.ws = ws
          /\ c.course = d.course /\ c.job = d.job /\ c.behind = d.behind
      BY <2>1 DEF Call
    <3> HIDE DEF c
    <3>6. d.job = None
      BY <2>1, <3>3 DEF Follows, HoldsJob
    <3>7. HoldsCourse(c)' /\ HoldsBuild(c)' /\ Agrees(c)'
      BY <2>1, <3>1, <3>5, <3>6 DEF Follows, HoldsCourse, HoldsBuild, Agrees
    <3>8. HoldsJob(c)'
      BY <2>1, <3>5, <3>6 DEF Follows, HoldsJob
    <3>9. HoldsState(c)'
      BY <3>1, <3>2, <3>5 DEF HoldsState
    <3>10. Follows(c)'
      BY <3>5, <3>7, <3>8, <3>9 DEF Follows
    <3> QED BY <3>1, <3>4, <3>7, <3>10, CallGoes
  <2>3. CASE workflow # None
    BY <1>2, <2>3, IdleFollows, CallReads DEF StartInit, Reads, stores
  <2> QED BY <2>2, <2>3
<1>3. CASE StartSave(t)
  <2>0. PICK d : d = call[t]
    OBVIOUS
  <2>1. Follows(d) /\ Agrees(d) /\ d.pc = "start_save" /\ d \in Call
    BY <1>3, <2>0 DEF StartSave, At, JobsInv
  <2>2. CASE jobs # <<>>
    <3> DEFINE c == [d EXCEPT !.pc = "start_again", !.ws = None]
    <3>1. Known # {}
      BY <2>2 DEF JobsInv, StoresInv, Known
    <3>. c \in Call
      BY <2>1, CallWith
    <3>2. /\ c \in Call /\ c.pc = "start_again" /\ c.ws = None
          /\ c.course = d.course /\ c.job = d.job /\ c.behind = d.behind
          /\ c.id = d.id
      BY <2>1 DEF Call
    <3>3. Reads(t, c)
      BY <1>3, <2>0, <2>2 DEF StartSave, WorkflowIsTaken, Reads, stores
    <3> HIDE DEF c
    <3>4. Follows(c) /\ Agrees(c)
      BY <2>1, <3>1, <3>2 DEF Follows, HoldsCourse, HoldsState, HoldsJob,
         HoldsBuild, Agrees
    <3> QED BY <3>3, <3>4, CallReads
  <2>3. CASE jobs = <<>>
    <3> DEFINE new == NewJob(d.course.settings, d.ws)
               c   == [d EXCEPT !.pc = "start_repair", !.ws = None, !.id = 1]
    <3>1. /\ jobs' = Append(jobs, new) /\ Goes(t, c)
          /\ UNCHANGED <<evidence, course, workflow, reviews, builds, cache>>
      BY <1>3, <2>0, <2>3 DEF StartSave, WorkflowIsTaken
    <3>2. /\ d.ws \in WorkflowState /\ d.course \in CourseRecord
          /\ workflow # None /\ d.course.pointer = None
      BY <2>1 DEF Follows, HoldsCourse, HoldsState, Call
    <3>3. new \in JobRecord /\ new.build = None
      BY <3>2 DEF NewJob, JobRecord, JobStatus, WorkflowState, CourseRecord
    <3> HIDE DEF new
    <3>4. /\ jobs' \in Seq(JobRecord) /\ Len(jobs') = 1 /\ jobs'[1] = new
          /\ Known' = {1}
      BY <2>3, <3>1, <3>3 DEF Known
    <3>. Known = {}
      BY <2>3 DEF Known
    <3>5. Known = {} /\ DOMAIN builds = {}
      BY DEF JobsInv, StoresInv
    <3>6. StoresInv'
      BY <3>1, <3>2, <3>3, <3>4, <3>5 DEF JobsInv, StoresInv
    <3>7. Grows
      BY <3>1, <3>5 DEF JobsInv, StoresInv, Grows, WorkflowState
    <3>8. d.job = None
      BY <2>1, <3>5 DEF Follows, HoldsJob
    <3>. c \in Call
      BY <2>1, CallWith
    <3>9. /\ c \in Call /\ c.pc = "start_repair" /\ c.ws = None /\ c.id = 1
          /\ c.course = d.course /\ c.job = d.job /\ c.behind = d.behind
      BY <2>1 DEF Call
    <3> HIDE DEF c
    <3>10. HoldsCourse(c)' /\ HoldsState(c)' /\ HoldsBuild(c)' /\ Agrees(c)'
      BY <2>1, <3>1, <3>8, <3>9
         DEF Follows, HoldsCourse, HoldsState, HoldsBuild, Agrees
    <3>11. HoldsJob(c)'
      BY <2>1, <3>4, <3>8, <3>9 DEF Follows, HoldsJob
    <3>12. Follows(c)'
      BY <3>9, <3>10, <3>11 DEF Follows
    <3> QED BY <3>1, <3>5, <3>6, <3>7, <3>10, <3>12, CallGoes
  <2> QED BY <2>2, <2>3
<1>4. CASE StartRepair(t)
  <2> DEFINE d   == call[t]
             new == [d.course EXCEPT !.pointer = d.id]
             c   == IF d.job = None THEN Idle
                    ELSE [d EXCEPT !.pc = "project", !.course = None]
  <2>1. /\ Follows(d) /\ Agrees(d) /\ d.pc = "start_repair"
        /\ d \in Call /\ d.course # None /\ d.course \in CourseRecord
        /\ d.course.pointer = None /\ d.id \in Known /\ d.id \in Nat
    BY <1>4 DEF StartRepair, At, JobsInv, Follows, HoldsCourse, HoldsJob, Call,
       Known, StoresInv
  <2>2. Goes(t, c)
    BY <1>4 DEF StartRepair
  <2>3. Follows(c) /\ Agrees(c)
    <3>1. CASE d.job = None
      BY <3>1, IdleFollows
    <3>2. CASE d.job # None
      <4>1. c = [d EXCEPT !.pc = "project", !.course = None]
        BY <3>2
      <4>2. [d EXCEPT !.pc = "project", !.course = None] \in Call
        <5>1. \A e \in Call : [e EXCEPT !.pc = "project"] \in Call
          BY DEF Call
        <5>2. \A e \in Call : [e EXCEPT !.course = None] \in Call
          BY DEF Call
        <5> QED BY <2>1, <5>1, <5>2
      <4> QED BY <2>1, <3>2, <4>1, <4>2 DEF Call, Follows, HoldsCourse,
                 HoldsState, HoldsJob, HoldsBuild, Agrees
    <3> QED BY <3>1, <3>2
  <2>4. UNCHANGED <<evidence, workflow, reviews, jobs, builds, cache>>
    BY <1>4 DEF StartRepair
  <2> HIDE DEF c
  <2>5. CASE CourseSaves(d.course, new)
    <3>1. course' = Revised(new)
      BY <1>4, <2>5 DEF StartRepair, SaveCourse
    <3>2. course = d.course \/ course = Revised(new)
      BY <2>1, <2>5, SavedOver DEF JobsInv, Follows
    <3>3. new \in CourseRecord /\ new.pointer = d.id
                               /\ new.revision = d.course.revision
      BY <2>1 DEF CourseRecord
    <3> HIDE DEF new
    <3>4. /\ Revised(new) \in CourseRecord /\ Revised(new).pointer = d.id
          /\ Revised(new).revision = d.course.revision + 1
      BY <3>3, RevisedRecord
    <3>5. /\ course' \in CourseRecord /\ course'.pointer = d.id
          /\ course' = course \/ course'.revision = course.revision + 1
      BY <3>1, <3>2, <3>4
    <3> QED BY <2>1, <2>2, <2>3, <2>4, <3>5, CourseAdvances
  <2>6. CASE ~CourseSaves(d.course, new)
    BY <1>4, <2>2, <2>3, <2>4, <2>6, CallReads DEF StartRepair, Reads, stores
  <2> QED BY <2>5, <2>6
<1> QED BY <1>1, <1>2, <1>3, <1>4

----------------------------------------------------------------------------
(* _reconcile_job_projection.                                              *)

LEMMA ProjectKeeps ==
  ASSUME JobsInv, NEW t \in Thread,
         Project(t) \/ ProjectSave(t) \/ ProjectReload(t) \/ ProjectRetry(t)
  PROVE  JobsInv'
<1> USE DEF Attaching, Updating, Starting, Following, Naming
<1>0. PICK d : d = call[t]
  OBVIOUS
<1>1. /\ Follows(d) /\ Agrees(d) /\ d \in Call
      /\ d.pc \in {"project", "project_save", "project_reload", "project_retry"}
  BY <1>0 DEF Project, ProjectSave, ProjectReload, ProjectRetry, At, JobsInv
<1>2. /\ d.id \in Known /\ d.job # None /\ d.job \in JobRecord
      /\ d.job.settings = jobs[d.id].settings
      /\ d.job.build \in DOMAIN builds \cup {None}
      /\ d.job.build # None => builds[d.job.build].job = d.id
  BY <1>1 DEF Follows, HoldsJob, Call
<1>3. workflow \in WorkflowState
  BY <1>2 DEF JobsInv, StoresInv, Known
<1>4. d.pc \in {"project_save", "project_reload"} => d.ws \in WorkflowState
  BY <1>1 DEF Follows, HoldsState, Call
<1>5. CASE Project(t)
  <2> DEFINE c == [d EXCEPT !.pc = "project_save", !.ws = workflow]
  <2>. c \in Call
    BY <1>1, <1>3, CallWith
  <2>1. /\ c \in Call /\ c.pc = "project_save" /\ c.ws = workflow
        /\ c.course = d.course /\ c.job = d.job /\ c.behind = d.behind
        /\ c.id = d.id
    BY <1>1 DEF Call
  <2>2. Reads(t, c) \/ Reads(t, Idle)
    BY <1>0, <1>5 DEF Project
  <2> HIDE DEF c
  <2>3. HoldsState(c)
    BY <1>3, <2>1, Absent DEF HoldsState, WorkflowState
  <2>4. Follows(c) /\ Agrees(c)
    BY <1>1, <2>1, <2>3 DEF Follows, HoldsCourse, HoldsJob, HoldsBuild, Agrees
  <2> QED BY <2>2, <2>4, IdleFollows, CallReads
<1>6. CASE ProjectSave(t)
  <2> DEFINE new == Projected(d.job, d.ws)
             c   == [d EXCEPT !.pc = "project_reload"]
  <2>1. d.pc = "project_save"
    BY <1>0, <1>6 DEF ProjectSave, At
  <2>2. /\ new \in JobRecord /\ new.settings = d.job.settings
        /\ new.build = d.job.build
    BY <1>2, <1>4, <2>1, ProjectedRecord
  <2> HIDE DEF new
  <2>3. \/ SaveJob(t, new, Idle)
        \/ UNCHANGED jobs /\ Goes(t, c)
    BY <1>0, <1>6 DEF ProjectSave, new
  <2>4. UNCHANGED <<evidence, course, workflow, reviews, builds, cache>>
    BY <1>6 DEF ProjectSave
  <2>5. CASE SaveJob(t, new, Idle)
    BY <1>0, <1>2, <2>2, <2>4, <2>5, IdleFollows, JobAdvances DEF Idle
  <2>6. CASE UNCHANGED jobs /\ Goes(t, c)
    <3>. c \in Call
      BY <1>1, CallWith
    <3>1. /\ c \in Call /\ c.pc = "project_reload" /\ c.ws = d.ws
          /\ c.course = d.course /\ c.job = d.job /\ c.behind = d.behind
          /\ c.id = d.id
      BY <1>1 DEF Call
    <3>2. Reads(t, c)
      BY <2>4, <2>6 DEF Reads, stores
    <3> HIDE DEF c
    <3>3. Follows(c) /\ Agrees(c)
      BY <1>1, <2>1, <3>1 DEF Follows, HoldsCourse, HoldsState, HoldsJob,
         HoldsBuild, Agrees
    <3> QED BY <3>2, <3>3, CallReads
  <2> QED BY <2>3, <2>5, <2>6
<1>7. CASE ProjectReload(t)
  <2> DEFINE job == jobs[d.id]
             new == Projected(job, d.ws)
             c   == [d EXCEPT !.pc = "project_retry", !.ws = None, !.behind = 0,
                              !.job = new]
  <2>1. d.pc = "project_reload"
    BY <1>0, <1>7 DEF ProjectReload, At
  <2>2. /\ job \in JobRecord
        /\ job.build \in DOMAIN builds \cup {None}
        /\ job.build # None => builds[job.build].job = d.id
    BY <1>2 DEF JobsInv, StoresInv, Known
  <2>3. /\ new \in JobRecord /\ new.settings = job.settings
        /\ new.build = job.build
    BY <1>4, <2>1, <2>2, ProjectedRecord
  <2>4. Reads(t, c) \/ Reads(t, Idle)
    BY <1>0, <1>7 DEF ProjectReload, Reloaded
  <2> HIDE DEF new
  <2>. c \in Call
    BY <1>1, <2>3, CallWith
  <2>5. /\ c \in Call /\ c.pc = "project_retry" /\ c.ws = None
        /\ c.course = d.course /\ c.job = new /\ c.behind = 0 /\ c.id = d.id
    BY <1>1 DEF Call
  <2> HIDE DEF c
  <2>6. HoldsJob(c) /\ Agrees(c)
    BY <1>2, <2>2, <2>3, <2>5, Absent DEF HoldsJob, Agrees
  <2>7. Follows(c)
    BY <1>1, <2>1, <2>5, <2>6 DEF Follows, HoldsCourse, HoldsState, HoldsBuild
  <2> QED BY <2>4, <2>6, <2>7, IdleFollows, CallReads
<1>8. CASE ProjectRetry(t)
  <2>1. UNCHANGED <<evidence, course, workflow, reviews, builds, cache>>
    BY <1>8 DEF ProjectRetry
  <2>2. CASE SaveJob(t, d.job, Idle)
    BY <1>0, <1>2, <2>1, <2>2, IdleFollows, JobAdvances DEF Idle
  <2>3. CASE UNCHANGED jobs /\ Goes(t, Idle)
    BY <2>1, <2>3, IdleFollows, CallReads DEF Reads, stores
  <2> QED BY <1>0, <1>8, <2>2, <2>3 DEF ProjectRetry
<1> QED BY <1>5, <1>6, <1>7, <1>8

----------------------------------------------------------------------------
(* The workflow, moved by others.                                          *)

LEMMA CallsStay ==
  ASSUME JobsInv, StoresInv', Grows, UNCHANGED <<jobs, call>>
  PROVE  JobsInv'
<1>1. \A d : Follows(d) => Follows(d)'
  BY FollowsOn DEF JobsInv
<1>2. \A d : Agrees(d) => Agrees(d)'
  BY DEF Agrees
<1>3. ASSUME NEW u \in Thread PROVE (Follows(call[u]) /\ Agrees(call[u]))'
  <2>1. call'[u] = call[u]
    OBVIOUS
  <2>2. Follows(call[u]) /\ Agrees(call[u])
    BY DEF JobsInv
  <2> QED BY <1>1, <1>2, <2>1, <2>2
<1> QED BY <1>3 DEF JobsInv

LEMMA WorkflowKeeps ==
  ASSUME JobsInv, WorkflowMoves
  PROVE  JobsInv'
<1>1. workflow \in WorkflowState
  BY DEF JobsInv, StoresInv, WorkflowMoves
<1>2. UNCHANGED <<evidence, course, jobs, builds, cache, call>>
  BY DEF WorkflowMoves, Stop, GoOn, ReopenForCorrection, Finish, AcceptVerdict,
     Moves
<1> DEFINE Onward ==
              /\ workflow' \in WorkflowState
              /\ workflow.revision <= workflow'.revision
              /\ reviews' \in [0..MaxRevision -> {"passed", "corrections", None}]
              /\ \A r \in 0..MaxRevision :
                   reviews[r] = "passed" => reviews'[r] = "passed"
<1>3. ASSUME \E verdict \in {"passed", "corrections"} : AcceptVerdict(verdict)
      PROVE  Onward
  <2>1. workflow.revision \in 0..MaxRevision
    BY <1>1 DEF WorkflowState
  <2>2. /\ reviews' \in [0..MaxRevision -> {"passed", "corrections", None}]
        /\ \A r \in 0..MaxRevision :
             reviews[r] = "passed" => reviews'[r] = "passed"
    BY <1>3, <2>1, JobsAssumption DEF AcceptVerdict, JobsInv, StoresInv
  <2>3. workflow' = workflow
    BY <1>3 DEF AcceptVerdict
  <2> QED BY <1>1, <2>2, <2>3 DEF WorkflowState
<1>4. ASSUME ~\E verdict \in {"passed", "corrections"} : AcceptVerdict(verdict)
      PROVE  Onward
  <2>1. PICK phase, document :
          /\ \/ phase \in {"production", "stopped"} /\ document = None
             \/ phase = "completed" /\ document \in Document
          /\ Moves(phase, document)
    BY <1>4 DEF WorkflowMoves, Stop, GoOn, ReopenForCorrection, Finish
  <2>2. /\ workflow' = [workflow EXCEPT !.revision = @ + 1, !.phase = phase,
                                        !.document = document]
        /\ workflow.revision < MaxRevision /\ reviews' = reviews
    BY <2>1 DEF Moves
  <2>3. workflow.revision \in Nat /\ workflow.revision + 1 \in 0..MaxRevision
    BY <1>1, <2>2, JobsAssumption DEF WorkflowState
  <2>4. workflow' \in WorkflowState /\ workflow'.revision = workflow.revision + 1
    BY <1>1, <2>1, <2>2, <2>3 DEF WorkflowState
  <2> QED BY <2>2, <2>3, <2>4 DEF JobsInv, StoresInv
<1>5. StoresInv' /\ Grows
  <2>1. Onward
    BY <1>3, <1>4
  <2>2. workflow' # None /\ workflow' \in WorkflowState \cup {None}
    BY <2>1, Absent
  <2>3. \A b \in DOMAIN builds :
          /\ builds[b].revision \in 0..MaxRevision
          /\ builds[b].revision <= workflow'.revision
    <3> TAKE b \in DOMAIN builds
    <3>1. builds[b] \in Build /\ builds[b].revision <= workflow.revision
      BY DEF JobsInv, StoresInv
    <3>2. /\ builds[b].revision \in 0..MaxRevision
          /\ workflow.revision \in Nat /\ workflow'.revision \in Nat
      BY <1>1, <2>1, <3>1 DEF Build, WorkflowState
    <3> QED BY <2>1, <3>1, <3>2, JobsAssumption
  <2>4. Known' = Known
    BY <1>2 DEF Known
  <2>5. StoresInv'
    BY <1>2, <2>1, <2>2, <2>3, <2>4 DEF JobsInv, StoresInv, Review
  <2>6. Grows
    BY <1>2, <2>1, <2>2, <2>4 DEF Grows
  <2> QED BY <2>5, <2>6
<1> QED BY <1>2, <1>5, CallsStay

----------------------------------------------------------------------------
(* The builds.                                                             *)

\* A step of one call, and of the files.
LEMMA CacheGoes ==
  ASSUME JobsInv, NEW t \in Thread, NEW c, Goes(t, c), Follows(c), Agrees(c),
         cache' \in [Document -> File \cup {None}],
         UNCHANGED <<evidence, course, workflow, reviews, jobs, builds>>
  PROVE  JobsInv'
<1>1. StoresInv' /\ Grows
  BY DEF JobsInv, StoresInv, Grows, Known, Review, WorkflowState
<1>2. Follows(c)' /\ Agrees(c)'
  BY <1>1, FollowsOn DEF JobsInv, Agrees
<1> QED BY <1>1, <1>2, CallGoes

\* The operations that begin with the record of a job.
LEMMA JobRead ==
  ASSUME JobsInv, NEW t \in Thread, BuildJob(t) \/ RepairJob(t)
  PROVE  JobsInv'
<1> USE DEF Attaching, Updating, Starting, Following, Naming
<1>1. PICK id \in Known, pc \in {"build_context", "repair_context"} :
        Reads(t, [Idle EXCEPT !.pc = pc, !.id = id, !.job = jobs[id]])
  BY DEF BuildJob, RepairJob, Known
<1> DEFINE c == [Idle EXCEPT !.pc = pc, !.id = id, !.job = jobs[id]]
<1>2. /\ id \in Nat /\ jobs[id] \in JobRecord
      /\ jobs[id].build \in DOMAIN builds \cup {None}
      /\ jobs[id].build # None => builds[jobs[id].build].job = id
  BY DEF JobsInv, StoresInv, Known
<1>3. c \in Call
  BY <1>2, IdleIsCall, CallWith
<1>4. /\ c.pc = pc /\ c.id = id /\ c.job = jobs[id] /\ c.course = None
      /\ c.ws = None
  BY DEF Idle
<1> HIDE DEF c
<1>5. HoldsJob(c)
  BY <1>2, <1>4, Absent DEF HoldsJob
<1>6. Follows(c) /\ Agrees(c)
  BY <1>3, <1>4, <1>5 DEF Follows, HoldsCourse, HoldsState, HoldsBuild, Agrees
<1> QED BY SMTT(30), <1>1, <1>6, CallReads DEF c

\* Past the gate.
LEMMA GatedFollows ==
  ASSUME JobsInv, NEW d, Follows(d), Agrees(d), NEW ws \in WorkflowState,
         d.pc \in {"build_context", "build_review"},
         workflow # None, ws.revision <= workflow.revision,
         ws.phase = "completed",
         Review(d.job) => reviews[ws.revision] = "passed"
  PROVE  Follows(Gated(d, ws)) /\ Agrees(Gated(d, ws))
<1> USE DEF Attaching, Updating, Starting, Following, Naming
<1>1. /\ d \in Call /\ d.id \in Known /\ d.job # None
      /\ d.job.build \in DOMAIN builds \cup {None}
      /\ d.job.build # None => builds[d.job.build].job = d.id
  BY DEF Follows, HoldsJob
<1>2. CASE d.job.build = None
  <2> DEFINE c == [d EXCEPT !.ws = ws, !.pc = "build_record"]
  <2>. c \in Call
    BY <1>1, CallWith
  <2>1. /\ c \in Call /\ c.pc = "build_record" /\ c.ws = ws
        /\ c.course = d.course /\ c.job = d.job /\ c.behind = d.behind
        /\ c.id = d.id /\ Gated(d, ws) = c
    BY <1>1, <1>2 DEF Call, Gated
  <2> HIDE DEF c
  <2>2. HoldsState(c)
    BY <2>1, Absent DEF HoldsState
  <2>3. HoldsCourse(c) /\ HoldsJob(c) /\ HoldsBuild(c) /\ Agrees(c)
    BY <1>1, <1>2, <2>1
       DEF Follows, HoldsCourse, HoldsJob, HoldsBuild, Agrees
  <2> QED BY <2>1, <2>2, <2>3 DEF Follows
<1>3. CASE d.job.build # None
  <2> DEFINE c == [d EXCEPT !.ws = ws, !.pc = "build_check",
                            !.build = d.job.build, !.job = None, !.behind = 0]
  <2>1. d.job.build \in DOMAIN builds /\ d.job.build \in Nat
    BY <1>1, <1>3 DEF JobsInv, StoresInv
  <2>. c \in Call
    BY <1>1, <2>1, CallWith
  <2>2. /\ c \in Call /\ c.pc = "build_check" /\ c.ws = ws
        /\ c.course = d.course /\ c.job = None /\ c.behind = 0
        /\ c.id = d.id /\ c.build = d.job.build /\ Gated(d, ws) = c
    BY <1>1, <1>3 DEF Call, Gated
  <2> HIDE DEF c
  <2>3. HoldsState(c)
    BY <2>2, Absent DEF HoldsState
  <2>4. HoldsCourse(c) /\ HoldsJob(c) /\ HoldsBuild(c) /\ Agrees(c)
    BY <1>1, <1>3, <2>1, <2>2
       DEF Follows, HoldsCourse, HoldsJob, HoldsBuild, Agrees
  <2> QED BY <2>2, <2>3, <2>4 DEF Follows
<1> QED BY <1>2, <1>3

LEMMA BuildReadsKeep ==
  ASSUME JobsInv, NEW t \in Thread,
         \/ BuildContext(t) \/ BuildReview(t)
         \/ RepairContext(t) \/ RepairBuild(t)
  PROVE  JobsInv'
<1> USE DEF Attaching, Updating, Starting, Following, Naming
<1>0. PICK d : d = call[t]
  OBVIOUS
<1>1. /\ Follows(d) /\ Agrees(d) /\ d \in Call
      /\ d.pc \in {"build_context", "build_review", "repair_context",
                   "repair_build"}
  BY <1>0 DEF BuildContext, BuildReview, RepairContext, RepairBuild, At, JobsInv
<1>2. /\ d.id \in Known /\ d.job # None /\ d.job \in JobRecord
      /\ d.job.build \in DOMAIN builds \cup {None}
  BY <1>1 DEF Follows, HoldsJob, Call
<1>3. workflow \in WorkflowState /\ workflow.revision <= workflow.revision
  BY <1>2 DEF JobsInv, StoresInv, Known, WorkflowState
<1>4. CASE BuildContext(t)
  <2>1. d.pc = "build_context"
    BY <1>0, <1>4 DEF BuildContext, At
  <2>2. CASE workflow.phase # "completed"
    BY <1>4, <2>2, IdleFollows, CallReads DEF BuildContext
  <2>3. CASE workflow.phase = "completed" /\ Review(d.job)
    <3> DEFINE c == [d EXCEPT !.ws = workflow, !.pc = "build_review"]
    <3>. c \in Call
      BY <1>1, <1>3, CallWith
    <3>1. /\ c \in Call /\ c.pc = "build_review" /\ c.ws = workflow
          /\ c.course = d.course /\ c.job = d.job /\ c.behind = d.behind
          /\ c.id = d.id
      BY <1>1 DEF Call
    <3>2. Reads(t, c)
      BY <1>0, <1>4, <2>3 DEF BuildContext
    <3> HIDE DEF c
    <3>3. HoldsState(c)
      BY <1>3, <2>3, <3>1, Absent DEF HoldsState
    <3>4. Follows(c) /\ Agrees(c)
      BY <1>1, <1>2, <2>1, <3>1, <3>3
         DEF Follows, HoldsCourse, HoldsJob, HoldsBuild, Agrees
    <3> QED BY <3>2, <3>4, CallReads
  <2>4. CASE workflow.phase = "completed" /\ ~Review(d.job)
    <3>1. Reads(t, Gated(d, workflow))
      BY <1>0, <1>4, <2>4 DEF BuildContext
    <3>2. Follows(Gated(d, workflow)) /\ Agrees(Gated(d, workflow))
      BY <1>1, <1>3, <2>1, <2>4, Absent, GatedFollows
    <3> QED BY <3>1, <3>2, CallReads
  <2> QED BY <2>2, <2>3, <2>4
<1>5. CASE BuildReview(t)
  <2>1. d.pc = "build_review"
    BY <1>0, <1>5 DEF BuildReview, At
  <2>2. CASE ReviewAllows(d.ws)
    <3>1. Reads(t, Gated(d, d.ws))
      BY <1>0, <1>5, <2>2 DEF BuildReview
    <3>2. /\ d.ws \in WorkflowState /\ d.ws.phase = "completed"
          /\ d.ws.revision <= workflow.revision
      BY <1>1, <2>1 DEF Follows, HoldsState, Call
    <3>3. Follows(Gated(d, d.ws)) /\ Agrees(Gated(d, d.ws))
      BY <1>1, <1>3, <2>1, <2>2, <3>2, Absent, GatedFollows DEF ReviewAllows
    <3> QED BY <3>1, <3>3, CallReads
  <2>3. CASE ~ReviewAllows(d.ws)
    BY <1>0, <1>5, <2>3, IdleFollows, CallReads DEF BuildReview
  <2> QED BY <2>2, <2>3
<1>6. CASE RepairContext(t)
  <2> DEFINE c == [d EXCEPT !.pc = "repair_build", !.ws = workflow]
  <2>1. d.pc = "repair_context" /\ Reads(t, c)
    BY <1>0, <1>6 DEF RepairContext, At
  <2>. c \in Call
    BY <1>1, <1>3, CallWith
  <2>2. /\ c \in Call /\ c.pc = "repair_build" /\ c.ws = workflow
        /\ c.course = d.course /\ c.job = d.job /\ c.behind = d.behind
        /\ c.id = d.id
    BY <1>1 DEF Call
  <2> HIDE DEF c
  <2>3. HoldsState(c)
    BY <1>3, <2>2, Absent DEF HoldsState
  <2>4. HoldsBuild(c)
    BY <1>2, <2>2 DEF HoldsBuild, JobsInv, StoresInv
  <2>5. Follows(c) /\ Agrees(c)
    BY <1>1, <2>1, <2>2, <2>3, <2>4 DEF Follows, HoldsCourse, HoldsJob, Agrees
  <2> QED BY <2>1, <2>5, CallReads
<1>7. CASE RepairBuild(t)
  <2>1. d.pc = "repair_build"
    BY <1>0, <1>7 DEF RepairBuild, At
  <2>2. CASE Ends(t)
    BY <2>2, IdleFollows, CallReads DEF Ends
  <2>3. ASSUME NEW b \in Latest(d.id), Adopts(b, d),
               Reads(t, [d EXCEPT !.pc = "build_save", !.build = b])
        PROVE  JobsInv'
    <3> DEFINE c == [d EXCEPT !.pc = "build_save", !.build = b]
    <3>1. /\ b \in DOMAIN builds /\ b \in Nat /\ builds[b].job = d.id
          /\ builds[b].revision = d.ws.revision /\ d.ws.phase = "completed"
      BY <2>3 DEF Latest, Adopts, Verified, JobsInv, StoresInv
    <3>. c \in Call
      BY <1>1, <3>1, CallWith
    <3>2. /\ c \in Call /\ c.pc = "build_save" /\ c.ws = d.ws
          /\ c.course = d.course /\ c.job = d.job /\ c.behind = d.behind
          /\ c.id = d.id /\ c.build = b
      BY <1>1 DEF Call
    <3>3. Reads(t, c)
      BY <2>3
    <3> HIDE DEF c
    <3>4. HoldsState(c)
      BY <1>1, <2>1, <3>1, <3>2 DEF Follows, HoldsState
    <3>5. HoldsBuild(c)
      BY <1>1, <2>1, <3>1, <3>2 DEF Follows, HoldsBuild
    <3>6. Follows(c) /\ Agrees(c)
      BY <1>1, <2>1, <3>2, <3>4, <3>5 DEF Follows, HoldsCourse, HoldsJob, Agrees
    <3> QED BY <3>3, <3>6, CallReads
  <2> QED BY <1>0, <1>7, <2>2, <2>3 DEF RepairBuild
<1> QED BY <1>4, <1>5, <1>6, <1>7

LEMMA BuildWritesKeep ==
  ASSUME JobsInv, NEW t \in Thread,
         BuildCheck(t) \/ BuildRecord(t) \/ BuildSave(t)
  PROVE  JobsInv'
<1> USE DEF Attaching, Updating, Starting, Following, Naming
<1>0. PICK d : d = call[t]
  OBVIOUS
<1>1. /\ Follows(d) /\ Agrees(d) /\ d \in Call
      /\ d.pc \in {"build_check", "build_record", "build_save"}
  BY <1>0 DEF BuildCheck, BuildRecord, BuildSave, At, JobsInv
<1>2. /\ d.id \in Known /\ d.id \in Nat /\ d.ws \in WorkflowState
      /\ d.ws.phase = "completed" /\ d.ws.document \in Document
      /\ d.ws.revision \in 0..MaxRevision
      /\ workflow # None /\ d.ws.revision <= workflow.revision
  BY <1>1 DEF Follows, HoldsJob, HoldsState, Call, Known, WorkflowState,
     JobsInv, StoresInv
<1>3. [cache EXCEPT ![d.ws.document] = d.ws.document]
        \in [Document -> File \cup {None}]
  BY <1>2 DEF JobsInv, StoresInv, File
<1>4. CASE BuildCheck(t)
  <2>1. cache' \in [Document -> File \cup {None}]
    BY <1>0, <1>3, <1>4 DEF BuildCheck, PutInCache, JobsInv, StoresInv
  <2>2. /\ Goes(t, Idle)
        /\ UNCHANGED <<evidence, course, workflow, reviews, jobs, builds>>
    BY <1>4 DEF BuildCheck
  <2> QED BY <2>1, <2>2, IdleFollows, CacheGoes
<1>5. CASE BuildRecord(t)
  <2> DEFINE b   == [job |-> d.id, revision |-> d.ws.revision,
                     document |-> d.ws.document]
             n   == Len(builds) + 1
  <2>1. PICK m : m = n
    OBVIOUS
  <2> DEFINE c == [d EXCEPT !.pc = "build_save", !.build = m]
  <2>2. /\ builds' = Append(builds, b) /\ Goes(t, c)
        /\ UNCHANGED <<evidence, course, workflow, reviews, jobs>>
        /\ cache' \in [Document -> File \cup {None}]
    BY <1>0, <1>3, <1>5, <2>1 DEF BuildRecord, PutInCache
  <2>3. /\ b \in Build /\ b.job = d.id /\ b.revision = d.ws.revision
    BY <1>2 DEF Build
  <2> HIDE DEF b
  <2>4. builds \in Seq(Build) /\ m \in Nat
    BY <2>1 DEF JobsInv, StoresInv
  <2>5. /\ builds' \in Seq(Build) /\ DOMAIN builds' = DOMAIN builds \cup {m}
        /\ \A k \in DOMAIN builds : k # m /\ builds'[k] = builds[k]
        /\ builds'[m] = b
    BY <2>1, <2>2, <2>3, <2>4
  <2>6. Review(jobs[d.id]) => reviews[d.ws.revision] = "passed"
    <3>1. d.pc = "build_record"
      BY <1>0, <1>5 DEF BuildRecord, At
    <3> QED BY <1>1, <3>1 DEF Follows, HoldsJob, HoldsBuild, Review
  <2>7. Known' = Known
    BY <2>2 DEF Known
  <2>8. StoresInv'
    BY <1>2, <2>2, <2>3, <2>5, <2>6, <2>7 DEF JobsInv, StoresInv, Review
  <2>9. Grows
    BY <2>2, <2>5, <2>7 DEF JobsInv, StoresInv, Grows, WorkflowState
  <2>10. Follows(d)'
    BY <1>1, <2>8, <2>9, FollowsOn DEF JobsInv
  <2>. c \in Call
    BY <1>1, <2>4, CallWith
  <2>11. /\ c \in Call /\ c.pc = "build_save" /\ c.ws = d.ws
         /\ c.course = d.course /\ c.job = d.job /\ c.behind = d.behind
         /\ c.id = d.id /\ c.build = m
    BY <1>1 DEF Call
  <2>12. d.pc = "build_record"
    BY <1>0, <1>5 DEF BuildRecord, At
  <2> HIDE DEF c
  <2>13. HoldsCourse(c)' /\ HoldsState(c)' /\ HoldsJob(c)'
    BY <2>10, <2>11, <2>12 DEF Follows, HoldsCourse, HoldsState, HoldsJob
  <2>14. HoldsBuild(c)'
    BY <2>3, <2>5, <2>10, <2>11, <2>12 DEF Follows, HoldsBuild
  <2>15. Follows(c)'
    BY <2>11, <2>13, <2>14 DEF Follows
  <2>16. Agrees(c)'
    BY <1>1, <2>2, <2>11 DEF Agrees
  <2> QED BY <2>2, <2>8, <2>9, <2>15, <2>16, CallGoes
<1>6. CASE BuildSave(t)
  <2> DEFINE new == Completed(d.job, d.build, d.ws)
  <2>1. d.pc = "build_save"
    BY <1>0, <1>6 DEF BuildSave, At
  <2>2. /\ d.job # None /\ d.job \in JobRecord
        /\ d.job.settings = jobs[d.id].settings
        /\ d.build \in DOMAIN builds /\ d.build \in Nat
        /\ builds[d.build].job = d.id
    BY <1>1, <2>1 DEF Follows, HoldsJob, HoldsBuild, Call, JobsInv, StoresInv
  <2>3. /\ new \in JobRecord /\ new.settings = d.job.settings
        /\ new.build = d.build
    BY <1>2, <2>2 DEF Completed, JobRecord
  <2> HIDE DEF new
  <2>4. UNCHANGED <<evidence, course, workflow, reviews, builds, cache>>
    BY <1>6 DEF BuildSave
  <2>5. CASE SaveJob(t, new, Idle)
    BY <1>0, <2>2, <2>3, <2>4, <2>5, IdleFollows, JobAdvances DEF Idle
  <2>6. CASE UNCHANGED jobs /\ Goes(t, Idle)
    BY <2>4, <2>6, IdleFollows, CallReads DEF Reads, stores
  <2> QED BY <1>0, <1>6, <2>5, <2>6 DEF BuildSave, new
<1> QED BY <1>4, <1>5, <1>6

----------------------------------------------------------------------------
(* get_artifact and the files.                                             *)

LEMMA ArtifactKeeps ==
  ASSUME JobsInv, NEW t \in Thread,
         \/ ArtifactJob(t) \/ ArtifactContext(t)
         \/ ArtifactFile(t) \/ ArtifactAnswer(t)
  PROVE  JobsInv'
<1> USE DEF Attaching, Updating, Starting, Following, Naming
<1>0. PICK d : d = call[t]
  OBVIOUS
<1>1. Follows(d) /\ Agrees(d) /\ d \in Call
  BY <1>0 DEF JobsInv
<1>2. CASE ArtifactJob(t)
  <2>1. PICK b \in DOMAIN builds :
          Reads(t, [Idle EXCEPT !.pc = "artifact_context", !.build = b,
                                !.id = builds[b].job])
    BY <1>2 DEF ArtifactJob
  <2> DEFINE c == [Idle EXCEPT !.pc = "artifact_context", !.build = b,
                               !.id = builds[b].job]
  <2>2. b \in Nat /\ builds[b].job \in Known /\ builds[b].job \in Nat
    BY DEF JobsInv, StoresInv, Known
  <2>. c \in Call
    BY <2>2, IdleIsCall, CallWith
  <2>3. /\ c \in Call /\ c.pc = "artifact_context" /\ c.ws = None
        /\ c.course = None /\ c.job = None /\ c.behind = 0
        /\ c.id = builds[b].job /\ c.build = b
    BY DEF Idle
  <2>4. Reads(t, c)
    BY <2>1
  <2> HIDE DEF c
  <2>5. Follows(c) /\ Agrees(c)
    BY <2>2, <2>3 DEF Follows, HoldsCourse, HoldsState, HoldsJob, HoldsBuild,
       Agrees
  <2> QED BY <2>4, <2>5, CallReads
<1>3. CASE ArtifactContext(t)
  <2> DEFINE c == [d EXCEPT !.pc = "artifact_file", !.ws = workflow]
  <2>1. d.pc = "artifact_context"
    BY <1>0, <1>3 DEF ArtifactContext, At
  <2>2. workflow \in WorkflowState /\ workflow.revision <= workflow.revision
    BY <1>1, <2>1 DEF Follows, HoldsJob, JobsInv, StoresInv, Known, WorkflowState
  <2>3. CASE Verified(d.build, d.id, workflow)
    <3>. c \in Call
      BY <1>1, <2>2, CallWith
    <3>1. /\ c \in Call /\ c.pc = "artifact_file" /\ c.ws = workflow
          /\ c.course = d.course /\ c.job = d.job /\ c.behind = d.behind
          /\ c.id = d.id /\ c.build = d.build
      BY <1>1 DEF Call
    <3>2. Reads(t, c)
      BY <1>0, <1>3, <2>3 DEF ArtifactContext
    <3> HIDE DEF c
    <3>3. HoldsState(c)
      BY <2>2, <2>3, <3>1, Absent DEF HoldsState, Verified
    <3>4. HoldsBuild(c)
      BY <1>1, <2>1, <2>3, <3>1 DEF Follows, HoldsBuild, Verified
    <3>5. Follows(c) /\ Agrees(c)
      BY <1>1, <2>1, <3>1, <3>3, <3>4
         DEF Follows, HoldsCourse, HoldsJob, Agrees
    <3> QED BY <3>2, <3>5, CallReads
  <2>4. CASE ~Verified(d.build, d.id, workflow)
    BY <1>0, <1>3, <2>4, IdleFollows, CallReads DEF ArtifactContext
  <2> QED BY <2>3, <2>4
<1>4. CASE ArtifactFile(t)
  <2>1. PICK document : document = builds[d.build].document
    OBVIOUS
  <2> DEFINE c == [d EXCEPT !.pc = "artifact_answer", !.file = document]
  <2>2. d.pc = "artifact_file" /\ d.build \in DOMAIN builds
    BY <1>0, <1>1, <1>4 DEF ArtifactFile, At, Follows, HoldsBuild
  <2>3. document \in Document /\ document \in File
    <3>1. builds[d.build] \in Build
      BY SMTT(30), <2>2 DEF JobsInv, StoresInv
    <3> QED BY <2>1, <3>1 DEF Build, File
  <2>4. /\ Goes(t, c) /\ cache' = [cache EXCEPT ![document] = document]
        /\ UNCHANGED <<evidence, course, workflow, reviews, jobs, builds>>
    BY <1>0, <1>4, <2>1 DEF ArtifactFile, Usable, PutInCache
  <2>5. cache' \in [Document -> File \cup {None}]
    BY <2>3, <2>4 DEF JobsInv, StoresInv
  <2>. c \in Call
    BY <1>1, <2>3, CallWith
  <2>6. /\ c \in Call /\ c.pc = "artifact_answer" /\ c.ws = d.ws
        /\ c.course = d.course /\ c.job = d.job /\ c.behind = d.behind
        /\ c.id = d.id /\ c.build = d.build /\ c.file = document
    BY <1>1 DEF Call
  <2> HIDE DEF c
  <2>7. Follows(c) /\ Agrees(c)
    BY <1>1, <2>1, <2>2, <2>6 DEF Follows, HoldsCourse, HoldsState, HoldsJob,
       HoldsBuild, Agrees
  <2> QED BY <2>4, <2>5, <2>7, CacheGoes
<1>5. CASE ArtifactAnswer(t)
  BY <1>5, IdleFollows, CallReads DEF ArtifactAnswer, Ends
<1> QED BY <1>2, <1>3, <1>4, <1>5

LEMMA CacheKeeps ==
  ASSUME JobsInv, NEW document \in Document, CacheChanges(document)
  PROVE  JobsInv'
<1>1. cache' \in [Document -> File \cup {None}]
  BY DEF CacheChanges, PutInCache, JobsInv, StoresInv, File
<1>2. UNCHANGED <<evidence, course, workflow, reviews, jobs, builds, call>>
  BY DEF CacheChanges
<1>3. StoresInv' /\ Grows
  BY <1>1, <1>2 DEF JobsInv, StoresInv, Grows, Known, Review, WorkflowState
<1> QED BY <1>2, <1>3, CallsStay

----------------------------------------------------------------------------
(* The invariant.                                                          *)

LEMMA JobsInit == Init => JobsInv
<1> SUFFICES ASSUME Init PROVE JobsInv
  OBVIOUS
<1>1. StoresInv
  BY JobsAssumption DEF Init, StoresInv, CourseRecord, Known
<1>2. call = [t \in Thread |-> Idle]
  BY DEF Init
<1>3. Follows(Idle) /\ Agrees(Idle)
  BY IdleIsCall DEF Follows, Agrees, Idle, HoldsCourse, HoldsState, HoldsJob,
     HoldsBuild, Attaching, Updating, Starting, Following, Naming
<1> QED BY <1>1, <1>2, <1>3, IdleIsCall DEF JobsInv

LEMMA JobsNext == JobsInv /\ [Next]_vars => JobsInv'
<1> SUFFICES ASSUME JobsInv, [Next]_vars PROVE JobsInv'
  OBVIOUS
<1>1. ASSUME NEW t \in Thread, Owner(t) PROVE JobsInv'
  BY <1>1, AttachKeeps, UpdateKeeps, StartFindKeeps, StatusKeeps, JobRead,
     ArtifactKeeps DEF Owner
<1>2. ASSUME NEW t \in Thread, Step(t) PROVE JobsInv'
  BY <1>2, AttachKeeps, UpdateKeeps, StatusKeeps, StartFindKeeps,
     StartMakesKeeps, ProjectKeeps, BuildReadsKeep, BuildWritesKeep,
     ArtifactKeeps DEF Step
<1>3. ASSUME NEW t \in Thread, Abandon(t) PROVE JobsInv'
  BY <1>3, IdleFollows, CallReads DEF Abandon, Reads
<1>4. CASE WorkflowMoves
  BY <1>4, WorkflowKeeps
<1>5. ASSUME NEW document \in Document, CacheChanges(document) PROVE JobsInv'
  BY <1>5, CacheKeeps
<1>6. CASE UNCHANGED vars
  <2>1. StoresInv' /\ Grows
    BY <1>6 DEF vars, stores, JobsInv, StoresInv, Grows, Known, Review,
       WorkflowState
  <2> QED BY <1>6, <2>1, CallsStay DEF vars, stores
<1> QED BY <1>1, <1>2, <1>3, <1>4, <1>5, <1>6 DEF Next

\* However the calls of any number of threads interleave, are cut short and race
\* for the records, what the stores say of one another is true, and what a call
\* has read of them holds as far as it will use it.
THEOREM JobsInvariant == Spec => []JobsInv
BY JobsInit, JobsNext, PTL DEF Spec

\* The records and calls are what the constructors of the code accept.
THEOREM JobsTyped == Spec => []TypeOK
<1>1. JobsInv => TypeOK
  BY DEF JobsInv, StoresInv, TypeOK
<1> QED BY <1>1, JobsInvariant, PTL

\* One job for a course, and the pointer of the course leads to it.
THEOREM OneJob == Spec => []OneJobPerCourse
<1>1. JobsInv => OneJobPerCourse
  BY DEF JobsInv, StoresInv, OneJobPerCourse, Known
<1> QED BY <1>1, JobsInvariant, PTL

\* In review nothing is built, and no build is named, without a verdict that
\* passed for the very revision that was built.
THEOREM OnlyReviewedIsBuilt == Spec => []BuiltIsReviewed
<1>1. JobsInv => BuiltIsReviewed
  BY DEF JobsInv, StoresInv, BuiltIsReviewed, Known
<1> QED BY <1>1, JobsInvariant, PTL

\* A file is answered with only for a build of the revision and the documents
\* the workflow was seen to have, and it is the file of those documents.
THEOREM OnlyCurrentIsServed == Spec => []ServedIsCurrent
<1>1. JobsInv => ServedIsCurrent
  BY DEF JobsInv, Follows, HoldsBuild, ServedIsCurrent, At
<1> QED BY <1>1, JobsInvariant, PTL

----------------------------------------------------------------------------
(* What a step never does.                                                 *)

LEMMA NothingIsLostStep ==
  ASSUME JobsInv, [Next]_vars
  PROVE  /\ course.sources \subseteq course'.sources
         /\ course.pointer # None => course'.pointer = course.pointer
<1> USE DEF Attaching, Updating, Starting
<1> DEFINE Kept == /\ course.sources \subseteq course'.sources
                   /\ course.pointer # None => course'.pointer = course.pointer
<1>1. CASE UNCHANGED course
  BY <1>1
<1>2. ASSUME NEW t \in Thread, AttachSave(t) PROVE Kept
  <2> DEFINE c   == call[t]
             new == [c.course EXCEPT !.sources = @ \cup {c.source}]
  <2>1. /\ HoldsCourse(c) /\ c.course # None /\ c.course \in CourseRecord
    BY <1>2 DEF AttachSave, At, JobsInv, Follows, HoldsCourse, Call
  <2>2. CASE CourseSaves(c.course, new)
    <3>1. course' = Revised(new) /\ (course = c.course \/ course = Revised(new))
      BY <1>2, <2>1, <2>2, SavedOver DEF AttachSave, SaveCourse, JobsInv
    <3>2. /\ Revised(new).sources = c.course.sources \cup {c.source}
          /\ Revised(new).pointer = c.course.pointer
      BY <2>1 DEF Revised, CourseRecord
    <3> QED BY <3>1, <3>2
  <2>3. CASE ~CourseSaves(c.course, new)
    BY <1>1, <1>2, <2>3 DEF AttachSave
  <2> QED BY <2>2, <2>3
<1>3. ASSUME NEW t \in Thread, UpdateSave(t) PROVE Kept
  <2> DEFINE c   == call[t]
             new == [c.course EXCEPT !.settings = c.settings]
  <2>1. /\ HoldsCourse(c) /\ c.course # None /\ c.course \in CourseRecord
    BY <1>3 DEF UpdateSave, At, JobsInv, Follows, HoldsCourse, Call
  <2>2. CASE CourseSaves(c.course, new)
    <3>1. course' = Revised(new) /\ (course = c.course \/ course = Revised(new))
      BY <1>3, <2>1, <2>2, SavedOver DEF UpdateSave, SaveCourse, JobsInv
    <3>2. /\ Revised(new).sources = c.course.sources
          /\ Revised(new).pointer = c.course.pointer
      BY <2>1 DEF Revised, CourseRecord
    <3> QED BY <3>1, <3>2
  <2>3. CASE ~CourseSaves(c.course, new)
    BY <1>1, <1>3, <2>3 DEF UpdateSave
  <2> QED BY <2>2, <2>3
<1>4. ASSUME NEW t \in Thread, StartRepair(t) PROVE Kept
  <2> DEFINE c   == call[t]
             new == [c.course EXCEPT !.pointer = c.id]
  <2>1. /\ HoldsCourse(c) /\ c.course # None /\ c.course \in CourseRecord
        /\ c.course.pointer = None
    BY <1>4 DEF StartRepair, At, JobsInv, Follows, HoldsCourse, Call
  <2>2. CASE CourseSaves(c.course, new)
    <3>1. course' = Revised(new) /\ (course = c.course \/ course = Revised(new))
      BY <1>4, <2>1, <2>2, SavedOver DEF StartRepair, SaveCourse, JobsInv
    <3>2. Revised(new).sources = c.course.sources
      BY <2>1 DEF Revised, CourseRecord
    <3> QED BY <2>1, <3>1, <3>2
  <2>3. CASE ~CourseSaves(c.course, new)
    BY <1>1, <1>4, <2>3 DEF StartRepair
  <2> QED BY <2>2, <2>3
<1>5. \/ UNCHANGED course
      \/ \E t \in Thread : AttachSave(t) \/ UpdateSave(t) \/ StartRepair(t)
  <2>1. ASSUME NEW t \in Thread, Owner(t) PROVE UNCHANGED course
    BY ZenonT(60), <2>1 DEF Owner, AttachIngest, UpdateCourse, StartCourse, StatusJob,
       BuildJob, RepairJob, ArtifactJob, Reads, stores
  <2>2. ASSUME NEW t \in Thread, Step(t), ~AttachSave(t), ~UpdateSave(t),
               ~StartRepair(t)
        PROVE  UNCHANGED course
    BY <2>2 DEF Step, AttachCourse, UpdateWorkflow, StatusWorkflow, StatusReload,
       StatusSave, StartJob, StartFind, StartWorkflow, StartInit, StartSave,
       StartAgain, Project, ProjectSave, ProjectReload, ProjectRetry,
       BuildContext, BuildReview, BuildCheck, BuildRecord, BuildSave,
       RepairContext, RepairBuild, ArtifactContext, ArtifactFile,
       ArtifactAnswer, Ends, Reads, stores
  <2>3. ASSUME NEW t \in Thread, Abandon(t) PROVE UNCHANGED course
    BY <2>3 DEF Abandon, stores
  <2>4. WorkflowMoves => UNCHANGED course
    BY DEF WorkflowMoves, Stop, GoOn, ReopenForCorrection, Finish,
       AcceptVerdict, Moves
  <2>5. \A document : CacheChanges(document) => UNCHANGED course
    BY DEF CacheChanges
  <2> QED BY SMTT(30), <2>1, <2>2, <2>3, <2>4, <2>5 DEF Next, vars, stores
<1> QED BY <1>1, <1>2, <1>3, <1>4, <1>5

\* Sources are never taken from a course, nor its pointer, by whoever saves over
\* a record that was read before them.
THEOREM NoneIsLost == Spec => NothingIsLost
<1>1. JobsInv /\ [Next]_vars =>
        [/\ course.sources \subseteq course'.sources
         /\ course.pointer # None => course'.pointer = course.pointer]_vars
  BY NothingIsLostStep
<1> QED BY <1>1, JobsInvariant, PTL DEF Spec, NothingIsLost

\* Whoever saves the record of a job over the present one had its build.
LEMMA SavedBuild ==
  ASSUME JobsInv, NEW t \in Thread, NEW new, NEW c,
         call[t].job # None, SaveJob(t, new, c), UNCHANGED builds,
         \/ new.build = call[t].job.build
         \/ /\ call[t].pc = "build_save"
            /\ new.build = call[t].build
  PROVE  \A id \in Known : jobs[id].build # None =>
           /\ jobs'[id].build # None
           /\ builds[jobs[id].build].revision
                <= builds'[jobs'[id].build].revision
<1> DEFINE d == call[t]
<1>1. /\ HoldsJob(d) /\ HoldsBuild(d) /\ Agrees(d)
      /\ d.id \in Known
  BY DEF JobsInv, Follows, HoldsJob
<1>2. ASSUME NEW id \in Known, jobs[id].build # None
      PROVE  /\ jobs[id].build \in DOMAIN builds
             /\ builds[jobs[id].build].revision \in Nat
  <2>1. jobs[id].build \in DOMAIN builds /\ builds \in Seq(Build)
    BY <1>2 DEF JobsInv, StoresInv
  <2>2. builds[jobs[id].build] \in Build
    BY <2>1
  <2> QED BY <2>1, <2>2, JobsAssumption DEF Build
<1>3. CASE d.behind # 0
  BY <1>2, <1>3 DEF SaveJob
<1>4. CASE d.behind = 0
  <2>1. jobs' = [jobs EXCEPT ![d.id] = new] /\ d.job.build = jobs[d.id].build
    BY <1>1, <1>4 DEF SaveJob, Agrees
  <2>2. ASSUME NEW id \in Known, id # d.id PROVE jobs'[id] = jobs[id]
    BY <2>1, <2>2 DEF Known
  <2>3. jobs'[d.id] = new
    BY <1>1, <2>1 DEF Known
  <2>4. CASE new.build = d.job.build
    BY <1>2, <2>1, <2>2, <2>3, <2>4
  <2>5. CASE d.pc = "build_save" /\ new.build = d.build
    <3>1. d.build \in DOMAIN builds /\ d.build # None
      BY <1>1, <2>5, Absent DEF HoldsBuild, Naming, JobsInv, StoresInv
    <3>2. d.job.build # None =>
            builds[d.job.build].revision <= builds[d.build].revision
      BY <1>1, <2>5 DEF HoldsBuild
    <3> QED BY <1>2, <2>1, <2>2, <2>3, <2>5, <3>1, <3>2
  <2> QED BY <2>4, <2>5
<1> QED BY <1>3, <1>4

LEMMA BuildIsKeptStep ==
  ASSUME JobsInv, [Next]_vars
  PROVE  \A id \in DOMAIN jobs : jobs[id].build # None =>
           /\ jobs'[id].build # None
           /\ builds[jobs[id].build].revision
                <= builds'[jobs'[id].build].revision
<1> DEFINE Kept == \A id \in Known : jobs[id].build # None =>
                     /\ jobs'[id].build # None
                     /\ builds[jobs[id].build].revision
                          <= builds'[jobs'[id].build].revision
<1>1. ASSUME UNCHANGED jobs,
             \A b \in DOMAIN builds : builds'[b] = builds[b]
      PROVE  Kept
  <2>1. ASSUME NEW id \in Known, jobs[id].build # None
        PROVE  /\ jobs[id].build \in DOMAIN builds
               /\ builds[jobs[id].build].revision \in Nat
    <3>1. jobs[id].build \in DOMAIN builds /\ builds \in Seq(Build)
      BY <2>1 DEF JobsInv, StoresInv
    <3>2. builds[jobs[id].build] \in Build
      BY <3>1
    <3> QED BY <3>1, <3>2, JobsAssumption DEF Build
  <2> QED BY <1>1, <2>1
<1>2. ASSUME NEW t \in Thread,
             \/ StatusSave(t) \/ ProjectSave(t) \/ ProjectRetry(t)
             \/ BuildSave(t)
      PROVE  Kept
  <2> DEFINE d == call[t]
  <2>1. UNCHANGED builds
    BY <1>2 DEF StatusSave, ProjectSave, ProjectRetry, BuildSave
  <2>2. HoldsJob(d) /\ HoldsState(d) /\ d \in Call
    BY DEF JobsInv, Follows
  <2>3. d.job # None /\ d.job \in JobRecord
    BY <1>2, <2>2 DEF StatusSave, ProjectSave, ProjectRetry, BuildSave, At,
       HoldsJob, Call
  <2>4. CASE UNCHANGED jobs
    BY <1>1, <2>1, <2>4
  <2>5. CASE StatusSave(t) \/ ProjectRetry(t)
    <3>1. UNCHANGED jobs \/ SaveJob(t, d.job, Idle)
      BY <2>5 DEF StatusSave, ProjectRetry
    <3> QED BY <2>1, <2>3, <2>4, <3>1, SavedBuild
  <2>6. CASE ProjectSave(t)
    <3>1. UNCHANGED jobs \/ SaveJob(t, Projected(d.job, d.ws), Idle)
      BY <2>6 DEF ProjectSave
    <3>2. Projected(d.job, d.ws).build = d.job.build
      BY <2>3 DEF Projected, JobRecord
    <3> QED BY <2>1, <2>3, <2>4, <3>1, <3>2, SavedBuild
  <2>7. CASE BuildSave(t)
    <3>1. UNCHANGED jobs \/ SaveJob(t, Completed(d.job, d.build, d.ws), Idle)
      BY <2>7 DEF BuildSave
    <3>2. /\ Completed(d.job, d.build, d.ws).build = d.build
          /\ d.pc = "build_save"
      BY <2>3, <2>7 DEF Completed, JobRecord, BuildSave, At
    <3> QED BY <2>1, <2>3, <2>4, <3>1, <3>2, SavedBuild
  <2> QED BY <1>2, <2>5, <2>6, <2>7
<1>3. ASSUME NEW t \in Thread, StartSave(t) PROVE Kept
  <2>1. CASE jobs = <<>>
    BY <2>1 DEF Known
  <2>2. CASE jobs # <<>>
    BY <1>1, <1>3, <2>2 DEF StartSave, WorkflowIsTaken
  <2> QED BY <2>1, <2>2
<1>4. ASSUME NEW t \in Thread, BuildRecord(t) PROVE Kept
  <2>1. PICK b : builds' = Append(builds, b)
    BY <1>4 DEF BuildRecord
  <2>2. builds \in Seq(Build)
    BY DEF JobsInv, StoresInv
  <2>3. \A k \in DOMAIN builds : builds'[k] = builds[k]
    BY <2>1, <2>2
  <2>4. UNCHANGED jobs
    BY <1>4 DEF BuildRecord
  <2> QED BY <1>1, <2>3, <2>4
<1>5. CASE UNCHANGED <<jobs, builds>>
  BY <1>1, <1>5 DEF Known
<1>6. \/ UNCHANGED <<jobs, builds>>
      \/ \E t \in Thread :
           \/ StatusSave(t) \/ ProjectSave(t) \/ ProjectRetry(t)
           \/ BuildSave(t) \/ StartSave(t) \/ BuildRecord(t)
  <2>1. ASSUME NEW t \in Thread, Owner(t) PROVE UNCHANGED <<jobs, builds>>
    BY ZenonT(60), <2>1 DEF Owner, AttachIngest, UpdateCourse, StartCourse, StatusJob,
       BuildJob, RepairJob, ArtifactJob, Reads, stores
  <2>2. ASSUME NEW t \in Thread, Step(t), ~StatusSave(t), ~ProjectSave(t),
               ~ProjectRetry(t), ~BuildSave(t), ~StartSave(t), ~BuildRecord(t)
        PROVE  UNCHANGED <<jobs, builds>>
    BY <2>2 DEF Step, AttachCourse, AttachSave, UpdateWorkflow, UpdateSave,
       StatusWorkflow, StatusReload, StartJob, StartFind, StartWorkflow,
       StartInit, StartAgain, StartRepair, Project, ProjectReload,
       BuildContext, BuildReview, BuildCheck, RepairContext, RepairBuild,
       ArtifactContext, ArtifactFile, ArtifactAnswer, Ends, Reads, stores
  <2>3. ASSUME NEW t \in Thread, Abandon(t) PROVE UNCHANGED <<jobs, builds>>
    BY <2>3 DEF Abandon, stores
  <2>4. WorkflowMoves => UNCHANGED <<jobs, builds>>
    BY DEF WorkflowMoves, Stop, GoOn, ReopenForCorrection, Finish,
       AcceptVerdict, Moves
  <2>5. \A document : CacheChanges(document) => UNCHANGED <<jobs, builds>>
    BY DEF CacheChanges
  <2> QED BY SMTT(30), <2>1, <2>2, <2>3, <2>4, <2>5 DEF Next, vars, stores
<1> QED BY <1>2, <1>3, <1>4, <1>5, <1>6 DEF Known

\* The race of projections, builds and repairs for the record of a job never
\* takes its build from it, and never puts an earlier one in its place.
THEOREM BuildStays == Spec => BuildIsKept
<1>1. JobsInv /\ [Next]_vars =>
        [\A id \in DOMAIN jobs : jobs[id].build # None =>
           /\ jobs'[id].build # None
           /\ builds[jobs[id].build].revision
                <= builds'[jobs'[id].build].revision]_vars
  BY BuildIsKeptStep
<1> QED BY <1>1, JobsInvariant, PTL DEF Spec, BuildIsKept

=============================================================================
