---------------------------- MODULE MCCourseJobs ----------------------------
(***************************************************************************)
(* Instances of CourseJobs for TLC.                                        *)
(***************************************************************************)
EXTENDS CourseJobs, TLC

CONSTANTS i1, d1

MCSource == {[id |-> i1, digest |-> d1]}

\* Threads differ in nothing but their name.
Threads == Permutations(Thread)

=============================================================================
