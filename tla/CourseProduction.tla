-------------------------- MODULE CourseProduction --------------------------
(***************************************************************************)
(* What the course workflow promises, without its records and revisions.   *)
(* The owner agrees to a plan of n lectures; under an agreed plan lectures *)
(* are drafted and judged one at a time; the course is delivered when      *)
(* every lecture is accepted.  A delivered course can be sent back for the *)
(* correction of chosen lectures.  New evidence suspends production and    *)
(* may void the plan and every draft made under it, never the length that  *)
(* was agreed.                                                             *)
(***************************************************************************)
EXTENDS Naturals, Sequences

CONSTANT MaxLectures   \* longest course a plan may propose

VARIABLES
  agreed,      \* the owner has approved the plan in force
  suspended,   \* work is stopped by a failure or a blocker
  course,      \* one word per lecture
  delivered    \* every lecture is accepted and the course is complete

productionVars == <<agreed, suspended, course, delivered>>

Word == {"todo", "judging", "redo", "accepted"}

Fresh(n) == [l \in 1..n |-> "todo"]

Judging == {l \in DOMAIN course : course[l] = "judging"}

AllLecturesAccepted(c) == \A l \in DOMAIN c : c[l] = "accepted"

ProductionInit ==
  /\ agreed = FALSE
  /\ suspended = FALSE
  /\ course = <<>>
  /\ delivered = FALSE

\* A new plan keeps every lecture of the one before it.
Agree(n) ==
  /\ ~agreed
  /\ ~suspended
  /\ n > 0
  /\ n >= Len(course)
  /\ agreed' = TRUE
  /\ course' = Fresh(n)
  /\ UNCHANGED <<suspended, delivered>>

Draft(l) ==
  /\ agreed
  /\ ~suspended
  /\ ~delivered
  /\ Judging = {}
  /\ course[l] \in {"todo", "redo"}
  /\ course' = [course EXCEPT ![l] = "judging"]
  /\ UNCHANGED <<agreed, suspended, delivered>>

Judge(l, word) ==
  /\ agreed
  /\ ~suspended
  /\ Judging = {l}
  /\ word \in {"redo", "accepted"}
  /\ course' = [course EXCEPT ![l] = word]
  /\ delivered' = AllLecturesAccepted(course')
  /\ UNCHANGED <<agreed, suspended>>

Correct(S) ==
  /\ delivered
  /\ S # {}
  /\ course' = [l \in DOMAIN course |-> IF l \in S THEN "redo" ELSE course[l]]
  /\ delivered' = FALSE
  /\ UNCHANGED <<agreed, suspended>>

Suspend ==
  /\ ~suspended
  /\ ~delivered
  /\ suspended' = TRUE
  /\ UNCHANGED <<agreed, course, delivered>>

Continue ==
  /\ suspended
  /\ suspended' = FALSE
  /\ UNCHANGED <<agreed, course, delivered>>

\* Only work that was stopped, and only under an agreed plan, is voided.
Replan ==
  /\ agreed
  /\ suspended
  /\ agreed' = FALSE
  /\ suspended' = FALSE
  /\ course' = Fresh(Len(course))
  /\ UNCHANGED delivered

ProductionNext ==
  \/ \E n \in 1..MaxLectures : Agree(n)
  \/ \E l \in DOMAIN course : Draft(l)
  \/ \E l \in DOMAIN course, word \in Word : Judge(l, word)
  \/ \E S \in SUBSET DOMAIN course : Correct(S)
  \/ Suspend
  \/ Continue
  \/ Replan

ProductionSpec == ProductionInit /\ [][ProductionNext]_productionVars

=============================================================================
