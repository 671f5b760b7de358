----------------------------- MODULE MCWorkflow -----------------------------
(***************************************************************************)
(* Values for the constants of Workflow that a configuration cannot write. *)
(***************************************************************************)
EXTENDS Continuation

CONSTANTS s1, s2, s3, s4, x1, x2, x3, x4, da, db

\* A workflow starts from one source; what may turn up later is a new source,
\* the same source again, its id with other content and its content under
\* another id.
MCFirstSource == [id |-> s1, digest |-> x1]
MCInitial     == {{MCFirstSource}}
MCSources     == {MCFirstSource, [id |-> s2, digest |-> x2],
                  [id |-> s3, digest |-> x1], [id |-> s1, digest |-> x3]}
MCNewSources  == {MCFirstSource, [id |-> s2, digest |-> x2],
                  [id |-> s3, digest |-> x3], [id |-> s4, digest |-> x1],
                  [id |-> s3, digest |-> x2]}
MCFreshSources == {MCFirstSource, [id |-> s2, digest |-> x2],
                   [id |-> s3, digest |-> x3], [id |-> s4, digest |-> x4]}

\* Documents for the first n lectures; db is the text that draws a warning.
Placed(n, bodies) ==
  {[document_id |-> l, order |-> l, body |-> b, warns |-> b = db] :
     l \in 1..n, b \in bodies}
MCOneLecture  == Placed(1, {da})
MCTwoTexts    == Placed(2, {da, db})
MCMisplaced   == MCTwoTexts
                   \cup {[document_id |-> 1, order |-> 2, body |-> da,
                          warns |-> FALSE],
                         [document_id |-> 2, order |-> 1, body |-> da,
                          warns |-> FALSE]}

=============================================================================
