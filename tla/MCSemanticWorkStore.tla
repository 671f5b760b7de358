------------------------ MODULE MCSemanticWorkStore ------------------------
(***************************************************************************)
(* Requests and results for SemanticWorkStore.                             *)
(***************************************************************************)
EXTENDS SemanticWorkStore

CONSTANTS q1, q2, q3, j1, j2, o1, o2, o3, d1, d2

Asked(id, job, revision, operation, kind) ==
  [id |-> id, job |-> job, revision |-> revision, operation |-> operation,
   kind |-> kind]

Handed(r, outputs) ==
  [id |-> r.id, revision |-> r.revision, operation |-> r.operation,
   kind |-> r.kind, outputs |-> outputs]

\* Two requests for one revision, one for the next; a request whose id, and
\* one whose operation, is another's; a request of another job.
MCFirst     == Asked(q1, j1, 0, o1, "lecture_generation")
MCSecond    == Asked(q2, j1, 0, o2, "semantic_correction")
MCNext      == Asked(q3, j1, 1, o3, "semantic_review")
MCConflicts == {MCFirst, MCSecond, MCNext,
                Asked(q1, j1, 1, o1, "lecture_generation"),
                Asked(q2, j2, 0, o2, "lecture_generation"),
                Asked(q3, j1, 0, o1, "lecture_generation")}

MCResults == {Handed(MCFirst, d1), Handed(MCFirst, d2), Handed(MCSecond, d1),
              [Handed(MCFirst, d1) EXCEPT !.revision = 1]}
============================================================================
