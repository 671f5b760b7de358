------------------------ MODULE MCSemanticOperations ------------------------
(***************************************************************************)
(* Snapshots for SemanticOperations to start from, each the result of the  *)
(* transitions of its receipts.                                            *)
(***************************************************************************)
EXTENDS SemanticOperations, SequencesExt

CONSTANTS s1, s2, p1, r1, v1

MCSource == {[id |-> s1, digest |-> s1]}
MCNewSource == {[id |-> s2, digest |-> s2]}
MCSources == MCSource \cup MCNewSource

MCDocument == {[document_id |-> 1, order |-> 1, body |-> "a", warns |-> FALSE],
               [document_id |-> 1, order |-> 1, body |-> "b", warns |-> FALSE]}
MCDocumentOne == {[document_id |-> 1, order |-> 1, body |-> "a", warns |-> FALSE]}

New ==
  [revision |-> 0, stage |-> "source_assessment", disposition |-> "ready",
   policy |-> v1, sources |-> MCSource, reviewed |-> {}, assessment |-> None,
   basis |-> None, map |-> None, context |-> None, active |-> None,
   pending |-> None, progress |-> <<>>, history |-> {}, issue |-> None,
   approvals |-> {}, diagnostics |-> {},
   receipts |-> <<[action |-> "initialize_workflow", to_revision |-> 0,
                   subject |-> Course!SourceSetSubject(MCSource)]>>]

Assessed ==
  [New EXCEPT
     !.revision = 1, !.stage = "priority_approval",
     !.disposition = "awaiting_approval",
     !.assessment = [sources |-> MCSource, recorded_revision |-> 1],
     !.basis = [proposal |-> p1, status |-> "proposed", approval |-> None],
     !.receipts = Append(@, [action |-> "record_source_assessment",
                             to_revision |-> 1,
                             subject |-> Course!PrioritySubject(p1)])]

BasisApproval ==
  [gate |-> "priority_basis", decision |-> "approved",
   subject |-> Course!PrioritySubject(p1), state_revision |-> 2]

Prioritised ==
  [Assessed EXCEPT
     !.revision = 2, !.stage = "lecture_mapping", !.disposition = "ready",
     !.basis.status = "approved", !.basis.approval = BasisApproval,
     !.approvals = {BasisApproval},
     !.receipts = Append(@, [action |-> "approve_priority_basis",
                             to_revision |-> 2,
                             subject |-> Course!PrioritySubject(p1)])]

Planned(n) ==
  LET subject == Course!MapSubject(r1, n, 0)
      approval == [gate |-> "lecture_map", decision |-> "approved",
                   subject |-> subject, state_revision |-> 4]
  IN [Prioritised EXCEPT
        !.revision = 4, !.stage = "lecture_production",
        !.map = [reference |-> r1, size |-> n, reserved |-> 0,
                 status |-> "approved", approval |-> approval],
        !.progress = Course!AllPending(n),
        !.approvals = @ \cup {approval},
        !.receipts = @ \o <<[action |-> "record_lecture_map",
                             to_revision |-> 3, subject |-> subject],
                            [action |-> "approve_lecture_map",
                             to_revision |-> 4, subject |-> subject]>>]

\* A workflow that n blockers stopped, each cleared again.
Interrupted(ws, n) ==
  LET stop(i) ==
        <<[action |-> "mark_blocked", to_revision |-> ws.revision + 2 * i - 1,
           subject |-> Course!IssueSubject(s1)],
          [action |-> "clear_blocker", to_revision |-> ws.revision + 2 * i,
           subject |-> Course!IssueSubject(s1)]>>
  IN [ws EXCEPT !.revision = @ + 2 * n,
                !.receipts = @ \o FlattenSeq([i \in 1..n |-> stop(i)])]

Written(l) == [document_id |-> l, order |-> l, body |-> "a", warns |-> FALSE]

\* One lecture, written and accepted.
Finished ==
  [Planned(1) EXCEPT
     !.revision = 6, !.stage = "completed", !.disposition = "completed",
     !.progress = <<[status |-> "accepted", attempt |-> 1,
                     candidate |-> Written(1),
                     validation |-> [document |-> Written(1), policy |-> v1,
                                     disposition |-> "passed"],
                     accepted_document |-> Written(1)]>>,
     !.receipts = @ \o <<[action |-> "submit_lecture_candidate",
                          to_revision |-> 5,
                          subject |-> Course!CandidateSubject(Written(1))],
                         [action |-> "record_candidate_validation",
                          to_revision |-> 6,
                          subject |-> Course!CandidateSubject(Written(1))]>>]

\* A plan of n lectures that the owner reopened for a new source, after a
\* blocker that was cleared if there was one.
Reopened(n, blocked) ==
  LET plan == Planned(n)
      stops == IF blocked THEN 2 ELSE 0
      reopening == [gate |-> "map_reopen", decision |-> "approved",
                    subject |-> Course!SourceSubject(s2),
                    state_revision |-> 6 + stops]
      receipt(action, r, subject) ==
        [action |-> action, to_revision |-> r, subject |-> subject]
  IN [plan EXCEPT
        !.revision = 6 + stops, !.stage = "source_assessment",
        !.sources = MCSource \cup MCNewSource,
        !.assessment = None, !.basis = None, !.map = None,
        !.context = [reference |-> r1, size |-> n, reserved |-> 0,
                     approval |-> plan.map.approval,
                     created_revision |-> 6 + stops],
        !.progress = Course!AllPending(n),
        !.approvals = @ \cup {reopening},
        !.receipts = @ \o
          (IF blocked
             THEN <<receipt("mark_blocked", 5, Course!IssueSubject(s1)),
                    receipt("clear_blocker", 6, Course!IssueSubject(s1))>>
             ELSE <<>>)
          \o <<receipt("record_new_source", 5 + stops, Course!SourceSubject(s2)),
               receipt("approve_map_reopen", 6 + stops,
                       Course!SourceSubject(s2))>>]

\* Its priorities agreed again: the next map must keep the n lectures.
Reprioritised(n) ==
  LET approval == [BasisApproval EXCEPT !.state_revision = 8]
  IN [Reopened(n, FALSE) EXCEPT
        !.revision = 8, !.stage = "lecture_mapping",
        !.assessment = [sources |-> MCSource \cup MCNewSource,
                        recorded_revision |-> 7],
        !.basis = [proposal |-> p1, status |-> "approved",
                   approval |-> approval],
        !.approvals = @ \cup {approval},
        !.receipts = @ \o <<[action |-> "record_source_assessment",
                             to_revision |-> 7,
                             subject |-> Course!PrioritySubject(p1)],
                            [action |-> "approve_priority_basis",
                             to_revision |-> 8,
                             subject |-> Course!PrioritySubject(p1)]>>]

\* Threads differ in nothing but their name.
Threads == Permutations(Thread)

StartProduction == {Planned(1)}
StartLate       == {Planned(1), Finished}

\* Two ways to plan again, a course that begins to be written, and one that is
\* written, at revisions that leave each the room for what follows.
StartAnywhere ==
  {Reopened(2, TRUE), Reprioritised(2), Interrupted(Planned(1), 2), Finished}

\* What each start spends: calls are cut short once the plan is made, leases run
\* out while the course is written.
Budget ==
  LET planning == Cardinality(sources) = 2
      writing == ~planning /\ receipts[6].action = "mark_blocked"
  IN /\ abandoned > 0 => ~planning
     /\ clock > 0 => writing

=============================================================================
