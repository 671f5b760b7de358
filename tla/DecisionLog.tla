---------------------------- MODULE DecisionLog ----------------------------
(***************************************************************************)
(* What the stores around a workflow promise its clients: one log of       *)
(* decisions, and calls that take effect at one moment.  A call that       *)
(* decides looks at the log once; its decision is appended only if the log *)
(* is still what it saw, so each decision is made on everything before it. *)
(* Whatever is answered is true: advanced of a decision that is in the     *)
(* log, repeat of one that was in it already, a refusal of a call that has *)
(* decided nothing.  Only of a call that was cut short nothing is known.   *)
(***************************************************************************)
EXTENDS Naturals, Sequences

CONSTANTS
  Client,
  Request,      \* records with op, kind and expected, those of readers included
  MaxRevision,
  None

VARIABLES
  log,      \* the decisions that were taken
  client    \* what each client is doing

vars == <<log, client>>

Resting(outcome) ==
  [phase |-> "idle", request |-> None, seen |-> <<>>, outcome |-> outcome]

Init ==
  /\ log = <<>>
  /\ client = [c \in Client |-> Resting(None)]

\* A step moves one client.
Becomes(c, state) ==
  /\ client'[c] = state
  /\ client' = [client EXCEPT ![c] = client'[c]]

Asks(c, kind) == client[c].phase = "pending" /\ client[c].request.kind = kind

Call(c, q) ==
  /\ client[c].phase = "idle"
  /\ Becomes(c, [phase |-> "pending", request |-> q, seen |-> <<>>,
                 outcome |-> None])
  /\ UNCHANGED log

\* An initialisation decides without looking.
Look(c) ==
  /\ Asks(c, "transition") \/ Asks(c, "read")
  /\ client[c].seen = <<>>
  /\ log # <<>>
  /\ Becomes(c, [client[c] EXCEPT !.seen = log])
  /\ UNCHANGED log

\* The first decision, which may be confirmed as long as it is the only one.
Initialize(c) ==
  /\ Asks(c, "initialize")
  /\ log \in {<<>>, <<client[c].request>>}
  /\ log' = <<client[c].request>>
  /\ Becomes(c, [client[c] EXCEPT !.phase = "applied"])

\* What a decision needs of the log it is made on.
Fits(q, l) ==
  /\ q.expected = Len(l) - 1
  /\ Len(l) - 1 < MaxRevision
  /\ \A i \in DOMAIN l : l[i].op # q.op

\* A decision on the log as it was seen, by this call or by another that made
\* the same decision on the same log a moment before.
Advance(c) ==
  LET q == client[c].request
      seen == client[c].seen
  IN
  /\ Asks(c, "transition")
  /\ seen # <<>>
  /\ Fits(q, seen)
  /\ log \in {seen, Append(seen, q)}
  /\ log' = Append(seen, q)
  /\ Becomes(c, Resting("advanced"))

Repeat(c) ==
  /\ Asks(c, "transition")
  /\ \E i \in DOMAIN client[c].seen : client[c].seen[i] = client[c].request
  /\ Becomes(c, Resting("repeat"))
  /\ UNCHANGED log

Reopen(c) ==
  /\ Asks(c, "read")
  /\ client[c].seen # <<>>
  /\ Becomes(c, Resting("reopened"))
  /\ UNCHANGED log

\* The first decision is answered after its course is associated with it.
Confirm(c) ==
  /\ client[c].phase = "applied"
  /\ Becomes(c, Resting("advanced"))
  /\ UNCHANGED log

Refuse(c) ==
  /\ client[c].phase = "pending"
  /\ \E why \in {"rejected", "failed", "missing", "not_found"} :
       Becomes(c, Resting(why))
  /\ UNCHANGED log

CutShort(c) ==
  /\ client[c].phase # "idle"
  /\ Becomes(c, Resting("unavailable"))
  /\ UNCHANGED log

Next ==
  \E c \in Client :
    \/ \E q \in Request : Call(c, q)
    \/ Look(c) \/ Initialize(c) \/ Advance(c) \/ Repeat(c) \/ Reopen(c)
    \/ Confirm(c) \/ Refuse(c) \/ CutShort(c)

Spec == Init /\ [][Next]_vars

=============================================================================
