------------------------ MODULE MCPersistedWorkflow ------------------------
(***************************************************************************)
(* Values for the constants of PersistedWorkflow: an initialisation and a  *)
(* second one that names no source, two transitions that compete for       *)
(* revision one, of which the first names an artifact whose id is also     *)
(* used for other content and the second is a candidate with its document, *)
(* and the operation id of the first at revision two with other content.   *)
(***************************************************************************)
EXTENDS PersistedWorkflow

Ref(store, id, digest) == [store |-> store, id |-> id, digest |-> digest]

Source       == Ref("source", "s", "x")
Artifact     == Ref("artifact", "a", "x")
OtherContent == Ref("artifact", "a", "y")
Policy       == Ref("policy", "p", "x")
Draft        == Ref("document", "d", "x")

MCReferences == {Source, Artifact, OtherContent, Policy, Draft}

Initialization(op, deps) ==
  [op |-> op, kind |-> "initialize", expected |-> 0, deps |-> deps,
   document |-> None]
Transition(op, expected, deps, document) ==
  [op |-> op, kind |-> "transition", expected |-> expected, deps |-> deps,
   document |-> document]

MCRequests ==
  {Initialization("i1", {Source, Policy}),
   Initialization("i2", {Policy}),
   Transition("t1", 0, {Artifact}, None),
   Transition("t1", 1, {OtherContent}, None),
   Transition("t2", 0, {}, Draft)}

=============================================================================
