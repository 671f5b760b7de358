------------------------------ MODULE MCRelay ------------------------------
(***************************************************************************)
(* Instance of Relay.  Tabs, jobs and slots differ in nothing but their    *)
(* name.  Each tab has a holder of its own for each job.                   *)
(***************************************************************************)
EXTENDS Relay, TLC

MCHolderOf == [t \in Tab, j \in Job |-> <<t, j>>]

Interchangeable == Permutations(Tab) \cup Permutations(Job) \cup Permutations(Slot)

=============================================================================
