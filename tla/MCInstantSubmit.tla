-------------------------- MODULE MCInstantSubmit ---------------------------
(***************************************************************************)
(* Instances of InstantSubmit for TLC.                                     *)
(***************************************************************************)
EXTENDS InstantSubmit, TLC

CONSTANTS merchant, customer, s1

\* The same signed operations, sent once or twice.
Bodies ==
  {[merchant |-> merchant, customer |-> customer, operations |-> s1]}

Alike == Permutations(Calls) \cup Permutations(Pks)
=============================================================================
