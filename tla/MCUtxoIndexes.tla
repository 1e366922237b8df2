--------------------------- MODULE MCUtxoIndexes ----------------------------
(***************************************************************************)
(* Instances of UtxoIndexes for TLC.                                       *)
(***************************************************************************)
EXTENDS UtxoIndexes, TLC

\* A client that picks its destinations itself.
FarAway == {{3, 4}}

Alike == Permutations(Calls)
=============================================================================
