------------------------- MODULE MCPartitionAmount --------------------------
(***************************************************************************)
(* An instance of PartitionAmount for TLC.                                 *)
(***************************************************************************)
EXTENDS PartitionAmount

SmallTotals == -3..8
SmallParts == 0..5
=============================================================================
