---------------------------- MODULE MCWalletAuth ----------------------------
(***************************************************************************)
(* Instances of WalletAuth for TLC.                                        *)
(***************************************************************************)
EXTENDS WalletAuth, TLC

Alike ==
  Permutations(Wallets) \cup Permutations(Nonces) \cup Permutations(Calls)
=============================================================================
