---------------------------- MODULE Connections ----------------------------
(***************************************************************************)
(* The connections of clients to the server, each with one request at a    *)
(* time, and the wallets they belong to.                                   *)
(***************************************************************************)
CONSTANTS Slots, Wallets, None

ASSUME ConnectionsAssumption == None \notin Slots \cup Wallets
=============================================================================
