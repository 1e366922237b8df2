----------------------------- MODULE MCGateway ------------------------------
(***************************************************************************)
(* Instances of Gateway for TLC.                                           *)
(***************************************************************************)
EXTENDS Gateway, TLC

CONSTANTS w1, w2

\* Production with one admin; development with an empty secret, and without
\* admins.
Production(routes, boots) ==
  [mode |-> "production", secretSet |-> TRUE, admins |-> {w1},
   routes |-> routes, boots |-> boots]
Development(routes) ==
  [mode |-> "development", secretSet |-> FALSE, admins |-> {w2},
   routes |-> routes, boots |-> 1]
Environments ==
  {Production({"admin"}, 1), Production({"list"}, 0),
   Development({"admin", "rpc"}),
   [Development({"admin"}) EXCEPT !.admins = {}],
   Production({"rpc", "pay"}, 1), Production({"waitlist"}, 1)}

\* One call, and a batch whose second call is not allowed.
Calls == {<<"getAccount">>, <<"getAccount", "getHealth">>}

\* Pages of one row; of one direction, of another wallet; a mistake.
Listings2 ==
  {[wallet |-> w1, direction |-> None, limit |-> 1],
   [wallet |-> w2, direction |-> "IN", limit |-> 5],
   [wallet |-> w1, direction |-> None, limit |-> -1]}

Connected == Permutations(Slots)
=============================================================================
