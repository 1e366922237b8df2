----------------------------- MODULE MCCouncils -----------------------------
(***************************************************************************)
(* Instances of Councils for TLC.                                          *)
(***************************************************************************)
EXTENDS Councils, TLC

CONSTANTS c1, c2, h1, p1, us, fr, xlm

\* A council that serves both countries, and one that has never been made.
OneCouncil ==
  [council |-> (c1 :> "active" @@ c2 :> "unused"),
   serves |-> {<<c1, us>>, <<c1, fr>>},
   channel |-> [h \in Channels |->
     IF h = h1 THEN [council |-> c1, asset |-> xlm, active |-> TRUE]
     ELSE None],
   pp |-> [p \in Pps |->
     IF p = p1 THEN [council |-> c1, active |-> TRUE] ELSE None]]

Databases == {OneCouncil}

AdminBodies ==
  {[kind |-> "create", active |-> TRUE,
    channels |-> <<[asset |-> xlm, active |-> TRUE]>>,
    codes |-> <<us>>, pps |-> 1],
   [kind |-> "update", council |-> c1, active |-> None, codes |-> <<fr>>],
   [kind |-> "update", council |-> c1, active |-> FALSE, codes |-> None],
   [kind |-> "channel", council |-> c2,
    row |-> [asset |-> xlm, active |-> FALSE]],
   [kind |-> "pp", council |-> c1, row |-> [active |-> TRUE]]}

Alike == Permutations(Admins)

CallInputs ==
  {[kind |-> "prepare", payer |-> us, told |-> t,
    receiver |-> fr, asset |-> xlm] : t \in BOOLEAN}
  \cup
  {[kind |-> k, payer |-> us, told |-> FALSE,
    receiver |-> fr, asset |-> xlm] : k \in {"pay", "balance"}}
=============================================================================
