-------------------------- MODULE MCInstantExecute --------------------------
(***************************************************************************)
(* Instances of InstantExecute for TLC.                                    *)
(***************************************************************************)
EXTENDS InstantExecute, TLC

CONSTANTS m1, h1

\* Payments of either amount, asset and outcome, to any account.
AnyPaid == [to : Keys, asset : Assets, amount : {1, 2}, successful : BOOLEAN]

\* One payment to each account, as it should be.
GoodPaid == [to : Keys, asset : Assets, amount : {1}, successful : {TRUE}]

\* One client: the amount may be more than the customer paid, the asset
\* another one.
Bodies1 ==
  {[merchant |-> m1, hash |-> h1, amount |-> a, asset |-> x,
    indexes |-> {0}] : a \in {1, 2}, x \in Assets}

\* Two executes that may or may not want the same destinations.  That they
\* name the same payment keeps the instance small.
BodyRetried ==
  {[merchant |-> m1, hash |-> h1, amount |-> 1, asset |-> x,
    indexes |-> {i}] : x \in Assets, i \in {0, 1}}

Indexes3 == 0..2

\* Channels of one asset, and of one asset each.
SameAsset == [c \in Channels |-> CHOOSE a \in Assets : TRUE]
OwnAsset == CHOOSE f \in [Channels -> Assets] : \A a \in Assets :
                     \E c \in Channels : f[c] = a

Clients == Permutations(Requests)
=============================================================================
