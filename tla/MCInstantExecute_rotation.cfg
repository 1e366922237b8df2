\* One request under the fairness of the event loop while the merchant's OpEx
\* key, delegation key and account change, payments of every amount, asset and
\* outcome arrive, replies are lost, and the polling loops end.
CONSTANTS
  Requests = {r1}
  Merchants = {m1}
  Hashes = {h1}
  Keys = {k1, k2}
  Roots = {u1, u2}
  Channels = {c1, c2}
  Assets = {a1, a2}
  Fee = 1
  MaxPolls = 2
  Naming = {TRUE, FALSE}
  None = None
  m1 = m1
  h1 = h1
  Offered <- Bodies1
  Paid <- AnyPaid
  AssetOf <- OwnAsset
  Indexes <- Indexes3
SPECIFICATION FairSpec
INVARIANTS
  DebitMatchesOperation
  RefusedMovesNothing
PROPERTIES
  EveryStepCounts
  EveryRequestEnds
