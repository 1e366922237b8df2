\* Two requests of one merchant, one OpEx key: every interleaving of their
\* awaits with the chain, the provider, the account and a crash, against the
\* promise of Payment.
CONSTANTS
  Requests = {r1, r2}
  Merchants = {m1}
  Hashes = {h1}
  Keys = {k1}
  Roots = {u1}
  Channels = {c1}
  Assets = {a1}
  Fee = 1
  MaxPolls = 1
  Naming = {TRUE, FALSE}
  None = None
  m1 = m1
  h1 = h1
  Offered <- BodyRetried
  Paid <- GoodPaid
  AssetOf <- SameAsset
  Indexes <- Indexes3
SPECIFICATION Spec
SYMMETRY Clients
INVARIANTS
  TypeOK
  RecordedOnlySettled
  TransferMatchesBundle
PROPERTIES
  EndedIsFinal
  PromiseKept
