\* Two verify calls under the fairness of the event loop: two nonces for a
\* table of one, expiry and a restart.
CONSTANTS
  Wallets = {w1, w2}
  Nonces = {n1, n2}
  Calls = {v1, v2}
  Formats = {"sep43", "raw"}
  MaxPending = 1
  TTL = 1
  MaxClock = 2
  MaxCrashes = 1
  None = None
SPECIFICATION FairSpec
INVARIANTS
  TypeOK
  PendingBounded
  TokensAreEarned
  RedeemedIsGone
PROPERTIES
  ChallengeNotBurned
  SignedChallengeIsRedeemed
CHECK_DEADLOCK FALSE
