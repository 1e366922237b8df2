\* Two concurrent verify calls for one nonce.
CONSTANTS
  Wallets = {w1}
  Nonces = {n1, n2}
  Calls = {v1, v2}
  Formats = {"sep43", "raw", "none"}
  MaxPending = 2
  TTL = 1
  MaxClock = 2
  MaxCrashes = 1
  None = None
SPECIFICATION Spec
SYMMETRY Alike
INVARIANTS
  OneTimeUse
CHECK_DEADLOCK FALSE
