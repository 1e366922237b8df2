\* Two connections, over a restart.
CONSTANTS
  Slots = {s1, s2}
  None = None
  w1 = w1
  w2 = w2
  Wallets = {w1, w2}
  Listers = {s1, s2}
  Asked <- Listings2
  DefaultLimit = 2
  MaxLimit = 2
  MaxRows = 2
  Configs <- Environments
  Payloads <- Calls
  ProviderStatuses = {400, 422, 503}
  MaxClock = 1
  MaxBoots = 1
SPECIFICATION GatewaySpec
SYMMETRY Connected
INVARIANTS
  GatewayTypeOK
  GateKept
  OwnRowsOnly
  NothingSkipped
  ErrorsAreClean
  ListedOnce
CHECK_DEADLOCK FALSE
