\* Three requests on the account of one wallet.
CONSTANTS
  Requests = {r1, r2, r3}
  Wallets = {w1}
  Old = Old
  None = None
  Unread = Unread
  Existing <- Rows
  Offered <- Asks
SPECIFICATION Spec
SYMMETRY Alike
INVARIANTS
  TypeOK
PROPERTIES
  AsOneAtATime
CHECK_DEADLOCK FALSE
