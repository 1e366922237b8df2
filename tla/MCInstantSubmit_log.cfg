\* Two submits of one signed payment through two providers of one platform,
\* while accounts come and go, tokens expire and the server restarts.
CONSTANTS
  Calls = {r1, r2}
  Urls = {u1}
  Pks = {p1, p2}
  Lifetimes = {1, 2}
  Buffer = 1
  DefaultTtl = 2
  MaxClock = 1
  None = None
  merchant = merchant
  customer = customer
  s1 = s1
  Wallets = {merchant, customer}
  Signed = {s1}
  Offered <- Bodies
SPECIFICATION Spec
SYMMETRY Alike
INVARIANTS
  TypeOK
  TokenOfItsProvider
  TokenOutlivesBuffer
  TwoSided
PROPERTIES
  AcceptancePromised
CHECK_DEADLOCK FALSE
