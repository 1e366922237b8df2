\* Four calls of any kind: offers of three indexes, read in batches of two.
CONSTANTS
  Calls = {c1, c2, c3, c4}
  Destinations = 3
  Batch = 2
  Run = 2
  Custom = {}
SPECIFICATION Spec
SYMMETRY Alike
INVARIANTS
  TypeOK
  Contiguous
  BalanceComplete
  NoneMissing
  FoundWereFree
CHECK_DEADLOCK FALSE
