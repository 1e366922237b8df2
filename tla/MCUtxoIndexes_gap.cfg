\* A client proposes free indexes of its own choice; the program's sizes.
CONSTANTS
  Calls = {c1, c2}
  Destinations = 5
  Batch = 50
  Run = 3
  Custom <- FarAway
SPECIFICATION Spec
INVARIANTS
  BalanceComplete
CHECK_DEADLOCK FALSE
