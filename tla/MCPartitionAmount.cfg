\* Every cut of small amounts, negative and too small ones included, with
\* Numbers of so few bits that most factors are rounded.
CONSTANTS
  Totals <- SmallTotals
  Parts <- SmallParts
  Exact = 2
  Spacings = {1, 2, 4}
SPECIFICATION Spec
INVARIANTS
  Conserved
  PartsPositive
CHECK_DEADLOCK FALSE
