SPECIFICATION Spec
CONSTANTS
  MaxPrice = 3
  Quantities = {1, 2}
  MaxCalls = 4
INVARIANTS TypeOK NeverCrossed LatestUpdateWins
CHECK_DEADLOCK FALSE
