SPECIFICATION Spec
CONSTANTS
  MaxPrice = 3
  Quantities = {1}
  Deltas = TRUE
  MaxMalformed = 0
INVARIANT DeltaIsExact
