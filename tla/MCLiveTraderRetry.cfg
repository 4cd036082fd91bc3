SPECIFICATION Spec
CONSTANTS
  Throws = FALSE
  Requests <- SomeRequests
  Prices = {1, 2}
  Step = 1
  MinQty = 1
  MaxAttempts = 3
INVARIANT AtMostMaxQty
