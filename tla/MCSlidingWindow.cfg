CONSTANTS
  Limit = 2
  Window = 4
  Lag = 1
  MaxTime = 9
SPECIFICATION WindowSpec
INVARIANT ReadingsWithinLimit
 
CHECK_DEADLOCK FALSE
