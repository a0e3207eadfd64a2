\* A burst of two requests and one request every three clock units, two clock units to the second.
CONSTANTS
  Capacity = 6
  Rate = 1
  Cost = 3
  Second = 2
  \* math.ceil(2 / (1/3 per unit * 2)) + 1 = 4 seconds of two clock units
  Ttl = 8
  Lag = 2
  MaxTime = 14
SPECIFICATION BucketSpec
INVARIANT AdmissionBound
PROPERTY PauseAdmits
