CONSTANTS
  w1 = w1
  w2 = w2
  o1 = o1
  o2 = o2
  s1 = s1
  s2 = s2
  BadId = BadId
  None = None
  Workers = {w1}
  Owners = {o1, o2}
  Ids = {s1, s2}
  Shapes <- AllShapes
SPECIFICATION Spec
INVARIANTS RefusedNeverForwarded ForwardedIsCharged  
