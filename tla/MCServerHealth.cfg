CONSTANTS
  r1 = r1
  r2 = r2
  p1 = p1
  a1 = a1
  a2 = a2
  Nil = Nil
  Deleted = Deleted
  Replicas = {r1}
  Probers = {p1}
  Admins = {a1}
  Rows = {i1, i2}
  Slugs = {s}
  Urls = {"u"}
  Threshold = 2
  Limit = 2
SPECIFICATION FairSpec
PROPERTIES  CircuitFollows
