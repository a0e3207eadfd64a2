CONSTANTS
  r1 = r1
  r2 = r2
  t1 = t1
  t2 = t2
  Stop = Stop
  None = None
  Replicas = {r1, r2}
  Tenants = {t1, t2}
  Events = {1, 2, 3, 4}
  Tenant <- MCTenant
  Route <- SplitRoute
  QueueSize = 1
  MaxBatch = 2
SPECIFICATION FairSpec
INVARIANTS CountsExact NothingMislaid
PROPERTY QueueSettles
CHECK_DEADLOCK FALSE
