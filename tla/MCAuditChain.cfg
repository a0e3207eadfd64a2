CONSTANTS
  e1 = e1
  e2 = e2
  e3 = e3
  e4 = e4
  t1 = t1
  NoTenant = NoTenant
  TenantOf <- MCTenantOf
  Events = {e1, e2, e3, e4}
  Tenants = {t1}
  VerifyLimit = 2
  Unreliable = {e3}
  MaxClock = 2
SPECIFICATION FairSpec
INVARIANTS ChainIsLinked VerifyIsRight RecordedOnce
PROPERTY RecordFinishes
CHECK_DEADLOCK FALSE
