CONSTANTS
  t1 = t1
  t2 = t2
  None = None
  Tenants = {t1, t2}
  Roles = {"r1", "r2"}
  Servers = {"github"}
  Tools = {"list", "delete"}
  Subjects <- MCSubjects
  KeyTenant <- MCKeyTenant
  Rules <- MCRules
  Rows = {1, 2, 3}
SPECIFICATION RbacSpec
PROPERTIES RulesAreMonotone TenantIsolation
