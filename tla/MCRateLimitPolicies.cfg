CONSTANTS
  None = None
  Subjects <- OneSubject
  Segment <- MCSegment
  Servers = {"s", "management_api"}
  Tools = {"d", "e"}
  Calls <- MCCalls
  Policies <- MCPolicies
  Default <- MCDefault
  Rows = {i1, i2}
  Workers = {w1}
SPECIFICATION Spec
INVARIANT ScopedLimit
PROPERTY SubjectPolicyPrevails
SYMMETRY Symmetry
