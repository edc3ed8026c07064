SPECIFICATION Spec
CONSTANTS
  o1 = o1
  o2 = o2
  o3 = o3
  p1 = p1
  p2 = p2
  Absent = Absent
  MaxGrants = 3
  Objects <- ThreeObjects
  Principals <- MCPrincipals
  Kinds <- RunbookKinds
  Roles <- Owners
CHECK_DEADLOCK FALSE
PROPERTY OwnedStaysOwned
