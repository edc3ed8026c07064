SPECIFICATION Spec
CONSTANTS
  o1 = o1
  o2 = o2
  o3 = o3
  p1 = p1
  p2 = p2
  Absent = Absent
  MaxGrants = 2
  Objects <- ThreeObjects
  Principals <- MCPrincipals
  Kinds <- FourKinds
  Roles <- TwoRoles
SYMMETRY ThreeSymmetry
CHECK_DEADLOCK FALSE
INVARIANT StructureSound
PROPERTIES OnlyKindChangeOrphans CreatedOwned CatalogOwnerRemains ManagersKeepAccess
