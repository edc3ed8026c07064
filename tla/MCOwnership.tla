----------------------------- MODULE MCOwnership -----------------------------
EXTENDS ObjectOwnership, TLC

CONSTANTS o1, o2, o3, p1, p2

ThreeObjects == {o1, o2, o3}
MCPrincipals == {p1, p2}
FourKinds == {"host", "system", "service", "runbook"}
RunbookKinds == {"service", "runbook"}
Owners == {"owner"}
TwoRoles == {"owner", "creator"}
ThreeSymmetry == Permutations(ThreeObjects) \cup Permutations(MCPrincipals)
=============================================================================
