SPECIFICATION Spec
CONSTANTS
  a1 = a1
  a2 = a2
  a3 = a3
  k1 = k1
  k2 = k2
  x = x
  y = y
  Nothing = Nothing
  Nobody = Nobody
  Attempts <- MCAttempts
  Keys <- MCKeys
  Requests <- FourRequests
  Dialects <- Sqlite
  MaxExpiries = 1
  MaxDeletions = 0
CHECK_DEADLOCK FALSE
SYMMETRY Symmetry
INVARIANT OneEffect
