SPECIFICATION Spec
CONSTANTS
  w1 = w1
  w2 = w2
  t1 = t1
  t2 = t2
  Off = Off
  Nobody = Nobody
  NoRow = NoRow
  Workers <- MCWorkers
  Targets <- OneTarget
  Configs <- Switched
  Lease = 2
  Deadline = 1
  Interval = 1
  Jitter = 1
  MaxAge = 2
  MaxEdits = 1
  MaxCrashes = 0
SYMMETRY WorkerSymmetry
INVARIANT AtMostOneCheck
