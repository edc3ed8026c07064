SPECIFICATION MCSpec
CONSTANTS
  w1 = w1
  w2 = w2
  t1 = t1
  t2 = t2
  h1 = h1
  h2 = h2
  s1 = s1
  k1 = k1
  n1 = n1
  n2 = n2
  c1 = c1
  c2 = c2
  r1 = r1
  r2 = r2
  Off = Off
  Nobody = Nobody
  NoRow = NoRow
  Workers <- MCWorkers
  Targets <- MCTargets
  Configs <- Enabled
  Lease = 2
  Deadline = 1
  Interval = 1
  Jitter = 1
  MaxAge = 3
  MaxEdits = 1
  MaxCrashes = 1
  Humans <- MCHumans
  ServiceAccounts <- MCServiceAccounts
  Keys <- MCKeys
  Requests <- MCRequests
  Dialects <- MCDialects
  MaxJobs = 3
  Installed <- MCInstalled
  Sources <- MCSources
  BearerTokens <- MCTokens
  GlobalLimit = 4
  SourceLimit = 2
  TokenLimit = 2
  MaxRows = 4
  PruneBatch = 2
  MaxWindow = 2
  ReleaseTargets <- MCReleaseTargets
  ReleaseLease = 2
  ReleaseInterval = 1
  Backoff = 2
  Cooldown = 2
  ReleaseMaxAge = 2
  MaxClock = 3
  ReleaseMaxEdits = 1
  MaxInstances = 2
  MaxChecks = 2
SYMMETRY WorkerSymmetry
INVARIANTS AtMostOneCheck ProbeUnderLease AccessGuarded
PROPERTIES StoredForCurrentTarget GatesHold ReleaseChecksOrdered
\* The bounded components come to an end.
CHECK_DEADLOCK FALSE
