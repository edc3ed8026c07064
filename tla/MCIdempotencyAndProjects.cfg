SPECIFICATION MCSpec
CONSTANTS
  a1 = a1
  a2 = a2
  a3 = a3
  k1 = k1
  k2 = k2
  x = x
  y = y
  UseCases = {u}
  Requirements = {r1, r2}
  Tasks = {t1}
  Proofs = {e1}
  Repositories = {g}
  Criteria = {1}
  MaxSaves = 4
  Reviewed = {u, r1, r2, t1, e1}
  Synced = {u, r1, t1, g}
  MaxRevision = 4
  Texts = {"a", "b"}
  MaxEntries = 3
  MaxAdoptions = 4
  Nothing = Nothing
  Nobody = Nobody
  Attempts <- MCAttempts
  Keys <- MCKeys
  Requests <- ThreeRequests
  Dialects <- BothDialects
  MaxExpiries = 1
  MaxDeletions = 1
CHECK_DEADLOCK FALSE
INVARIANTS OneEffectPerKey RecordsStaySound StatusWasObserved
PROPERTIES ReplaysNameWhatExists ImplementsContract EveryRequestAnswered
