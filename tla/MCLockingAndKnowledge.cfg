SPECIFICATION MCSpec
CONSTANTS
  w1 = w1
  w2 = w2
  w3 = w3
  o1 = o1
  host = host
  doc = doc
  Nobody = Nobody
  Dialects <- BothDialects
  Principals <- TwoPrincipals
  Objects <- MCObjects
  Workers <- ThreeWorkers
  Refs <- HostAndDocument
  Assets <- Hosts
  Values = {"a", "b"}
  Plannable <- KnowledgeManifests
  Runners <- TwoWorkers
  MaxWrites = 1
  MaxPlans = 2
  MaxBackups = 2
  Keys <- ThreeKeys
  SourceOf <- Sources
  Tools = "tools"
  Things = {"x", "y"}
  Readings <- ToolsReadings
  Collected <- ReviewedManifests
  MaxTime = 2
  MaxSnapshots = 2
  MaxChanges = 1
CHECK_DEADLOCK FALSE
INVARIANTS LocksKeepCoverage CatalogOwnerKept RunsAreAccountable CoverageTold
PROPERTIES JobsEnd RollbackUndoesItsApplyOnly RecordedAsReviewed
