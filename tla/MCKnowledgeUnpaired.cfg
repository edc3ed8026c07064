SPECIFICATION MCSpec
CONSTANTS
  None = None
  w1 = w1
  host = host
  doc = doc
  note = note
  Refs <- ThreeObjects
  Assets <- Hosts
  Values = {"a", "b"}
  Manifests <- OneDocument
  Workers <- OneWorker
  Offline = TRUE
  MaxWrites = 1
  MaxPlans = 1
  MaxBackups = 2
PROPERTY InterveningChangePrevents
CHECK_DEADLOCK FALSE
