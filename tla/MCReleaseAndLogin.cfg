SPECIFICATION MCSpec
CONSTANTS
  None = None
  Releases <- MCReleases
  Schema <- MCSchema
  BaseSchema = 1
  Retention = 2
  MaxHistory = 5
  InspectMayFail = FALSE
  MaxAttempts = 2
  MaxWrites = 2
  w1 = w1
  w2 = w2
  t1 = t1
  n1 = n1
  a1 = a1
  Off = Off
  Nobody = Nobody
  Threads <- TwoWorkers
  Sources <- MCSources
  Accounts <- MCAccounts
  Window = 1
  SourceLimit = 3
  AccountLimit = 1
  GlobalLimit = 3
  ChallengeLimit = 3
  Slots = 2
  ChallengeTtl = 3
  MaxClock = 3
  MaxChallenges = 2
  Existing <- Repository
  Tombstone = 2
  PerPage = 1
  ExportWrites = 2
INVARIANTS WritesKept PointersSound LoginsBounded ExportsSound
PROPERTIES AttemptsTellTheState AttemptsEnd KeepsBeingChecked SlotsComeBack
\* The attempts, writes, edits and logins of a behaviour are bounded.
CHECK_DEADLOCK FALSE
