SPECIFICATION Spec
CONSTANTS
  None = None
  Releases <- MCReleases
  Schema <- MCSchema
  BaseSchema = 1
  Retention = 2
  MaxHistory = 5
  InspectMayFail = TRUE
  MaxAttempts = 1
  MaxWrites = 1
INVARIANT WritesKept
CHECK_DEADLOCK FALSE
