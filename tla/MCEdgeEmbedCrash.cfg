SPECIFICATION Spec
CONSTANTS
  api_version = 1150
  MaxLong = 2147483647
  Machines <- Good
  MaxAttempts = 5
  MaxUpdates = 0
  MaxPosts = 0
  Results = {"ok", "failed"}
INVARIANTS
  NoCrash
CHECK_DEADLOCK FALSE
