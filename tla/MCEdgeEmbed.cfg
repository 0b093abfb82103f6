SPECIFICATION FairSpec
CONSTANTS
  api_version = 1150
  MaxLong = 2147483647
  Machines <- MCMachines
  MaxAttempts = 5
  MaxUpdates = 1
  MaxPosts = 2
  Results = {"ok", "failed"}
INVARIANTS
  TypeOK
  OneCreation
  GivesUpLast
  EmbedWaits
  CheckedThenFound
  SupportedOnly
PROPERTIES
  EmbedEnds
  RetriesEnd
CHECK_DEADLOCK FALSE
