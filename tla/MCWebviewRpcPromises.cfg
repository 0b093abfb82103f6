SPECIFICATION FairSpec
CONSTANTS
  Names = {inc, compute}
  SyncNames = {inc}
  MaxScripts = 3
  MaxCalls = 2
  MaxLoads = 0
  MaxDups = 2
  Lossy = TRUE
PROPERTIES
  KeepsPromises
  SettlesPromises
CHECK_DEADLOCK FALSE
