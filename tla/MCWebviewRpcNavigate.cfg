SPECIFICATION Spec
CONSTANTS
  Names = {inc, compute}
  SyncNames = {inc}
  MaxScripts = 2
  MaxCalls = 2
  MaxLoads = 1
  MaxDups = 0
  Lossy = FALSE
INVARIANTS
  AnswerMatchesRequest
CHECK_DEADLOCK FALSE
