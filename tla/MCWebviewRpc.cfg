SPECIFICATION FairSpec
CONSTANTS
  Names = {inc, compute}
  SyncNames = {inc}
  MaxScripts = 3
  MaxCalls = 2
  MaxLoads = 1
  MaxDups = 1
  Lossy = TRUE
INVARIANTS
  TypeOK
  AnswerMatchesWithinPage
  SettledOnce
  FirstAnswerWins
  RegisteredIffPending
  PageAgreesWithBindings
  SyncNeverRejects
PROPERTIES
  NeverVanishes
  EventuallySettled
CHECK_DEADLOCK FALSE
