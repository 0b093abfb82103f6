SPECIFICATION FairSpec
CONSTANTS
  Dispatched = {d1, d2, d3}
  Bound = {b1, b2, b3}
  b1 = b1
  b2 = b2
  int = int
  text = text
  Types = {int, text}
  SignatureOf <- MCSignatureOf
  Requests <- MCRequests
  Serial = TRUE
  Lossy = TRUE
  None = None
INVARIANTS
  TypeOK
  RunsEachOnce
  PostedIffStored
  NoneForgotten
  CallsOwnFunction
  CallsFit
  ResolvedIffReturned
PROPERTIES
  EventuallyRun
CHECK_DEADLOCK FALSE
