SPECIFICATION FairSpec
CONSTANTS
  Dispatched = {d1, d2}
  Bound = {b1}
  b1 = b1
  b2 = b2
  int = int
  text = text
  Types = {int, text}
  SignatureOf <- MCSignatureOf
  Requests <- MCRequests
  Serial = FALSE
  Lossy = FALSE
  None = None
PROPERTIES
  EventuallyRun
CHECK_DEADLOCK FALSE
