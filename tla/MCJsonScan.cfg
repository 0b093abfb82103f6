SPECIFICATION FairSpec
CONSTANTS
  Inputs <- MCInputs
INVARIANTS
  InBounds
  FindsValue
  FindsItem
PROPERTIES
  Advances
  Ends
CHECK_DEADLOCK FALSE
