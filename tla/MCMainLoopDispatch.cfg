SPECIFICATION FairSpec
CONSTANTS
  Engines = {"win32"}
  Webviews = {w1}
  Functions = {f}
  Quitters = {}
  None = None
PROPERTIES
  DispatchRuns
CHECK_DEADLOCK FALSE
