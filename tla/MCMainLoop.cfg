SPECIFICATION FairSpec
CONSTANTS
  Engines = {"gtk", "cocoa", "win32"}
  Webviews = {w1, w2}
  Functions = {f, g, q}
  Quitters = {q}
  None = None
INVARIANTS
  TypeOK
  AliveWhileAlone
PROPERTIES
  IsUiLoop
  LoopGoesOn
  HeededEnds
CHECK_DEADLOCK FALSE
