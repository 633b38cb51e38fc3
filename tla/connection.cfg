SPECIFICATION FairSpec
CONSTANTS
  Bp = {w1}
  MaxBackoff = 1
  AutoResume = TRUE
  CanAttach = TRUE
  MayFreeze = TRUE
  MayRefuse = TRUE
  MayExit = TRUE
  MayDisconnect = TRUE
INVARIANTS TypeOK ConnectsAlone AloneOnSocket MemIsOfThisDolphin
PROPERTIES ToolReturns AutoConnects
