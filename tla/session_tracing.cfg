SPECIFICATION FairLockSpec
CONSTANTS
  Bp = {w1, w2}
  Wp = {w1, w2}
  Tools = {"trace", "resume", "pause"}
  MaxStops = 2
  Annotates = FALSE
  MayDrop = TRUE
  MayReject = FALSE
INVARIANTS TraceLeavesNothing
PROPERTIES ToolReturns
