SPECIFICATION FairLockSpec
CONSTANTS
  Bp = {w1}
  Wp = {w1}
  Tools = {"health", "resume", "pause", "step", "step_over", "wait", "add", "remove", "capture", "stop"}
  MaxStops = 1
  Annotates = TRUE
  MayDrop = FALSE
  MayReject = FALSE
INVARIANTS SocketExclusive
PROPERTIES ToolReturns CaptureKeepsRunning
