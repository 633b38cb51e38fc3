SPECIFICATION Spec
CONSTANTS
  Bp = {w1, w2}
  Wp = {w1}
  Tools = {"resume", "pause", "wait", "add"}
  MaxStops = 2
  Annotates = FALSE
  MayDrop = FALSE
  MayReject = FALSE
INVARIANTS PausedMeansHalted
