SPECIFICATION Spec
CONSTANTS
  Bp = {w1, w2}
  Wp = {w1}
  Tools = {"add", "get"}
  MaxStops = 2
  Annotates = FALSE
  MayDrop = TRUE
  MayReject = FALSE
INVARIANTS QuiescedForModify
