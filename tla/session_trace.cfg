SPECIFICATION Spec
CONSTANTS
  Bp = {w1, w2}
  Wp = {w1, w2}
  Tools = {"trace"}
  MaxStops = 2
  Annotates = FALSE
  MayDrop = FALSE
  MayReject = FALSE
INVARIANTS GameGoesOn
