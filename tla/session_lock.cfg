SPECIFICATION FairSpec
CONSTANTS
  Bp = {w1, w2}
  Wp = {w1, w2}
  Tools = {"add", "capture", "health"}
  MaxStops = 2
  Annotates = FALSE
  MayDrop = FALSE
  MayReject = FALSE
PROPERTIES LockIsGranted
