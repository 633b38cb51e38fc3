SPECIFICATION Spec
CONSTANTS
  Bp = {w1, w2}
  Wp = {w1}
  Tools = {"add", "capture"}
  MaxStops = 2
  Annotates = FALSE
  MayDrop = FALSE
  MayReject = FALSE
INVARIANTS SocketExclusive
