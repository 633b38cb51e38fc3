SPECIFICATION Spec
CONSTANTS
  Bp = {"w1"}
  Watcher = {"a", "b"}
  MaxHits = 2
  MaxStalls = 1
  MayRefuse = FALSE
  MayExit = FALSE
INVARIANT EveryCaptureIsOfTheHit
