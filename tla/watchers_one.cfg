SPECIFICATION Spec
CONSTANTS
  Bp = {"w1", "w2"}
  Watcher = {"a", "b"}
  MaxHits = 2
  MaxStalls = 1
  MayRefuse = FALSE
  MayExit = FALSE
INVARIANT OnePerSession
