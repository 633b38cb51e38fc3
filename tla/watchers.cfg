SPECIFICATION FairSpec
CONSTANTS
  Bp = {"w1"}
  Watcher = {"a", "b"}
  MaxHits = 2
  MaxStalls = 1
  MayRefuse = TRUE
  MayExit = TRUE
INVARIANTS TypeOK StraysAreSignalled LoggedOnce CaptureIsOfTheHit
PROPERTIES StraysEnd HaltEnds
