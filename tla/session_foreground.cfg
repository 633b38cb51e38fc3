SPECIFICATION FairSpec
CONSTANTS
  Bp = {w1, w2}
  Wp = {w1}
  Tools = {"get", "health", "mem", "resume", "wait", "add", "remove", "run_until"}
  MaxStops = 3
  Annotates = FALSE
  MayDrop = FALSE
  MayReject = TRUE
INVARIANTS TypeOK PausedMeansHalted HaltIsAnnounced RegistryMatchesStub QuiescedForModify
PROPERTIES ToolReturns
