SPECIFICATION FairSpec
CONSTANTS
  Bp = {w1, w2}
  Tags = 2
  MaxQueue = 3
  MayRefuse = TRUE
  MayStall = FALSE
  MayVanish = TRUE
INVARIANTS TypeOK StreamShape ReplyMatches StopMatches
PROPERTIES CallsReturn StopsAreAStream
