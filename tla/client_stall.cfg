SPECIFICATION FairSpec
CONSTANTS
  Bp = {w1, w2}
  Tags = 3
  MaxQueue = 2
  MayRefuse = FALSE
  MayStall = TRUE
  MayVanish = FALSE
PROPERTIES RecoversCleanly
