SPECIFICATION Spec
CONSTANTS
  Bp = {w1}
  Tags = 2
  MaxQueue = 3
  MayRefuse = FALSE
  MayStall = TRUE
  MayVanish = TRUE
PROPERTIES ReconnectRecovers
