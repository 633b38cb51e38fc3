SPECIFICATION Spec
CONSTANTS
  Bp = {w1}
  MaxBackoff = 1
  AutoResume = TRUE
  CanAttach = FALSE
  MayFreeze = FALSE
  MayRefuse = FALSE
  MayExit = TRUE
  MayDisconnect = FALSE
INVARIANTS RegistryIsHonest
