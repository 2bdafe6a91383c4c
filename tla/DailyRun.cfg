SPECIFICATION Spec
CONSTANTS
  a = a  b = b  c = c  d = d
  Order <- MCOrder
  BatchSize = 2  SessionSize = 4
  CoverNum = 1  CoverDen = 2
  Last = 4  Horizon = 2  MinSessions = 2  Warmup = 1
  Worlds <- MCWorlds
  Newest <- MCNewest  Bars = 4
  MaxFaults = 1
INVARIANTS ReadyIsTrainable FullWindowIsReady VerifiedRows
PROPERTIES WindowEnds
CHECK_DEADLOCK FALSE
