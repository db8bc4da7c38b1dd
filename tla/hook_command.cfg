SPECIFICATION Spec
CONSTANTS
  Game = {g1, g2}
  Op = {"restart", "exit"}
  kQueueSize = 3
  PipeCap = 2
  MaxPressed = 3
  MaxFaults = 1
INVARIANT TypeOK
INVARIANT RunsFresh
PROPERTY Reachable
CHECK_DEADLOCK FALSE
