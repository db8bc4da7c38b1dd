SPECIFICATION Spec
CONSTANTS
  MaxSent = 4
  QueueCap = 16
  BatchCap = 10
  MaxRecord = 5
  PipeCap = 3
  MaxFaults = 3
INVARIANTS TypeOK WholeFrames InOrder
PROPERTIES NothingLostInPeace Reconnects
