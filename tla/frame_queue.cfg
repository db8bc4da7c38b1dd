SPECIFICATION Spec
CONSTANTS
  Cap = 17
  Radix = 2
  MaxFrame = 3
  Frame <- MCFrame
  Room = {4, 6, 17}
  MaxDrops = 2
INVARIANTS TypeOK
PROPERTIES ImplementsFifo
