SPECIFICATION Spec
CONSTANTS
  h1 = h1
  h2 = h2
  Old = h0
  LeftMax = 1
  Handle = {h1, h2}
  Threads = 2
  File = {"a", "b", "log"}
  Archive = {"a", "b"}
  Contents <- MCContents
  Opens <- MCOpens
  Reads = {3}
  BadMax = 2
  Moves <- MCMoves
  KBlock = 2
  MaxFiles = 1
  HandleSlots = 3
  Probe = 2
  HSlot <- MCHSlot
  Sets = 1
SYMMETRY Symmetric
INVARIANT TypeOK
PROPERTIES Unmodified StopsForGood
VIEW WithoutAnswer
