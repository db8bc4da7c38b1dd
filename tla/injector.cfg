SPECIFICATION Spec
CONSTANTS
  Pid = {p1, p2}
  Program = {"game", "regional", "launcher", "wow64", "other"}
  kMaxProbeFails = 2
  QuickReuse = FALSE
  MaxStarts = 3
  MaxFaults = 2
INVARIANT TypeOK
INVARIANT OnlyGames
PROPERTY GamesHooked
CHECK_DEADLOCK FALSE
