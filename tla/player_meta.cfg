SPECIFICATION Spec
CONSTANTS
  Value = {0, 1, 3}
  Cap = 2
  Shown = 2
  Word = 64
  MaxNow = 4
INVARIANT TypeOK
INVARIANT ElapsedIsRunning
INVARIANT SumsOfRun
VIEW Telling
