SPECIFICATION Spec
CONSTANTS
  File = {"SoulMeter.dat", "other.dat"}
  Default = "SoulMeter.dat"
  HistorySize = 2
  MaxRuns = 5
  MaxCrashes = 2
CHECK_DEADLOCK FALSE
INVARIANTS TypeOK AgreesWithFile OnDisk
