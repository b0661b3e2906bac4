SPECIFICATION ExportSpec
CONSTANTS
  Sessions = {s1}
  Devices = {d1}
  Step = 1
  MaxTime = 4
INVARIANTS
  NothingMissed
CHECK_DEADLOCK FALSE
