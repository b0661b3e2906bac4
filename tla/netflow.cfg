SPECIFICATION FairSpec
CONSTANTS
  MaxFlow = 6
  MaxCount = 2
  FlushLevel = 1
  Faults = TRUE
  Stops = {"kill", "interrupt"}
INVARIANTS
  Conserved
  OldestFirst
PROPERTIES
  LogSpec
  Settled
CHECK_DEADLOCK TRUE
