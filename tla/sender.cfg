SPECIFICATION FairSpec
CONSTANTS
  g1 = g1
  g2 = g2
  g3 = g3
  None = None
  Gates <- ThreeGates
  Cycles <- TwoCycles
  GatesOf <- GatesOfCycles
  Takes <- Filters
  MaxMsg = 4
  Copies <- TwoCopies
  CycleOf <- TwoThenOwn
  Capacity = 2
  Orders = {TRUE, FALSE}
  Faults = TRUE
  MaxRestarts = 1
INVARIANTS
  NeverTooMany
  NoneSkipped
PROPERTIES
  NothingOld
  SentInTheEnd
CHECK_DEADLOCK FALSE
