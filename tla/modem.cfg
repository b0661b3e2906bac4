SPECIFICATION FairSpec
CONSTANTS
  None = None
  a1 = a1
  m1 = m1
  m2 = m2
  Apps = {a1}
  Calls <- AllCalls
  Messages = {m1, m2}
  Reports = {m2}
  Memories <- TwoMemories
  Slots = {3, 10, 16}
  Places <- PlacesOfMemories
  Undecodable = {m2}
  MaxCalls = 1
  MaxFaults = 1
INVARIANTS
  NoneLost
PROPERTIES
  CallsEnd
CHECK_DEADLOCK FALSE
