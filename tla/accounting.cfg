SPECIFICATION FairSpec
CONSTANTS
  Sessions = {s1}
  MacSessions = {s1}
  Giga = 2
  MaxOctets = 2
  MaxLoad = 2
  MaxRestarts = 1
  MaxReboots = 1
INVARIANTS
  ChargedAsCounted
  DocumentsBounded
  StopIsFinal
PROPERTIES
  OnlyUpdateReopens
  OnlineAgain
CHECK_DEADLOCK FALSE
