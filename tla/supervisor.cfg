SPECIFICATION FairSpec
CONSTANTS
  http = http
  exporter = exporter
  Kinds = {http, exporter}
  Order <- TwoKinds
  Web = {http}
  Ports = {http}
  Slow = {http}
  MaxUsr = 2
  MaxInt = 1
  MaxNights = 1
  MaxCrashes = 1
  MaxFailures = 1
INVARIANTS
  OneOfEach
  Serving
PROPERTIES
  RestartEnds
  StopsInTheEnd
CHECK_DEADLOCK FALSE
