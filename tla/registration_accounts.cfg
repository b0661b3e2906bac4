SPECIFICATION RetrySpec
CONSTANTS
  None = None
  Phones = {ph1, ph2}
  Macs = {m1}
  Reqs = {r1, r2}
  Polls = {}
  Codes = {c1}
  Uams <- OpenPortal
  Month = 9
  CallWindow = 0
  AnyText = 0
  TryMax = 1
  MaxTime = 0
  MaxUid = 5
  MaxTexts = 2
  MaxFailures = 1
INVARIANTS
  AccountsBounded
PROPERTIES
  LeftIsRegistered
CHECK_DEADLOCK FALSE
