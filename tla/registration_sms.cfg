SPECIFICATION FairSpec
CONSTANTS
  None = None
  Phones = {ph1}
  Macs = {m1}
  Reqs = {r1, r2}
  Polls = {p1}
  Codes = {c1}
  Uams <- SmsPortal
  Month = 9
  CallWindow = 0
  AnyText = 0
  TryMax = 0
  MaxTime = 1
  MaxUid = 1
  MaxTexts = 4
  MaxFailures = 0
INVARIANTS
  ResendsBounded
PROPERTIES
  TextedGetsIn
CHECK_DEADLOCK FALSE
