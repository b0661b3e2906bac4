SPECIFICATION Spec
CONSTANTS
  None = None
  Phones = {ph1}
  Macs = {m1}
  Reqs = {r1}
  Polls = {p1}
  Codes = {c1, c2}
  Uams <- MixedPortal
  Month = 9
  CallWindow = 1
  AnyText = 1
  TryMax = 1
  MaxTime = 1
  MaxUid = 1
  MaxTexts = 1
  MaxFailures = 1
SYMMETRY Interchangeable
INVARIANTS
  PasswordOnlyAfterProof
PROPERTIES
  AdmissionSpec
CHECK_DEADLOCK FALSE
