SPECIFICATION FairSpec
CONSTANTS
  modem = modem
  spool = spool
  t1 = t1
  t2 = t2
  f1 = f1
  f2 = f2
  f3 = f3
  r1 = r1
  d1 = d1
  pA = pA
  pB = pB
  code = code
  None = None
  Modems = {modem}
  Spools = {spool}
  AnyText = {spool}
  Flaky = {spool}
  Texts = {t1, t2, f1, f2, f3}
  Replies = {r1}
  Broken = {f3}
  Garbled = {f2}
  Devices = {d1}
  GateOf <- GateOfMessage
  Phone <- PhoneOfDevice
  From <- PhoneOfText
  Waits <- CodeOfDevice
  Code <- CodeOfText
  Cap = 3
  Drafts = 1
  OnSim = 1
  SimCap = 4
  Chunk = 1
  MaxFaults = 1
INVARIANTS
  TakenOnce
  CheckedByText
PROPERTIES
  InboxSpec
  HandledInTheEnd
  RoomInTheEnd
CHECK_DEADLOCK FALSE
