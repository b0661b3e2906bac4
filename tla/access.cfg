SPECIFICATION PaidSpec
CONSTANTS
  u1 = u1
  m1 = m1
  v1 = v1
  None = None
  Users = {u1}
  Vouchers = {v1}
  Sold <- Card
  Closed <- Expiry
  Keys <- KeySet
  Macs = {m1}
  UserOf <- OneUser
  Base <- Portal1
  Called <- Callee
  Payable = TRUE
  SessionLimit = None
  Expires = 2
  Grace = 0
  Tarif <- Day
  Calls = {}
  Redeems = {}
  Slots = {a1, a2}
  Passworded = {u1}
  MacAuth = TRUE
  MaxTime = 4
  MaxInvoices = 2
  MaxSessions = 2
  MaxDocs = 2
  Cleartexts <- SomeCleartexts
  Hidden <- HiddenSome
  Byte = 4
  Mega = 16
SYMMETRY Interchangeable
INVARIANTS
  SessionsBacked
  StaleOnlyInSession
  QuotaKept
  TariffEnds
  LoginsChecked
  RepliesUnderstood
CHECK_DEADLOCK FALSE
