SPECIFICATION BillingSpec
CONSTANTS
  v1 = v1
  v2 = v2
  None = None
  Users = {u1, u2}
  Vouchers = {v1, v2}
  Tarif <- Free
  Sold <- Cards
  Closed <- Expiry
  Keys <- KeySet
  Calls = {c1, c2}
  Redeems = {r1, r2}
  MaxTime = 3
  MaxInvoices = 3
SYMMETRY Interchangeable
INVARIANTS
  VoucherSpentOnce
  PaidIsInvoiced
  TarifOnce
CHECK_DEADLOCK FALSE
