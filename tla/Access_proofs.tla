--------------------------- MODULE Access_proofs ---------------------------
(***************************************************************************)
(* Theorems about Billing: a code gives one invoice, to the user it is     *)
(* marked with, none is taken for nothing but by a crash, and a tariff is  *)
(* given once for each call that overlaps.  Then theorems about Access,    *)
(* which reads the invoices: who is let in, and what a tariff gives him.   *)
(* Last, about the passwords that it checks: each is accepted by every     *)
(* method, and no other is.                                                *)
(* For any users, codes, devices, profiles, tariffs and numbers of         *)
(* overlapping requests.                                                   *)
(***************************************************************************)
EXTENDS Access, FiniteSetTheorems, SequenceTheorems, WellFoundedInduction,
        TLAPS

----------------------------------------------------------------------------
(* Billing: types *)

OnSale == {Tarif} \cup {Sold[v] : v \in Vouchers}

Invoice == [user : Users, start : Time, stop : Nat, voucher : Opt(Vouchers),
            limit : {t.limit : t \in OnSale}]

Call == [pc : {"idle", "find", "insert"}, user : Opt(Users), now : 0..MaxTime]
Redeem == [pc : {"idle", "claim", "insert"}, user : Opt(Users),
           voucher : Opt(Vouchers), now : 0..MaxTime]

\* A handler under way knows its user, its code and its time.
CallKnows(k) == k.pc # "idle" =>
  k.user \in Users /\ k.now \in Time /\ Tarif # None
RedeemKnows(k) == k.pc # "idle" =>
  k.user \in Users /\ k.voucher \in Vouchers /\ k.now \in Time

BillingTyped ==
  /\ now \in Time
  /\ invoices \in Seq(Invoice) /\ Len(invoices) <= MaxInvoices
  /\ \A i \in DOMAIN invoices : IsLimits(invoices[i].limit)
  /\ spent \in [Vouchers -> Opt(Users)]
  /\ call \in [Calls -> Call] /\ \A c \in Calls : CallKnows(call[c])
  /\ redeem \in [Redeems -> Redeem] /\ \A r \in Redeems : RedeemKnows(redeem[r])
  /\ torn \subseteq Vouchers

bvars == <<now, billing>>

LEMMA TypedInit == BillingInit => BillingTyped
  BY MaxAssumption
     DEF BillingInit, BillingTyped, Time, Opt, NoCall, NoRedeem, Call, Redeem,
         CallKnows, RedeemKnows

\* Issue writes an invoice for a user, at a time, on a tariff.
LEMMA IssueTyped ==
  ASSUME BillingTyped, NEW u \in Users, NEW t \in OnSale, t # None, NEW n \in Time,
         NEW v \in Opt(Vouchers), Issue(u, t, n, v)
  PROVE  /\ invoices' \in Seq(Invoice) /\ Len(invoices') <= MaxInvoices
         /\ \A i \in DOMAIN invoices' : IsLimits(invoices'[i].limit)
<1> DEFINE x == [user |-> u, start |-> n, stop |-> Stop(t, n), voucher |-> v,
                 limit |-> t.limit]
<1>1. Tariff(t)
  BY TariffAssumption DEF OnSale
<1>2. Stop(t, n) \in Nat
  BY <1>1 DEF Stop, Tariff, Time
<1>3. x \in Invoice
  BY <1>2 DEF Invoice
<1>4. IsLimits(x.limit)
  BY <1>1 DEF Tariff
<1> HIDE DEF x
<1>5. invoices' = Append(invoices, x) /\ Len(invoices) < MaxInvoices
  BY DEF Issue, x
<1>6. /\ Len(invoices') = Len(invoices) + 1
      /\ \A i \in DOMAIN invoices' : invoices'[i] = x \/ (i \in DOMAIN invoices
                                      /\ invoices'[i] = invoices[i])
  BY <1>3, <1>5 DEF BillingTyped
<1> QED
  BY <1>3, <1>4, <1>5, <1>6, MaxAssumption DEF BillingTyped

LEMMA CallTyped ==
  ASSUME BillingTyped, NEW c \in Calls,
         (\E u \in Users : Ask(c, u)) \/ FindInvoice(c) \/ InsertInvoice(c)
  PROVE  BillingTyped'
<1>1. CASE \E u \in Users : Ask(c, u)
  BY <1>1 DEF Ask, BillingTyped, Call, CallKnows, Opt, Time
<1>2. CASE FindInvoice(c)
  <2>1. NoCall \in Call /\ CallKnows(NoCall)
    BY MaxAssumption DEF Call, CallKnows, Opt, NoCall
  <2>3. /\ [call[c] EXCEPT !.pc = "insert"] \in Call
        /\ CallKnows([call[c] EXCEPT !.pc = "insert"])
    <3>1. call[c] \in Call /\ CallKnows(call[c]) /\ call[c].pc = "find"
      BY <1>2 DEF FindInvoice, BillingTyped
    <3> QED
      BY <3>1 DEF Call, CallKnows
  <2>2. \E k \in Call : CallKnows(k) /\ call' = [call EXCEPT ![c] = k]
    BY <1>2, <2>1, <2>3 DEF FindInvoice
  <2> QED
    BY <1>2, <2>2 DEF FindInvoice, BillingTyped
<1>3. CASE InsertInvoice(c)
  <2>1. /\ call[c].user \in Users /\ call[c].now \in Time
        /\ Tarif # None /\ Tarif \in OnSale /\ None \in Opt(Vouchers)
    BY <1>3 DEF InsertInvoice, BillingTyped, CallKnows, OnSale, Opt
  <2>2. Issue(call[c].user, Tarif, call[c].now, None)
    BY <1>3 DEF InsertInvoice
  <2>3. /\ invoices' \in Seq(Invoice) /\ Len(invoices') <= MaxInvoices
        /\ \A i \in DOMAIN invoices' : IsLimits(invoices'[i].limit)
    BY <2>1, <2>2, IssueTyped
  <2> QED
    BY <1>3, <2>3, MaxAssumption
       DEF InsertInvoice, BillingTyped, Call, CallKnows, Opt, NoCall
<1> QED
  BY <1>1, <1>2, <1>3

LEMMA RedeemTyped ==
  ASSUME BillingTyped, NEW r \in Redeems,
         \/ \E u \in Users, v \in Vouchers : Enter(r, u, v)
         \/ Claim(r) \/ InsertPaid(r) \/ NoTariff(r)
  PROVE  BillingTyped'
<1>1. NoRedeem \in Redeem /\ RedeemKnows(NoRedeem)
  BY MaxAssumption DEF NoRedeem, Redeem, RedeemKnows, Opt
<1>2. ASSUME NEW u \in Users, NEW v \in Vouchers, Enter(r, u, v) PROVE BillingTyped'
  <2> DEFINE k == [pc |-> "claim", user |-> u, voucher |-> v, now |-> now]
  <2>2. k \in Redeem /\ RedeemKnows(k)
    BY MaxAssumption DEF BillingTyped, Redeem, RedeemKnows, Opt, Time
  <2>3. redeem' = [redeem EXCEPT ![r] = k]
    BY <1>2 DEF Enter
  <2> HIDE DEF k
  <2>1. \E m \in Redeem : RedeemKnows(m) /\ redeem' = [redeem EXCEPT ![r] = m]
    BY <2>2, <2>3
  <2> QED
    BY <1>2, <2>1 DEF Enter, BillingTyped
<1>3. CASE Claim(r)
  <2>1. [redeem[r] EXCEPT !.pc = "insert"] \in Redeem
        /\ RedeemKnows([redeem[r] EXCEPT !.pc = "insert"])
    BY <1>3 DEF Claim, BillingTyped, Redeem, RedeemKnows
  <2>2. \E k \in Redeem : RedeemKnows(k) /\ redeem' = [redeem EXCEPT ![r] = k]
    BY <1>1, <1>3, <2>1 DEF Claim
  <2>3. spent' \in [Vouchers -> Opt(Users)]
    BY <1>3 DEF Claim, BillingTyped, RedeemKnows, Opt
  <2> QED
    BY <1>3, <2>2, <2>3 DEF Claim, BillingTyped
<1>4. CASE InsertPaid(r)
  <2>1. /\ redeem[r].user \in Users /\ redeem[r].now \in Time
        /\ redeem[r].voucher \in Vouchers
        /\ Sold[redeem[r].voucher] # None /\ Sold[redeem[r].voucher] \in OnSale
        /\ VoucherOf(r) \in Opt(Vouchers)
    BY <1>4 DEF InsertPaid, BillingTyped, RedeemKnows, OnSale, Opt, VoucherOf
  <2>2. Issue(redeem[r].user, Sold[redeem[r].voucher], redeem[r].now, VoucherOf(r))
    BY <1>4 DEF InsertPaid
  <2>3. /\ invoices' \in Seq(Invoice) /\ Len(invoices') <= MaxInvoices
        /\ \A i \in DOMAIN invoices' : IsLimits(invoices'[i].limit)
    BY <2>1, <2>2, IssueTyped
  <2> QED
    BY <1>1, <1>4, <2>3 DEF InsertPaid, BillingTyped
<1>5. CASE NoTariff(r)
  BY <1>1, <1>5 DEF NoTariff, BillingTyped, RedeemKnows
<1> QED
  BY <1>2, <1>3, <1>4, <1>5

LEMMA CrashTyped == ASSUME BillingTyped, HttpCrash PROVE BillingTyped'
<1>1. /\ NoCall \in Call /\ CallKnows(NoCall)
      /\ NoRedeem \in Redeem /\ RedeemKnows(NoRedeem)
  BY MaxAssumption DEF NoCall, NoRedeem, Call, Redeem, CallKnows, RedeemKnows, Opt
<1>2. torn' \subseteq Vouchers
  BY DEF HttpCrash, BillingTyped, RedeemKnows
<1> QED
  BY <1>1, <1>2 DEF HttpCrash, BillingTyped

LEMMA TypedNext == BillingTyped /\ [BillingNext]_bvars => BillingTyped'
<1> SUFFICES ASSUME BillingTyped, [BillingNext]_bvars PROVE BillingTyped'
  OBVIOUS
<1>1. CASE Portal
  BY <1>1, CallTyped, RedeemTyped, CrashTyped DEF Portal
<1>2. CASE Days
  BY <1>2, MaxAssumption DEF Days, billing, BillingTyped, Time
<1>3. CASE UNCHANGED bvars
  BY <1>3 DEF bvars, billing, BillingTyped
<1> QED
  BY <1>1, <1>2, <1>3 DEF BillingNext

LEMMA TypedOK == BillingTyped => BillingTypeOK
<1>1. BillingTyped => \A i \in DOMAIN invoices : IsInvoice(invoices[i])
  <2> SUFFICES ASSUME BillingTyped, NEW i \in DOMAIN invoices PROVE IsInvoice(invoices[i])
    OBVIOUS
  <2>1. invoices[i] \in Invoice /\ IsLimits(invoices[i].limit)
    BY DEF BillingTyped
  <2> QED
    BY <2>1 DEF Invoice, IsInvoice
<1> QED
  BY <1>1 DEF BillingTyped, BillingTypeOK, Call, Redeem

\* Invoices, codes and handlers keep their types.
THEOREM BillingTypeCorrect == BillingSpec => []BillingTypeOK
  BY TypedOK, TypedInit, TypedNext, PTL DEF BillingSpec, bvars

----------------------------------------------------------------------------
(* A code gives one invoice *)

\* A handler past the update that marks its code is the only one with that
\* code, and nobody has written its invoice yet.
Claimed ==
  \A r \in Redeems : redeem[r].pc = "insert" =>
    /\ spent[redeem[r].voucher] = redeem[r].user
    /\ \A i \in DOMAIN invoices : invoices[i].voucher # redeem[r].voucher
    /\ \A q \in Redeems : redeem[q].pc = "insert"
                          /\ redeem[q].voucher = redeem[r].voucher => q = r

SpentInv == BillingTyped /\ VoucherSpentOnce /\ Claimed

LEMMA SpentInit == BillingInit => VoucherSpentOnce /\ Claimed
  BY DEF BillingInit, VoucherSpentOnce, Claimed, NoRedeem

\* What Issue leaves of the invoices, and what it adds.
LEMMA IssueAdds ==
  ASSUME BillingTyped, NEW u, NEW t, NEW n, NEW v, Issue(u, t, n, v)
  PROVE  LET k == Len(invoices) + 1 IN
         /\ Len(invoices) \in Nat /\ DOMAIN invoices = 1..Len(invoices)
         /\ DOMAIN invoices' = 1..k
         /\ invoices'[k].voucher = v /\ invoices'[k].user = u
         /\ invoices'[k].start = n
         /\ \A i \in DOMAIN invoices : invoices'[i] = invoices[i]
<1> DEFINE x == [user |-> u, start |-> n, stop |-> Stop(t, n), voucher |-> v,
                 limit |-> t.limit]
<1>1. x.voucher = v /\ x.user = u /\ x.start = n
  OBVIOUS
<1> HIDE DEF x
<1>2. invoices' = Append(invoices, x)
  BY DEF Issue, x
<1> QED
  BY <1>1, <1>2 DEF BillingTyped

\* Without a new invoice, a new mark or a new handler past its mark.
LEMMA SpentKept ==
  ASSUME SpentInv, UNCHANGED <<invoices, spent>>,
         \A r \in Redeems : redeem'[r].pc = "insert" => redeem'[r] = redeem[r]
  PROVE  VoucherSpentOnce' /\ Claimed'
<1>1. VoucherSpentOnce'
  BY DEF SpentInv, VoucherSpentOnce
<1>2. Claimed'
  BY DEF SpentInv, Claimed
<1> QED
  BY <1>1, <1>2

LEMMA SpentCall ==
  ASSUME SpentInv, NEW c \in Calls, InsertInvoice(c)
  PROVE  VoucherSpentOnce' /\ Claimed'
<1>1. BillingTyped /\ UNCHANGED <<spent, redeem>>
  BY DEF SpentInv, InsertInvoice
<1> DEFINE k == Len(invoices) + 1
<1>2. /\ Len(invoices) \in Nat /\ DOMAIN invoices = 1..Len(invoices)
      /\ DOMAIN invoices' = 1..k
      /\ invoices'[k].voucher = None
      /\ \A i \in DOMAIN invoices : invoices'[i] = invoices[i]
  BY <1>1, IssueAdds DEF InsertInvoice
<1>3. \A i \in DOMAIN invoices' : i = k \/ i \in DOMAIN invoices
  BY <1>2
<1> HIDE DEF k
<1>4. VoucherSpentOnce'
  BY <1>1, <1>2, <1>3 DEF SpentInv, VoucherSpentOnce
<1>5. \A r \in Redeems : redeem[r].pc = "insert" => redeem[r].voucher # None
  BY <1>1, NoneAssumption DEF BillingTyped, RedeemKnows
<1>6. Claimed'
  BY <1>1, <1>2, <1>3, <1>5 DEF SpentInv, Claimed
<1> QED
  BY <1>4, <1>6

LEMMA SpentClaim ==
  ASSUME SpentInv, NEW r \in Redeems, Claim(r)
  PROVE  VoucherSpentOnce' /\ Claimed'
<1> DEFINE w == redeem[r].voucher
<1>1. /\ BillingTyped /\ redeem[r].pc = "claim" /\ w \in Vouchers
      /\ redeem[r].user \in Users /\ redeem[r] \in Redeem
      /\ redeem \in [Redeems -> Redeem] /\ spent \in [Vouchers -> Opt(Users)]
      /\ UNCHANGED invoices
  BY DEF SpentInv, Claim, BillingTyped, RedeemKnows
<1>2. CASE ~Usable(w, redeem[r].now)
  <2>1. UNCHANGED spent /\ redeem' = [redeem EXCEPT ![r] = NoRedeem]
    BY <1>2 DEF Claim
  <2>2. \A q \in Redeems : redeem'[q].pc = "insert" => redeem'[q] = redeem[q]
    BY <1>1, <2>1 DEF NoRedeem
  <2> QED
    BY <1>1, <2>1, <2>2, SpentKept
<1>3. CASE Usable(w, redeem[r].now)
  <2>1. /\ spent' = [spent EXCEPT ![w] = redeem[r].user]
        /\ redeem' = [redeem EXCEPT ![r].pc = "insert"]
        /\ spent[w] = None
    BY <1>3 DEF Claim, Usable
  <2>2. /\ spent'[w] = redeem[r].user
        /\ \A v \in Vouchers : v # w => spent'[v] = spent[v]
        /\ redeem'[r].voucher = w /\ redeem'[r].user = redeem[r].user
        /\ \A q \in Redeems : q # r => redeem'[q] = redeem[q]
    BY <1>1, <2>1 DEF Redeem
  <2>3. \A i \in DOMAIN invoices : /\ invoices[i].user \in Users
                                   /\ invoices[i].voucher \in Opt(Vouchers)
    <3> SUFFICES ASSUME NEW i \in DOMAIN invoices
                 PROVE  invoices[i].user \in Users
                        /\ invoices[i].voucher \in Opt(Vouchers)
      OBVIOUS
    <3>1. invoices[i] \in Invoice
      BY <1>1 DEF BillingTyped
    <3> QED
      BY <3>1 DEF Invoice
  \* The code was free, so that it is on no invoice and in no other handler.
  <2>4. \A i \in DOMAIN invoices : invoices[i].voucher # w
    BY <1>1, <2>1, <2>3, NoneAssumption DEF SpentInv, VoucherSpentOnce
  <2>5. \A q \in Redeems : redeem[q].pc = "insert" =>
          redeem[q].voucher # w /\ redeem[q].voucher \in Vouchers
    BY <1>1, <2>1, NoneAssumption DEF SpentInv, Claimed, BillingTyped, RedeemKnows
  <2> HIDE DEF w
  <2>6. VoucherSpentOnce'
    BY <1>1, <2>2, <2>3, <2>4 DEF SpentInv, VoucherSpentOnce, Opt
  <2>7. Claimed'
    BY <1>1, <2>2, <2>4, <2>5 DEF SpentInv, Claimed
  <2> QED
    BY <2>6, <2>7
<1> QED
  BY <1>2, <1>3

LEMMA SpentInsert ==
  ASSUME SpentInv, NEW r \in Redeems, InsertPaid(r)
  PROVE  VoucherSpentOnce' /\ Claimed'
<1> DEFINE k == Len(invoices) + 1
           w == redeem[r].voucher
<1>1. /\ BillingTyped /\ redeem[r].pc = "insert" /\ w \in Vouchers
      /\ redeem \in [Redeems -> Redeem] /\ redeem' = [redeem EXCEPT ![r] = NoRedeem]
      /\ UNCHANGED spent
  BY DEF SpentInv, InsertPaid, BillingTyped, RedeemKnows
<1>2. /\ Len(invoices) \in Nat /\ DOMAIN invoices = 1..Len(invoices)
      /\ DOMAIN invoices' = 1..k
      /\ invoices'[k].voucher = w /\ invoices'[k].user = redeem[r].user
      /\ \A i \in DOMAIN invoices : invoices'[i] = invoices[i]
  BY <1>1, IssueAdds DEF InsertPaid, VoucherOf
<1>3. \A i \in DOMAIN invoices' : i = k \/ i \in DOMAIN invoices
  BY <1>2
<1>4. /\ spent[w] = redeem[r].user
      /\ \A i \in DOMAIN invoices : invoices[i].voucher # w
      /\ \A q \in Redeems : redeem[q].pc = "insert" /\ q # r => redeem[q].voucher # w
  BY <1>1 DEF SpentInv, Claimed
<1>5. \A q \in Redeems : redeem'[q].pc = "insert" => q # r /\ redeem'[q] = redeem[q]
  BY <1>1 DEF NoRedeem
<1> HIDE DEF k, w
<1>6. VoucherSpentOnce'
  BY <1>1, <1>2, <1>3, <1>4 DEF SpentInv, VoucherSpentOnce
<1>7. Claimed'
  BY <1>1, <1>2, <1>3, <1>4, <1>5 DEF SpentInv, Claimed
<1> QED
  BY <1>6, <1>7

LEMMA SpentNext == SpentInv /\ [BillingNext]_bvars => SpentInv'
<1> SUFFICES ASSUME SpentInv, [BillingNext]_bvars PROVE VoucherSpentOnce' /\ Claimed'
  BY TypedNext DEF SpentInv
<1>1. ASSUME NEW c \in Calls, NEW u \in Users, Ask(c, u)
      PROVE  VoucherSpentOnce' /\ Claimed'
  BY <1>1, SpentKept DEF Ask
<1>2. ASSUME NEW c \in Calls, FindInvoice(c) PROVE VoucherSpentOnce' /\ Claimed'
  BY <1>2, SpentKept DEF FindInvoice
<1>3. ASSUME NEW r \in Redeems, NEW u \in Users, NEW v \in Vouchers, Enter(r, u, v)
      PROVE  VoucherSpentOnce' /\ Claimed'
  <2>1. \A q \in Redeems : redeem'[q].pc = "insert" => redeem'[q] = redeem[q]
    BY <1>3 DEF Enter, SpentInv, BillingTyped
  <2> QED
    BY <1>3, <2>1, SpentKept DEF Enter
<1>4. ASSUME NEW r \in Redeems, NoTariff(r) PROVE VoucherSpentOnce' /\ Claimed'
  <2>1. \A q \in Redeems : redeem'[q].pc = "insert" => redeem'[q] = redeem[q]
    BY <1>4 DEF NoTariff, NoRedeem, SpentInv, BillingTyped
  <2> QED
    BY <1>4, <2>1, SpentKept DEF NoTariff
<1>5. CASE HttpCrash
  BY <1>5, SpentKept DEF HttpCrash, NoRedeem
<1>6. CASE Days
  BY <1>6, SpentKept DEF Days, billing
<1>7. CASE UNCHANGED bvars
  BY <1>7, SpentKept DEF bvars, billing
<1> QED
  BY <1>1, <1>2, <1>3, <1>4, <1>5, <1>6, <1>7, SpentCall, SpentClaim, SpentInsert
     DEF BillingNext, Portal

\* A code gives one invoice, to the user it is marked with, for any number of
\* requests with it that overlap and whenever the process is killed.
THEOREM SpentOnce == BillingSpec => []VoucherSpentOnce
<1>1. SpentInv => VoucherSpentOnce
  BY DEF SpentInv
<1>2. BillingInit => SpentInv
  BY TypedInit, SpentInit DEF SpentInv
<1> QED
  BY <1>1, <1>2, SpentNext, PTL DEF BillingSpec, bvars

----------------------------------------------------------------------------
(* No code is taken for nothing *)

PaidInv == BillingTyped /\ PaidIsInvoiced

\* What excuses code v stays: its loss is on record, its invoice is written,
\* or its handler is where it was.
LEMMA PaidKept ==
  ASSUME PaidInv, UNCHANGED <<spent, torn>>,
         DOMAIN invoices \subseteq DOMAIN invoices',
         \A i \in DOMAIN invoices : invoices'[i] = invoices[i],
         \A r \in Redeems : redeem[r].pc = "insert" => redeem'[r] = redeem[r]
  PROVE  PaidIsInvoiced'
  BY DEF PaidInv, PaidIsInvoiced

LEMMA PaidCall ==
  ASSUME PaidInv, NEW c \in Calls, InsertInvoice(c) PROVE PaidIsInvoiced'
<1>1. /\ DOMAIN invoices \subseteq DOMAIN invoices'
      /\ \A i \in DOMAIN invoices : invoices'[i] = invoices[i]
  BY IssueAdds DEF InsertInvoice, PaidInv
<1> QED
  BY <1>1, PaidKept DEF InsertInvoice

LEMMA PaidClaim ==
  ASSUME PaidInv, NEW r \in Redeems, Claim(r) PROVE PaidIsInvoiced'
<1>1. /\ redeem[r].pc = "claim" /\ redeem[r].voucher \in Vouchers
      /\ redeem \in [Redeems -> Redeem] /\ spent \in [Vouchers -> Opt(Users)]
      /\ UNCHANGED <<invoices, torn>>
  BY DEF PaidInv, BillingTyped, Claim, RedeemKnows
<1>2. \A q \in Redeems : redeem[q].pc = "insert" => redeem'[q] = redeem[q]
  BY <1>1 DEF Claim
<1>3. CASE ~Usable(redeem[r].voucher, redeem[r].now)
  BY <1>1, <1>2, <1>3, PaidKept DEF Claim
<1>4. CASE Usable(redeem[r].voucher, redeem[r].now)
  <2>1. /\ spent' = [spent EXCEPT ![redeem[r].voucher] = redeem[r].user]
        /\ redeem' = [redeem EXCEPT ![r].pc = "insert"]
    BY <1>4 DEF Claim
  <2>2. redeem'[r].pc = "insert" /\ redeem'[r].voucher = redeem[r].voucher
    BY <1>1, <2>1 DEF Redeem
  <2>3. \A v \in Vouchers : v # redeem[r].voucher => spent'[v] = spent[v]
    BY <1>1, <2>1
  <2> QED
    BY <1>1, <1>2, <2>2, <2>3 DEF PaidInv, PaidIsInvoiced
<1> QED
  BY <1>3, <1>4

LEMMA PaidInsert ==
  ASSUME PaidInv, NEW r \in Redeems, InsertPaid(r) PROVE PaidIsInvoiced'
<1> DEFINE k == Len(invoices) + 1
<1>1. /\ DOMAIN invoices \subseteq DOMAIN invoices' /\ k \in DOMAIN invoices'
      /\ invoices'[k].voucher = redeem[r].voucher
      /\ \A i \in DOMAIN invoices : invoices'[i] = invoices[i]
  BY IssueAdds DEF InsertPaid, PaidInv, VoucherOf
<1> HIDE DEF k
<1>2. /\ UNCHANGED <<spent, torn>>
      /\ \A q \in Redeems : q # r => redeem'[q] = redeem[q]
  BY DEF InsertPaid, PaidInv, BillingTyped
<1> QED
  BY <1>1, <1>2 DEF PaidInv, PaidIsInvoiced

LEMMA PaidNoTariff ==
  ASSUME PaidInv, NEW r \in Redeems, NoTariff(r) PROVE PaidIsInvoiced'
<1>1. /\ UNCHANGED <<spent, invoices>> /\ torn' = torn \cup {redeem[r].voucher}
      /\ \A q \in Redeems : q # r => redeem'[q] = redeem[q]
  BY DEF NoTariff, PaidInv, BillingTyped
<1> QED
  BY <1>1 DEF PaidInv, PaidIsInvoiced

LEMMA PaidCrash ==
  ASSUME PaidInv, HttpCrash PROVE PaidIsInvoiced'
<1>1. /\ UNCHANGED <<spent, invoices>> /\ torn \subseteq torn'
      /\ \A r \in Redeems : redeem[r].pc = "insert" => redeem[r].voucher \in torn'
  BY DEF HttpCrash
<1> QED
  BY <1>1 DEF PaidInv, PaidIsInvoiced

LEMMA PaidNext == PaidInv /\ [BillingNext]_bvars => PaidInv'
<1> SUFFICES ASSUME PaidInv, [BillingNext]_bvars PROVE PaidIsInvoiced'
  BY TypedNext DEF PaidInv
<1>1. ASSUME NEW c \in Calls, \/ \E u \in Users : Ask(c, u)
                              \/ FindInvoice(c)
      PROVE  PaidIsInvoiced'
  BY <1>1, PaidKept DEF Ask, FindInvoice
<1>2. ASSUME NEW r \in Redeems, NEW u \in Users, NEW v \in Vouchers, Enter(r, u, v)
      PROVE  PaidIsInvoiced'
  BY <1>2, PaidKept DEF Enter, PaidInv, BillingTyped
<1>3. CASE Days
  BY <1>3, PaidKept DEF Days, billing
<1>4. CASE UNCHANGED bvars
  BY <1>4, PaidKept DEF bvars, billing
<1> QED
  BY <1>1, <1>2, <1>3, <1>4, PaidCall, PaidClaim, PaidInsert, PaidNoTariff, PaidCrash
     DEF BillingNext, Portal

\* A code that is used up has its invoice or a handler about to write it, but
\* for a process killed in between and for a tariff that has been removed.
THEOREM NoneForNothing == BillingSpec => []PaidIsInvoiced
<1>1. BillingInit => PaidInv
  BY TypedInit DEF PaidInv, PaidIsInvoiced, BillingInit
<1>2. PaidInv => PaidIsInvoiced
  BY DEF PaidInv
<1> QED
  BY <1>1, <1>2, PaidNext, PTL DEF BillingSpec, bvars
----------------------------------------------------------------------------
(* The invoices of a tariff *)

\* The invoices of the portal's tariff that a user has now.
Present(u) == {i \in DOMAIN invoices : /\ invoices[i].user = u
                                       /\ invoices[i].voucher = None
                                       /\ invoices[i].start <= now
                                       /\ now < invoices[i].stop}

\* The calls that may write one for him.
Threat(u) == {c \in Calls : /\ call[c].user = u
                            /\ \/ call[c].pc = "insert"
                               \/ /\ call[c].pc = "find"
                                  /\ NotInvoiced(u, call[c].now)}

\* A call that begins while the user has an invoice will find it; so that a slot
\* has an invoice or a call that may write one, never both.
Shared == \A u \in Users :
  Cardinality(Present(u)) + Cardinality(Threat(u)) <= Cardinality(Calls)

\* Nobody writes an invoice of the future.
HasStarted ==
  /\ \A i \in DOMAIN invoices : invoices[i].start <= now
  /\ \A c \in Calls : call[c].pc # "idle" => call[c].now <= now
  /\ \A r \in Redeems : redeem[r].pc # "idle" => redeem[r].now <= now

TarifInv == BillingTyped /\ HasStarted /\ Shared

LEMMA Finite ==
  ASSUME BillingTyped, NEW u
  PROVE  /\ IsFiniteSet(Present(u)) /\ Cardinality(Present(u)) \in Nat
         /\ IsFiniteSet(Threat(u)) /\ Cardinality(Threat(u)) \in Nat
         /\ Cardinality(Calls) \in Nat
<1>1. DOMAIN invoices = 1..Len(invoices) /\ Len(invoices) \in Nat
  BY DEF BillingTyped
<1>2. IsFiniteSet(1..Len(invoices))
  BY <1>1, FS_Interval
<1>3. Present(u) \in SUBSET (1..Len(invoices)) /\ Threat(u) \in SUBSET Calls
  BY <1>1 DEF Present, Threat
<1>4. IsFiniteSet(Present(u)) /\ IsFiniteSet(Threat(u))
  BY <1>2, <1>3, CallsAssumption, FS_Subset
<1> QED
  BY <1>4, CallsAssumption, FS_CardinalityType

\* Most steps add neither an invoice nor a call that may write one.
LEMMA SharedKept ==
  ASSUME TarifInv, NEW u \in Users,
         Present(u)' \subseteq Present(u), Threat(u)' \subseteq Threat(u)
  PROVE  Cardinality(Present(u)') + Cardinality(Threat(u)') <= Cardinality(Calls)
<1> DEFINE p == Present(u)
           q == Threat(u)
           pn == Present(u)'
           qn == Threat(u)'
<1>1. /\ IsFiniteSet(p) /\ IsFiniteSet(q) /\ Cardinality(Calls) \in Nat
      /\ Cardinality(p) \in Nat /\ Cardinality(q) \in Nat
  BY Finite DEF TarifInv
<1>2. Cardinality(p) + Cardinality(q) <= Cardinality(Calls)
  BY DEF TarifInv, Shared
<1>3. pn \in SUBSET p /\ qn \in SUBSET q
  OBVIOUS
<1> HIDE DEF p, q, pn, qn
<1>4. /\ IsFiniteSet(pn) /\ Cardinality(pn) <= Cardinality(p)
      /\ IsFiniteSet(qn) /\ Cardinality(qn) <= Cardinality(q)
  BY <1>1, <1>3, FS_Subset
<1>5. Cardinality(pn) \in Nat /\ Cardinality(qn) \in Nat
  BY <1>4, FS_CardinalityType
<1>6. Cardinality(pn) + Cardinality(qn) <= Cardinality(Calls)
  BY <1>1, <1>2, <1>4, <1>5
<1> QED
  BY <1>6 DEF pn, qn

\* With more invoices there, fewer calls find none.
LEMMA ThreatShrinks ==
  ASSUME BillingTyped, DOMAIN invoices \subseteq DOMAIN invoices',
         \A i \in DOMAIN invoices : invoices'[i] = invoices[i],
         \A c \in Calls : call'[c] = call[c] \/ call'[c] = NoCall,
         NEW u \in Users
  PROVE  Threat(u)' \subseteq Threat(u)
<1>1. \A n : NotInvoiced(u, n)' => NotInvoiced(u, n)
  BY DEF NotInvoiced, Active
<1>2. NoCall.pc = "idle"
  BY DEF NoCall
<1> QED
  BY <1>1, <1>2 DEF Threat

LEMMA SharedAsk ==
  ASSUME TarifInv, NEW c \in Calls, NEW w \in Users, Ask(c, w), NEW u \in Users
  PROVE  Cardinality(Present(u)') + Cardinality(Threat(u)') <= Cardinality(Calls)
<1>1. /\ call[c].pc = "idle" /\ UNCHANGED <<now, invoices>>
      /\ call'[c] = [pc |-> "find", user |-> w, now |-> now]
      /\ \A d \in Calls \ {c} : call'[d] = call[d]
  BY DEF Ask, TarifInv, BillingTyped
<1>2. Present(u)' = Present(u)
  BY <1>1 DEF Present
<1>3. CASE c \in Threat(u)'
  <2>1. Present(u) = {}
    BY <1>1, <1>3 DEF Threat, NotInvoiced, Active, Present
  <2>2. Cardinality(Present(u)') = 0
    BY <1>2, <2>1, FS_EmptySet
  <2> DEFINE q == Threat(u)'
  <2>3. q \in SUBSET Calls
    BY DEF Threat
  <2> HIDE DEF q
  <2>4. Cardinality(q) <= Cardinality(Calls) /\ IsFiniteSet(q)
    BY <2>3, CallsAssumption, FS_Subset
  <2>5. Cardinality(q) \in Nat /\ Cardinality(Calls) \in Nat
    BY <2>4, CallsAssumption, FS_CardinalityType
  <2>6. 0 + Cardinality(q) <= Cardinality(Calls)
    BY <2>4, <2>5
  <2> QED
    BY <2>2, <2>6 DEF q
<1>4. CASE c \notin Threat(u)'
  <2>1. Threat(u)' \subseteq Threat(u)
    BY <1>1, <1>4 DEF Threat, NotInvoiced, Active
  <2> QED
    BY <1>2, <2>1, SharedKept
<1> QED
  BY <1>3, <1>4

LEMMA SharedFind ==
  ASSUME TarifInv, NEW c \in Calls, FindInvoice(c), NEW u \in Users
  PROVE  Cardinality(Present(u)') + Cardinality(Threat(u)') <= Cardinality(Calls)
<1>1. /\ call[c].pc = "find" /\ call[c] \in Call /\ UNCHANGED <<now, invoices>>
      /\ call'[c] = IF NotInvoiced(call[c].user, call[c].now)
                    THEN [call[c] EXCEPT !.pc = "insert"] ELSE NoCall
      /\ \A d \in Calls \ {c} : call'[d] = call[d]
  BY DEF FindInvoice, TarifInv, BillingTyped
<1>2. Present(u)' = Present(u)
  BY <1>1 DEF Present
<1>3. \A n : NotInvoiced(u, n)' <=> NotInvoiced(u, n)
  BY <1>1 DEF NotInvoiced, Active
<1>4. c \in Threat(u)' => c \in Threat(u)
  <2>1. CASE NotInvoiced(call[c].user, call[c].now)
    <3>1. call'[c].user = call[c].user
      BY <1>1, <2>1 DEF Call
    <3> QED
      BY <1>1, <2>1, <3>1 DEF Threat
  <2>2. CASE ~NotInvoiced(call[c].user, call[c].now)
    BY <1>1, <2>2 DEF Threat, NoCall
  <2> QED
    BY <2>1, <2>2
<1>5. Threat(u)' \subseteq Threat(u)
  BY <1>1, <1>3, <1>4 DEF Threat
<1> QED
  BY <1>2, <1>5, SharedKept

LEMMA SharedInsert ==
  ASSUME TarifInv, NEW c \in Calls, InsertInvoice(c), NEW u \in Users
  PROVE  Cardinality(Present(u)') + Cardinality(Threat(u)') <= Cardinality(Calls)
<1> DEFINE k == Len(invoices) + 1
<1>1. /\ call[c].pc = "insert" /\ UNCHANGED now
      /\ call' = [call EXCEPT ![c] = NoCall]
  BY DEF InsertInvoice
<1>2. /\ DOMAIN invoices = 1..Len(invoices) /\ Len(invoices) \in Nat
      /\ DOMAIN invoices' = 1..k /\ invoices'[k].user = call[c].user
      /\ \A i \in DOMAIN invoices : invoices'[i] = invoices[i]
  BY IssueAdds DEF TarifInv, InsertInvoice
<1>3. DOMAIN invoices \subseteq DOMAIN invoices'
  BY <1>2
<1>4. Threat(u)' \subseteq Threat(u)
  BY <1>1, <1>2, <1>3, ThreatShrinks DEF TarifInv, BillingTyped
<1>5. \A i \in DOMAIN invoices' : i = k \/ i \in DOMAIN invoices
  BY <1>2
<1> HIDE DEF k
<1>6. CASE u # call[c].user
  <2>1. Present(u)' \subseteq Present(u)
    BY <1>1, <1>2, <1>5, <1>6 DEF Present
  <2> QED
    BY <1>4, <2>1, SharedKept
<1>7. CASE u = call[c].user
  <2>1. c \in Threat(u)
    BY <1>1, <1>7 DEF Threat
  <2>2. c \notin Threat(u)'
    BY <1>1 DEF Threat, NoCall, TarifInv, BillingTyped
  <2> DEFINE p == Present(u)
             q == Threat(u)
             pn == Present(u)'
             qn == Threat(u)'
  <2>3. pn \in SUBSET (p \cup {k})
    BY <1>1, <1>2, <1>5 DEF Present
  <2>4. qn \in SUBSET (q \ {c}) /\ c \in q
    BY <1>4, <2>1, <2>2
  <2>5. /\ IsFiniteSet(p) /\ IsFiniteSet(q) /\ Cardinality(Calls) \in Nat
        /\ Cardinality(p) \in Nat /\ Cardinality(q) \in Nat
    BY Finite DEF TarifInv
  <2>6. Cardinality(p) + Cardinality(q) <= Cardinality(Calls)
    BY DEF TarifInv, Shared
  <2> HIDE DEF p, q, pn, qn
  <2>7. /\ IsFiniteSet(p \cup {k}) /\ Cardinality(p \cup {k}) <= Cardinality(p) + 1
        /\ IsFiniteSet(q \ {c}) /\ Cardinality(q \ {c}) = Cardinality(q) - 1
    BY <2>4, <2>5, FS_AddElement, FS_RemoveElement
  <2>8. /\ IsFiniteSet(pn) /\ Cardinality(pn) <= Cardinality(p \cup {k})
        /\ IsFiniteSet(qn) /\ Cardinality(qn) <= Cardinality(q \ {c})
    BY <2>3, <2>4, <2>7, FS_Subset
  <2>9. /\ Cardinality(pn) \in Nat /\ Cardinality(qn) \in Nat
        /\ Cardinality(p \cup {k}) \in Nat
    BY <2>7, <2>8, FS_CardinalityType
  <2>10. Cardinality(pn) + Cardinality(qn) <= Cardinality(Calls)
    BY <2>5, <2>6, <2>7, <2>8, <2>9
  <2> QED
    BY <2>10 DEF pn, qn
<1> QED
  BY <1>6, <1>7

\* A voucher's invoice is none of the portal's.
LEMMA SharedPaid ==
  ASSUME TarifInv, NEW r \in Redeems, InsertPaid(r), NEW u \in Users
  PROVE  Cardinality(Present(u)') + Cardinality(Threat(u)') <= Cardinality(Calls)
<1> DEFINE k == Len(invoices) + 1
<1>1. UNCHANGED <<now, call>>
  BY DEF InsertPaid
<1>2. /\ DOMAIN invoices = 1..Len(invoices) /\ Len(invoices) \in Nat
      /\ DOMAIN invoices' = 1..k /\ invoices'[k].voucher = redeem[r].voucher
      /\ \A i \in DOMAIN invoices : invoices'[i] = invoices[i]
  BY IssueAdds DEF TarifInv, InsertPaid, VoucherOf
<1>3. redeem[r].voucher # None
  BY NoneAssumption DEF InsertPaid, TarifInv, BillingTyped, RedeemKnows
<1>4. DOMAIN invoices \subseteq DOMAIN invoices'
  BY <1>2
<1>5. Threat(u)' \subseteq Threat(u)
  BY <1>1, <1>2, <1>4, ThreatShrinks DEF TarifInv
<1>6. \A i \in DOMAIN invoices' : i = k \/ i \in DOMAIN invoices
  BY <1>2
<1> HIDE DEF k
<1>7. Present(u)' \subseteq Present(u)
  BY <1>1, <1>2, <1>3, <1>6 DEF Present
<1> QED
  BY <1>5, <1>7, SharedKept

\* An invoice of a tick ago that is in force now was in force then.
LEMMA SharedDays ==
  ASSUME TarifInv, Days, NEW u \in Users
  PROVE  Cardinality(Present(u)') + Cardinality(Threat(u)') <= Cardinality(Calls)
<1>1. now' = now + 1 /\ UNCHANGED <<invoices, call>> /\ now \in Nat
  BY DEF Days, billing, TarifInv, BillingTyped, Time
<1>2. Threat(u)' \subseteq Threat(u)
  BY <1>1 DEF Threat, NotInvoiced, Active
<1>3. Present(u)' \subseteq Present(u)
  <2> SUFFICES ASSUME NEW i \in DOMAIN invoices, now + 1 < invoices[i].stop
               PROVE  invoices[i].start <= now /\ now < invoices[i].stop
    BY <1>1 DEF Present
  <2>1. invoices[i] \in Invoice
    BY DEF TarifInv, BillingTyped
  <2>2. invoices[i].stop \in Nat
    BY <2>1 DEF Invoice
  <2> QED
    BY <1>1, <2>2 DEF TarifInv, HasStarted
<1> QED
  BY <1>2, <1>3, SharedKept

LEMMA SharedNext == TarifInv /\ [BillingNext]_bvars => Shared'
<1> SUFFICES ASSUME TarifInv, [BillingNext]_bvars, NEW u \in Users
             PROVE  Cardinality(Present(u)') + Cardinality(Threat(u)')
                      <= Cardinality(Calls)
  BY DEF Shared
\* A step that leaves the clock, the invoices and the calls, or ends all calls.
<1>1. ASSUME UNCHANGED <<now, invoices>>,
             \A c \in Calls : call'[c] = call[c] \/ call'[c] = NoCall
      PROVE  Cardinality(Present(u)') + Cardinality(Threat(u)') <= Cardinality(Calls)
  <2>1. Threat(u)' \subseteq Threat(u)
    BY <1>1, ThreatShrinks DEF TarifInv
  <2>2. Present(u)' \subseteq Present(u)
    BY <1>1 DEF Present
  <2> QED
    BY <2>1, <2>2, SharedKept
<1>2. ASSUME NEW c \in Calls,
             (\E w \in Users : Ask(c, w)) \/ FindInvoice(c) \/ InsertInvoice(c)
      PROVE  Cardinality(Present(u)') + Cardinality(Threat(u)') <= Cardinality(Calls)
  BY <1>2, SharedAsk, SharedFind, SharedInsert
<1>3. ASSUME NEW r \in Redeems, NEW w \in Users, NEW v \in Vouchers, Enter(r, w, v)
      PROVE  UNCHANGED <<now, invoices, call>>
  BY <1>3 DEF Enter
<1>4. ASSUME NEW r \in Redeems, Claim(r) \/ NoTariff(r)
      PROVE  UNCHANGED <<now, invoices, call>>
  BY <1>4 DEF Claim, NoTariff
<1>5. CASE HttpCrash
  <2>1. UNCHANGED <<now, invoices>> /\ \A c \in Calls : call'[c] = NoCall
    BY <1>5 DEF HttpCrash
  <2> QED
    BY <1>1, <2>1
<1>6. CASE Days
  BY <1>6, SharedDays
<1>7. CASE UNCHANGED bvars
  BY <1>1, <1>7 DEF bvars, billing
<1> QED
  BY <1>1, <1>2, <1>3, <1>4, <1>5, <1>6, <1>7, SharedPaid DEF BillingNext, Portal

LEMMA HasStartedNext == TarifInv /\ [BillingNext]_bvars => HasStarted'
<1> SUFFICES ASSUME TarifInv, [BillingNext]_bvars PROVE HasStarted'
  OBVIOUS
<1> USE DEF TarifInv, HasStarted
<1>1. now \in Nat /\ call \in [Calls -> Call] /\ redeem \in [Redeems -> Redeem]
  BY DEF BillingTyped, Time
<1>2. NoCall.pc = "idle" /\ NoRedeem.pc = "idle"
  BY DEF NoCall, NoRedeem
\* Who writes an invoice gives it his time.
<1>3. ASSUME NEW w, NEW t, NEW n, NEW v, Issue(w, t, n, v), n <= now, UNCHANGED now
      PROVE  \A i \in DOMAIN invoices' : invoices'[i].start <= now'
  <2> DEFINE k == Len(invoices) + 1
  <2>1. /\ DOMAIN invoices = 1..Len(invoices) /\ Len(invoices) \in Nat
        /\ DOMAIN invoices' = 1..k /\ invoices'[k].start = n
        /\ \A i \in DOMAIN invoices : invoices'[i] = invoices[i]
    BY <1>3, IssueAdds
  <2>2. \A i \in DOMAIN invoices' : i = k \/ i \in DOMAIN invoices
    BY <2>1
  <2> HIDE DEF k
  <2> QED
    BY <1>3, <2>1, <2>2
<1>4. ASSUME NEW c \in Calls,
             (\E w \in Users : Ask(c, w)) \/ FindInvoice(c) \/ InsertInvoice(c)
      PROVE  HasStarted'
  <2>1. CASE \E w \in Users : Ask(c, w)
    BY <1>1, <2>1 DEF Ask
  <2>2. CASE FindInvoice(c)
    <3>1. /\ UNCHANGED <<now, invoices, redeem>> /\ call[c] \in Call
          /\ call[c].pc = "find"
          /\ call' = [call EXCEPT ![c] = call'[c]]
          /\ call'[c] = NoCall \/ call'[c] = [call[c] EXCEPT !.pc = "insert"]
      BY <1>1, <2>2 DEF FindInvoice
    <3>2. call'[c].pc # "idle" => call'[c].now = call[c].now
      BY <1>2, <3>1 DEF Call
    <3> QED
      BY <1>1, <3>1, <3>2
  <2>3. CASE InsertInvoice(c)
    BY <1>1, <1>2, <1>3, <2>3 DEF InsertInvoice
  <2> QED
    BY <1>4, <2>1, <2>2, <2>3
<1>5. ASSUME NEW r \in Redeems,
             \/ \E w \in Users, v \in Vouchers : Enter(r, w, v)
             \/ Claim(r) \/ InsertPaid(r) \/ NoTariff(r)
      PROVE  HasStarted'
  <2>1. CASE \E w \in Users, v \in Vouchers : Enter(r, w, v)
    BY <1>1, <2>1 DEF Enter
  <2>2. CASE Claim(r)
    <3>1. /\ UNCHANGED <<now, invoices, call>> /\ redeem[r] \in Redeem
          /\ redeem[r].pc = "claim"
          /\ redeem' = [redeem EXCEPT ![r] = redeem'[r]]
          /\ redeem'[r] = NoRedeem \/ redeem'[r] = [redeem[r] EXCEPT !.pc = "insert"]
      BY <1>1, <2>2 DEF Claim
    <3>2. redeem'[r].pc # "idle" => redeem'[r].now = redeem[r].now
      BY <1>2, <3>1 DEF Redeem
    <3> QED
      BY <1>1, <3>1, <3>2
  <2>3. CASE InsertPaid(r)
    BY <1>1, <1>2, <1>3, <2>3 DEF InsertPaid
  <2>4. CASE NoTariff(r)
    BY <1>1, <1>2, <2>4 DEF NoTariff
  <2> QED
    BY <1>5, <2>1, <2>2, <2>3, <2>4
<1>6. CASE HttpCrash
  BY <1>2, <1>6 DEF HttpCrash
<1>7. CASE Days
  <2>1. now' = now + 1 /\ UNCHANGED <<invoices, call, redeem>>
    BY <1>7 DEF Days, billing
  <2>2. \A i \in DOMAIN invoices : invoices[i].start \in Nat
    <3> SUFFICES ASSUME NEW i \in DOMAIN invoices PROVE invoices[i].start \in Nat
      OBVIOUS
    <3>1. invoices[i] \in Invoice
      BY DEF BillingTyped
    <3> QED
      BY <3>1 DEF Invoice, Time
  <2>3. /\ \A c \in Calls : call[c].now \in Nat
        /\ \A r \in Redeems : redeem[r].now \in Nat
    BY <1>1 DEF Call, Redeem
  <2> QED
    BY <1>1, <2>1, <2>2, <2>3
<1>8. CASE UNCHANGED bvars
  BY <1>8 DEF bvars, billing
<1> QED
  BY <1>4, <1>5, <1>6, <1>7, <1>8 DEF BillingNext, Portal

\* A user has at most one invoice of the portal's tariff for each call that can run
\* at once, however they overlap.
THEOREM OneTarifEach == BillingSpec => []TarifOnce
<1>1. BillingInit => TarifInv
  <2> SUFFICES ASSUME BillingInit PROVE TarifInv
    OBVIOUS
  <2>1. BillingTyped /\ HasStarted
    BY TypedInit DEF BillingInit, HasStarted, NoCall, NoRedeem
  <2>2. ASSUME NEW u \in Users
        PROVE  Cardinality(Present(u)) + Cardinality(Threat(u)) <= Cardinality(Calls)
    <3>1. Present(u) = {} /\ Threat(u) = {}
      BY DEF BillingInit, Present, Threat, NoCall
    <3> QED
      BY <2>1, <3>1, Finite, FS_EmptySet
  <2> QED
    BY <2>1, <2>2 DEF TarifInv, Shared
<1>2. TarifInv /\ [BillingNext]_bvars => TarifInv'
  BY TypedNext, HasStartedNext, SharedNext DEF TarifInv
<1>3. TarifInv => TarifOnce
  <2> SUFFICES ASSUME TarifInv, NEW u \in Users
               PROVE  Cardinality(Present(u)) <= Cardinality(Calls)
    BY DEF TarifOnce, Present
  <2> QED
    BY Finite DEF TarifInv, Shared
<1> QED
  BY <1>1, <1>2, <1>3, PTL DEF BillingSpec, bvars

----------------------------------------------------------------------------
(* Access *)

\* A non-empty set of indices has a last one.
LEMMA MaxIn ==
  ASSUME NEW n \in Nat, NEW S \in SUBSET (1..n), S # {} PROVE Max(S) \in S
<1> DEFINE R == {ss \in Nat \X Nat : ss[1] < ss[2]}
           T == {k \in Nat : n - k \in S}
<1>1. IsWellFoundedOn(R, Nat)
  BY NatLessThanWellFounded DEF OpToRel
<1>2. T \subseteq Nat /\ T # {}
  <2>1. PICK x \in S : TRUE
    OBVIOUS
  <2>2. n - x \in T
    BY <2>1
  <2> QED
    BY <2>2
<1> HIDE DEF T
<1>3. PICK x \in T : \A y \in T : <<y, x>> \notin R
  <2> HIDE DEF R
  <2> QED
    BY <1>1, <1>2, WFMin
<1>4. \A y \in T : ~(y < x)
  BY <1>2, <1>3
<1>5. n - x \in S /\ \A y \in S : n - x >= y
  BY <1>2, <1>4 DEF T
<1> QED
  BY <1>5 DEF Max

\* The fields of a handler that say whom it lets in.
IsHandler(r) == {"pc", "mac", "now", "psw"} \subseteq DOMAIN r

\* The handlers, and the sessions as a sequence of whatever they hold.
Typed == /\ now \in Nat /\ DOMAIN auth = Slots
         /\ auth = [a \in Slots |-> auth[a]]
         /\ \A a \in Slots : IsHandler(auth[a])
         /\ \E S : sessions \in Seq(S)

\* A handler is of the time it was received at.
InTime == \A a \in Slots : auth[a].pc # "idle" => auth[a].now \in Nat /\ auth[a].now <= now

\* The device of m is checked, or its mark is under way or lost.
Backed(m) == m \in checked \cup marks \cup unmarked
BackedNext(m) == m \in checked' \cup marks' \cup unmarked'

Passed == {"limits", "billing", "insert"}

\* Past its checks a handler has a device that is checked, or about to be.
LetIn == \A a \in Slots :
           auth[a].pc \in Passed => Backed(auth[a].mac)

\* Where the password p of m at time n comes from: it is none of the portal's, it
\* is fresh, or a session lives that began with it.
FromSession(m, p, n, k) ==
  \E j \in 1..k : /\ j \in DOMAIN sessions
                  /\ sessions[j].mac = m /\ sessions[j].password = p
                  /\ n < sessions[j].stop

Sourced(m, p, n) == p \in Time => n <= p + 1 \/ FromSession(m, p, n, Len(sessions))

\* The password of a handler has a source, from its check on.
Sources == \A a \in Slots : auth[a].pc # "idle" =>
                              Sourced(auth[a].mac, auth[a].psw, auth[a].now)

Inv == Typed /\ InTime /\ LetIn /\ Sources /\ SessionsBacked /\ StaleOnlyInSession

\* What the inductive invariant asks of one handler.
Sound(r) == /\ IsHandler(r) /\ r.now \in Nat /\ r.now <= now
            /\ Sourced(r.mac, r.psw, r.now)

\* The steps that leave the sessions: each handler is as it was, is done, or goes
\* on as it should.
LEMMA HandlersMove ==
  ASSUME Inv, UNCHANGED <<sessions, now>>,
         \A m : Backed(m) => BackedNext(m),
         auth' = [a \in Slots |-> auth'[a]],
         \A a \in Slots :
           \/ auth'[a] = auth[a]
           \/ auth'[a] = Idle
           \/ /\ Sound(auth'[a])
              /\ auth'[a].pc \in Passed => BackedNext(auth'[a].mac)
  PROVE  Inv'
<1>1. IsHandler(Idle) /\ Idle.pc = "idle"
  BY DEF IsHandler, Idle
<1> HIDE DEF Idle
<1>2. \A a \in Slots : IsHandler(auth[a])
  BY DEF Inv, Typed
<1>3. Typed'
  BY <1>1, <1>2 DEF Inv, Typed, IsHandler, Sound
<1>4. InTime'
  BY <1>1 DEF Inv, InTime, Sound
<1>5. \A a \in Slots : auth'[a].pc \in Passed => BackedNext(auth'[a].mac)
  BY <1>1 DEF Inv, LetIn, Passed
<1>9. LetIn'
  BY <1>5 DEF LetIn, BackedNext, Backed
<1>6. \A m, p, n : Sourced(m, p, n)' <=> Sourced(m, p, n)
  BY DEF Sourced, FromSession
<1>7. Sources'
  BY <1>1, <1>6 DEF Inv, Sources, Sound
<1>8. SessionsBacked' /\ StaleOnlyInSession'
  BY DEF Inv, SessionsBacked, StaleOnlyInSession, Backed, BackedNext
<1> QED
  BY <1>3, <1>4, <1>7, <1>8, <1>9 DEF Inv

\* A session is written by a handler that may.
LEMMA SessionAdded ==
  ASSUME Inv, NEW a \in Slots, auth[a].pc = "insert",
         sessions' = Append(sessions, Session(auth[a])),
         auth' = [auth EXCEPT ![a] = Idle],
         UNCHANGED <<now, checked, marks, unmarked>>
  PROVE  Inv'
<1> DEFINE x == Session(auth[a])
           n == Len(sessions)
<1>1. x.mac = auth[a].mac /\ x.password = auth[a].psw /\ x.start = auth[a].now
  BY DEF Session
<1>2. PICK S : sessions \in Seq(S)
  BY DEF Inv, Typed
<1> HIDE DEF x
<1>3. sessions \in Seq(S \cup {x}) /\ sessions' = Append(sessions, x)
  BY <1>2 DEF x
<1>4. /\ sessions' \in Seq(S \cup {x}) /\ n \in Nat /\ Len(sessions') = n + 1
      /\ DOMAIN sessions = 1..n /\ DOMAIN sessions' = 1..(n + 1)
      /\ sessions'[n + 1] = x /\ \A i \in 1..n : sessions'[i] = sessions[i]
  BY <1>3
<1>5. IsHandler(Idle) /\ Idle.pc = "idle"
  BY DEF IsHandler, Idle
<1> HIDE DEF Idle, n
<1>6. Typed'
  BY <1>4, <1>5 DEF Inv, Typed, IsHandler
<1>7. InTime' /\ LetIn'
  BY <1>5 DEF Inv, Typed, InTime, LetIn, Passed, Backed
<1>8. \A m, p, t : Sourced(m, p, t) => Sourced(m, p, t)'
  BY <1>4 DEF Sourced, FromSession, n
<1>9. Sources'
  BY <1>5, <1>8 DEF Inv, Typed, Sources
<1>10. SessionsBacked'
  BY <1>1, <1>4 DEF Inv, SessionsBacked, LetIn, Passed, Backed
<1>11. StaleOnlyInSession'
  <2>1. Sourced(x.mac, x.password, x.start)
    BY <1>1 DEF Inv, Sources
  <2> SUFFICES ASSUME NEW i \in 1..(n + 1), sessions'[i].password \in Time,
                      ~(sessions'[i].start <= sessions'[i].password + 1)
               PROVE  \E j \in 1..i - 1 :
                        /\ sessions'[j].mac = sessions'[i].mac
                        /\ sessions'[j].password = sessions'[i].password
                        /\ sessions'[i].start < sessions'[j].stop
    BY <1>4 DEF StaleOnlyInSession
  <2>2. CASE i = n + 1
    <3>1. PICK j \in 1..n : /\ sessions[j].mac = x.mac
                            /\ sessions[j].password = x.password
                            /\ x.start < sessions[j].stop
      BY <1>4, <2>1, <2>2 DEF Sourced, FromSession, n
    <3>2. j \in 1..i - 1 /\ sessions'[j] = sessions[j] /\ sessions'[i] = x
      BY <1>4, <2>2
    <3> QED
      BY <3>1, <3>2
  <2>3. CASE i \in 1..n
    <3>1. sessions'[i] = sessions[i] /\ \A j \in 1..i - 1 : sessions'[j] = sessions[j]
      BY <1>4, <2>3
    <3>2. PICK j \in 1..i - 1 : /\ sessions[j].mac = sessions[i].mac
                                /\ sessions[j].password = sessions[i].password
                                /\ sessions[i].start < sessions[j].stop
      BY <1>4, <2>3, <3>1 DEF Inv, StaleOnlyInSession
    <3> QED
      BY <3>1, <3>2
  <2> QED
    BY <1>4, <2>2, <2>3
<1> QED
  BY <1>6, <1>7, <1>9, <1>10, <1>11 DEF Inv

----------------------------------------------------------------------------
(* The steps of a handler *)

\* A handler that goes on as r, with the mac and time it has.
LEMMA GoesOn ==
  ASSUME Inv, NEW a \in Slots, auth[a].pc # "idle", NEW r, IsHandler(r),
         r.mac = auth[a].mac, r.now = auth[a].now,
         auth' = [auth EXCEPT ![a] = r], UNCHANGED <<sessions, now, checked, unmarked>>,
         marks \subseteq marks',
         r.pc \in Passed => r.mac \in checked \cup marks' \cup unmarked,
         Sourced(r.mac, r.psw, r.now)
  PROVE  Inv'
<1>1. \A m : Backed(m) => BackedNext(m)
  BY DEF Backed, BackedNext
<1>2. Sound(r) /\ (r.pc \in Passed => BackedNext(r.mac))
  BY DEF Inv, InTime, Sound, BackedNext
<1>3. auth'[a] = r /\ \A b \in Slots : b # a => auth'[b] = auth[b]
  BY DEF Inv, Typed
<1>4. auth' = [b \in Slots |-> auth'[b]]
  BY DEF Inv, Typed
<1>5. \A b \in Slots :
        \/ auth'[b] = auth[b]
        \/ /\ Sound(auth'[b])
           /\ auth'[b].pc \in Passed => BackedNext(auth'[b].mac)
  BY <1>2, <1>3
<1> HIDE DEF Inv
<1> QED
  BY <1>1, <1>4, <1>5, HandlersMove

\* A handler that is done.
LEMMA IsDone ==
  ASSUME Inv, NEW a \in Slots, Done(a), UNCHANGED <<sessions, now, checked, marks, unmarked>>
  PROVE  Inv'
  BY HandlersMove DEF Done, Inv, Typed, Backed, BackedNext

\* A session that lives now is the source of its password.
LEMMA LiveSource ==
  ASSUME Inv, NEW m, NEW n, NEW s \in Live(m, n)
  PROVE  Sourced(m, sessions[s].password, n)
<1>1. PICK S : sessions \in Seq(S)
  BY DEF Inv, Typed
<1>2. s \in 1..Len(sessions) /\ s \in DOMAIN sessions
  BY <1>1 DEF Live
<1> QED
  BY <1>2 DEF Live, Sourced, FromSession

\* The newest session that lives is one of them.
LEMMA NewestLive ==
  ASSUME Inv, NEW m, NEW n
  PROVE  Newest(Live(m, n)) # 0 => Newest(Live(m, n)) \in Live(m, n)
<1>1. PICK S : sessions \in Seq(S)
  BY DEF Inv, Typed
<1>2. Live(m, n) \subseteq 1..Len(sessions) /\ Len(sessions) \in Nat
  BY <1>1 DEF Live
<1> HIDE DEF Live
<1> QED
  BY <1>2, MaxIn DEF Newest

\* A handler without a password of the portal's has one of no time.
LEMMA NoSource == ASSUME NEW m, NEW n PROVE Sourced(m, Wrong, n) /\ Sourced(m, Pw, n)
  BY DEF Sourced, Time, Wrong, Pw

\* The password is the user's own, or that of a session that lives.
LEMMA KnownStep == ASSUME Inv, NEW a \in Slots, KnownPassword(a) PROVE Inv'
<1> DEFINE r == auth[a]
           s == Newest(Live(r.mac, r.now))
           q == [r EXCEPT !.pc = "limits", !.session = s, !.psw = r.password]
<1>1. /\ r.pc = "lookup" /\ r.password = OwnPassword(r.mac, s)
      /\ auth' = [auth EXCEPT ![a] = q] /\ marks' = marks \cup {r.mac}
      /\ UNCHANGED <<sessions, now, checked, unmarked>> /\ IsHandler(r)
  BY DEF KnownPassword, Goes, Marked, Inv, Typed
<1>2. s # 0 => s \in Live(r.mac, r.now)
  BY NewestLive
<1>3. Sourced(r.mac, r.password, r.now)
  <2> HIDE DEF s, r
  <2>1. CASE s # 0
    BY <1>1, <1>2, <2>1, LiveSource DEF OwnPassword
  <2>2. CASE s = 0
    BY <1>1, <2>2, NoSource DEF OwnPassword
  <2> QED
    BY <2>1, <2>2
<1>4. /\ IsHandler(q) /\ q.mac = r.mac /\ q.now = r.now /\ q.psw = r.password
  BY <1>1 DEF IsHandler
<1> HIDE DEF q
<1> QED
  BY <1>1, <1>3, <1>4, GoesOn

\* The password is of this tick or the last.
LEMMA OneTimeStep == ASSUME Inv, NEW a \in Slots, OneTimePassword(a) PROVE Inv'
<1> DEFINE r == auth[a]
           s == Newest(Live(r.mac, r.now))
           q == [r EXCEPT !.pc = "device", !.session = s, !.psw = r.password]
<1>1. /\ r.pc = "lookup" /\ r.password \in {now, now - 1}
      /\ auth' = [auth EXCEPT ![a] = q] /\ IsHandler(r)
      /\ UNCHANGED <<sessions, now, checked, marks, unmarked>>
  BY DEF OneTimePassword, Goes, Inv, Typed
<1>2. Sourced(r.mac, r.password, r.now)
  BY <1>1 DEF Inv, InTime, Typed, Sourced
<1>3. /\ IsHandler(q) /\ q.mac = r.mac /\ q.now = r.now /\ q.psw = r.password
      /\ q.pc = "device"
  BY <1>1 DEF IsHandler
<1> HIDE DEF q
<1> QED
  BY <1>1, <1>2, <1>3, GoesOn DEF Passed

\* The other steps of a handler keep its password, and none is past the checks
\* but from a device that is checked.
LEMMA OtherSteps ==
  ASSUME Inv, NEW a \in Slots,
         \/ ByMac(a) \/ Refuse(a) \/ Reduce(a) \/ FindDevice(a) \/ FindLimits(a)
         \/ Bill(a)
  PROVE  Inv'
<1> DEFINE r == auth[a]
<1>1. /\ r.pc # "idle" /\ IsHandler(r)
      /\ UNCHANGED <<sessions, now, checked, marks, unmarked>>
      /\ Sourced(r.mac, r.psw, r.now)
  BY DEF ByMac, Refuse, Reduce, FindDevice, FindLimits, Bill, Inv, Typed, Sources
<1>2. CASE Done(a)
  BY <1>1, <1>2, IsDone
<1>3. CASE ~Done(a)
  <2>1. PICK q : /\ auth' = [auth EXCEPT ![a] = q]
                 /\ IsHandler(q) /\ q.mac = r.mac /\ q.now = r.now /\ q.psw = r.psw
                 /\ q.pc \in Passed => r.pc \in Passed \/ r.mac \in checked
    <3>1. CASE ByMac(a)
      <4> DEFINE s == Newest(Live(r.mac, r.now))
                 next == IF sessions[s].limit = NoLimit THEN "device" ELSE "reduce"
                 q == [r EXCEPT !.pc = next, !.session = s, !.limit = sessions[s].limit]
      <4>1. auth' = [auth EXCEPT ![a] = q] /\ next \notin Passed
        BY <3>1 DEF ByMac, Goes, Passed
      <4> HIDE DEF next
      <4>2. /\ IsHandler(q) /\ q.mac = r.mac /\ q.now = r.now /\ q.psw = r.psw
            /\ q.pc = next
        BY <1>1 DEF IsHandler
      <4> QED
        BY <4>1, <4>2
    <3>2. CASE Reduce(a)
      BY <1>1, <1>3, <3>2 DEF Reduce, Goes, IsHandler, Passed
    <3>3. CASE FindDevice(a)
      BY <1>1, <1>3, <3>3 DEF FindDevice, Goes, IsHandler, Passed
    <3>4. CASE FindLimits(a)
      BY <1>1, <3>4 DEF FindLimits, Goes, IsHandler, Passed
    <3>5. CASE Bill(a)
      BY <1>1, <3>5 DEF Bill, Goes, IsHandler, Passed
    <3> QED
      BY <1>3, <3>1, <3>2, <3>3, <3>4, <3>5 DEF Refuse
  <2>2. r.pc \in Passed => Backed(r.mac)
    BY DEF Inv, LetIn
  <2>3. q.pc \in Passed => q.mac \in checked \cup marks' \cup unmarked
    BY <1>1, <2>1, <2>2 DEF Backed
  <2> QED
    BY <1>1, <2>1, <2>3, GoesOn
<1> QED
  BY <1>2, <1>3

\* A request comes in.
LEMMA ReceiveStep ==
  ASSUME Inv, NEW a \in Slots, NEW m, NEW byMac, NEW p, Receive(a, m, byMac, p)
  PROVE  Inv'
<1> DEFINE q == [Idle EXCEPT !.pc = "lookup", !.mac = m, !.byMac = byMac,
                             !.password = p, !.now = now]
<1>1. /\ auth' = [auth EXCEPT ![a] = q]
      /\ UNCHANGED <<sessions, now, checked, marks, unmarked>>
  BY DEF Receive
<1>2. IsHandler(q) /\ q.now = now /\ q.psw = Wrong /\ q.pc = "lookup"
  BY DEF IsHandler, Idle
<1> HIDE DEF q
<1>3. Sound(q) /\ q.pc \notin Passed
  BY <1>2, NoSource DEF Sound, Inv, Typed, Passed
<1>4. auth'[a] = q /\ (\A b \in Slots : b # a => auth'[b] = auth[b])
      /\ auth' = [b \in Slots |-> auth'[b]]
  BY <1>1 DEF Inv, Typed
<1>5. \A b \in Slots :
        \/ auth'[b] = auth[b]
        \/ /\ Sound(auth'[b])
           /\ auth'[b].pc \in Passed => BackedNext(auth'[b].mac)
  BY <1>3, <1>4
<1> HIDE DEF Inv
<1> QED
  BY <1>1, <1>4, <1>5, HandlersMove DEF Backed, BackedNext

\* A session is inserted by a handler, or by one that is cancelled.
LEMMA WriteSteps == ASSUME Inv, NEW a \in Slots, Insert(a) \/ Cancel(a) PROVE Inv'
<1>1. UNCHANGED <<now, checked, marks, unmarked>> /\ Done(a)
  BY DEF Insert, Cancel
<1>2. CASE UNCHANGED sessions
  BY <1>1, <1>2, IsDone
<1>3. CASE ~UNCHANGED sessions
  BY <1>1, <1>3, SessionAdded DEF Insert, Cancel, Done
<1> QED
  BY <1>2, <1>3

\* Time passes only when no handler is behind it.
LEMMA TickStep == ASSUME Inv, Tick PROVE Inv'
<1>1. /\ UNCHANGED <<sessions, auth, checked, marks, unmarked>>
      /\ now' = now + 1 /\ now \in Nat
  BY DEF Tick, Inv, Typed
<1>2. \A m, p, n : Sourced(m, p, n)' <=> Sourced(m, p, n)
  BY <1>1 DEF Sourced, FromSession
<1>3. Sources'
  BY <1>1, <1>2 DEF Inv, Sources
<1>4. Typed'
  BY <1>1 DEF Inv, Typed
<1>5. InTime'
  BY <1>1 DEF Inv, InTime
<1>6. LetIn' /\ SessionsBacked' /\ StaleOnlyInSession'
  BY <1>1 DEF Inv, LetIn, Backed, SessionsBacked, StaleOnlyInSession
<1> QED
  BY <1>3, <1>4, <1>5, <1>6 DEF Inv

\* Marks land or are lost, a process is killed, and the rest of the world moves.
LEMMA WorldSteps ==
  ASSUME Inv,
         \/ Portal /\ Outside
         \/ \E m \in Macs : Check(m)
         \/ \E m \in marks : MarkLands(m) \/ MarkLost(m)
         \/ \E i \in DOMAIN docs : End(i)
         \/ AuthCrash
         \/ UNCHANGED vars
  PROVE  Inv'
<1>1. UNCHANGED <<sessions, now>>
  BY DEF Portal, Outside, Ask, FindInvoice, InsertInvoice, Enter, Claim, InsertPaid,
     NoTariff, HttpCrash, Check, MarkLands, MarkLost, End, AuthCrash, vars
<1>2. \A m : Backed(m) => BackedNext(m)
  BY DEF Outside, Check, MarkLands, MarkLost, End, AuthCrash, vars, Backed, BackedNext
<1>3. /\ auth' = [a \in Slots |-> auth'[a]]
      /\ \A a \in Slots : auth'[a] = auth[a] \/ auth'[a] = Idle
  <2>1. CASE AuthCrash
    BY <2>1 DEF AuthCrash
  <2>2. CASE UNCHANGED auth
    BY <2>2 DEF Inv, Typed
  <2> QED
    BY <2>1, <2>2 DEF Outside, Check, MarkLands, MarkLost, End, vars
<1> HIDE DEF Inv
<1> QED
  BY <1>1, <1>2, <1>3, HandlersMove

\* Every step of Next.
LEMMA InvNext == Inv /\ [Next]_vars => Inv'
<1> SUFFICES ASSUME Inv, [Next]_vars PROVE Inv'
  OBVIOUS
<1>1. ASSUME NEW a \in Slots, Handle(a) PROVE Inv'
  BY <1>1, KnownStep, OneTimeStep, OtherSteps, WriteSteps DEF Handle
<1>2. ASSUME NEW a \in Slots, NEW m \in Macs,
             \/ Receive(a, m, TRUE, Wrong)
             \/ \E p \in 1..now \cup {Pw} : Receive(a, m, FALSE, p)
      PROVE  Inv'
  BY <1>2, ReceiveStep
<1> QED
  BY <1>1, <1>2, TickStep, WorldSteps DEF Next

\* At the start nobody has a session.
LEMMA InitInv == Init => Inv
<1> SUFFICES ASSUME Init PROVE Inv
  OBVIOUS
<1>1. IsHandler(Idle) /\ Idle.pc = "idle"
  BY DEF IsHandler, Idle
<1>2. auth = [a \in Slots |-> Idle] /\ sessions = <<>> /\ now = 1
  BY DEF Init, AccessInit, BillingInit
<1> HIDE DEF Idle
<1>3. \E S : sessions \in Seq(S)
  BY <1>2
<1>4. Typed
  BY <1>1, <1>2, <1>3 DEF Typed
<1> QED
  BY <1>1, <1>2, <1>4 DEF Inv, InTime, LetIn, Passed, Sources, SessionsBacked,
     StaleOnlyInSession

\* The inductive invariant: what a handler has found out about its device and its
\* password stays so until its session is written, whatever overlaps.
THEOREM InvHolds == Spec => []Inv
BY InitInv, InvNext, PTL DEF Spec

\* Whoever has a session has a device that is checked, or a mark under way or lost.
THEOREM Backing == Spec => []SessionsBacked
BY InvHolds, PTL DEF Inv

\* A one-time password that has run out lets in only while a session of it lasts.
THEOREM StaleOnly == Spec => []StaleOnlyInSession
BY InvHolds, PTL DEF Inv

----------------------------------------------------------------------------
(* Sums *)

\* A non-empty set of numbers has a least one: a statement about finite sets
\* that fails fails first for sets of some size.
LEMMA Least ==
  ASSUME NEW T \in SUBSET Nat, T # {}
  PROVE  \E x \in T : \A y \in T : x <= y
<1> DEFINE R == {ss \in Nat \X Nat : ss[1] < ss[2]}
<1>1. IsWellFoundedOn(R, Nat)
  BY NatLessThanWellFounded DEF OpToRel
<1>2. PICK x \in T : \A y \in T : <<y, x>> \notin R
  <2> HIDE DEF R
  <2> QED
    BY <1>1, WFMin
<1>3. \A y \in T : ~(y < x)
  BY <1>2
<1> QED
  BY <1>3

First(s) == CHOOSE x \in s : TRUE

\* The recursive function that SumFunctionOnSet is defined by, on the sets of a
\* collection that has with a set its subsets.
IsSum(g, f, D) ==
  g = [s \in D |-> IF s = {} THEN 0 ELSE f[First(s)] + g[s \ {First(s)}]]

SumsTo(g, f, S) == IsSum(g, f, SUBSET S)

LEMMA SumIs ==
  ASSUME NEW f, NEW S
  PROVE  SumFunctionOnSet(f, S) = (CHOOSE g : SumsTo(g, f, S))[S]
BY DEF SumFunctionOnSet, FoldFunctionOnSet, MapThenFoldSet, SumsTo, IsSum, First

LEMMA Fewer ==
  ASSUME NEW s, IsFiniteSet(s), s # {}
  PROVE  /\ First(s) \in s /\ IsFiniteSet(s \ {First(s)})
         /\ Cardinality(s) \in Nat /\ Cardinality(s) > 0
         /\ Cardinality(s \ {First(s)}) = Cardinality(s) - 1
<1>1. First(s) \in s
  BY DEF First
<1>2. /\ IsFiniteSet(s \ {First(s)})
      /\ Cardinality(s \ {First(s)}) = Cardinality(s) - 1
  BY <1>1, FS_RemoveElement
<1>3. Cardinality(s) \in Nat /\ Cardinality(s) > 0
  BY FS_CardinalityType, FS_EmptySet
<1> QED
  BY <1>1, <1>2, <1>3

LEMMA Smaller ==
  ASSUME NEW m \in Nat, NEW s, IsFiniteSet(s), s # {}, Cardinality(s) = m
  PROVE  /\ m > 0 /\ m - 1 \in Nat /\ Cardinality(s \ {First(s)}) = m - 1
         /\ First(s) \in s /\ IsFiniteSet(s \ {First(s)})
<1>1. /\ First(s) \in s /\ IsFiniteSet(s \ {First(s)}) /\ m > 0
      /\ Cardinality(s \ {First(s)}) = m - 1
  BY Fewer
<1>2. m - 1 \in Nat
  BY <1>1
<1> QED
  BY <1>1, <1>2

\* The function exists: each size of subsets adds to the one before.
LEMMA SumExists ==
  ASSUME NEW f, NEW S, IsFiniteSet(S)
  PROVE  \E g : SumsTo(g, f, S)
<1> DEFINE Small(n) == {s \in SUBSET S : Cardinality(s) <= n}
           T == {n \in Nat : ~\E g : IsSum(g, f, Small(n))}
<1>1. \A s \in SUBSET S : IsFiniteSet(s) /\ Cardinality(s) \in Nat
  BY FS_Subset, FS_CardinalityType
<1>2. ASSUME T # {} PROVE FALSE
  <2>1. PICK m \in T : \A y \in T : m <= y
    BY <1>2, Least
  <2>2. CASE m = 0
    <3> DEFINE g == [s \in Small(0) |-> 0]
    <3>1. \A s \in Small(0) : s = {}
      <4> SUFFICES ASSUME NEW s \in Small(0), s # {} PROVE FALSE
        OBVIOUS
      <4>1. IsFiniteSet(s) /\ Cardinality(s) = 0
        BY <1>1
      <4> HIDE DEF T, Small
      <4> QED
        BY <4>1, FS_EmptySet
    <3>2. IsSum(g, f, Small(0))
      BY <3>1 DEF IsSum
    <3> QED
      BY <2>1, <2>2, <3>2
  <2>3. CASE m > 0
    <3>1. PICK k \in Nat : m = k + 1
      BY <2>1, <2>3
    <3>2. k \notin T
      BY <2>1, <3>1
    <3>3. PICK h : IsSum(h, f, Small(k))
      BY <3>2
    <3> DEFINE g == [s \in Small(m) |-> IF s = {} THEN 0
                                        ELSE f[First(s)] + h[s \ {First(s)}]]
    <3>4. ASSUME NEW s \in Small(m), s # {}
          PROVE  g[s \ {First(s)}] = h[s \ {First(s)}]
      <4> DEFINE t == s \ {First(s)}
      <4>1. t \in Small(k) /\ t \in Small(m)
        <5>1. s \in SUBSET S /\ IsFiniteSet(s) /\ Cardinality(s) <= k + 1
          BY <1>1, <3>1
        <5>2. Cardinality(s) \in Nat /\ Cardinality(t) = Cardinality(s) - 1
          BY <3>4, <5>1, Fewer
        <5> QED
          BY <3>1, <5>1, <5>2
      <4>2. h[t] = IF t = {} THEN 0 ELSE f[First(t)] + h[t \ {First(t)}]
        <5> HIDE DEF Small, t
        <5> QED
          BY <3>3, <4>1 DEF IsSum
      <4>3. g[t] = IF t = {} THEN 0 ELSE f[First(t)] + h[t \ {First(t)}]
        <5> HIDE DEF Small, t
        <5> QED
          BY <4>1
      <4> QED
        BY <4>2, <4>3
    <3>5. IsSum(g, f, Small(m))
      <4> DEFINE e == [s \in Small(m) |-> IF s = {} THEN 0
                                          ELSE f[First(s)] + g[s \ {First(s)}]]
      <4>1. \A s \in Small(m) : g[s] = e[s]
        <5> TAKE s \in Small(m)
        <5> HIDE DEF Small
        <5>1. CASE s = {}
          BY <5>1
        <5>2. CASE s # {}
          BY <3>4, <5>2
        <5> QED
          BY <5>1, <5>2
      <4>2. g = e
        <5> HIDE DEF Small
        <5> QED
          BY <4>1
      <4> QED
        BY <4>2 DEF IsSum
    <3> QED
      BY <2>1, <3>5
  <2> QED
    BY <2>1, <2>2, <2>3
<1>3. Cardinality(S) \in Nat
  BY FS_CardinalityType
<1>4. PICK g : IsSum(g, f, Small(Cardinality(S)))
  BY <1>2, <1>3
<1>5. Small(Cardinality(S)) = SUBSET S
  BY FS_Subset
<1> QED
  BY <1>4, <1>5 DEF SumsTo

\* And does not depend on the collection.
LEMMA SumUnique ==
  ASSUME NEW f, NEW S, NEW g, SumsTo(g, f, S),
         NEW T, NEW h, SumsTo(h, f, T),
         NEW U, IsFiniteSet(U), U \subseteq S, U \subseteq T
  PROVE  g[U] = h[U]
<1> DEFINE Bad(n) == \E s \in SUBSET U : Cardinality(s) = n /\ g[s] # h[s]
           B == {n \in Nat : Bad(n)}
<1>1. ASSUME B # {} PROVE FALSE
  <2>1. PICK m \in B : \A y \in B : m <= y
    BY <1>1, Least
  <2>2. PICK s \in SUBSET U : Cardinality(s) = m /\ g[s] # h[s]
    BY <2>1
  <2>3. IsFiniteSet(s) /\ s \in SUBSET S /\ s \in SUBSET T
    BY FS_Subset
  <2>4. /\ g[s] = IF s = {} THEN 0 ELSE f[First(s)] + g[s \ {First(s)}]
        /\ h[s] = IF s = {} THEN 0 ELSE f[First(s)] + h[s \ {First(s)}]
    BY <2>3 DEF SumsTo, IsSum
  <2>5. s # {}
    BY <2>2, <2>4
  <2> DEFINE t == s \ {First(s)}
  <2>6. Cardinality(t) = m - 1 /\ m - 1 \in Nat
    BY <2>2, <2>3, <2>5, Smaller
  <2>7. m - 1 \notin B
    <3>1. ~(m <= m - 1)
      BY <2>6
    <3> QED
      BY <2>1, <3>1
  <2>8. g[t] = h[t]
    BY <2>6, <2>7
  <2> QED
    BY <2>2, <2>4, <2>5, <2>8
<1>2. Cardinality(U) \in Nat
  BY FS_CardinalityType
<1>3. Cardinality(U) \notin B
  BY <1>1
<1> QED
  BY <1>2, <1>3

LEMMA SumBy ==
  ASSUME NEW f, NEW S, IsFiniteSet(S)
  PROVE  \E g : SumsTo(g, f, S) /\ SumFunctionOnSet(f, S) = g[S]
<1> DEFINE g == CHOOSE h : SumsTo(h, f, S)
<1>1. SumsTo(g, f, S)
  BY SumExists
<1>2. SumFunctionOnSet(f, S) = g[S]
  BY SumIs
<1> QED
  BY <1>1, <1>2

LEMMA SumEmpty == ASSUME NEW f PROVE SumFunctionOnSet(f, {}) = 0
<1>1. PICK g : SumsTo(g, f, {}) /\ SumFunctionOnSet(f, {}) = g[{}]
  BY SumBy, FS_EmptySet
<1>2. g[{}] = 0
  BY <1>1 DEF SumsTo, IsSum
<1> QED
  BY <1>1, <1>2

LEMMA SumFirst ==
  ASSUME NEW f, NEW S, IsFiniteSet(S), S # {}
  PROVE  SumFunctionOnSet(f, S)
           = f[First(S)] + SumFunctionOnSet(f, S \ {First(S)})
<1>1. PICK g : SumsTo(g, f, S) /\ SumFunctionOnSet(f, S) = g[S]
  BY SumBy
<1>2. PICK T : T = S \ {First(S)}
  OBVIOUS
<1>3. IsFiniteSet(T) /\ T \subseteq S
  BY <1>2, Fewer
<1>4. PICK h : SumsTo(h, f, T) /\ SumFunctionOnSet(f, T) = h[T]
  BY <1>3, SumBy
<1>5. g[S] = f[First(S)] + g[T]
  BY <1>1, <1>2 DEF SumsTo, IsSum
<1>6. g[T] = h[T]
  BY <1>1, <1>3, <1>4, SumUnique
<1> QED
  BY <1>1, <1>2, <1>4, <1>5, <1>6

\* Sums of integers are integers, and of naturals naturals.
LEMMA SumType ==
  ASSUME NEW f, NEW S, IsFiniteSet(S), \A x \in S : f[x] \in Nat
  PROVE  SumFunctionOnSet(f, S) \in Nat
<1> DEFINE Bad(n) == \E s \in SUBSET S : /\ Cardinality(s) = n
                                        /\ SumFunctionOnSet(f, s) \notin Nat
           B == {n \in Nat : Bad(n)}
<1>1. ASSUME B # {} PROVE FALSE
  <2>1. PICK m \in B : \A y \in B : m <= y
    BY <1>1, Least
  <2>2. PICK s \in SUBSET S : /\ Cardinality(s) = m
                              /\ SumFunctionOnSet(f, s) \notin Nat
    BY <2>1
  <2>3. IsFiniteSet(s)
    BY FS_Subset
  <2>4. s # {}
    BY <2>2, SumEmpty
  <2> DEFINE t == s \ {First(s)}
  <2>5. Cardinality(t) = m - 1 /\ m - 1 \in Nat /\ First(s) \in S
    BY <2>2, <2>3, <2>4, Smaller
  <2>6. m - 1 \notin B
    <3>1. ~(m <= m - 1)
      BY <2>5
    <3> QED
      BY <2>1, <3>1
  <2>7. SumFunctionOnSet(f, t) \in Nat
    BY <2>5, <2>6
  <2>8. SumFunctionOnSet(f, s) = f[First(s)] + SumFunctionOnSet(f, t)
    BY <2>3, <2>4, SumFirst
  <2> QED
    BY <2>2, <2>5, <2>7, <2>8
<1>2. Cardinality(S) \in Nat
  BY FS_CardinalityType
<1>3. Cardinality(S) \notin B
  BY <1>1
<1> QED
  BY <1>2, <1>3

\* Any element may be taken out first.
LEMMA SumRemove ==
  ASSUME NEW f, NEW S, IsFiniteSet(S), \A x \in S : f[x] \in Nat, NEW e \in S
  PROVE  SumFunctionOnSet(f, S) = f[e] + SumFunctionOnSet(f, S \ {e})
<1> DEFINE Off(s, x) == SumFunctionOnSet(f, s)
                          # f[x] + SumFunctionOnSet(f, s \ {x})
           Bad(n) == \E s \in SUBSET S : Cardinality(s) = n /\ \E x \in s : Off(s, x)
           B == {n \in Nat : Bad(n)}
<1>1. ASSUME B # {} PROVE FALSE
  <2>1. PICK m \in B : \A y \in B : m <= y
    BY <1>1, Least
  <2>20. PICK s \in SUBSET S : Cardinality(s) = m /\ \E x \in s : Off(s, x)
    BY <2>1
  <2>2. PICK x \in s : Cardinality(s) = m /\ Off(s, x)
    BY <2>20
  <2>3. IsFiniteSet(s) /\ s # {}
    BY FS_Subset
  <2> DEFINE c == First(s)
             t == s \ {c}
             u == t \ {x}
  <2>4. Cardinality(t) = m - 1 /\ m - 1 \in Nat /\ c \in s /\ IsFiniteSet(t)
    BY <2>2, <2>3, Smaller
  <2>5. Cardinality(s \ {x}) = m - 1 /\ IsFiniteSet(s \ {x})
    BY <2>2, <2>3, FS_RemoveElement
  <2>6. m - 1 \notin B
    <3>1. ~(m <= m - 1)
      BY <2>4
    <3> QED
      BY <2>1, <3>1
  <2>7. SumFunctionOnSet(f, s) = f[c] + SumFunctionOnSet(f, t)
    BY <2>3, SumFirst
  <2>8. c # x
    BY <2>2, <2>7
  <2>9. ~Off(t, x)
    BY <2>4, <2>6, <2>8
  <2>10. ~Off(s \ {x}, c)
    BY <2>4, <2>5, <2>6, <2>8
  <2>11. (s \ {x}) \ {c} = u /\ IsFiniteSet(u)
    BY <2>4, FS_Subset
  <2>12. SumFunctionOnSet(f, u) \in Nat
    BY <2>11, SumType
  <2>13. /\ SumFunctionOnSet(f, t) = f[x] + SumFunctionOnSet(f, u)
         /\ SumFunctionOnSet(f, s \ {x}) = f[c] + SumFunctionOnSet(f, u)
    BY <2>9, <2>10, <2>11
  <2>14. f[c] \in Nat /\ f[x] \in Nat
    BY <2>4
  <2>15. SumFunctionOnSet(f, s) # f[x] + SumFunctionOnSet(f, s \ {x})
    BY <2>2
  <2> HIDE DEF c, t, u
  <2> QED
    BY <2>7, <2>12, <2>13, <2>14, <2>15
<1>2. Cardinality(S) \in Nat
  BY FS_CardinalityType
<1>3. Cardinality(S) \notin B
  BY <1>1
<1>4. ~Off(S, e)
  BY <1>2, <1>3
<1> QED
  BY <1>4

\* Only the values on the set count.
LEMMA SumSame ==
  ASSUME NEW f, NEW g, NEW S, IsFiniteSet(S), \A x \in S : f[x] = g[x]
  PROVE  SumFunctionOnSet(f, S) = SumFunctionOnSet(g, S)
<1> DEFINE Bad(n) == \E s \in SUBSET S :
                       /\ Cardinality(s) = n
                       /\ SumFunctionOnSet(f, s) # SumFunctionOnSet(g, s)
           B == {n \in Nat : Bad(n)}
<1>1. ASSUME B # {} PROVE FALSE
  <2>1. PICK m \in B : \A y \in B : m <= y
    BY <1>1, Least
  <2>2. PICK s \in SUBSET S :
          /\ Cardinality(s) = m
          /\ SumFunctionOnSet(f, s) # SumFunctionOnSet(g, s)
    BY <2>1
  <2>3. IsFiniteSet(s)
    BY FS_Subset
  <2>4. s # {}
    BY <2>2, SumEmpty
  <2> DEFINE t == s \ {First(s)}
  <2>5. Cardinality(t) = m - 1 /\ m - 1 \in Nat /\ First(s) \in S
    BY <2>2, <2>3, <2>4, Smaller
  <2>6. m - 1 \notin B
    <3>1. ~(m <= m - 1)
      BY <2>5
    <3> QED
      BY <2>1, <3>1
  <2>7. SumFunctionOnSet(f, t) = SumFunctionOnSet(g, t)
    BY <2>5, <2>6
  <2>8. /\ SumFunctionOnSet(f, s) = f[First(s)] + SumFunctionOnSet(f, t)
        /\ SumFunctionOnSet(g, s) = g[First(s)] + SumFunctionOnSet(g, t)
    BY <2>3, <2>4, SumFirst
  <2>9. f[First(s)] = g[First(s)]
    BY <2>5
  <2> QED
    BY <2>2, <2>7, <2>8, <2>9
<1>2. Cardinality(S) \in Nat
  BY FS_CardinalityType
<1>3. Cardinality(S) \notin B
  BY <1>1
<1> QED
  BY <1>2, <1>3

\* A sum over two parts.
LEMMA SumParts ==
  ASSUME NEW f, NEW S, IsFiniteSet(S), \A x \in S : f[x] \in Nat,
         NEW T \in SUBSET S
  PROVE  SumFunctionOnSet(f, S)
           = SumFunctionOnSet(f, T) + SumFunctionOnSet(f, S \ T)
<1> DEFINE Off(s) == SumFunctionOnSet(f, T \cup s)
                       # SumFunctionOnSet(f, T) + SumFunctionOnSet(f, s)
           Bad(n) == \E s \in SUBSET (S \ T) : Cardinality(s) = n /\ Off(s)
           B == {n \in Nat : Bad(n)}
<1>1. ASSUME NEW s \in SUBSET S
      PROVE  IsFiniteSet(s) /\ SumFunctionOnSet(f, s) \in Nat
  BY FS_Subset, SumType
<1>2. ASSUME B # {} PROVE FALSE
  <2>1. PICK m \in B : \A y \in B : m <= y
    BY <1>2, Least
  <2>2. PICK s \in SUBSET (S \ T) : Cardinality(s) = m /\ Off(s)
    BY <2>1
  <2>3. IsFiniteSet(s)
    BY <1>1
  <2>4. s # {}
    <3>1. SumFunctionOnSet(f, T) \in Nat
      BY <1>1
    <3>2. ~Off({})
      BY <3>1, SumEmpty
    <3> QED
      BY <2>2, <3>2
  <2> DEFINE c == First(s)
             t == s \ {c}
  <2>5. Cardinality(t) = m - 1 /\ m - 1 \in Nat /\ c \in s
    BY <2>2, <2>3, <2>4, Smaller
  <2>6. m - 1 \notin B
    <3>1. ~(m <= m - 1)
      BY <2>5
    <3> QED
      BY <2>1, <3>1
  <2>7. SumFunctionOnSet(f, T \cup t)
          = SumFunctionOnSet(f, T) + SumFunctionOnSet(f, t)
    BY <2>5, <2>6
  <2>8. SumFunctionOnSet(f, s) = f[c] + SumFunctionOnSet(f, t)
    BY <2>3, <2>4, SumFirst
  <2>9. /\ T \cup s \in SUBSET S /\ c \in T \cup s
        /\ (T \cup s) \ {c} = T \cup t
    BY <2>5
  <2>10. SumFunctionOnSet(f, T \cup s) = f[c] + SumFunctionOnSet(f, T \cup t)
    <3> HIDE DEF c, t
    <3> QED
      BY <1>1, <2>9, SumRemove
  <2>11. /\ f[c] \in Nat /\ SumFunctionOnSet(f, T) \in Nat
         /\ SumFunctionOnSet(f, t) \in Nat
    BY <1>1, <2>5
  <2>12. SumFunctionOnSet(f, T \cup s)
           # SumFunctionOnSet(f, T) + SumFunctionOnSet(f, s)
    BY <2>2
  <2> HIDE DEF c, t
  <2> QED
    BY <2>7, <2>8, <2>10, <2>11, <2>12
<1>3. Cardinality(S \ T) \in Nat
  BY <1>1, FS_CardinalityType
<1>4. Cardinality(S \ T) \notin B
  BY <1>2
<1>5. ~Off(S \ T) /\ T \cup (S \ T) = S
  BY <1>3, <1>4
<1> QED
  BY <1>5
----------------------------------------------------------------------------
(* Access: types *)

Limits == UNION {[K -> Int] : K \in SUBSET Keys}

Handler == [pc : {"idle", "lookup", "reduce", "device", "limits", "billing",
                  "insert"},
            mac : Opt(Macs), byMac : BOOLEAN, password : Passwords,
            now : 0..MaxTime, session : Nat, psw : Passwords, at : 0..MaxTime,
            invoice : Nat, limit : Limits]

RadSession == [mac : Macs, password : Passwords, limit : Limits, start : Time,
               stop : Int, invoice : Nat]

Document == [mac : Macs, user : Users, start : Time, time : Nat,
             open : BOOLEAN, limit : Limits, invoice : Nat, byMac : BOOLEAN]

\* A handler under way knows its device and its time.
Handling(r) == /\ r.pc # "idle" => r.mac \in Macs /\ r.now \in Time
               /\ r.pc = "idle" => r = Idle
               /\ r.session \in 0..Len(sessions)
               /\ r.invoice \in 0..Len(invoices)
               /\ r.pc = "reduce" => r.session # 0
               /\ r.pc = "billing" => r.invoice # 0

AccessTyped ==
  /\ BillingTyped
  /\ checked \subseteq Macs /\ marks \subseteq Macs /\ unmarked \subseteq Macs
  /\ asking \subseteq Macs
  /\ sessions \in Seq(RadSession)
  /\ \A k \in DOMAIN sessions : sessions[k].invoice <= Len(invoices)
  /\ docs \in Seq(Document)
  /\ \A d \in DOMAIN docs : docs[d].invoice <= Len(invoices)
  /\ auth \in [Slots -> Handler]
  /\ \A a \in Slots : Handling(auth[a])

\* Limits are read by key.
LEMMA LimitsFacts ==
  ASSUME NEW l \in Limits
  PROVE  /\ DOMAIN l \subseteq Keys /\ l = [k \in DOMAIN l |-> l[k]]
         /\ \A k \in DOMAIN l : l[k] \in Int
         /\ "time" \in DOMAIN l => l.time = l["time"] /\ l.time \in Int
BY DEF Limits

LEMMA LimitsMade ==
  ASSUME NEW l, l = [k \in DOMAIN l |-> l[k]], DOMAIN l \subseteq Keys,
         \A k \in DOMAIN l : l[k] \in Int
  PROVE  l \in Limits
<1>1. l \in [DOMAIN l -> Int]
  OBVIOUS
<1> QED
  BY <1>1 DEF Limits

LEMMA IsLimitsAre ==
  ASSUME NEW l, IsLimits(l) PROVE l \in Limits
BY DEF IsLimits, Limits

LEMMA OverTyped ==
  ASSUME NEW c \in Limits, NEW l \in Limits
  PROVE  /\ Over(c, l) \in Limits
         /\ DOMAIN Over(c, l) = DOMAIN c \cup DOMAIN l
         /\ \A k \in DOMAIN l : Over(c, l)[k] = l[k]
<1>1. /\ DOMAIN Over(c, l) = DOMAIN c \cup DOMAIN l
      /\ Over(c, l) = [k \in DOMAIN c \cup DOMAIN l |-> Over(c, l)[k]]
      /\ \A k \in DOMAIN l : Over(c, l)[k] = l[k]
      /\ \A k \in DOMAIN c \ DOMAIN l : Over(c, l)[k] = c[k]
  BY DEF Over
<1>2. \A k \in DOMAIN Over(c, l) : Over(c, l)[k] \in Int
  BY <1>1, LimitsFacts
<1>3. DOMAIN Over(c, l) \subseteq Keys
  BY <1>1, LimitsFacts
<1> QED
  BY <1>1, <1>2, <1>3, LimitsMade

LEMMA LiftedTyped ==
  ASSUME NEW c \in Limits, NEW l PROVE Lifted(c, l) \in Limits
<1>1. /\ DOMAIN Lifted(c, l) \subseteq DOMAIN c
      /\ Lifted(c, l) = [k \in DOMAIN Lifted(c, l) |-> Lifted(c, l)[k]]
      /\ \A k \in DOMAIN Lifted(c, l) : Lifted(c, l)[k] = c[k]
  BY DEF Lifted, Restrict
<1>2. /\ \A k \in DOMAIN Lifted(c, l) : Lifted(c, l)[k] \in Int
      /\ DOMAIN Lifted(c, l) \subseteq Keys
  BY <1>1, LimitsFacts
<1> QED
  BY <1>1, <1>2, LimitsMade

LEMMA NoLimitTyped == NoLimit \in Limits
<1>1. DOMAIN NoLimit = {} /\ NoLimit = [k \in DOMAIN NoLimit |-> NoLimit[k]]
  BY DEF NoLimit
<1> QED
  BY <1>1, LimitsMade

LEMMA MergedTyped == Merged \in Limits
<1>1. Base \in Limits /\ Called \in Limits
  BY LimitAssumption, IsLimitsAre
<1>2. Over(Lifted(NoLimit, Base), Lifted(Base, Base)) \in Limits
  BY <1>1, NoLimitTyped, LiftedTyped, OverTyped
<1> QED
  BY <1>1, <1>2, LiftedTyped, OverTyped DEF Merged

HasTime(l) == "time" \in DOMAIN l /\ l.time > 0

TimeIs(t) == [k \in {"time"} |-> t]

LEMMA TimeIsTyped ==
  ASSUME NEW t \in Int
  PROVE  TimeIs(t) \in Limits /\ DOMAIN TimeIs(t) = {"time"} /\ TimeIs(t)["time"] = t
<1>1. /\ DOMAIN TimeIs(t) = {"time"} /\ TimeIs(t)["time"] = t
      /\ TimeIs(t) = [k \in DOMAIN TimeIs(t) |-> TimeIs(t)[k]]
  BY DEF TimeIs
<1>2. DOMAIN TimeIs(t) \subseteq Keys
  BY <1>1, LimitAssumption DEF Quotas
<1> QED
  BY <1>1, <1>2, LimitsMade

LEMMA FinalTyped ==
  ASSUME NEW l \in Limits
  PROVE  Final(l) \in Limits /\ (SessionLimit = None => Final(l) = l)
<1>1. CASE SessionLimit = None
  BY <1>1 DEF Final
<1>2. CASE SessionLimit # None
  <2>1. SessionLimit \in Int
    BY <1>2, LimitAssumption
  <2>2. Final(l) = Over(l, TimeIs(SessionLimit))
    BY <1>2 DEF Final, TimeIs
  <2> QED
    BY <1>2, <2>1, <2>2, TimeIsTyped, OverTyped
<1> QED
  BY <1>1, <1>2

LEMMA LesserOf ==
  ASSUME NEW x \in Int, NEW y \in Int
  PROVE  Min({x, y}) \in Int /\ Min({x, y}) <= x /\ Min({x, y}) <= y
<1>1. \E z \in {x, y} : \A w \in {x, y} : z <= w
  OBVIOUS
<1> QED
  BY <1>1 DEF Min

\* The indices of documents are finitely many, and their times natural.
LEMMA DocsTimes ==
  ASSUME docs \in Seq(Document), NEW S \in SUBSET DOMAIN docs
  PROVE  /\ IsFiniteSet(S) /\ DOMAIN Times = DOMAIN docs
         /\ \A d \in S : Times[d] = docs[d].time /\ Times[d] \in Nat
         /\ SumFunctionOnSet(Times, S) \in Nat
<1>1. DOMAIN docs = 1..Len(docs) /\ Len(docs) \in Nat
  OBVIOUS
<1>2. IsFiniteSet(S)
  <2>1. IsFiniteSet(DOMAIN docs)
    BY <1>1, FS_Interval
  <2> QED
    BY <2>1, FS_Subset
<1>3. \A d \in DOMAIN docs : docs[d] \in Document
  OBVIOUS
<1>4. \A d \in S : Times[d] = docs[d].time /\ Times[d] \in Nat
  BY <1>3 DEF Times, Document
<1>5. SumFunctionOnSet(Times, S) \in Nat
  BY <1>2, <1>4, SumType
<1> QED
  BY <1>2, <1>4, <1>5 DEF Times

LEMMA ReducedTyped ==
  ASSUME docs \in Seq(Document), NEW l \in Limits, NEW u, NEW n
  PROVE  /\ Reduced(l, u, n) \in Limits
         /\ DOMAIN Reduced(l, u, n) = DOMAIN l
         /\ ("time" \in DOMAIN l /\ l.time # 0) =>
              Reduced(l, u, n).time
                = l.time - SumFunctionOnSet(Times, DocsSince(u, n))
<1> DEFINE open == {i \in DocsSince(u, n) : docs[i].open}
           t == SumFunctionOnSet(Times, DocsSince(u, n))
           used == [time |-> t, ports |-> Cardinality(open)]
           x == Reduced(l, u, n)
<1>1. /\ DocsSince(u, n) \in SUBSET DOMAIN docs
      /\ open \in SUBSET DOMAIN docs
  BY DEF DocsSince
<1>2. t \in Nat /\ IsFiniteSet(open)
  BY <1>1, DocsTimes
<1>3. Cardinality(open) \in Int
  BY <1>2, FS_CardinalityType
<1>4. used["time"] = t /\ used["ports"] = Cardinality(open)
  OBVIOUS
<1>5. /\ DOMAIN x = DOMAIN l /\ x = [k \in DOMAIN x |-> x[k]]
      /\ \A k \in DOMAIN l : x[k] = IF k \in Quotas /\ l[k] # 0
                                    THEN l[k] - used[k] ELSE l[k]
  BY DEF Reduced
<1> HIDE DEF used, x, t, open
<1>6. \A k \in Quotas : used[k] \in Int
  BY <1>2, <1>3, <1>4 DEF Quotas
<1>7. \A k \in DOMAIN x : x[k] \in Int
  BY <1>5, <1>6, LimitsFacts
<1>8. x \in Limits
  <2>1. DOMAIN x \subseteq Keys
    BY <1>5, LimitsFacts
  <2> QED
    BY <1>5, <1>7, <2>1, LimitsMade
<1>9. ("time" \in DOMAIN l /\ l.time # 0) => x.time = l.time - t
  BY <1>4, <1>5, LimitsFacts DEF Quotas
<1> QED
  BY <1>5, <1>8, <1>9 DEF x, t

\* What is left of an invoice is timed: by its end, and by its time.
LEMMA CappedTyped ==
  ASSUME NEW l \in Limits, NEW t \in Int
  PROVE  /\ Capped(l, t) \in Limits
         /\ DOMAIN Capped(l, t) = DOMAIN l \cup {"time"}
         /\ Capped(l, t).time <= t
         /\ "time" \in DOMAIN l => Capped(l, t).time <= l.time
<1> DEFINE m == IF "time" \in DOMAIN l THEN Min({l["time"], t}) ELSE t
<1>1. Capped(l, t) = Over(l, TimeIs(m))
  BY DEF Capped, TimeIs
<1>2. m \in Int /\ m <= t /\ ("time" \in DOMAIN l => m <= l.time)
  BY LimitsFacts, LesserOf
<1> HIDE DEF m
<1>3. /\ TimeIs(m) \in Limits /\ DOMAIN TimeIs(m) = {"time"}
      /\ TimeIs(m)["time"] = m
  BY <1>2, TimeIsTyped
<1>4. /\ Over(l, TimeIs(m)) \in Limits
      /\ DOMAIN Over(l, TimeIs(m)) = DOMAIN l \cup {"time"}
      /\ Over(l, TimeIs(m))["time"] = m
  BY <1>3, OverTyped
<1> QED
  BY <1>1, <1>2, <1>4, LimitsFacts
----------------------------------------------------------------------------
(* Access: types are kept *)

Stays(r, q) == q.mac = r.mac /\ q.now = r.now /\ q.pc # "idle"

\* What a handler does to the NAS and to the sessions.
Answers(r) ==
  \/ UNCHANGED nas
  \/ Reject(r)
  \/ \E l \in Limits, i \in 0..Len(invoices) : ~Exceeded(l) /\ Accept(r, l, i)

Inserts(r) ==
  \/ UNCHANGED sessions
  \/ r.pc = "insert" /\ sessions' = Append(sessions, Session(r))

Goal(a, q) == /\ q \in Handler /\ Handling(q) /\ Goes(a, q)
              /\ q = Idle \/ Stays(auth[a], q)

Works(a) == /\ auth[a].pc # "idle" /\ UNCHANGED <<now, billing>>
            /\ Answers(auth[a]) /\ Inserts(auth[a])
            /\ \E q : Goal(a, q)

LEMMA IdleTyped ==
  ASSUME AccessTyped PROVE Idle \in Handler /\ Handling(Idle)
<1>1. sessions \in Seq(RadSession) /\ invoices \in Seq(Invoice)
  BY DEF AccessTyped, BillingTyped
<1>2. Len(sessions) \in Nat /\ Len(invoices) \in Nat
  BY <1>1
<1>3. MaxTime \in Nat
  BY MaxAssumption
<1>4. Idle \in Handler
  BY <1>3, NoLimitTyped DEF Idle, Handler, Opt, Passwords
<1> QED
  BY <1>2, <1>4 DEF Handling, Idle

\* A handler under way, field by field.
LEMMA HandlerFacts ==
  ASSUME AccessTyped, NEW a \in Slots, NEW r, r = auth[a], r.pc # "idle"
  PROVE  /\ r \in Handler /\ Handling(r) /\ r.mac \in Macs /\ r.now \in Time
         /\ r.limit \in Limits /\ r.psw \in Passwords /\ r.password \in Passwords
         /\ r.session \in 0..Len(sessions) /\ r.invoice \in 0..Len(invoices)
         /\ r.at \in 0..MaxTime /\ r.now \in 0..MaxTime
         /\ UserOf[r.mac] \in Users
<1>1. r \in Handler /\ Handling(r)
  BY DEF AccessTyped
<1> QED
  BY <1>1, MacAssumption DEF Handler, Handling

LEMMA NowFacts ==
  ASSUME AccessTyped
  PROVE  /\ now \in Time /\ now \in Nat /\ now > 0 /\ MaxTime \in Nat
         /\ now \in 0..MaxTime
         /\ Len(invoices) \in Nat /\ Len(sessions) \in Nat /\ Len(docs) \in Nat
         /\ DOMAIN invoices = 1..Len(invoices) /\ DOMAIN sessions = 1..Len(sessions)
         /\ DOMAIN docs = 1..Len(docs)
BY MaxAssumption DEF AccessTyped, BillingTyped, Time

LEMMA NewestIs ==
  ASSUME AccessTyped, NEW m, NEW n
  PROVE  /\ Newest(Live(m, n)) \in 0..Len(sessions)
         /\ Newest(Live(m, n)) # 0 =>
              /\ Newest(Live(m, n)) \in DOMAIN sessions
              /\ sessions[Newest(Live(m, n))] \in RadSession
              /\ sessions[Newest(Live(m, n))].mac = m
              /\ sessions[Newest(Live(m, n))].limit \in Limits
<1>1. CASE Live(m, n) = {}
  BY <1>1, NowFacts DEF Newest
<1>2. CASE Live(m, n) # {}
  <2>1. Live(m, n) \in SUBSET (1..Len(sessions))
    BY NowFacts DEF Live
  <2>2. Newest(Live(m, n)) \in Live(m, n)
    BY <1>2, <2>1, MaxIn, NowFacts DEF Newest
  <2>3. \A k \in DOMAIN sessions : sessions[k] \in RadSession
    BY DEF AccessTyped
  <2> HIDE DEF Newest
  <2>4. Newest(Live(m, n)) \in DOMAIN sessions /\ sessions[Newest(Live(m, n))].mac = m
    BY <2>2 DEF Live
  <2> QED
    BY <2>3, <2>4, NowFacts DEF RadSession
<1> QED
  BY <1>1, <1>2

\* A handler that goes on.
LEMMA GoesTyped ==
  ASSUME AccessTyped, NEW a \in Slots, auth[a].pc # "idle",
         NEW q, Goes(a, q), UNCHANGED <<now, billing, sessions, nas>>,
         q \in Handler, Stays(auth[a], q),
         q.session \in 0..Len(sessions), q.invoice \in 0..Len(invoices),
         q.pc = "reduce" => q.session # 0, q.pc = "billing" => q.invoice # 0
  PROVE  Works(a)
<1>1. Handling(q)
  BY HandlerFacts DEF Stays, Handling
<1> QED
  BY <1>1 DEF Works, Goal, Answers, Inserts

LEMMA LookupTyped ==
  ASSUME AccessTyped, NEW a \in Slots,
         KnownPassword(a) \/ OneTimePassword(a) \/ ByMac(a)
  PROVE  Works(a)
<1> DEFINE r == auth[a]
           s == Newest(Live(r.mac, r.now))
<1>1. r.pc = "lookup" /\ r.pc # "idle"
  BY DEF KnownPassword, OneTimePassword, ByMac
<1>2. r \in Handler
  BY <1>1, HandlerFacts
<1>3. s \in 0..Len(sessions) /\ s \in Nat /\ (s # 0 => sessions[s].limit \in Limits)
  BY NewestIs
<1>4. r.invoice \in 0..Len(invoices)
  BY <1>1, HandlerFacts
<1>5. CASE KnownPassword(a)
  <2> DEFINE q == [r EXCEPT !.pc = "limits", !.session = s, !.psw = r.password]
  <2>1. Goes(a, q) /\ UNCHANGED <<now, billing, sessions, nas>>
    BY <1>5 DEF KnownPassword
  <2>2. q \in Handler /\ Stays(r, q) /\ q.session = s /\ q.invoice = r.invoice
        /\ q.pc \in {"limits", "device"}
    BY <1>2, <1>3 DEF Handler, Stays
  <2> HIDE DEF q, s
  <2> QED
    BY <1>1, <1>3, <1>4, <2>1, <2>2, GoesTyped
<1>6. CASE OneTimePassword(a)
  <2> DEFINE q == [r EXCEPT !.pc = "device", !.session = s, !.psw = r.password]
  <2>1. Goes(a, q) /\ UNCHANGED <<now, billing, sessions, nas>>
    BY <1>6 DEF OneTimePassword
  <2>2. q \in Handler /\ Stays(r, q) /\ q.session = s /\ q.invoice = r.invoice
        /\ q.pc \in {"limits", "device"}
    BY <1>2, <1>3 DEF Handler, Stays
  <2> HIDE DEF q, s
  <2> QED
    BY <1>1, <1>3, <1>4, <2>1, <2>2, GoesTyped
<1>7. CASE ByMac(a)
  <2> DEFINE c == IF sessions[s].limit = NoLimit THEN "device" ELSE "reduce"
             q == [r EXCEPT !.pc = c, !.session = s, !.limit = sessions[s].limit]
  <2>1. Goes(a, q) /\ UNCHANGED <<now, billing, sessions, nas>> /\ s # 0
    BY <1>7 DEF ByMac
  <2>2. q \in Handler /\ Stays(r, q) /\ q.session = s /\ q.invoice = r.invoice
        /\ q.pc \in {"device", "reduce"}
    BY <1>2, <1>3, <2>1 DEF Handler, Stays
  <2> HIDE DEF q, s
  <2> QED
    BY <1>1, <1>3, <1>4, <2>1, <2>2, GoesTyped
<1> QED
  BY <1>5, <1>6, <1>7

\* A handler that ends.
LEMMA DoneTyped ==
  ASSUME AccessTyped, NEW a \in Slots, auth[a].pc # "idle", Done(a),
         UNCHANGED <<now, billing>>, Answers(auth[a]), Inserts(auth[a])
  PROVE  Works(a)
<1>1. Goal(a, Idle)
  BY IdleTyped DEF Goal, Done, Goes
<1> QED
  BY <1>1 DEF Works

LEMMA SessionTyped ==
  ASSUME AccessTyped, NEW a \in Slots, auth[a].pc # "idle"
  PROVE  Session(auth[a]) \in RadSession
<1> DEFINE r == auth[a]
           t == IF "time" \in DOMAIN r.limit THEN r.limit.time ELSE Expires
<1>1. t \in Int
  BY HandlerFacts, LimitsFacts, AccessAssumption
<1>2. r.now + t \in Int
  BY <1>1, HandlerFacts DEF Time
<1> HIDE DEF t
<1>3. Session(r) = [mac |-> r.mac, password |-> r.psw, limit |-> r.limit,
                    start |-> r.now, stop |-> r.now + t, invoice |-> r.invoice]
  BY DEF Session, t
<1>4. r.invoice \in Nat
  BY HandlerFacts, NowFacts
<1> HIDE DEF r
<1> QED
  BY <1>2, <1>3, <1>4, HandlerFacts DEF RadSession, r

LEMMA WritesTyped ==
  ASSUME AccessTyped, NEW a \in Slots, Insert(a) \/ Cancel(a) \/ Refuse(a)
  PROVE  Works(a)
<1> DEFINE r == auth[a]
<1>1. r.pc # "idle" /\ Done(a) /\ UNCHANGED <<now, billing>>
  BY DEF Insert, Cancel, Refuse
<1>2. CASE Refuse(a)
  <2>1. Answers(r) /\ Inserts(r)
    BY <1>2 DEF Refuse, Answers, Inserts
  <2> QED
    BY <1>1, <2>1, DoneTyped
<1>3. CASE Cancel(a)
  <2>1. Answers(r) /\ Inserts(r)
    BY <1>3 DEF Cancel, Answers, Inserts
  <2> QED
    BY <1>1, <2>1, DoneTyped
<1>4. CASE Insert(a)
  <2>1. r.limit \in Limits /\ r.invoice \in 0..Len(invoices)
    BY <1>1, HandlerFacts
  <2>2. Answers(r)
    BY <1>4, <2>1 DEF Insert, Answers
  <2>3. Inserts(r)
    BY <1>4 DEF Insert, Inserts
  <2> QED
    BY <1>1, <2>2, <2>3, DoneTyped
<1> QED
  BY <1>2, <1>3, <1>4

LEMMA ReduceTyped ==
  ASSUME AccessTyped, NEW a \in Slots, Reduce(a)
  PROVE  Works(a)
<1> DEFINE r == auth[a]
           s == sessions[r.session]
           l == Reduced(r.limit, UserOf[r.mac], s.start)
<1>1. /\ r.pc # "idle" /\ UNCHANGED <<now, billing, sessions>>
  BY DEF Reduce
<1>2. l \in Limits
  BY <1>1, HandlerFacts, ReducedTyped DEF AccessTyped
<1>3. s \in RadSession /\ s.invoice <= Len(invoices)
  <2>1. r.pc = "reduce"
    BY DEF Reduce
  <2>2. r.session \in DOMAIN sessions
    BY <1>1, <2>1, HandlerFacts, NowFacts DEF Handling
  <2> QED
    BY <2>2 DEF AccessTyped
<1>4. s.invoice \in 0..Len(invoices)
  BY <1>3, NowFacts DEF RadSession
<1>5. CASE Exceeded(l)
  <2> DEFINE q == [r EXCEPT !.pc = "device"]
  <2>1. Goes(a, q) /\ UNCHANGED nas
    BY <1>5 DEF Reduce
  <2>2. r \in Handler /\ r.session \in 0..Len(sessions) /\ r.invoice \in 0..Len(invoices)
    BY <1>1, HandlerFacts
  <2>3. /\ q \in Handler /\ Stays(r, q) /\ q.session = r.session
        /\ q.invoice = r.invoice /\ q.pc = "device"
    BY <2>2 DEF Handler, Stays
  <2> HIDE DEF q, l
  <2> QED
    BY <1>1, <2>1, <2>2, <2>3, GoesTyped
<1>6. CASE ~Exceeded(l)
  <2>1. Done(a) /\ Accept(r, l, s.invoice)
    BY <1>6 DEF Reduce
  <2>2. Answers(r) /\ Inserts(r)
    <3> HIDE DEF l, r, s
    <3> QED
      BY <1>1, <1>2, <1>4, <1>6, <2>1 DEF Answers, Inserts
  <2> QED
    BY <1>1, <2>1, <2>2, DoneTyped
<1> QED
  BY <1>5, <1>6

LEMMA FindDeviceTyped ==
  ASSUME AccessTyped, NEW a \in Slots, FindDevice(a) PROVE Works(a)
<1> DEFINE r == auth[a]
           q == [r EXCEPT !.pc = "limits"]
<1>1. r.pc # "idle" /\ UNCHANGED <<now, billing, sessions>>
  BY DEF FindDevice
<1>2. r \in Handler /\ r.session \in 0..Len(sessions) /\ r.invoice \in 0..Len(invoices)
  BY <1>1, HandlerFacts
<1>3. /\ q \in Handler /\ Stays(r, q) /\ q.session = r.session
      /\ q.invoice = r.invoice /\ q.pc = "limits"
  BY <1>2 DEF Handler, Stays
<1>4. CASE r.mac \in checked
  <2>1. Goes(a, q) /\ UNCHANGED nas
    BY <1>4 DEF FindDevice
  <2> HIDE DEF q
  <2> QED
    BY <1>1, <1>2, <1>3, <2>1, GoesTyped
<1>5. CASE r.mac \notin checked
  <2>1. Done(a) /\ Answers(r) /\ Inserts(r)
    BY <1>5 DEF FindDevice, Answers, Inserts
  <2> QED
    BY <1>1, <2>1, DoneTyped
<1> QED
  BY <1>4, <1>5

\* The first invoice of some.
LEMMA MinIn ==
  ASSUME NEW S \in SUBSET Nat, S # {} PROVE Min(S) \in S
<1>1. \E x \in S : \A y \in S : x <= y
  BY Least
<1> QED
  BY <1>1 DEF Min

LEMMA FindLimitsTyped ==
  ASSUME AccessTyped, NEW a \in Slots, FindLimits(a) PROVE Works(a)
<1> DEFINE r == auth[a]
           found == IF Payable THEN Active(UserOf[r.mac], now) ELSE {}
<1>1. r.pc # "idle" /\ UNCHANGED <<now, billing, sessions, nas>>
  BY DEF FindLimits
<1>2. r \in Handler /\ r.session \in 0..Len(sessions) /\ r.invoice \in 0..Len(invoices)
  BY <1>1, HandlerFacts
<1>3. CASE found = {}
  <2> DEFINE q == [r EXCEPT !.pc = "insert", !.limit = Final(Merged)]
  <2>1. Goes(a, q)
    BY <1>3 DEF FindLimits
  <2>2. Final(Merged) \in Limits
    BY MergedTyped, FinalTyped
  <2>3. /\ q \in Handler /\ Stays(r, q) /\ q.session = r.session
        /\ q.invoice = r.invoice /\ q.pc = "insert"
    BY <1>2, <2>2 DEF Handler, Stays
  <2> HIDE DEF q
  <2> QED
    BY <1>1, <1>2, <2>1, <2>3, GoesTyped
<1>4. CASE found # {}
  <2> DEFINE q == [r EXCEPT !.pc = "billing", !.at = now, !.invoice = Min(found)]
  <2>1. Goes(a, q)
    BY <1>4 DEF FindLimits
  <2>2. /\ Min(found) \in 0..Len(invoices) /\ Min(found) \in Nat
        /\ Min(found) # 0
    <3>1. found \in SUBSET (1..Len(invoices))
      BY NowFacts DEF Active
    <3>2. Min(found) \in found
      BY <1>4, <3>1, MinIn, NowFacts
    <3>3. Min(found) \in 1..Len(invoices)
      BY <3>1, <3>2
    <3> HIDE DEF found
    <3> QED
      BY <3>3, NowFacts
  <2>3. /\ q \in Handler /\ Stays(r, q) /\ q.session = r.session
        /\ q.invoice = Min(found) /\ q.pc = "billing"
    BY <1>2, <2>2, NowFacts DEF Handler, Stays
  <2> HIDE DEF q, found
  <2> QED
    BY <1>1, <1>2, <2>1, <2>2, <2>3, GoesTyped
<1> QED
  BY <1>3, <1>4

LEMMA InvoiceTyped ==
  ASSUME AccessTyped, NEW i \in DOMAIN invoices
  PROVE  /\ invoices[i] \in Invoice /\ invoices[i].limit \in Limits
         /\ invoices[i].user \in Users /\ invoices[i].start \in Time
         /\ invoices[i].stop \in Nat
<1>1. invoices[i] \in Invoice /\ IsLimits(invoices[i].limit)
  BY DEF AccessTyped, BillingTyped
<1> QED
  BY <1>1, IsLimitsAre DEF Invoice

\* What is left of an invoice at time n.
LEMMA RemainingTyped ==
  ASSUME AccessTyped, NEW i \in DOMAIN invoices, NEW n \in Nat
  PROVE  /\ Remaining(i, n) \in Limits
         /\ "time" \in DOMAIN Remaining(i, n)
         /\ Remaining(i, n).time \in Int
         /\ Remaining(i, n).time <= invoices[i].stop - n + Grace
         /\ HasTime(invoices[i].limit) =>
              Remaining(i, n).time <= invoices[i].limit.time
                - SumFunctionOnSet(Times, DocsSince(invoices[i].user, invoices[i].start))
<1> DEFINE l == invoices[i].limit
           u == invoices[i].user
           x == Reduced(l, u, invoices[i].start)
           t == invoices[i].stop - n + Grace
           sum == SumFunctionOnSet(Times, DocsSince(u, invoices[i].start))
<1>1. l \in Limits /\ t \in Int
  BY InvoiceTyped, AccessAssumption
<1>2. x \in Limits /\ DOMAIN x = DOMAIN l /\ (HasTime(l) => x.time = l.time - sum)
  <2>1. docs \in Seq(Document)
    BY DEF AccessTyped
  <2>2. HasTime(l) => l.time # 0
    BY <1>1, LimitsFacts DEF HasTime
  <2> QED
    BY <1>1, <2>1, <2>2, ReducedTyped DEF HasTime
<1>3. Remaining(i, n) = Capped(x, t)
  BY DEF Remaining
<1>4. /\ Capped(x, t) \in Limits /\ DOMAIN Capped(x, t) = DOMAIN x \cup {"time"}
      /\ Capped(x, t).time <= t
      /\ "time" \in DOMAIN x => Capped(x, t).time <= x.time
  <2> HIDE DEF x, t
  <2> QED
    BY <1>1, <1>2, CappedTyped
<1>5. Capped(x, t).time \in Int
  <2> HIDE DEF x, t
  <2> QED
    BY <1>4, LimitsFacts
<1> QED
  BY <1>2, <1>3, <1>4, <1>5 DEF HasTime

LEMMA BillTyped ==
  ASSUME AccessTyped, NEW a \in Slots, Bill(a)
  PROVE  Works(a)
<1> DEFINE r == auth[a]
           l == Remaining(r.invoice, r.at)
           lifted == Lifted(Merged, invoices[r.invoice].limit)
           f == Final(IF Applies(l) THEN Over(lifted, l) ELSE lifted)
           k == IF Applies(l) THEN r.invoice ELSE 0
           q == [r EXCEPT !.pc = "insert", !.limit = f, !.invoice = k]
<1>1. r.pc # "idle" /\ UNCHANGED <<now, billing, sessions, nas>> /\ Goes(a, q)
  BY DEF Bill
<1>2. r \in Handler /\ r.session \in 0..Len(sessions) /\ r.invoice \in 0..Len(invoices)
  BY <1>1, HandlerFacts
<1>3. f \in Limits
  <2>5. r.pc = "billing"
    BY DEF Bill
  <2>6. r.invoice \in DOMAIN invoices
    BY <1>1, <2>5, HandlerFacts, NowFacts DEF Handling
  <2>1. r.at \in Nat
    BY <1>1, HandlerFacts, NowFacts
  <2>2. l \in Limits
    BY <2>1, <2>6, RemainingTyped
  <2>3. lifted \in Limits
    BY MergedTyped, LiftedTyped
  <2> HIDE DEF l, lifted
  <2>4. Over(lifted, l) \in Limits
    BY <2>2, <2>3, OverTyped
  <2> QED
    BY <2>3, <2>4, FinalTyped
<1>4. k \in 0..Len(invoices) /\ k \in Nat
  BY <1>2, NowFacts
<1> HIDE DEF f, k
<1>5. /\ q \in Handler /\ Stays(r, q) /\ q.session = r.session
      /\ q.invoice = k /\ q.pc = "insert"
  BY <1>2, <1>3, <1>4 DEF Handler, Stays
<1> HIDE DEF q
<1> QED
  BY <1>1, <1>2, <1>4, <1>5, GoesTyped

LEMMA HandleWorks ==
  ASSUME AccessTyped, NEW a \in Slots, Handle(a)
  PROVE  /\ Works(a)
         /\ checked' = checked /\ unmarked' = unmarked /\ marks' \subseteq Macs
<1>1. Works(a)
  BY LookupTyped, WritesTyped, ReduceTyped, FindDeviceTyped, FindLimitsTyped,
     BillTyped DEF Handle
<1>2. checked' = checked /\ unmarked' = unmarked
  BY DEF Handle, KnownPassword, OneTimePassword, ByMac, Refuse, Reduce,
         FindDevice, FindLimits, Bill, Insert, Cancel
<1>3. marks' = marks \/ marks' = marks \cup {auth[a].mac}
  <2>1. KnownPassword(a) => marks' = marks \cup {auth[a].mac}
    BY DEF KnownPassword, Marked
  <2>2. Handle(a) /\ ~KnownPassword(a) => marks' = marks
    BY DEF Handle, OneTimePassword, ByMac, Refuse, Reduce, FindDevice,
           FindLimits, Bill, Insert, Cancel
  <2> QED
    BY <2>1, <2>2
<1>4. auth[a].mac \in Macs
  BY <1>1, HandlerFacts DEF Works
<1> QED
  BY <1>1, <1>2, <1>3, <1>4 DEF AccessTyped

\* The session a device begins.
Began(r, l, i) ==
  [mac |-> r.mac, user |-> UserOf[r.mac], start |-> now, time |-> 0,
   open |-> TRUE, limit |-> l, invoice |-> i, byMac |-> r.byMac]

LEMMA AnswerCases ==
  ASSUME AccessTyped, NEW a \in Slots, Works(a)
  PROVE  LET r == auth[a]
         IN  /\ asking' \subseteq asking
             /\ \/ docs' = docs
                \/ /\ r.mac \in asking /\ r.mac \notin asking'
                   /\ \E l \in Limits, i \in 0..Len(invoices) :
                        /\ ~Exceeded(l) /\ Began(r, l, i) \in Document
                        /\ docs' = Append(docs, Began(r, l, i))
<1> DEFINE r == auth[a]
<1>1. Answers(r) /\ r.pc # "idle"
  BY DEF Works
<1>2. ASSUME NEW l \in Limits, NEW i \in 0..Len(invoices)
      PROVE  Began(r, l, i) \in Document
  <2>1. /\ r.mac \in Macs /\ r.byMac \in BOOLEAN /\ UserOf[r.mac] \in Users
        /\ now \in Time /\ i \in Nat
    BY <1>1, <1>2, HandlerFacts, NowFacts DEF Handler
  <2> HIDE DEF r
  <2> QED
    BY <2>1 DEF Began, Document
<1>3. CASE UNCHANGED nas \/ Reject(r)
  BY <1>3 DEF nas, Reject
<1>4. ASSUME NEW l \in Limits, NEW i \in 0..Len(invoices), ~Exceeded(l),
             Accept(r, l, i)
      PROVE  /\ asking' \subseteq asking
             /\ \/ docs' = docs
                \/ /\ r.mac \in asking /\ r.mac \notin asking'
                   /\ ~Exceeded(l) /\ Began(r, l, i) \in Document
                   /\ docs' = Append(docs, Began(r, l, i))
  <2>1. asking' = asking \ {r.mac}
    BY <1>4 DEF Accept
  <2>2. docs' = docs \/ (r.mac \in asking /\ docs' = Append(docs, Began(r, l, i)))
    BY <1>4 DEF Accept, Began
  <2> QED
    BY <1>2, <1>4, <2>1, <2>2
<1> QED
  BY <1>1, <1>3, <1>4 DEF Answers

LEMMA WorksKeepsTypes ==
  ASSUME AccessTyped, NEW a \in Slots, Works(a),
         checked' = checked, unmarked' = unmarked, marks' \subseteq Macs
  PROVE  AccessTyped'
<1> DEFINE r == auth[a]
<1>1. UNCHANGED <<now, billing>> /\ invoices' = invoices /\ r.pc # "idle"
  BY DEF Works, billing
<1>2. BillingTyped'
  BY <1>1 DEF AccessTyped, BillingTyped, billing, CallKnows, RedeemKnows
<1>3. /\ asking' \subseteq Macs /\ docs' \in Seq(Document)
      /\ \A d \in DOMAIN docs' : docs'[d].invoice <= Len(invoices')
  <2>1. CASE asking' \subseteq asking /\ docs' = docs
    BY <1>1, <2>1 DEF AccessTyped
  <2>2. ASSUME NEW l \in Limits, NEW i \in 0..Len(invoices), NEW x,
               x \in Document, x.invoice = i, docs' = Append(docs, x)
        PROVE  /\ docs' \in Seq(Document)
               /\ \A d \in DOMAIN docs' : docs'[d].invoice <= Len(invoices')
    <3>1. docs \in Seq(Document) /\ \A d \in DOMAIN docs : docs[d].invoice <= Len(invoices)
      BY DEF AccessTyped
    <3>2. i <= Len(invoices)
      BY NowFacts
    <3>3. \A d \in DOMAIN docs' : docs'[d] = x \/ (d \in DOMAIN docs /\ docs'[d] = docs[d])
      BY <2>2, <3>1
    <3>4. docs' \in Seq(Document)
      BY <2>2, <3>1
    <3> QED
      BY <1>1, <2>2, <3>1, <3>2, <3>3, <3>4
  <2>3. \A l, i : Began(r, l, i).invoice = i
    BY DEF Began
  <2>4. asking \subseteq Macs
    BY DEF AccessTyped
  <2> QED
    BY <2>1, <2>2, <2>3, <2>4, AnswerCases
<1>4. /\ sessions' \in Seq(RadSession) /\ Len(sessions) <= Len(sessions')
      /\ Len(sessions') \in Nat
      /\ \A k \in DOMAIN sessions' : sessions'[k].invoice <= Len(invoices')
  <2>1. /\ sessions \in Seq(RadSession) /\ Len(sessions) \in Nat
        /\ \A k \in DOMAIN sessions : sessions[k].invoice <= Len(invoices)
    BY NowFacts DEF AccessTyped
  <2>2. CASE sessions' = sessions
    BY <1>1, <2>1, <2>2
  <2>3. CASE sessions' = Append(sessions, Session(r))
    <3> DEFINE x == Session(r)
    <3>1. x \in RadSession /\ x.invoice = r.invoice /\ r.invoice <= Len(invoices)
      BY <1>1, SessionTyped, HandlerFacts, NowFacts DEF Session
    <3>2. sessions' = Append(sessions, x)
      BY <2>3
    <3> HIDE DEF x
    <3>3. sessions' \in Seq(RadSession) /\ Len(sessions') = Len(sessions) + 1
      BY <2>1, <3>1, <3>2
    <3>4. \A k \in DOMAIN sessions' : sessions'[k] = x
            \/ (k \in DOMAIN sessions /\ sessions'[k] = sessions[k])
      BY <2>1, <3>2
    <3> QED
      BY <1>1, <2>1, <3>1, <3>3, <3>4
  <2> QED
    BY <2>2, <2>3 DEF Works, Inserts
<1>5. /\ auth' \in [Slots -> Handler]
      /\ \A b \in Slots : Handling(auth[b])'
  <2>1. PICK q : Goal(a, q)
    BY DEF Works
  <2>2. auth' = [auth EXCEPT ![a] = q] /\ q \in Handler /\ Handling(q)
    BY <2>1 DEF Goal, Goes
  <2>3. auth \in [Slots -> Handler] /\ \A b \in Slots : Handling(auth[b])
    BY DEF AccessTyped
  <2>4. auth' \in [Slots -> Handler]
    BY <2>2, <2>3
  <2>5. ASSUME NEW b \in Slots PROVE Handling(auth[b])'
    <3>1. Handling(auth'[b])
      BY <2>2, <2>3
    <3>2. auth'[b] \in Handler
      BY <2>4
    <3> QED
      BY <1>1, <1>4, <3>1, <3>2, NowFacts DEF Handling, Handler
  <2> QED
    BY <2>4, <2>5
<1> QED
  BY <1>2, <1>3, <1>4, <1>5 DEF AccessTyped

LEMMA DocumentFacts ==
  ASSUME AccessTyped, NEW d \in DOMAIN docs
  PROVE  /\ docs[d] \in Document /\ docs[d].invoice \in 0..Len(invoices)
         /\ docs[d].invoice \in Nat /\ docs[d].time \in Nat /\ docs[d].start \in Nat
         /\ docs[d].limit \in Limits /\ docs[d].mac \in Macs
<1>1. docs \in Seq(Document) /\ docs[d].invoice <= Len(invoices)
  BY DEF AccessTyped
<1>2. docs[d] \in Document
  BY <1>1
<1> QED
  BY <1>1, <1>2, NowFacts DEF Document, Time

LEMMA SessionFacts ==
  ASSUME AccessTyped, NEW k \in DOMAIN sessions
  PROVE  /\ sessions[k] \in RadSession /\ sessions[k].invoice \in 0..Len(invoices)
         /\ sessions[k].invoice \in Nat /\ sessions[k].start \in Nat
         /\ sessions[k].limit \in Limits /\ sessions[k].mac \in Macs
<1>1. sessions \in Seq(RadSession) /\ sessions[k].invoice <= Len(invoices)
  BY DEF AccessTyped
<1>2. sessions[k] \in RadSession
  BY <1>1
<1> QED
  BY <1>1, <1>2, NowFacts DEF RadSession, Time

\* The portal only adds invoices.
Grows == /\ Len(invoices') \in Nat /\ Len(invoices) <= Len(invoices')
         /\ \A i \in DOMAIN invoices : i \in DOMAIN invoices'
                                       /\ invoices'[i] = invoices[i]

LEMMA PortalGrows ==
  ASSUME BillingTyped, Portal PROVE Grows /\ now' = now
<1>0. Len(invoices) \in Nat /\ DOMAIN invoices = 1..Len(invoices)
  BY DEF BillingTyped
<1>1. ASSUME NEW u, NEW t, NEW n, NEW v, Issue(u, t, n, v) PROVE Grows
  <2>1. /\ DOMAIN invoices' = 1..(Len(invoices) + 1)
        /\ \A i \in DOMAIN invoices : invoices'[i] = invoices[i]
    BY <1>1, IssueAdds
  <2>2. Len(invoices') = Len(invoices) + 1
    <3> DEFINE x == [user |-> u, start |-> n, stop |-> Stop(t, n),
                     voucher |-> v, limit |-> t.limit]
    <3>1. invoices' = Append(invoices, x)
      BY <1>1 DEF Issue
    <3> HIDE DEF x
    <3> QED
      BY <3>1 DEF BillingTyped
  <2> QED
    BY <1>0, <2>1, <2>2 DEF Grows
<1>2. UNCHANGED invoices => Grows
  BY <1>0 DEF Grows
<1>3. ASSUME NEW c \in Calls, InsertInvoice(c) PROVE Grows /\ now' = now
  BY <1>1, <1>3 DEF InsertInvoice
<1>4. ASSUME NEW r \in Redeems, InsertPaid(r) PROVE Grows /\ now' = now
  BY <1>1, <1>4 DEF InsertPaid
<1>5. ASSUME NEW c \in Calls, (\E u \in Users : Ask(c, u)) \/ FindInvoice(c)
      PROVE  UNCHANGED <<now, invoices>>
  BY <1>5 DEF Ask, FindInvoice
<1>6. ASSUME NEW r \in Redeems, \/ \E u \in Users, v \in Vouchers : Enter(r, u, v)
                                \/ Claim(r) \/ NoTariff(r)
      PROVE  UNCHANGED <<now, invoices>>
  BY <1>6 DEF Enter, Claim, NoTariff
<1>7. HttpCrash => UNCHANGED <<now, invoices>>
  BY DEF HttpCrash
<1> QED
  BY <1>2, <1>3, <1>4, <1>5, <1>6, <1>7 DEF Portal

LEMMA GrowsKeepsTypes ==
  ASSUME AccessTyped, BillingTyped', Grows, Outside PROVE AccessTyped'
<1>1. /\ UNCHANGED <<checked, marks, sessions, auth, asking, docs, unmarked>>
      /\ Len(invoices) \in Nat
  BY NowFacts DEF Outside, nas
<1>2. \A k \in DOMAIN sessions' : sessions'[k].invoice <= Len(invoices')
  <2>1. \A k \in DOMAIN sessions : sessions[k].invoice \in Nat
    BY SessionFacts
  <2> QED
    BY <1>1, <2>1 DEF AccessTyped, Grows
<1>3. \A d \in DOMAIN docs' : docs'[d].invoice <= Len(invoices')
  <2>1. \A d \in DOMAIN docs : docs[d].invoice \in Nat
    BY DocumentFacts
  <2> QED
    BY <1>1, <2>1 DEF AccessTyped, Grows
<1>4. \A a \in Slots : Handling(auth[a])'
  <2> TAKE a \in Slots
  <2>1. Handling(auth[a]) /\ auth'[a] = auth[a]
    BY <1>1 DEF AccessTyped
  <2> QED
    BY <1>1, <2>1, NowFacts DEF Handling, Grows
<1> QED
  BY <1>1, <1>2, <1>3, <1>4 DEF AccessTyped

\* Billing sees nothing of Access but its clock.
LEMMA BillingSteps ==
  ASSUME [Next]_vars
  PROVE  [BillingNext]_bvars
<1>1. CASE Portal /\ Outside
  BY <1>1 DEF BillingNext
<1>2. CASE Tick
  BY <1>2 DEF Tick, BillingNext, Days
<1>3. ASSUME NEW a \in Slots, Handle(a) PROVE UNCHANGED bvars
  BY <1>3 DEF Handle, KnownPassword, OneTimePassword, ByMac, Refuse, Reduce,
              FindDevice, FindLimits, Bill, Insert, Cancel, bvars, billing
<1>4. ASSUME NEW a \in Slots, NEW m \in Macs, NEW b, NEW p, Receive(a, m, b, p)
      PROVE UNCHANGED bvars
  BY <1>4 DEF Receive, bvars, billing
<1>5. ASSUME \/ \E m \in Macs : Check(m)
             \/ \E m \in marks : MarkLands(m) \/ MarkLost(m)
             \/ \E d \in DOMAIN docs : End(d)
             \/ AuthCrash \/ UNCHANGED vars
      PROVE UNCHANGED bvars
  BY <1>5 DEF Check, MarkLands, MarkLost, End, AuthCrash, vars, bvars, billing
<1> QED
  BY <1>1, <1>2, <1>3, <1>4, <1>5 DEF Next

\* The steps that write only what happens to devices and marks.
Aside == /\ UNCHANGED <<now, billing, sessions, auth, nas>>
         /\ checked' \subseteq Macs /\ marks' \subseteq Macs /\ unmarked' \subseteq Macs

Received(m, byMac, p) ==
  [Idle EXCEPT !.pc = "lookup", !.mac = m, !.byMac = byMac, !.password = p,
               !.now = now]

LEMMA ReceivedTyped ==
  ASSUME AccessTyped, NEW m \in Macs, NEW b \in BOOLEAN, NEW p \in Passwords
  PROVE  /\ Received(m, b, p) \in Handler /\ Handling(Received(m, b, p))
         /\ Received(m, b, p).mac = m /\ Received(m, b, p).now = now
         /\ Received(m, b, p).pc = "lookup" /\ Received(m, b, p).invoice = 0
         /\ Received(m, b, p).byMac = b
<1> DEFINE q == Received(m, b, p)
<1>1. Idle \in Handler /\ Idle.session = 0 /\ Idle.invoice = 0
  BY IdleTyped DEF Idle
<1>2. now \in 0..MaxTime /\ now \in Time
  BY NowFacts
<1>3. q = [Idle EXCEPT !.pc = "lookup", !.mac = m, !.byMac = b, !.password = p,
                      !.now = now]
  BY DEF Received
<1> HIDE DEF q, Idle
<1>4. /\ q \in Handler /\ q.session = 0 /\ q.invoice = 0 /\ q.mac = m
      /\ q.now = now /\ q.pc = "lookup" /\ q.byMac = b
  BY <1>1, <1>2, <1>3 DEF Handler, Opt
<1>5. Handling(q)
  BY <1>2, <1>4, NowFacts DEF Handling
<1> QED
  BY <1>4, <1>5 DEF q

\* Every step, by what it does to the sessions, the handlers and the NAS.
LEMMA StepForms ==
  ASSUME AccessTyped, [Next]_vars
  PROVE  \/ Portal /\ Outside
         \/ Aside
         \/ \E a \in Slots, m \in Macs, b \in BOOLEAN, p \in Passwords :
              Receive(a, m, b, p)
         \/ \E a \in Slots : Handle(a)
         \/ \E d \in DOMAIN docs : End(d)
         \/ AuthCrash \/ Tick
<1>1. \A p \in 1..now \cup {Pw} : p \in Passwords
  BY NowFacts DEF Passwords, Time
<1>2. Wrong \in Passwords
  BY DEF Passwords
<1>3. ASSUME \/ \E m \in Macs : Check(m)
             \/ \E m \in marks : MarkLands(m) \/ MarkLost(m)
             \/ UNCHANGED vars
      PROVE  Aside
  BY <1>3 DEF Check, MarkLands, MarkLost, vars, Aside, billing, nas, AccessTyped
<1> QED
  BY <1>1, <1>2, <1>3 DEF Next

LEMMA TypesKept ==
  ASSUME AccessTyped, [Next]_vars PROVE AccessTyped'
<1>1. BillingTyped'
  BY BillingSteps, TypedNext DEF AccessTyped
<1>2. CASE Portal /\ Outside
  BY <1>1, <1>2, PortalGrows, GrowsKeepsTypes DEF AccessTyped
<1>3. CASE Aside
  BY <1>1, <1>3 DEF Aside, AccessTyped, Handling, billing, nas
<1>4. ASSUME NEW a \in Slots, NEW m \in Macs, NEW b \in BOOLEAN, NEW p \in Passwords,
             Receive(a, m, b, p)
      PROVE  AccessTyped'
  <2> DEFINE q == Received(m, b, p)
  <2>1. /\ UNCHANGED <<checked, marks, unmarked, sessions, docs, invoices>>
        /\ asking' = asking \cup {m} /\ auth' = [auth EXCEPT ![a] = q]
    BY <1>4 DEF Receive, Received, billing
  <2>2. q \in Handler /\ Handling(q)
    BY ReceivedTyped
  <2> HIDE DEF q
  <2> QED
    BY <1>1, <2>1, <2>2 DEF AccessTyped, Handling
<1>5. ASSUME NEW a \in Slots, Handle(a) PROVE AccessTyped'
  BY <1>5, HandleWorks, WorksKeepsTypes
<1>6. ASSUME NEW d \in DOMAIN docs, End(d) PROVE AccessTyped'
  <2>1. /\ UNCHANGED <<checked, marks, unmarked, sessions, auth, asking, invoices>>
        /\ docs' = [docs EXCEPT ![d].open = FALSE]
    BY <1>6 DEF End, billing
  <2>2. docs \in Seq(Document) /\ \A e \in DOMAIN docs : docs[e].invoice <= Len(invoices)
    BY DEF AccessTyped
  <2>3. [docs[d] EXCEPT !.open = FALSE] \in Document
    BY DocumentFacts DEF Document
  <2>4. docs' \in Seq(Document)
    BY <2>1, <2>2, <2>3
  <2>5. \A e \in DOMAIN docs' : e \in DOMAIN docs /\ docs'[e].invoice = docs[e].invoice
    <3>1. [docs[d] EXCEPT !.open = FALSE].invoice = docs[d].invoice
      BY DocumentFacts DEF Document
    <3> QED
      BY <2>1, <2>2, <3>1
  <2> QED
    BY <1>1, <2>1, <2>2, <2>4, <2>5 DEF AccessTyped, Handling
<1>7. CASE AuthCrash
  <2>1. /\ UNCHANGED <<checked, sessions, docs, asking, invoices>>
        /\ auth' = [a \in Slots |-> Idle]
        /\ marks' = {} /\ unmarked' = unmarked \cup marks
    BY <1>7 DEF AuthCrash, billing, nas
  <2>2. Idle \in Handler /\ Handling(Idle)
    BY IdleTyped
  <2> HIDE DEF Idle
  <2> QED
    BY <1>1, <2>1, <2>2 DEF AccessTyped, Handling
<1>8. CASE Tick
  <2> DEFINE y(d) == IF docs[d].open THEN [docs[d] EXCEPT !.time = @ + 1] ELSE docs[d]
  <2>1. /\ UNCHANGED <<checked, marks, unmarked, sessions, auth, asking, invoices>>
        /\ docs' = [d \in DOMAIN docs |-> y(d)]
    BY <1>8 DEF Tick, billing
  <2>2. docs \in Seq(Document) /\ \A e \in DOMAIN docs : docs[e].invoice <= Len(invoices)
    BY DEF AccessTyped
  <2>3. ASSUME NEW d \in DOMAIN docs
        PROVE  y(d) \in Document /\ y(d).invoice = docs[d].invoice
    BY <2>3, DocumentFacts DEF Document
  <2> HIDE DEF y
  <2>4. docs' \in Seq(Document)
    BY <2>1, <2>2, <2>3
  <2>5. \A e \in DOMAIN docs' : e \in DOMAIN docs /\ docs'[e].invoice = docs[e].invoice
    BY <2>1, <2>3
  <2> QED
    BY <1>1, <2>1, <2>2, <2>4, <2>5 DEF AccessTyped, Handling
<1> QED
  BY <1>2, <1>3, <1>4, <1>5, <1>6, <1>7, <1>8, StepForms

LEMMA TypesInit == Init => AccessTyped
<1> SUFFICES ASSUME Init PROVE AccessTyped
  OBVIOUS
<1>1. BillingTyped
  BY TypedInit DEF Init
<1>2. /\ checked = {} /\ marks = {} /\ unmarked = {} /\ sessions = <<>>
      /\ auth = [a \in Slots |-> Idle] /\ asking = {} /\ docs = <<>>
      /\ invoices = <<>>
  BY DEF Init, AccessInit, BillingInit
<1>3. /\ Idle \in Handler /\ Handling(Idle)
  <2>1. MaxTime \in Nat
    BY MaxAssumption
  <2>2. Idle \in Handler
    BY <2>1, NoLimitTyped DEF Idle, Handler, Opt, Passwords
  <2> QED
    BY <1>2, <2>2 DEF Handling, Idle
<1> HIDE DEF Idle
<1> QED
  BY <1>1, <1>2, <1>3 DEF AccessTyped

----------------------------------------------------------------------------
(* Access: the sessions of a device follow each other *)

\* The session that m has open began at n or later.
After(m, n) == \A d \in DOMAIN docs :
  docs[d].open /\ docs[d].mac = m => docs[d].start >= n

\* The NAS asks only for devices that have no session.
AskedOnce ==
  /\ \A d \in DOMAIN docs : docs[d].open => docs[d].mac \notin asking
  /\ \A d, e \in DOMAIN docs :
       docs[d].open /\ docs[e].open /\ docs[d].mac = docs[e].mac => d = e

\* The time of a session is what passed since it began, and at most its limit.
Counted(x) ==
  /\ x.start <= now /\ x.time <= now - x.start
  /\ x.open => /\ x.time = now - x.start
               /\ "time" \in DOMAIN x.limit => x.time <= x.limit.time

\* A handler lasts a tick, and the session its device has began with its answer or
\* with that of a later handler.
Prompted(r) ==
  r.pc # "idle" => r.now <= now /\ now <= r.now + 1 /\ After(r.mac, r.now)

Early(s) == s.start <= now /\ After(s.mac, s.start)

Ordered == /\ AskedOnce
           /\ \A d \in DOMAIN docs : Counted(docs[d])
           /\ \A a \in Slots : Prompted(auth[a])
           /\ \A k \in DOMAIN sessions : Early(sessions[k])

LEMMA OrderedInit == Init => Ordered
BY DEF Init, AccessInit, Ordered, AskedOnce, Idle, Prompted

\* Steps away from the NAS, which at most end handlers.
LEMMA OrderedAside ==
  ASSUME Ordered, UNCHANGED <<now, docs, asking, sessions>>,
         \A a \in Slots : auth'[a].pc = "idle" \/ auth'[a] = auth[a]
  PROVE  Ordered'
<1>1. AskedOnce' /\ \A d \in DOMAIN docs' : Counted(docs[d])'
  BY DEF Ordered, AskedOnce, Counted
<1>2. ASSUME NEW a \in Slots PROVE Prompted(auth[a])'
  BY <1>2 DEF Ordered, Prompted, After
<1>3. \A k \in DOMAIN sessions' : Early(sessions[k])'
  BY DEF Ordered, Early, After
<1> QED
  BY <1>1, <1>2, <1>3 DEF Ordered

LEMMA OrderedReceive ==
  ASSUME AccessTyped, Ordered, NEW a \in Slots, NEW m \in Macs, NEW b \in BOOLEAN,
         NEW p \in Passwords, Receive(a, m, b, p)
  PROVE  Ordered'
<1> DEFINE q == Received(m, b, p)
<1>1. /\ UNCHANGED <<now, sessions, docs>> /\ asking' = asking \cup {m}
      /\ auth' = [auth EXCEPT ![a] = q]
      /\ \A d \in DOMAIN docs : docs[d].open => docs[d].mac # m
  BY DEF Receive, Received, Open
<1>2. q.mac = m /\ q.now = now
  BY ReceivedTyped
<1>3. now \in Nat /\ auth \in [Slots -> Handler]
  BY NowFacts DEF AccessTyped
<1> HIDE DEF q
<1>4. AskedOnce' /\ \A d \in DOMAIN docs' : Counted(docs[d])'
  BY <1>1 DEF Ordered, AskedOnce, Counted
<1>5. ASSUME NEW c \in Slots PROVE Prompted(auth[c])'
  <2>1. CASE c = a
    <3>1. auth'[c] = q
      BY <1>1, <1>3, <2>1
    <3> QED
      BY <1>1, <1>2, <1>3, <3>1 DEF Prompted, After
  <2>2. CASE c # a
    <3>1. auth'[c] = auth[c]
      BY <1>1, <1>3, <2>2
    <3> QED
      BY <1>1, <3>1 DEF Ordered, Prompted, After
  <2> QED
    BY <2>1, <2>2
<1>6. \A k \in DOMAIN sessions' : Early(sessions[k])'
  BY <1>1 DEF Ordered, Early, After
<1> QED
  BY <1>4, <1>5, <1>6 DEF Ordered

\* A session begins now.
LEMMA AfterBegan ==
  ASSUME AccessTyped, NEW x, docs' = Append(docs, x), x.start = now,
         NEW m, NEW n \in Nat, n <= now, After(m, n)
  PROVE  \A d \in DOMAIN docs' : docs'[d].open /\ docs'[d].mac = m => docs'[d].start >= n
<1>1. docs \in Seq(Document) /\ now \in Nat
  BY NowFacts DEF AccessTyped
<1>2. \A d \in DOMAIN docs' : (d \in DOMAIN docs /\ docs'[d] = docs[d]) \/ docs'[d] = x
  BY <1>1
<1> QED
  BY <1>1, <1>2 DEF After

LEMMA OrderedHandle ==
  ASSUME AccessTyped, Ordered, NEW a \in Slots, Works(a)
  PROVE  Ordered'
<1> DEFINE r == auth[a]
<1>1. /\ now' = now /\ now \in Nat /\ asking' \subseteq asking /\ r.pc # "idle"
      /\ docs \in Seq(Document) /\ Len(docs) \in Nat /\ DOMAIN docs = 1..Len(docs)
      /\ r.now \in Nat
  BY AnswerCases, NowFacts, HandlerFacts DEF Works, AccessTyped, Time
<1>2. AskedOnce' /\ \A d \in DOMAIN docs' : Counted(docs[d])'
  <2>1. CASE docs' = docs
    BY <1>1, <2>1 DEF Ordered, AskedOnce, Counted
  <2>2. ASSUME NEW l \in Limits, NEW i \in 0..Len(invoices), ~Exceeded(l),
               r.mac \in asking, r.mac \notin asking',
               docs' = Append(docs, Began(r, l, i))
        PROVE  AskedOnce' /\ \A d \in DOMAIN docs' : Counted(docs[d])'
    <3> DEFINE x == Began(r, l, i)
               k == Len(docs) + 1
    <3>1. /\ x.mac = r.mac /\ x.start = now /\ x.time = 0 /\ x.limit = l
      BY DEF Began
    <3>2. "time" \in DOMAIN l => l.time > 0
      BY <2>2, LimitsFacts DEF Exceeded, Quotas
    <3> HIDE DEF x
    <3>3. /\ DOMAIN docs' = 1..k /\ docs'[k] = x
          /\ \A d \in DOMAIN docs : docs'[d] = docs[d]
          /\ \A d \in DOMAIN docs' : d \in DOMAIN docs \/ d = k
      BY <1>1, <2>2 DEF x
    <3>4. \A d \in DOMAIN docs : docs[d].open => docs[d].mac # r.mac
      BY <2>2 DEF Ordered, AskedOnce
    <3>5. AskedOnce'
      <4>1. \A d \in DOMAIN docs' : docs'[d].open => docs'[d].mac \notin asking'
        BY <1>1, <2>2, <3>1, <3>3 DEF Ordered, AskedOnce
      <4>2. \A d, e \in DOMAIN docs' :
              docs'[d].open /\ docs'[e].open /\ docs'[d].mac = docs'[e].mac => d = e
        BY <3>1, <3>3, <3>4 DEF Ordered, AskedOnce
      <4> QED
        BY <4>1, <4>2 DEF AskedOnce
    <3>6. ASSUME NEW d \in DOMAIN docs' PROVE Counted(docs[d])'
      <4>1. CASE d \in DOMAIN docs
        BY <1>1, <3>3, <4>1 DEF Ordered, Counted
      <4>2. CASE d = k
        BY <1>1, <3>1, <3>2, <3>3, <4>2, LimitsFacts DEF Counted
      <4> QED
        BY <3>3, <4>1, <4>2
    <3> QED
      BY <3>5, <3>6
  <2> QED
    BY <2>1, <2>2, AnswerCases
<1>3. ASSUME NEW m, NEW n \in Nat, n <= now, After(m, n)
      PROVE  \A d \in DOMAIN docs' : docs'[d].open /\ docs'[d].mac = m => docs'[d].start >= n
  <2>1. CASE docs' = docs
    BY <1>3, <2>1 DEF After
  <2>2. \A l, i : Began(r, l, i).start = now
    BY DEF Began
  <2> QED
    BY <1>3, <2>1, <2>2, AnswerCases, AfterBegan
<1>4. ASSUME NEW c \in Slots PROVE Prompted(auth[c])'
  <2>1. PICK q : Goal(a, q)
    BY DEF Works
  <2>2. auth' = [auth EXCEPT ![a] = q] /\ (q = Idle \/ Stays(r, q))
    BY <2>1 DEF Goal, Goes
  <2>3. auth \in [Slots -> Handler] /\ Idle.pc = "idle"
    BY DEF AccessTyped, Idle
  <2>4. SUFFICES ASSUME auth'[c].pc # "idle"
                 PROVE  /\ auth'[c].now <= now /\ now <= auth'[c].now + 1
                        /\ \A d \in DOMAIN docs' :
                             docs'[d].open /\ docs'[d].mac = auth'[c].mac
                               => docs'[d].start >= auth'[c].now
    BY <1>1 DEF Prompted, After
  <2>5. /\ auth'[c].mac = auth[c].mac /\ auth'[c].now = auth[c].now
        /\ auth[c].pc # "idle"
    BY <1>1, <2>2, <2>3, <2>4 DEF Stays
  <2>6. /\ auth[c].now <= now /\ now <= auth[c].now + 1
        /\ After(auth[c].mac, auth[c].now)
    BY <2>5 DEF Ordered, Prompted
  <2>7. auth[c].now \in Nat
    BY <2>5, HandlerFacts DEF Time
  <2> QED
    BY <1>3, <2>5, <2>6, <2>7
<1>5. ASSUME NEW k \in DOMAIN sessions' PROVE Early(sessions[k])'
  <2>1. SUFFICES ASSUME NEW s, s = sessions'[k]
                 PROVE  /\ s.start <= now
                        /\ \A d \in DOMAIN docs' :
                             docs'[d].open /\ docs'[d].mac = s.mac
                               => docs'[d].start >= s.start
    BY <1>1 DEF Early, After
  <2>2. CASE k \in DOMAIN sessions /\ sessions'[k] = sessions[k]
    <3>1. s.start \in Nat /\ s.start <= now /\ After(s.mac, s.start)
      BY <2>1, <2>2, SessionFacts DEF Ordered, Early
    <3> QED
      BY <1>3, <3>1
  <2>3. CASE s = Session(r)
    <3>1. s.start = r.now /\ s.mac = r.mac
      BY <2>3 DEF Session
    <3>2. r.now <= now /\ After(r.mac, r.now)
      BY <1>1 DEF Ordered, Prompted
    <3> QED
      BY <1>1, <1>3, <3>1, <3>2
  <2>4. sessions \in Seq(RadSession)
    BY DEF AccessTyped
  <2>5. CASE sessions' = Append(sessions, Session(r))
    BY <2>1, <2>2, <2>3, <2>4, <2>5
  <2>6. CASE sessions' = sessions
    BY <2>2, <2>6
  <2> QED
    BY <2>5, <2>6 DEF Works, Inserts
<1> QED
  BY <1>2, <1>4, <1>5 DEF Ordered

LEMMA OrderedEnd ==
  ASSUME AccessTyped, Ordered, NEW e \in DOMAIN docs, End(e)
  PROVE  Ordered'
<1>1. /\ UNCHANGED <<now, asking, auth, sessions>>
      /\ docs' = [docs EXCEPT ![e].open = FALSE]
  BY DEF End
<1>2. ASSUME NEW d \in DOMAIN docs
      PROVE  /\ docs'[d].mac = docs[d].mac /\ docs'[d].start = docs[d].start
             /\ docs'[d].time = docs[d].time /\ docs'[d].limit = docs[d].limit
             /\ docs'[d].open => docs[d].open
  BY <1>1, DocumentFacts DEF Document
<1>3. DOMAIN docs' = DOMAIN docs
  BY <1>1
<1>4. AskedOnce'
  BY <1>1, <1>2, <1>3 DEF Ordered, AskedOnce
<1>5. \A d \in DOMAIN docs' : Counted(docs[d])'
  BY <1>1, <1>2, <1>3 DEF Ordered, Counted
<1>6. \A a \in Slots : Prompted(auth[a])'
  BY <1>1, <1>2, <1>3 DEF Ordered, Prompted, After
<1>7. \A k \in DOMAIN sessions' : Early(sessions[k])'
  BY <1>1, <1>2, <1>3 DEF Ordered, Early, After
<1> QED
  BY <1>4, <1>5, <1>6, <1>7 DEF Ordered

\* A tick, and what it does to a session.
LEMMA TickFacts ==
  ASSUME AccessTyped, Tick
  PROVE  /\ now' = now + 1 /\ now \in Nat
         /\ UNCHANGED <<invoices, sessions, auth, asking>> /\ DOMAIN docs' = DOMAIN docs
         /\ \A a \in Slots : auth[a].pc # "idle" => auth[a].now = now
         /\ \A d \in DOMAIN docs :
              /\ docs'[d].mac = docs[d].mac /\ docs'[d].start = docs[d].start
              /\ docs'[d].limit = docs[d].limit /\ docs'[d].open = docs[d].open
              /\ docs'[d].invoice = docs[d].invoice /\ docs'[d].user = docs[d].user
              /\ docs'[d].byMac = docs[d].byMac
              /\ docs[d].open => /\ docs'[d].time = docs[d].time + 1
                                 /\ "time" \in DOMAIN docs[d].limit =>
                                      docs[d].time < docs[d].limit.time
              /\ ~docs[d].open => docs'[d].time = docs[d].time
<1>1. /\ now' = now + 1 /\ UNCHANGED <<billing, sessions, auth, asking>>
      /\ \A a \in Slots : auth[a].pc # "idle" => auth[a].now = now
      /\ docs' = [d \in DOMAIN docs |-> IF docs[d].open
                                        THEN [docs[d] EXCEPT !.time = @ + 1]
                                        ELSE docs[d]]
      /\ \A d \in DOMAIN docs : docs[d].open => ~AtLimit(d)
  BY DEF Tick
<1>2. ASSUME NEW d \in DOMAIN docs
      PROVE  /\ docs'[d].mac = docs[d].mac /\ docs'[d].start = docs[d].start
             /\ docs'[d].limit = docs[d].limit /\ docs'[d].open = docs[d].open
             /\ docs'[d].invoice = docs[d].invoice /\ docs'[d].user = docs[d].user
             /\ docs'[d].byMac = docs[d].byMac
             /\ docs[d].open => docs'[d].time = docs[d].time + 1
             /\ ~docs[d].open => docs'[d].time = docs[d].time
  BY <1>1, DocumentFacts DEF Document
<1>3. ASSUME NEW d \in DOMAIN docs, docs[d].open, "time" \in DOMAIN docs[d].limit
      PROVE  docs[d].time < docs[d].limit.time
  BY <1>1, <1>3, DocumentFacts, LimitsFacts DEF AtLimit
<1> QED
  BY <1>1, <1>2, <1>3, NowFacts DEF billing

LEMMA OrderedTick ==
  ASSUME AccessTyped, Ordered, Tick
  PROVE  Ordered'
<1>1. /\ now' = now + 1 /\ now \in Nat
      /\ UNCHANGED <<sessions, auth, asking>> /\ DOMAIN docs' = DOMAIN docs
      /\ \A a \in Slots : auth[a].pc # "idle" => auth[a].now = now
  BY TickFacts
<1>2. ASSUME NEW d \in DOMAIN docs
      PROVE  /\ docs'[d].mac = docs[d].mac /\ docs'[d].start = docs[d].start
             /\ docs'[d].limit = docs[d].limit /\ docs'[d].open = docs[d].open
             /\ docs[d].open => /\ docs'[d].time = docs[d].time + 1
                                /\ "time" \in DOMAIN docs[d].limit =>
                                     docs[d].time < docs[d].limit.time
             /\ ~docs[d].open => docs'[d].time = docs[d].time
  BY <1>2, TickFacts
<1>3. AskedOnce'
  BY <1>1, <1>2 DEF Ordered, AskedOnce
<1>4. ASSUME NEW d \in DOMAIN docs' PROVE Counted(docs[d])'
  <2> DEFINE x == docs[d]
             y == docs'[d]
  <2>1. /\ x.start \in Nat /\ x.time \in Nat
        /\ "time" \in DOMAIN x.limit => x.limit.time \in Int
    BY <1>1, <1>4, DocumentFacts, LimitsFacts
  <2>2. /\ x.start <= now /\ x.time <= now - x.start
        /\ x.open => x.time = now - x.start
    BY <1>1, <1>4 DEF Ordered, Counted
  <2>3. /\ y.start = x.start /\ y.limit = x.limit /\ y.open = x.open
        /\ x.open => /\ y.time = x.time + 1
                     /\ "time" \in DOMAIN x.limit => x.time < x.limit.time
        /\ ~x.open => y.time = x.time
    BY <1>1, <1>2, <1>4
  <2> SUFFICES /\ y.start <= now + 1 /\ y.time <= (now + 1) - y.start
               /\ y.open => /\ y.time = (now + 1) - y.start
                            /\ "time" \in DOMAIN y.limit => y.time <= y.limit.time
    BY <1>1 DEF Counted
  <2> HIDE DEF x, y
  <2> QED
    BY <1>1, <2>1, <2>2, <2>3
<1>5. ASSUME NEW a \in Slots PROVE Prompted(auth[a])'
  BY <1>1, <1>2 DEF Ordered, Prompted, After
<1>6. ASSUME NEW k \in DOMAIN sessions' PROVE Early(sessions[k])'
  <2>1. sessions[k].start \in Nat /\ Early(sessions[k])
    BY <1>1, <1>6, SessionFacts DEF Ordered
  <2> QED
    BY <1>1, <1>2, <2>1 DEF Early, After
<1> QED
  BY <1>3, <1>4, <1>5, <1>6 DEF Ordered

LEMMA OrderedKept ==
  ASSUME AccessTyped, Ordered, [Next]_vars PROVE Ordered'
<1>1. CASE Portal /\ Outside
  BY <1>1, OrderedAside, PortalGrows DEF Outside, nas, AccessTyped
<1>2. CASE Aside
  BY <1>2, OrderedAside DEF Aside, nas
<1>3. CASE AuthCrash
  <2>1. \A a \in Slots : auth'[a].pc = "idle"
    BY <1>3 DEF AuthCrash, Idle
  <2> QED
    BY <1>3, <2>1, OrderedAside DEF AuthCrash, nas
<1> QED
  BY <1>1, <1>2, <1>3, StepForms, OrderedReceive, HandleWorks, OrderedHandle,
     OrderedEnd, OrderedTick

----------------------------------------------------------------------------
(* Access: what is used of an invoice *)

TimesOf(ds) == [d \in DOMAIN ds |-> ds[d].time]
Used(ds, S) == SumFunctionOnSet(TimesOf(ds), S)
DocsOf(ds, i) == {d \in DOMAIN ds : ds[d].invoice = i}
PriorOf(ds, i, n) == {d \in DocsOf(ds, i) : ds[d].start < n}

Single == \A m, k \in Macs : UserOf[m] = UserOf[k] => m = k

LEMMA Summable ==
  ASSUME NEW ds \in Seq(Document), NEW S \in SUBSET DOMAIN ds
  PROVE  /\ IsFiniteSet(S) /\ Used(ds, S) \in Nat
         /\ \A d \in S : TimesOf(ds)[d] = ds[d].time /\ TimesOf(ds)[d] \in Nat
<1>1. DOMAIN ds = 1..Len(ds) /\ Len(ds) \in Nat
  OBVIOUS
<1>2. IsFiniteSet(S)
  <2>1. IsFiniteSet(DOMAIN ds)
    BY <1>1, FS_Interval
  <2> QED
    BY <2>1, FS_Subset
<1>3. \A d \in DOMAIN ds : ds[d] \in Document
  OBVIOUS
<1>4. \A d \in S : TimesOf(ds)[d] = ds[d].time /\ TimesOf(ds)[d] \in Nat
  BY <1>3 DEF TimesOf, Document
<1> QED
  BY <1>2, <1>4, SumType DEF Used

LEMMA SumStays ==
  ASSUME NEW ds \in Seq(Document), NEW es \in Seq(Document),
         NEW S \in SUBSET DOMAIN ds, S \subseteq DOMAIN es,
         \A d \in S : es[d].time = ds[d].time
  PROVE  Used(es, S) = Used(ds, S)
<1>1. /\ IsFiniteSet(S) /\ \A d \in S : TimesOf(ds)[d] = ds[d].time
      /\ \A d \in S : TimesOf(es)[d] = es[d].time
  BY Summable
<1>2. \A d \in S : TimesOf(es)[d] = TimesOf(ds)[d]
  BY <1>1
<1> QED
  BY <1>1, <1>2, SumSame DEF Used

\* What a document adds to a sum.
LEMMA SumSplit ==
  ASSUME NEW ds \in Seq(Document), NEW S \in SUBSET DOMAIN ds, NEW d \in S
  PROVE  Used(ds, S) = ds[d].time + Used(ds, S \ {d})
<1>1. /\ IsFiniteSet(S) /\ \A e \in S : TimesOf(ds)[e] \in Nat
      /\ TimesOf(ds)[d] = ds[d].time
  BY Summable
<1> QED
  BY <1>1, SumRemove DEF Used

LEMMA SumSmaller ==
  ASSUME NEW ds \in Seq(Document), NEW S \in SUBSET DOMAIN ds, NEW T \in SUBSET S
  PROVE  /\ Used(ds, S) = Used(ds, T) + Used(ds, S \ T)
         /\ Used(ds, T) <= Used(ds, S)
<1>1. IsFiniteSet(S) /\ \A e \in S : TimesOf(ds)[e] \in Nat
  BY Summable
<1>2. Used(ds, S) = Used(ds, T) + Used(ds, S \ T)
  BY <1>1, SumParts DEF Used
<1>3. Used(ds, T) \in Nat /\ Used(ds, S \ T) \in Nat
  <2>1. T \in SUBSET DOMAIN ds /\ S \ T \in SUBSET DOMAIN ds
    OBVIOUS
  <2> QED
    BY <2>1, Summable
<1> QED
  BY <1>2, <1>3

\* The documents of an invoice that begins with no use.
LEMMA SumBegan ==
  ASSUME NEW ds \in Seq(Document), NEW es \in Seq(Document),
         NEW S \in SUBSET DOMAIN ds, NEW T \in SUBSET DOMAIN es,
         NEW k \in DOMAIN es, k \notin S, es[k].time = 0,
         S \subseteq T, T \subseteq S \cup {k}, \A d \in S : es[d].time = ds[d].time
  PROVE  Used(es, T) = Used(ds, S)
<1>1. Used(es, S) = Used(ds, S) /\ Used(ds, S) \in Nat
  BY SumStays, Summable
<1>2. CASE k \in T
  <2>1. Used(es, T) = es[k].time + Used(es, T \ {k})
    BY <1>2, SumSplit
  <2>2. T \ {k} = S
    BY <1>2
  <2>3. Used(es, T \ {k}) = Used(es, S)
    BY <2>2, Zenon
  <2> QED
    BY <1>1, <2>1, <2>3
<1>3. CASE k \notin T
  <2>1. T = S
    BY <1>3
  <2> QED
    BY <1>1, <2>1
<1> QED
  BY <1>2, <1>3

\* What an invoice has left for t more.
Room(ds, S, t, i) ==
  (Single /\ HasTime(i.limit)) => Used(ds, S) + t <= i.limit.time

\* An invoice of the device m.
Mine(m, i) == /\ i \in DOMAIN invoices /\ invoices[i].user = UserOf[m]
              /\ invoices[i].start <= now

\* What a handler on the way to an invoice knows.
Knows(r) ==
  /\ r.pc \in {"idle", "lookup", "reduce", "device", "limits"} => r.invoice = 0
  /\ r.pc = "billing" => Mine(r.mac, r.invoice) /\ r.now <= r.at /\ r.at <= now
  /\ r.pc = "reduce" => /\ r.byMac /\ sessions[r.session].mac = r.mac
                        /\ sessions[r.session].limit = r.limit

\* The limit of a handler that will let a device in on an invoice.
Held(r) ==
  (r.pc = "insert" /\ r.invoice # 0) =>
    /\ Mine(r.mac, r.invoice)
    /\ r.now <= r.at /\ r.at <= now /\ HasTime(r.limit)
    /\ r.limit.time <= invoices[r.invoice].stop - r.at + Grace
    /\ Room(docs, PriorOf(docs, r.invoice, r.now), r.limit.time, invoices[r.invoice])
    /\ r.mac \in asking =>
         Room(docs, DocsOf(docs, r.invoice), r.limit.time, invoices[r.invoice])

\* The limit of a session on an invoice: a login by mac may use it again from its
\* start on.
Kept(s) ==
  s.invoice # 0 =>
    /\ Mine(s.mac, s.invoice) /\ HasTime(s.limit)
    /\ Room(docs, PriorOf(docs, s.invoice, s.start), s.limit.time, invoices[s.invoice])

\* The limit of a session of the NAS on an invoice.
Charged(d) ==
  /\ docs[d].user = UserOf[docs[d].mac]
  /\ docs[d].invoice # 0 =>
       /\ Mine(docs[d].mac, docs[d].invoice)
       /\ docs[d].start >= invoices[docs[d].invoice].start
       /\ HasTime(docs[d].limit)
       /\ ~docs[d].byMac => docs[d].start + docs[d].limit.time
                              <= invoices[docs[d].invoice].stop + Grace + 1
       /\ docs[d].open => Room(docs, DocsOf(docs, docs[d].invoice) \ {d},
                               docs[d].limit.time, invoices[docs[d].invoice])

Quota(i) == Room(docs, DocsOf(docs, i), 0, invoices[i])

Tariffs == /\ \A a \in Slots : Knows(auth[a]) /\ Held(auth[a])
           /\ \A k \in DOMAIN sessions : Kept(sessions[k])
           /\ \A d \in DOMAIN docs : Charged(d)
           /\ \A i \in DOMAIN invoices : Quota(i)

TariffsInv == AccessTyped /\ Ordered /\ Tariffs

\* What a step leaves of the sums: what was used before a session of a device
\* that is there or may come, and what a device used that asks.
PriorStay == \A m \in Macs, i \in DOMAIN invoices, n \in Nat :
  (Single /\ Mine(m, i) /\ n <= now /\ After(m, n)) =>
    Used(docs', PriorOf(docs', i, n)) = Used(docs, PriorOf(docs, i, n))

AskedStay == \A m \in Macs, i \in DOMAIN invoices :
  (Single /\ Mine(m, i) /\ m \in asking /\ m \in asking') =>
    Used(docs', DocsOf(docs', i)) = Used(docs, DocsOf(docs, i))

Calm == PriorStay /\ AskedStay /\ Grows /\ now \in Nat /\ now' \in Nat /\ now <= now'

LEMMA CalmAside ==
  ASSUME AccessTyped, docs' = docs, now' = now, Grows
  PROVE  Calm
BY NowFacts DEF Calm, PriorStay, AskedStay

\* Mine is for good.
LEMMA MineKept ==
  ASSUME AccessTyped, Grows, now <= now', now' \in Nat, NEW m, NEW i, Mine(m, i)
  PROVE  /\ i \in DOMAIN invoices /\ i \in DOMAIN invoices'
         /\ invoices'[i] = invoices[i] /\ invoices'[i].user = UserOf[m]
         /\ invoices'[i].start <= now'
<1>1. /\ i \in DOMAIN invoices /\ i \in DOMAIN invoices'
      /\ invoices'[i] = invoices[i] /\ invoices[i].user = UserOf[m]
      /\ invoices[i].start <= now
  BY DEF Mine, Grows
<1>2. invoices[i].start \in Nat /\ now \in Nat
  BY <1>1, InvoiceTyped, NowFacts DEF Time
<1> QED
  BY <1>1, <1>2

LEMMA HeldKept ==
  ASSUME AccessTyped, Calm, NEW r, r.mac \in Macs, r.now \in Nat, r.at \in Nat,
         r.pc # "idle", Prompted(r), Held(r), r.mac \in asking' => r.mac \in asking
  PROVE  Held(r)'
<1> SUFFICES ASSUME r.pc = "insert", r.invoice # 0
             PROVE  Held(r)'
  BY DEF Held
<1>1. /\ Mine(r.mac, r.invoice) /\ r.now <= r.at /\ r.at <= now /\ HasTime(r.limit)
      /\ r.limit.time <= invoices[r.invoice].stop - r.at + Grace
      /\ Room(docs, PriorOf(docs, r.invoice, r.now), r.limit.time, invoices[r.invoice])
      /\ r.mac \in asking =>
           Room(docs, DocsOf(docs, r.invoice), r.limit.time, invoices[r.invoice])
  BY DEF Held
<1>2. /\ r.invoice \in DOMAIN invoices /\ r.invoice \in DOMAIN invoices'
      /\ invoices'[r.invoice] = invoices[r.invoice]
      /\ invoices'[r.invoice].user = UserOf[r.mac]
      /\ invoices'[r.invoice].start <= now'
  BY <1>1, MineKept DEF Calm
<1>3. Mine(r.mac, r.invoice)'
  BY <1>2 DEF Mine
<1>4. now \in Nat /\ now' \in Nat /\ now <= now'
  BY DEF Calm
<1>5. r.at <= now'
  BY <1>1, <1>4
<1>6. r.now <= now /\ After(r.mac, r.now)
  BY DEF Prompted
<1>7. Room(docs', PriorOf(docs', r.invoice, r.now), r.limit.time, invoices'[r.invoice])
  <2>1. Single => Used(docs', PriorOf(docs', r.invoice, r.now))
                    = Used(docs, PriorOf(docs, r.invoice, r.now))
    BY <1>1, <1>2, <1>6 DEF Calm, PriorStay
  <2> QED
    BY <1>1, <1>2, <2>1 DEF Room
<1>8. r.mac \in asking' =>
        Room(docs', DocsOf(docs', r.invoice), r.limit.time, invoices'[r.invoice])
  <2> SUFFICES ASSUME r.mac \in asking'
               PROVE  Room(docs', DocsOf(docs', r.invoice), r.limit.time,
                           invoices'[r.invoice])
    OBVIOUS
  <2>1. Single => Used(docs', DocsOf(docs', r.invoice)) = Used(docs, DocsOf(docs, r.invoice))
    BY <1>1, <1>2 DEF Calm, AskedStay
  <2> QED
    BY <1>1, <1>2, <2>1 DEF Room
<1> QED
  BY <1>1, <1>2, <1>3, <1>5, <1>7, <1>8 DEF Held

LEMMA KeptKept ==
  ASSUME AccessTyped, Calm, NEW s, s.mac \in Macs, s.start \in Nat, Early(s), Kept(s)
  PROVE  Kept(s)'
<1> SUFFICES ASSUME s.invoice # 0 PROVE Kept(s)'
  BY DEF Kept
<1>1. /\ Mine(s.mac, s.invoice) /\ HasTime(s.limit)
      /\ Room(docs, PriorOf(docs, s.invoice, s.start), s.limit.time, invoices[s.invoice])
  BY DEF Kept
<1>2. /\ s.invoice \in DOMAIN invoices /\ s.invoice \in DOMAIN invoices'
      /\ invoices'[s.invoice] = invoices[s.invoice]
      /\ invoices'[s.invoice].user = UserOf[s.mac]
      /\ invoices'[s.invoice].start <= now'
  BY <1>1, MineKept DEF Calm
<1>3. Mine(s.mac, s.invoice)'
  BY <1>2 DEF Mine
<1>4. s.start <= now /\ After(s.mac, s.start)
  BY DEF Early
<1>5. Single => Used(docs', PriorOf(docs', s.invoice, s.start))
                  = Used(docs, PriorOf(docs, s.invoice, s.start))
  BY <1>1, <1>2, <1>4 DEF Calm, PriorStay
<1>6. Room(docs', PriorOf(docs', s.invoice, s.start), s.limit.time, invoices'[s.invoice])
  BY <1>1, <1>2, <1>5 DEF Room
<1> QED
  BY <1>1, <1>2, <1>3, <1>6 DEF Kept

SessionsStay == \A k \in DOMAIN sessions : k \in DOMAIN sessions'
                                           /\ sessions'[k] = sessions[k]

LEMMA KnowsKept ==
  ASSUME AccessTyped, Calm, SessionsStay, NEW r, r.at \in Nat,
         r.pc = "reduce" => r.session \in DOMAIN sessions, Knows(r)
  PROVE  Knows(r)'
<1>1. CASE r.pc = "billing"
  <2>1. Mine(r.mac, r.invoice) /\ r.now <= r.at /\ r.at <= now
    BY <1>1 DEF Knows
  <2>2. Mine(r.mac, r.invoice)'
    BY <2>1, MineKept DEF Calm, Mine
  <2>3. r.at <= now'
    BY <2>1 DEF Calm
  <2> QED
    BY <1>1, <2>1, <2>2, <2>3 DEF Knows
<1>2. CASE r.pc # "billing"
  BY <1>2 DEF Knows, SessionsStay
<1> QED
  BY <1>1, <1>2

\* A handler that does nothing in a step, or is ended.
LEMMA SlotKept ==
  ASSUME TariffsInv, Calm, SessionsStay, NEW c \in Slots,
         auth'[c] = auth[c] \/ auth'[c] = Idle,
         auth[c].pc # "idle" /\ auth[c].mac \in asking' => auth[c].mac \in asking
  PROVE  Knows(auth[c])' /\ Held(auth[c])'
<1>1. CASE auth'[c].pc = "idle"
  <2>1. auth'[c].invoice = 0
    <3>1. auth[c].pc = "idle" => auth[c].invoice = 0
      BY DEF TariffsInv, Tariffs, Knows
    <3>2. Idle.invoice = 0
      BY DEF Idle
    <3> QED
      BY <1>1, <3>1, <3>2
  <2> QED
    BY <1>1, <2>1 DEF Knows, Held
<1>2. CASE auth'[c].pc # "idle"
  <2>1. auth'[c] = auth[c] /\ auth[c].pc # "idle"
    BY <1>2 DEF Idle
  <2>2. PICK r : r = auth[c]
    OBVIOUS
  <2>3. AccessTyped /\ Knows(r) /\ Held(r) /\ Prompted(r)
    BY <2>2 DEF TariffsInv, Tariffs, Ordered
  <2>4. /\ r.mac \in Macs /\ r.now \in Nat /\ r.at \in Nat
        /\ r.pc = "reduce" => r.session \in DOMAIN sessions
    BY <2>1, <2>2, <2>3, HandlerFacts, NowFacts DEF Time, Handling
  <2>5. Knows(r)'
    BY <2>3, <2>4, KnowsKept
  <2>6. Held(r)'
    BY <2>1, <2>2, <2>3, <2>4, HeldKept
  <2> QED
    BY <2>1, <2>2, <2>5, <2>6
<1> QED
  BY <1>1, <1>2

LEMMA SessionKept ==
  ASSUME TariffsInv, Calm, SessionsStay, NEW k \in DOMAIN sessions
  PROVE  Kept(sessions[k])'
<1>1. PICK s : s = sessions[k]
  OBVIOUS
<1>2. /\ AccessTyped /\ s.mac \in Macs /\ s.start \in Nat /\ Early(s) /\ Kept(s)
  BY <1>1, SessionFacts DEF TariffsInv, Tariffs, Ordered
<1>3. Kept(s)'
  BY <1>2, KeptKept
<1>4. sessions'[k] = s
  BY <1>1 DEF SessionsStay
<1> QED
  BY <1>3, <1>4

\* A session of the NAS that goes on, or ends.
LEMMA ChargedKept ==
  ASSUME TariffsInv, Calm, NEW d \in DOMAIN docs,
         docs'[d].mac = docs[d].mac, docs'[d].user = docs[d].user,
         docs'[d].start = docs[d].start, docs'[d].limit = docs[d].limit,
         docs'[d].invoice = docs[d].invoice, docs'[d].byMac = docs[d].byMac,
         docs'[d].open => docs[d].open,
         (Single /\ docs[d].open /\ docs[d].invoice # 0) =>
           Used(docs', DocsOf(docs', docs[d].invoice) \ {d})
             = Used(docs, DocsOf(docs, docs[d].invoice) \ {d})
  PROVE  Charged(d)'
<1> DEFINE x == docs[d]
           i == x.invoice
<1>1. Charged(d) /\ AccessTyped
  BY DEF TariffsInv, Tariffs
<1>2. x.user = UserOf[x.mac]
  BY <1>1 DEF Charged
<1>3. CASE x.invoice = 0
  BY <1>2, <1>3 DEF Charged
<1>4. CASE x.invoice # 0
  <2>1. /\ Mine(x.mac, i) /\ x.start >= invoices[i].start /\ HasTime(x.limit)
        /\ ~x.byMac => x.start + x.limit.time <= invoices[i].stop + Grace + 1
        /\ x.open => Room(docs, DocsOf(docs, i) \ {d}, x.limit.time, invoices[i])
    BY <1>1, <1>4 DEF Charged
  <2>2. /\ i \in DOMAIN invoices /\ i \in DOMAIN invoices' /\ invoices'[i] = invoices[i]
        /\ invoices'[i].user = UserOf[x.mac] /\ invoices'[i].start <= now'
    BY <1>1, <2>1, MineKept DEF Calm
  <2>3. x.open => Room(docs', DocsOf(docs', i) \ {d}, x.limit.time, invoices'[i])
    <3> SUFFICES ASSUME x.open
                 PROVE Room(docs', DocsOf(docs', i) \ {d}, x.limit.time, invoices'[i])
      OBVIOUS
    <3>1. Single => Used(docs', DocsOf(docs', i) \ {d}) = Used(docs, DocsOf(docs, i) \ {d})
      BY <1>4
    <3> QED
      BY <2>1, <2>2, <3>1 DEF Room
  <2>5. Mine(docs[d].mac, docs[d].invoice)'
    BY <2>2 DEF Mine
  <2> QED
    BY <1>2, <2>1, <2>2, <2>3, <2>5 DEF Charged
<1> QED
  BY <1>3, <1>4

\* What an invoice has, and a new one.
LEMMA QuotaStays ==
  ASSUME TariffsInv, Grows, NEW i \in DOMAIN invoices,
         Single => Used(docs', DocsOf(docs', i)) = Used(docs, DocsOf(docs, i))
  PROVE  Quota(i)'
<1>1. invoices'[i] = invoices[i] /\ Quota(i)
  BY DEF Grows, TariffsInv, Tariffs
<1> QED
  BY <1>1 DEF Quota, Room

LEMMA QuotaBegins ==
  ASSUME AccessTyped', NEW i, i \in DOMAIN invoices', DocsOf(docs', i) = {}
  PROVE  Quota(i)'
<1>1. Used(docs', {}) = 0
  BY SumEmpty DEF Used
<1>2. Used(docs', DocsOf(docs', i)) = 0
  BY <1>1, Zenon
<1>3. PICK l : l = invoices'[i].limit
  OBVIOUS
<1>4. l \in Limits
  <2>1. IsLimits(invoices'[i].limit)
    BY DEF AccessTyped, BillingTyped
  <2> QED
    BY <1>3, <2>1, IsLimitsAre
<1>5. HasTime(l) => 0 + 0 <= l.time
  BY <1>4, LimitsFacts DEF HasTime
<1> QED
  BY <1>2, <1>3, <1>5 DEF Quota, Room

\* Steps away from the NAS, which at most end handlers.
LEMMA TariffsAside ==
  ASSUME TariffsInv, AccessTyped', UNCHANGED <<now, docs, asking, sessions>>, Grows,
         \A a \in Slots : auth'[a] = Idle \/ auth'[a] = auth[a]
  PROVE  Tariffs'
<1>1. AccessTyped /\ Calm /\ SessionsStay
  BY CalmAside DEF TariffsInv, SessionsStay
<1>2. \A a \in Slots : Knows(auth[a])' /\ Held(auth[a])'
  BY <1>1, SlotKept
<1>3. \A k \in DOMAIN sessions' : Kept(sessions[k])'
  BY <1>1, SessionKept
<1>4. \A d \in DOMAIN docs' : Charged(d)'
  BY <1>1, ChargedKept
<1>5. ASSUME NEW i \in DOMAIN invoices' PROVE Quota(i)'
  <2>1. CASE i \in DOMAIN invoices
    BY <2>1, QuotaStays
  <2>2. CASE i \notin DOMAIN invoices
    <3>1. DOMAIN invoices' = 1..Len(invoices') /\ Len(invoices') \in Nat
      BY DEF AccessTyped, BillingTyped
    <3>2. i # 0
      BY <1>5, <3>1
    <3>3. \A d \in DOMAIN docs : docs[d].invoice # i
      BY <1>1, <2>2, <3>2, DocumentFacts, NowFacts
    <3>4. DocsOf(docs', i) = {}
      BY <3>3 DEF DocsOf
    <3> QED
      BY <1>5, <3>4, QuotaBegins
  <2> QED
    BY <2>1, <2>2
<1> QED
  BY <1>2, <1>3, <1>4, <1>5 DEF Tariffs

\* A handler that goes on as it should.
LEMMA TariffsGoes ==
  ASSUME TariffsInv, NEW a \in Slots, NEW q, Goes(a, q),
         UNCHANGED <<now, billing, sessions, nas>>, Knows(q), Held(q)
  PROVE  Tariffs'
<1>1. /\ UNCHANGED <<now, invoices, sessions, docs, asking>>
      /\ auth' = [auth EXCEPT ![a] = q] /\ AccessTyped
  BY DEF Goes, billing, nas, TariffsInv
<1>2. Len(invoices) \in Nat
  BY <1>1, NowFacts
<1>3. Grows
  BY <1>1, <1>2 DEF Grows
<1>4. Calm /\ SessionsStay
  BY <1>1, <1>3, CalmAside DEF SessionsStay
<1>5. ASSUME NEW c \in Slots PROVE Knows(auth[c])' /\ Held(auth[c])'
  <2>1. CASE c = a
    <3>1. auth'[c] = q
      BY <1>1, <2>1 DEF AccessTyped
    <3>2. Knows(q)'
      BY <1>1 DEF Knows, Mine
    <3>3. Held(q)'
      BY <1>1 DEF Held, Mine
    <3> QED
      BY <3>1, <3>2, <3>3
  <2>2. CASE c # a
    <3>1. auth'[c] = auth[c]
      BY <1>1, <2>2 DEF AccessTyped
    <3> QED
      BY <1>1, <1>4, <3>1, SlotKept
  <2> QED
    BY <2>1, <2>2
<1>6. \A k \in DOMAIN sessions' : Kept(sessions[k])'
  BY <1>1, <1>4, SessionKept
<1>7. \A d \in DOMAIN docs' : Charged(d)'
  BY <1>1, <1>4, ChargedKept
<1>8. \A i \in DOMAIN invoices' : Quota(i)'
  BY <1>1, <1>3, QuotaStays
<1> QED
  BY <1>5, <1>6, <1>7, <1>8 DEF Tariffs

LEMMA TariffsReceive ==
  ASSUME TariffsInv, NEW a \in Slots, NEW m \in Macs, NEW b \in BOOLEAN,
         NEW p \in Passwords, Receive(a, m, b, p)
  PROVE  Tariffs'
<1> DEFINE q == Received(m, b, p)
<1>1. /\ UNCHANGED <<now, invoices, sessions, docs>> /\ asking' = asking \cup {m}
      /\ auth' = [auth EXCEPT ![a] = q] /\ AccessTyped
      /\ \A c \in Slots : auth[c].mac = m => m \in asking
  BY DEF Receive, Received, billing, TariffsInv, Busy
<1>2. q.pc = "lookup" /\ q.invoice = 0
  BY <1>1, ReceivedTyped
<1>3. Len(invoices) \in Nat
  BY <1>1, NowFacts
<1> HIDE DEF q
<1>4. Grows
  BY <1>1, <1>3 DEF Grows
<1>5. Calm /\ SessionsStay
  BY <1>1, <1>4, CalmAside DEF SessionsStay
<1>6. ASSUME NEW c \in Slots PROVE Knows(auth[c])' /\ Held(auth[c])'
  <2>1. CASE c = a
    <3>1. auth'[c] = q
      BY <1>1, <2>1 DEF AccessTyped
    <3> QED
      BY <1>2, <3>1 DEF Knows, Held
  <2>2. CASE c # a
    <3>1. auth'[c] = auth[c]
      BY <1>1, <2>2 DEF AccessTyped
    <3>2. auth[c].mac \in asking' => auth[c].mac \in asking
      BY <1>1
    <3> QED
      BY <1>5, <3>1, <3>2, SlotKept
  <2> QED
    BY <2>1, <2>2
<1>7. \A k \in DOMAIN sessions' : Kept(sessions[k])'
  BY <1>1, <1>5, SessionKept
<1>8. \A d \in DOMAIN docs' : Charged(d)'
  BY <1>1, <1>5, ChargedKept
<1>9. \A i \in DOMAIN invoices' : Quota(i)'
  BY <1>1, <1>4, QuotaStays
<1> QED
  BY <1>6, <1>7, <1>8, <1>9 DEF Tariffs

\* A session begins with no use.
LEMMA SumsBegan ==
  ASSUME AccessTyped, NEW x \in Document, x.time = 0, x.start = now,
         docs' = Append(docs, x), now' = now, Grows
  PROVE  /\ Calm
         /\ \A i : Used(docs', DocsOf(docs', i)) = Used(docs, DocsOf(docs, i))
         /\ \A i : \A d \in DOMAIN docs :
              Used(docs', DocsOf(docs', i) \ {d}) = Used(docs, DocsOf(docs, i) \ {d})
         /\ \A i : Used(docs', DocsOf(docs', i) \ {Len(docs) + 1})
                     = Used(docs, DocsOf(docs, i))
<1>0. PICK k : k = Len(docs) + 1
  OBVIOUS
<1>1. /\ docs \in Seq(Document) /\ DOMAIN docs = 1..Len(docs) /\ Len(docs) \in Nat
      /\ now \in Nat
  BY NowFacts DEF AccessTyped
<1>2. /\ DOMAIN docs' = DOMAIN docs \cup {k} /\ k \notin DOMAIN docs /\ docs'[k] = x
      /\ \A d \in DOMAIN docs : docs'[d] = docs[d]
  BY <1>0, <1>1
<1>3. ASSUME NEW S \in SUBSET DOMAIN docs, NEW T \in SUBSET DOMAIN docs',
             S \subseteq T, T \subseteq S \cup {k}
      PROVE  Used(docs', T) = Used(docs, S)
  <2>1. docs' \in Seq(Document) /\ k \in DOMAIN docs' /\ k \notin S
    BY <1>0, <1>1, <1>3
  <2>2. docs'[k].time = 0 /\ \A d \in S : docs'[d].time = docs[d].time
    BY <1>2, <1>3
  <2>3. docs \in Seq(Document)
    BY <1>1
  <2> QED
    BY <1>3, <2>1, <2>2, <2>3, SumBegan
<1>4. ASSUME NEW i
      PROVE  /\ DocsOf(docs, i) \in SUBSET DOMAIN docs
             /\ DocsOf(docs', i) \in SUBSET DOMAIN docs'
             /\ DocsOf(docs', i) \ {k} = DocsOf(docs, i)
             /\ DocsOf(docs, i) \subseteq DocsOf(docs', i)
             /\ DocsOf(docs', i) \subseteq DocsOf(docs, i) \cup {k}
  BY <1>2 DEF DocsOf
<1>5. \A i : Used(docs', DocsOf(docs', i)) = Used(docs, DocsOf(docs, i))
  BY <1>3, <1>4
<1>6. ASSUME NEW i, NEW d \in DOMAIN docs
      PROVE  Used(docs', DocsOf(docs', i) \ {d}) = Used(docs, DocsOf(docs, i) \ {d})
  <2>1. /\ DocsOf(docs, i) \ {d} \in SUBSET DOMAIN docs
        /\ DocsOf(docs', i) \ {d} \in SUBSET DOMAIN docs'
        /\ DocsOf(docs, i) \ {d} \subseteq DocsOf(docs', i) \ {d}
        /\ DocsOf(docs', i) \ {d} \subseteq (DocsOf(docs, i) \ {d}) \cup {k}
    BY <1>4
  <2> QED
    BY <1>3, <2>1
<1>7. ASSUME NEW i
      PROVE  Used(docs', DocsOf(docs', i) \ {k}) = Used(docs, DocsOf(docs, i))
  <2>1. /\ DocsOf(docs', i) \ {k} \in SUBSET DOMAIN docs'
        /\ DocsOf(docs, i) \subseteq DocsOf(docs', i) \ {k}
        /\ DocsOf(docs', i) \ {k} \subseteq DocsOf(docs, i) \cup {k}
    BY <1>4
  <2> QED
    BY <1>3, <1>4, <2>1
<1>8. PriorStay
  <2> SUFFICES ASSUME NEW i, NEW n \in Nat, n <= now
               PROVE  Used(docs', PriorOf(docs', i, n)) = Used(docs, PriorOf(docs, i, n))
    BY DEF PriorStay
  <2>1. ~(x.start < n)
    BY <1>1
  <2>2. /\ PriorOf(docs, i, n) \in SUBSET DOMAIN docs
        /\ PriorOf(docs', i, n) \in SUBSET DOMAIN docs'
        /\ PriorOf(docs, i, n) \subseteq PriorOf(docs', i, n)
        /\ PriorOf(docs', i, n) \subseteq PriorOf(docs, i, n) \cup {k}
    BY <1>2, <2>1 DEF PriorOf, DocsOf
  <2> QED
    BY <1>3, <2>2
<1>9. AskedStay
  BY <1>5 DEF AskedStay
<1>10. Calm
  BY <1>1, <1>8, <1>9 DEF Calm
<1> QED
  BY <1>0, <1>5, <1>6, <1>7, <1>10

\* What an answer may let a device in with, on the invoice i.
Fits(r, l, i) ==
  i # 0 => /\ Mine(r.mac, i) /\ HasTime(l)
           /\ ~r.byMac => now + l.time <= invoices[i].stop + Grace + 1
           /\ Room(docs, DocsOf(docs, i), l.time, invoices[i])

\* A handler that ends.
LEMMA TariffsDone ==
  ASSUME TariffsInv, AccessTyped', NEW a \in Slots, auth[a].pc # "idle", Done(a),
         UNCHANGED <<now, billing>>, Inserts(auth[a]), asking' \subseteq asking,
         \/ docs' = docs
         \/ \E l \in Limits, i \in 0..Len(invoices) :
              /\ Began(auth[a], l, i) \in Document /\ Fits(auth[a], l, i)
              /\ docs' = Append(docs, Began(auth[a], l, i))
  PROVE  Tariffs'
<1> DEFINE r == auth[a]
<1>1. /\ now' = now /\ invoices' = invoices /\ AccessTyped
      /\ auth' = [auth EXCEPT ![a] = Idle]
  BY DEF billing, TariffsInv, Done
<1>2. /\ Len(invoices) \in Nat /\ sessions \in Seq(RadSession)
      /\ auth \in [Slots -> Handler] /\ docs \in Seq(Document)
  BY <1>1, NowFacts DEF AccessTyped
<1>3. Grows
  BY <1>1, <1>2 DEF Grows
<1>4. ASSUME NEW l \in Limits, NEW i \in 0..Len(invoices)
      PROVE  Began(r, l, i).time = 0 /\ Began(r, l, i).start = now
  BY DEF Began
<1>5. Calm
  <2>1. CASE docs' = docs
    BY <1>1, <1>3, <2>1, CalmAside
  <2>2. ASSUME NEW l \in Limits, NEW i \in 0..Len(invoices),
               Began(r, l, i) \in Document, docs' = Append(docs, Began(r, l, i))
        PROVE  Calm
    BY <1>1, <1>3, <1>4, <2>2, SumsBegan
  <2> QED
    BY <2>1, <2>2
<1>6. SessionsStay
  BY <1>2 DEF Inserts, SessionsStay
<1>7. ASSUME NEW c \in Slots PROVE Knows(auth[c])' /\ Held(auth[c])'
  <2>1. auth'[c] = auth[c] \/ auth'[c] = Idle
    BY <1>1, <1>2
  <2> HIDE DEF Idle
  <2> QED
    BY <1>5, <1>6, <2>1, SlotKept
<1>8. ASSUME NEW k \in DOMAIN sessions' PROVE Kept(sessions[k])'
  <2>1. CASE k \in DOMAIN sessions
    BY <1>5, <1>6, <2>1, SessionKept
  <2>2. CASE k \notin DOMAIN sessions
    <3>1. r.pc = "insert" /\ sessions'[k] = Session(r)
      BY <1>2, <2>2, <1>8 DEF Inserts
    <3>2. PICK s : s = Session(r)
      OBVIOUS
    <3>3. /\ s.mac = r.mac /\ s.start = r.now /\ s.limit = r.limit
          /\ s.invoice = r.invoice
      BY <3>2 DEF Session
    <3>4. Held(r) /\ Prompted(r)
      BY DEF TariffsInv, Tariffs, Ordered
    <3>5. s.mac \in Macs /\ s.start \in Nat
      BY <1>1, <3>3, HandlerFacts DEF Time
    <3>6. Early(s)
      BY <3>3, <3>4 DEF Early, Prompted
    <3>7. Kept(s)
      BY <3>1, <3>3, <3>4 DEF Kept, Held
    <3>8. Kept(s)'
      BY <1>1, <1>5, <3>5, <3>6, <3>7, KeptKept
    <3> QED
      BY <3>1, <3>2, <3>8
  <2> QED
    BY <2>1, <2>2
<1>9. /\ \A d \in DOMAIN docs' : Charged(d)'
      /\ \A i \in DOMAIN invoices' : Quota(i)'
  <2>1. CASE docs' = docs
    BY <1>1, <1>3, <1>5, <2>1, ChargedKept, QuotaStays
  <2>2. ASSUME NEW l \in Limits, NEW i \in 0..Len(invoices),
               Began(r, l, i) \in Document, Fits(r, l, i),
               docs' = Append(docs, Began(r, l, i))
        PROVE  /\ \A d \in DOMAIN docs' : Charged(d)'
               /\ \A j \in DOMAIN invoices' : Quota(j)'
    <3> DEFINE x == Began(r, l, i)
    <3>0. PICK n : n = Len(docs) + 1
      OBVIOUS
    <3>1. /\ \A j : Used(docs', DocsOf(docs', j)) = Used(docs, DocsOf(docs, j))
          /\ \A j : \A d \in DOMAIN docs :
               Used(docs', DocsOf(docs', j) \ {d}) = Used(docs, DocsOf(docs, j) \ {d})
          /\ \A j : Used(docs', DocsOf(docs', j) \ {n}) = Used(docs, DocsOf(docs, j))
      BY <1>1, <1>3, <1>4, <2>2, <3>0, SumsBegan
    <3>2. /\ docs'[n] = x /\ \A d \in DOMAIN docs : docs'[d] = docs[d]
          /\ \A d \in DOMAIN docs' : d \in DOMAIN docs \/ d = n
      BY <1>2, <2>2, <3>0
    <3>3. /\ x.mac = r.mac /\ x.user = UserOf[r.mac] /\ x.start = now /\ x.limit = l
          /\ x.invoice = i /\ x.byMac = r.byMac
      BY DEF Began
    <3> HIDE DEF x
    <3>4. ASSUME NEW d \in DOMAIN docs PROVE Charged(d)'
      BY <1>5, <3>1, <3>2, ChargedKept
    <3>5. Charged(n)'
      <4>1. CASE i = 0
        BY <3>2, <3>3, <4>1 DEF Charged
      <4>2. CASE i # 0
        <5>1. /\ Mine(r.mac, i) /\ HasTime(l)
              /\ ~r.byMac => now + l.time <= invoices[i].stop + Grace + 1
              /\ Room(docs, DocsOf(docs, i), l.time, invoices[i])
          BY <2>2, <4>2 DEF Fits
        <5>2. /\ i \in DOMAIN invoices' /\ invoices'[i].user = UserOf[r.mac]
              /\ invoices'[i].start <= now'
          BY <1>1, <5>1 DEF Mine
        <5>3. now >= invoices[i].start
          <6>1. i \in DOMAIN invoices /\ invoices[i].start <= now
            BY <5>1 DEF Mine
          <6>2. invoices[i].start \in Nat /\ now \in Nat
            BY <1>1, <6>1, InvoiceTyped, NowFacts DEF Time
          <6> QED
            BY <6>1, <6>2
        <5>4. Room(docs', DocsOf(docs', i) \ {n}, l.time, invoices'[i])
          BY <1>1, <3>1, <5>1 DEF Room
        <5> QED
          BY <1>1, <3>2, <3>3, <5>1, <5>2, <5>3, <5>4 DEF Charged, Mine
      <4> QED
        BY <4>1, <4>2
    <3>6. \A j \in DOMAIN invoices' : Quota(j)'
      BY <1>1, <1>3, <3>1, QuotaStays
    <3> QED
      BY <3>2, <3>4, <3>5, <3>6
  <2> QED
    BY <2>1, <2>2
<1> QED
  BY <1>7, <1>8, <1>9 DEF Tariffs

LEMMA TariffsLookup ==
  ASSUME TariffsInv, NEW a \in Slots,
         KnownPassword(a) \/ OneTimePassword(a) \/ ByMac(a)
  PROVE  Tariffs'
<1> DEFINE r == auth[a]
           s == Newest(Live(r.mac, r.now))
<1>1. /\ r.pc = "lookup" /\ r.pc # "idle" /\ AccessTyped
      /\ UNCHANGED <<now, billing, sessions, nas>>
  BY DEF KnownPassword, OneTimePassword, ByMac, TariffsInv
<1>2. r \in Handler /\ r.invoice = 0
  BY <1>1, HandlerFacts DEF TariffsInv, Tariffs, Knows
<1>3. CASE KnownPassword(a)
  <2> DEFINE q == [r EXCEPT !.pc = "limits", !.session = s, !.psw = r.password]
  <2>1. Goes(a, q)
    BY <1>3 DEF KnownPassword
  <2>2. q.pc = "limits" /\ q.invoice = 0
    BY <1>2 DEF Handler
  <2> HIDE DEF q
  <2>3. Knows(q) /\ Held(q)
    BY <2>2 DEF Knows, Held
  <2> QED
    BY <1>1, <2>1, <2>3, TariffsGoes
<1>4. CASE OneTimePassword(a)
  <2> DEFINE q == [r EXCEPT !.pc = "device", !.session = s, !.psw = r.password]
  <2>1. Goes(a, q)
    BY <1>4 DEF OneTimePassword
  <2>2. q.pc = "device" /\ q.invoice = 0
    BY <1>2 DEF Handler
  <2> HIDE DEF q
  <2>3. Knows(q) /\ Held(q)
    BY <2>2 DEF Knows, Held
  <2> QED
    BY <1>1, <2>1, <2>3, TariffsGoes
<1>5. CASE ByMac(a)
  <2> DEFINE c == IF sessions[s].limit = NoLimit THEN "device" ELSE "reduce"
             q == [r EXCEPT !.pc = c, !.session = s, !.limit = sessions[s].limit]
  <2>1. Goes(a, q) /\ s # 0 /\ r.byMac
    BY <1>5 DEF ByMac
  <2>2. sessions[s].mac = r.mac
    BY <1>1, <2>1, NewestIs
  <2>3. /\ q.pc \in {"device", "reduce"} /\ q.invoice = 0 /\ q.session = s
        /\ q.byMac = r.byMac /\ q.limit = sessions[s].limit /\ q.mac = r.mac
    BY <1>2 DEF Handler
  <2> HIDE DEF q, s, c
  <2>4. Knows(q) /\ Held(q)
    BY <2>1, <2>2, <2>3 DEF Knows, Held
  <2> QED
    BY <1>1, <2>1, <2>4, TariffsGoes
<1> QED
  BY <1>3, <1>4, <1>5

LEMMA TariffsFindDevice ==
  ASSUME TariffsInv, AccessTyped', NEW a \in Slots, FindDevice(a)
  PROVE  Tariffs'
<1> DEFINE r == auth[a]
           q == [r EXCEPT !.pc = "limits"]
<1>1. /\ r.pc = "device" /\ r.pc # "idle" /\ AccessTyped
      /\ UNCHANGED <<now, billing, sessions>>
  BY DEF FindDevice, TariffsInv
<1>2. r \in Handler /\ r.invoice = 0
  BY <1>1, HandlerFacts DEF TariffsInv, Tariffs, Knows
<1>3. q.pc = "limits" /\ q.invoice = 0
  BY <1>2 DEF Handler
<1>4. CASE r.mac \in checked
  <2>1. Goes(a, q) /\ UNCHANGED nas
    BY <1>4 DEF FindDevice
  <2> HIDE DEF q
  <2>2. Knows(q) /\ Held(q)
    BY <1>3 DEF Knows, Held
  <2> QED
    BY <1>1, <2>1, <2>2, TariffsGoes
<1>5. CASE r.mac \notin checked
  <2>1. Done(a) /\ Inserts(r) /\ asking' \subseteq asking /\ docs' = docs
    BY <1>5 DEF FindDevice, Inserts, Reject
  <2> QED
    BY <1>1, <2>1, TariffsDone
<1> QED
  BY <1>4, <1>5

LEMMA TariffsFindLimits ==
  ASSUME TariffsInv, NEW a \in Slots, FindLimits(a)
  PROVE  Tariffs'
<1> DEFINE r == auth[a]
           found == IF Payable THEN Active(UserOf[r.mac], now) ELSE {}
<1>1. /\ r.pc = "limits" /\ r.pc # "idle" /\ AccessTyped
      /\ UNCHANGED <<now, billing, sessions, nas>>
  BY DEF FindLimits, TariffsInv
<1>2. r \in Handler /\ r.invoice = 0
  BY <1>1, HandlerFacts DEF TariffsInv, Tariffs, Knows
<1>3. CASE found = {}
  <2> DEFINE q == [r EXCEPT !.pc = "insert", !.limit = Final(Merged)]
  <2>1. Goes(a, q)
    BY <1>3 DEF FindLimits
  <2>2. q.pc = "insert" /\ q.invoice = 0
    BY <1>2 DEF Handler
  <2> HIDE DEF q
  <2>3. Knows(q) /\ Held(q)
    BY <2>2 DEF Knows, Held
  <2> QED
    BY <1>1, <2>1, <2>3, TariffsGoes
<1>4. CASE found # {}
  <2> DEFINE q == [r EXCEPT !.pc = "billing", !.at = now, !.invoice = Min(found)]
  <2>1. Goes(a, q)
    BY <1>4 DEF FindLimits
  <2>2. Min(found) \in found /\ found = Active(UserOf[r.mac], now)
    <3>1. found \in SUBSET Nat
      BY <1>1, NowFacts DEF Active
    <3> QED
      BY <1>4, <3>1, MinIn
  <2> HIDE DEF found
  <2>3. Mine(r.mac, Min(found))
    BY <2>2 DEF Active, Mine
  <2>4. r.now <= now /\ now \in Nat
    BY <1>1, NowFacts DEF TariffsInv, Ordered, Prompted
  <2>5. /\ q.pc = "billing" /\ q.at = now /\ q.invoice = Min(found)
        /\ q.mac = r.mac /\ q.now = r.now
    BY <1>2 DEF Handler
  <2> HIDE DEF q
  <2>6. Knows(q) /\ Held(q)
    BY <2>3, <2>4, <2>5 DEF Knows, Held
  <2> QED
    BY <1>1, <2>1, <2>6, TariffsGoes
<1> QED
  BY <1>3, <1>4

\* What is used of an invoice of a device was used since it began.
LEMMA UsedSince ==
  ASSUME TariffsInv, NEW m \in Macs, NEW i, Mine(m, i), i # 0
  PROVE  /\ DocsSince(invoices[i].user, invoices[i].start) \in SUBSET DOMAIN docs
         /\ DocsOf(docs, i) \subseteq DocsSince(invoices[i].user, invoices[i].start)
<1> SUFFICES ASSUME NEW d \in DOMAIN docs, docs[d].invoice = i
             PROVE  /\ docs[d].user = invoices[i].user
                    /\ docs[d].start >= invoices[i].start
  BY DEF DocsSince, DocsOf
<1>1. Charged(d)
  BY DEF TariffsInv, Tariffs
<1> QED
  BY <1>1 DEF Charged, Mine

LEMMA TariffsBill ==
  ASSUME SessionLimit = None, TariffsInv, NEW a \in Slots, Bill(a)
  PROVE  Tariffs'
<1> DEFINE r == auth[a]
           i == r.invoice
           l == Remaining(i, r.at)
           lifted == Lifted(Merged, invoices[i].limit)
           f == Final(IF Applies(l) THEN Over(lifted, l) ELSE lifted)
           k == IF Applies(l) THEN i ELSE 0
           q == [r EXCEPT !.pc = "insert", !.limit = f, !.invoice = k]
           S == DocsSince(invoices[i].user, invoices[i].start)
<1>1. /\ r.pc = "billing" /\ r.pc # "idle" /\ AccessTyped
      /\ UNCHANGED <<now, billing, sessions, nas>> /\ Goes(a, q)
  BY DEF Bill, TariffsInv
<1>2. r \in Handler /\ r.at \in Nat /\ r.mac \in Macs /\ i # 0
  BY <1>1, HandlerFacts, NowFacts DEF Handling
<1>3. Mine(r.mac, i) /\ r.now <= r.at /\ r.at <= now
  BY <1>1 DEF TariffsInv, Tariffs, Knows
<1>4. i \in DOMAIN invoices
  BY <1>3 DEF Mine
<1>5. /\ q.pc = "insert" /\ q.limit = f /\ q.invoice = k /\ q.mac = r.mac
      /\ q.now = r.now /\ q.at = r.at
  <2> HIDE DEF f, k
  <2> QED
    BY <1>2 DEF Handler
<1>6. CASE ~Applies(l)
  <2>1. k = 0
    BY <1>6
  <2> HIDE DEF q, k
  <2>2. Knows(q) /\ Held(q)
    BY <1>5, <2>1 DEF Knows, Held
  <2> QED
    BY <1>1, <2>2, TariffsGoes
<1>7. CASE Applies(l)
  <2>1. /\ l \in Limits /\ "time" \in DOMAIN l /\ l.time \in Int
        /\ l.time <= invoices[i].stop - r.at + Grace
        /\ HasTime(invoices[i].limit) =>
             l.time <= invoices[i].limit.time - SumFunctionOnSet(Times, S)
    BY <1>1, <1>2, <1>4, RemainingTyped
  <2>2. l.time > 0
    <3> HIDE DEF l
    <3> QED
      BY <1>7, <2>1, LimitsFacts DEF Applies
  <2>3. f \in Limits /\ "time" \in DOMAIN f /\ f.time = l.time
    <3>1. lifted \in Limits
      BY MergedTyped, LiftedTyped
    <3> HIDE DEF l, lifted
    <3>2. /\ Over(lifted, l) \in Limits /\ "time" \in DOMAIN Over(lifted, l)
          /\ Over(lifted, l)["time"] = l["time"]
      BY <2>1, <3>1, OverTyped
    <3>3. f = Over(lifted, l)
      BY <1>7, <3>2, FinalTyped
    <3> QED
      BY <2>1, <3>2, <3>3, LimitsFacts
  <2>4. SumFunctionOnSet(Times, S) = Used(docs, S)
    BY DEF Times, TimesOf, Used
  <2>5. /\ S \in SUBSET DOMAIN docs /\ DocsOf(docs, i) \in SUBSET S
        /\ docs \in Seq(Document)
    BY <1>1, <1>2, <1>3, UsedSince DEF AccessTyped
  <2>6. PriorOf(docs, i, r.now) \in SUBSET DocsOf(docs, i)
    BY DEF PriorOf
  <2>7. /\ DocsOf(docs, i) \in SUBSET DOMAIN docs
        /\ PriorOf(docs, i, r.now) \in SUBSET DOMAIN docs
    BY <2>5, <2>6
  <2> HIDE DEF S, l, f
  <2>8. /\ Used(docs, DocsOf(docs, i)) <= Used(docs, S)
        /\ Used(docs, PriorOf(docs, i, r.now)) <= Used(docs, DocsOf(docs, i))
    BY <2>5, <2>6, <2>7, SumSmaller
  <2>9. /\ Used(docs, S) \in Nat /\ Used(docs, DocsOf(docs, i)) \in Nat
        /\ Used(docs, PriorOf(docs, i, r.now)) \in Nat
    BY <2>5, <2>7, Summable
  <2>10. HasTime(invoices[i].limit) => invoices[i].limit.time \in Int
    BY <1>1, <1>4, InvoiceTyped, LimitsFacts DEF HasTime
  <2>11. /\ Room(docs, DocsOf(docs, i), f.time, invoices[i])
         /\ Room(docs, PriorOf(docs, i, r.now), f.time, invoices[i])
    <3> SUFFICES ASSUME Single, HasTime(invoices[i].limit)
                 PROVE  /\ Used(docs, DocsOf(docs, i)) + f.time <= invoices[i].limit.time
                        /\ Used(docs, PriorOf(docs, i, r.now)) + f.time
                             <= invoices[i].limit.time
      BY DEF Room
    <3>1. l.time <= invoices[i].limit.time - Used(docs, S)
      BY <2>1, <2>4
    <3> HIDE DEF r, i
    <3> QED
      BY <2>1, <2>3, <2>8, <2>9, <2>10, <3>1
  <2>12. k = i
    BY <1>7
  <2>13. HasTime(f)
    BY <2>2, <2>3 DEF HasTime
  <2> HIDE DEF q, k, i, r
  <2>14. Held(q)
    BY <1>3, <1>5, <2>1, <2>3, <2>11, <2>12, <2>13 DEF Held
  <2>15. Knows(q)
    BY <1>5 DEF Knows
  <2> USE DEF i, r
  <2> QED
    BY <1>1, <2>14, <2>15, TariffsGoes
<1> QED
  BY <1>6, <1>7

LEMMA TariffsWrite ==
  ASSUME TariffsInv, AccessTyped', NEW a \in Slots, Insert(a) \/ Cancel(a) \/ Refuse(a)
  PROVE  Tariffs'
<1> DEFINE r == auth[a]
<1>1. r.pc # "idle" /\ Done(a) /\ UNCHANGED <<now, billing>> /\ AccessTyped
  BY DEF Insert, Cancel, Refuse, TariffsInv
<1>2. CASE Refuse(a)
  <2>1. Inserts(r) /\ asking' \subseteq asking /\ docs' = docs
    BY <1>2 DEF Refuse, Inserts, Reject
  <2> QED
    BY <1>1, <2>1, TariffsDone
<1>3. CASE Cancel(a)
  <2>1. Inserts(r) /\ asking' \subseteq asking /\ docs' = docs
    BY <1>3 DEF Cancel, Inserts, nas
  <2> QED
    BY <1>1, <2>1, TariffsDone
<1>4. CASE Insert(a)
  <2>1. /\ r.pc = "insert" /\ Inserts(r) /\ asking' \subseteq asking
        /\ Exceeded(r.limit) => docs' = docs
        /\ ~Exceeded(r.limit) => Accept(r, r.limit, r.invoice)
    BY <1>4 DEF Insert, Inserts, Reject, Accept
  <2>2. \/ docs' = docs
        \/ r.mac \in asking /\ docs' = Append(docs, Began(r, r.limit, r.invoice))
    BY <2>1 DEF Accept, Began
  <2>3. /\ r.limit \in Limits /\ r.invoice \in 0..Len(invoices)
        /\ Began(r, r.limit, r.invoice) \in Document
    <3>1. /\ r.mac \in Macs /\ r.byMac \in BOOLEAN /\ UserOf[r.mac] \in Users
          /\ now \in Time /\ r.invoice \in Nat
          /\ r.limit \in Limits /\ r.invoice \in 0..Len(invoices)
      BY <1>1, HandlerFacts, NowFacts DEF Handler
    <3> HIDE DEF r
    <3> QED
      BY <3>1 DEF Began, Document
  <2>4. r.mac \in asking => Fits(r, r.limit, r.invoice)
    <3> SUFFICES ASSUME r.mac \in asking, r.invoice # 0
                 PROVE  Fits(r, r.limit, r.invoice)
      BY DEF Fits
    <3>1. Held(r) /\ Prompted(r)
      BY DEF TariffsInv, Tariffs, Ordered
    <3>2. /\ Mine(r.mac, r.invoice) /\ r.now <= r.at /\ HasTime(r.limit)
          /\ r.limit.time <= invoices[r.invoice].stop - r.at + Grace
          /\ Room(docs, DocsOf(docs, r.invoice), r.limit.time, invoices[r.invoice])
      BY <2>1, <3>1 DEF Held
    <3>3. now <= r.now + 1
      BY <1>1, <3>1 DEF Prompted
    <3>4. /\ now \in Nat /\ r.now \in Nat /\ r.at \in Nat /\ r.limit.time \in Int
          /\ invoices[r.invoice].stop \in Nat /\ Grace \in Nat
      BY <1>1, <3>2, HandlerFacts, NowFacts, InvoiceTyped, LimitsFacts,
         AccessAssumption DEF Time, Mine, HasTime
    <3> HIDE DEF r
    <3>5. now + r.limit.time <= invoices[r.invoice].stop + Grace + 1
      BY <3>2, <3>3, <3>4
    <3> QED
      BY <3>2, <3>5 DEF Fits
  <2> QED
    BY <1>1, <2>1, <2>2, <2>3, <2>4, TariffsDone
<1> QED
  BY <1>2, <1>3, <1>4

LEMMA TariffsReduce ==
  ASSUME TariffsInv, AccessTyped', NEW a \in Slots, Reduce(a)
  PROVE  Tariffs'
<1> DEFINE r == auth[a]
           s == sessions[r.session]
           u == UserOf[r.mac]
           l == Reduced(r.limit, u, s.start)
           S == DocsSince(u, s.start)
<1>1. /\ r.pc = "reduce" /\ r.pc # "idle" /\ AccessTyped
      /\ UNCHANGED <<now, billing, sessions>>
  BY DEF Reduce, TariffsInv
<1>2. /\ r \in Handler /\ r.mac \in Macs /\ r.limit \in Limits /\ r.invoice = 0
      /\ r.session \in DOMAIN sessions /\ r.byMac /\ s.mac = r.mac
      /\ s.limit = r.limit
  BY <1>1, HandlerFacts, NowFacts DEF Handling, TariffsInv, Tariffs, Knows
<1>3. docs \in Seq(Document)
  BY <1>1 DEF AccessTyped
<1>4. /\ l \in Limits /\ DOMAIN l = DOMAIN r.limit
      /\ ("time" \in DOMAIN r.limit /\ r.limit.time # 0) =>
           l.time = r.limit.time - SumFunctionOnSet(Times, S)
  BY <1>2, <1>3, ReducedTyped
<1>5. CASE Exceeded(l)
  <2> DEFINE q == [r EXCEPT !.pc = "device"]
  <2>1. Goes(a, q) /\ UNCHANGED nas
    BY <1>5 DEF Reduce
  <2>2. q.pc = "device" /\ q.invoice = 0
    BY <1>2 DEF Handler
  <2> HIDE DEF q, l
  <2>3. Knows(q) /\ Held(q)
    BY <2>2 DEF Knows, Held
  <2> QED
    BY <1>1, <2>1, <2>3, TariffsGoes
<1>6. CASE ~Exceeded(l)
  <2> DEFINE i == s.invoice
  <2>1. Done(a) /\ Accept(r, l, i)
    BY <1>6 DEF Reduce
  <2>2. asking' \subseteq asking
    BY <2>1 DEF Accept
  <2>3. Inserts(r)
    BY <1>1 DEF Inserts
  <2>4. docs' = docs \/ docs' = Append(docs, Began(r, l, i))
    BY <2>1 DEF Accept, Began
  <2>5. i \in 0..Len(invoices) /\ i \in Nat
    BY <1>1, <1>2, SessionFacts
  <2>6. Began(r, l, i) \in Document
    <3>1. /\ r.mac \in Macs /\ r.byMac \in BOOLEAN /\ UserOf[r.mac] \in Users
          /\ now \in Time
      BY <1>1, <1>2, HandlerFacts, NowFacts DEF Handler
    <3> HIDE DEF r, l, i
    <3> QED
      BY <1>4, <2>5, <3>1 DEF Began, Document
  <2>7. Fits(r, l, i)
    <3> SUFFICES ASSUME i # 0 PROVE Fits(r, l, i)
      BY DEF Fits
    <3>1. Kept(s)
      BY <1>2 DEF TariffsInv, Tariffs
    <3>2. /\ Mine(r.mac, i) /\ HasTime(r.limit)
          /\ Room(docs, PriorOf(docs, i, s.start), r.limit.time, invoices[i])
      BY <1>2, <3>1 DEF Kept
    <3>3. /\ "time" \in DOMAIN r.limit /\ r.limit.time \in Int /\ r.limit.time > 0
          /\ l.time = r.limit.time - SumFunctionOnSet(Times, S)
      <4> HIDE DEF l, S
      <4> QED
        BY <1>2, <1>4, <3>2, LimitsFacts DEF HasTime
    <3>4. HasTime(l)
      <4>1. "time" \in DOMAIN l \cap Quotas
        BY <1>4, <3>3 DEF Quotas
      <4> HIDE DEF l
      <4>2. l["time"] > 0
        BY <1>4, <1>6, <4>1, LimitsFacts DEF Exceeded
      <4> QED
        BY <1>4, <4>1, <4>2, LimitsFacts DEF HasTime
    <3>5. SumFunctionOnSet(Times, S) = Used(docs, S)
      BY DEF Times, TimesOf, Used
    <3> DEFINE D == DocsOf(docs, i)
               P == PriorOf(docs, i, s.start)
    <3>6. /\ S \in SUBSET DOMAIN docs /\ D \in SUBSET DOMAIN docs /\ P \in SUBSET D
          /\ P \in SUBSET DOMAIN docs /\ D \ P \in SUBSET DOMAIN docs
      BY DEF DocsSince, DocsOf, PriorOf
    <3>7. D \ P \in SUBSET S
      <4> SUFFICES ASSUME NEW d \in D, d \notin P PROVE d \in S
        OBVIOUS
      <4>1. d \in DOMAIN docs /\ docs[d].invoice = i /\ ~(docs[d].start < s.start)
        BY DEF DocsOf, PriorOf
      <4>2. docs[d].start \in Nat /\ s.start \in Nat
        BY <1>1, <1>2, <4>1, DocumentFacts, SessionFacts
      <4>3. docs[d].user = u
        <5>1. Charged(d)
          BY <4>1 DEF TariffsInv, Tariffs
        <5> QED
          BY <3>2, <4>1, <5>1 DEF Charged, Mine
      <4> QED
        BY <4>1, <4>2, <4>3 DEF DocsSince
    <3> HIDE DEF D, P, S
    <3>8. Used(docs, D) = Used(docs, P) + Used(docs, D \ P)
      BY <1>3, <3>6, SumSmaller
    <3>9. Used(docs, D \ P) <= Used(docs, S)
      BY <1>3, <3>6, <3>7, SumSmaller
    <3>10. /\ Used(docs, D) \in Nat /\ Used(docs, P) \in Nat /\ Used(docs, S) \in Nat
           /\ Used(docs, D \ P) \in Nat
      BY <1>3, <3>6, Summable
    <3>11. HasTime(invoices[i].limit) => invoices[i].limit.time \in Int
      BY <1>1, <3>2, InvoiceTyped, LimitsFacts DEF HasTime, Mine
    <3>12. Room(docs, D, l.time, invoices[i])
      <4> SUFFICES ASSUME Single, HasTime(invoices[i].limit)
                   PROVE  Used(docs, D) + l.time <= invoices[i].limit.time
        BY DEF Room
      <4>1. Used(docs, P) + r.limit.time <= invoices[i].limit.time
        BY <3>2 DEF Room, P
      <4>2. l.time = r.limit.time - Used(docs, S)
        BY <3>3, <3>5
      <4> HIDE DEF l, r, i
      <4> QED
        BY <3>3, <3>8, <3>9, <3>10, <3>11, <4>1, <4>2
    <3> HIDE DEF l
    <3> QED
      BY <1>2, <3>2, <3>4, <3>12 DEF Fits, D
  <2> HIDE DEF l, i
  <2> QED
    BY <1>1, <1>4, <2>1, <2>2, <2>3, <2>4, <2>5, <2>6, <2>7, TariffsDone
<1> QED
  BY <1>5, <1>6

\* An end leaves all times.
LEMMA TariffsEnd ==
  ASSUME TariffsInv, AccessTyped', NEW e \in DOMAIN docs, End(e)
  PROVE  Tariffs'
<1>1. /\ UNCHANGED <<now, asking, auth, sessions, invoices>>
      /\ docs' = [docs EXCEPT ![e].open = FALSE] /\ AccessTyped
  BY DEF End, billing, TariffsInv
<1>2. ASSUME NEW d \in DOMAIN docs
      PROVE  /\ docs'[d].mac = docs[d].mac /\ docs'[d].start = docs[d].start
             /\ docs'[d].time = docs[d].time /\ docs'[d].limit = docs[d].limit
             /\ docs'[d].user = docs[d].user /\ docs'[d].invoice = docs[d].invoice
             /\ docs'[d].byMac = docs[d].byMac
             /\ docs'[d].open => docs[d].open
  BY <1>1, DocumentFacts DEF Document
<1>3. DOMAIN docs' = DOMAIN docs
  BY <1>1
<1>4. /\ docs \in Seq(Document) /\ docs' \in Seq(Document)
  BY <1>1 DEF AccessTyped
<1>5. \A i : DocsOf(docs', i) = DocsOf(docs, i)
  BY <1>2, <1>3 DEF DocsOf
<1>6. \A i, n : PriorOf(docs', i, n) = PriorOf(docs, i, n)
  BY <1>2, <1>3, <1>5 DEF PriorOf, DocsOf
<1>7. ASSUME NEW S \in SUBSET DOMAIN docs PROVE Used(docs', S) = Used(docs, S)
  BY <1>2, <1>3, <1>4, SumStays
<1>8. \A i : Used(docs', DocsOf(docs', i)) = Used(docs, DocsOf(docs, i))
  <2>1. \A i : DocsOf(docs, i) \in SUBSET DOMAIN docs
    BY DEF DocsOf
  <2> QED
    BY <1>5, <1>7, <2>1
<1>9. \A i : \A d \in DOMAIN docs :
        Used(docs', DocsOf(docs', i) \ {d}) = Used(docs, DocsOf(docs, i) \ {d})
  <2>1. \A i : \A d : DocsOf(docs, i) \ {d} \in SUBSET DOMAIN docs
    BY DEF DocsOf
  <2> QED
    BY <1>5, <1>7, <2>1
<1>10. \A i, n : Used(docs', PriorOf(docs', i, n)) = Used(docs, PriorOf(docs, i, n))
  <2>1. \A i, n : PriorOf(docs, i, n) \in SUBSET DOMAIN docs
    BY DEF DocsOf, PriorOf
  <2> QED
    BY <1>6, <1>7, <2>1
<1>11. Grows /\ SessionsStay
  BY <1>1, NowFacts DEF Grows, SessionsStay
<1>12. Calm
  <2>1. PriorStay
    BY <1>10 DEF PriorStay
  <2>2. AskedStay
    BY <1>8 DEF AskedStay
  <2>3. now \in Nat /\ now' \in Nat /\ now <= now'
    BY <1>1, NowFacts
  <2> QED
    BY <1>11, <2>1, <2>2, <2>3 DEF Calm
<1>13. \A a \in Slots : Knows(auth[a])' /\ Held(auth[a])'
  BY <1>1, <1>11, <1>12, SlotKept
<1>14. \A k \in DOMAIN sessions' : Kept(sessions[k])'
  BY <1>1, <1>11, <1>12, SessionKept
<1>15. ASSUME NEW d \in DOMAIN docs' PROVE Charged(d)'
  BY <1>2, <1>3, <1>9, <1>12, <1>15, ChargedKept
<1>16. \A i \in DOMAIN invoices' : Quota(i)'
  BY <1>1, <1>8, <1>11, QuotaStays
<1> QED
  BY <1>13, <1>14, <1>15, <1>16 DEF Tariffs

\* A tick is used by the session that is open, if the device has one.
LEMMA TariffsTick ==
  ASSUME TariffsInv, AccessTyped', Tick
  PROVE  Tariffs'
<1>1. /\ now' = now + 1 /\ now \in Nat /\ AccessTyped
      /\ UNCHANGED <<invoices, sessions, auth, asking>> /\ DOMAIN docs' = DOMAIN docs
  BY TickFacts DEF TariffsInv
<1>2. ASSUME NEW d \in DOMAIN docs
      PROVE  /\ docs'[d].mac = docs[d].mac /\ docs'[d].start = docs[d].start
             /\ docs'[d].limit = docs[d].limit /\ docs'[d].open = docs[d].open
             /\ docs'[d].invoice = docs[d].invoice /\ docs'[d].user = docs[d].user
             /\ docs'[d].byMac = docs[d].byMac
             /\ docs[d].open => /\ docs'[d].time = docs[d].time + 1
                                /\ "time" \in DOMAIN docs[d].limit =>
                                     docs[d].time < docs[d].limit.time
             /\ ~docs[d].open => docs'[d].time = docs[d].time
  BY <1>1, <1>2, TickFacts
<1>3. docs \in Seq(Document) /\ docs' \in Seq(Document)
  BY <1>1 DEF AccessTyped
<1>4. \A i : DocsOf(docs', i) = DocsOf(docs, i) /\ DocsOf(docs, i) \in SUBSET DOMAIN docs
  BY <1>1, <1>2 DEF DocsOf
<1>5. \A i, n : /\ PriorOf(docs', i, n) = PriorOf(docs, i, n)
                /\ PriorOf(docs, i, n) \in SUBSET DOMAIN docs
  BY <1>1, <1>2 DEF PriorOf, DocsOf
<1>6. ASSUME NEW S \in SUBSET DOMAIN docs, \A d \in S : ~docs[d].open
      PROVE  Used(docs', S) = Used(docs, S)
  BY <1>1, <1>2, <1>3, <1>6, SumStays
\* The sessions on an invoice of a device are its own.
<1>7. ASSUME Single, NEW m \in Macs, NEW i, i \in DOMAIN invoices, i # 0,
             invoices[i].user = UserOf[m], NEW d \in DocsOf(docs, i)
      PROVE  docs[d].mac = m
  <2>1. d \in DOMAIN docs /\ docs[d].invoice = i
    BY <1>7 DEF DocsOf
  <2>2. Charged(d) /\ docs[d].mac \in Macs
    BY <1>1, <2>1, DocumentFacts DEF TariffsInv, Tariffs
  <2>3. UserOf[docs[d].mac] = UserOf[m]
    BY <1>7, <2>1, <2>2 DEF Charged, Mine
  <2> QED
    BY <1>7, <2>2, <2>3 DEF Single
<1>8. \A i \in DOMAIN invoices : i # 0
  BY <1>1, NowFacts
<1>9. PriorStay
  <2> SUFFICES ASSUME NEW m \in Macs, NEW i \in DOMAIN invoices, NEW n \in Nat, Single,
                      Mine(m, i), n <= now, After(m, n)
               PROVE  Used(docs', PriorOf(docs', i, n)) = Used(docs, PriorOf(docs, i, n))
    BY DEF PriorStay
  <2>1. ASSUME NEW d \in PriorOf(docs, i, n) PROVE ~docs[d].open
    <3>1. d \in DocsOf(docs, i) /\ d \in DOMAIN docs /\ docs[d].start < n
      BY <2>1 DEF PriorOf, DocsOf
    <3>2. docs[d].mac = m
      BY <1>7, <1>8, <3>1 DEF Mine
    <3>3. docs[d].start \in Nat
      BY <1>1, <3>1, DocumentFacts
    <3> QED
      BY <3>1, <3>2, <3>3 DEF After
  <2> QED
    BY <1>5, <1>6, <2>1
<1>10. AskedStay
  <2> SUFFICES ASSUME NEW m \in Macs, NEW i \in DOMAIN invoices, Single, Mine(m, i),
                      m \in asking
               PROVE  Used(docs', DocsOf(docs', i)) = Used(docs, DocsOf(docs, i))
    BY DEF AskedStay
  <2>1. ASSUME NEW d \in DocsOf(docs, i) PROVE ~docs[d].open
    <3>1. docs[d].mac = m /\ d \in DOMAIN docs
      BY <1>7, <1>8, <2>1 DEF Mine, DocsOf
    <3> QED
      BY <3>1 DEF TariffsInv, Ordered, AskedOnce
  <2> QED
    BY <1>4, <1>6, <2>1
<1>11. Grows /\ SessionsStay
  BY <1>1, NowFacts DEF Grows, SessionsStay
<1>12. Calm
  BY <1>1, <1>9, <1>10, <1>11 DEF Calm
<1>13. \A a \in Slots : Knows(auth[a])' /\ Held(auth[a])'
  BY <1>1, <1>11, <1>12, SlotKept
<1>14. \A k \in DOMAIN sessions' : Kept(sessions[k])'
  BY <1>1, <1>11, <1>12, SessionKept
\* Of the sessions on an invoice one is open at most.
<1>15. ASSUME Single, NEW d \in DOMAIN docs, docs[d].open, docs[d].invoice # 0
       PROVE  LET S == DocsOf(docs, docs[d].invoice) \ {d}
              IN  /\ S \in SUBSET DOMAIN docs
                  /\ Used(docs', S) = Used(docs, S)
  <2> DEFINE i == docs[d].invoice
             S == DocsOf(docs, i) \ {d}
  <2>1. Mine(docs[d].mac, i) /\ docs[d].mac \in Macs
    BY <1>1, <1>15, DocumentFacts DEF TariffsInv, Tariffs, Charged
  <2>2. S \in SUBSET DOMAIN docs
    BY <1>4
  <2>3. ASSUME NEW e \in S PROVE ~docs[e].open
    <3>1. e \in DocsOf(docs, i) /\ e # d /\ e \in DOMAIN docs
      BY <2>2, <2>3
    <3>2. docs[e].mac = docs[d].mac
      BY <1>7, <1>15, <2>1, <3>1 DEF Mine
    <3> QED
      BY <1>15, <3>1, <3>2 DEF TariffsInv, Ordered, AskedOnce
  <2> HIDE DEF S
  <2>4. Used(docs', S) = Used(docs, S)
    BY <1>6, <2>2, <2>3
  <2> QED
    BY <2>2, <2>4 DEF S
<1>16. ASSUME NEW d \in DOMAIN docs' PROVE Charged(d)'
  BY <1>1, <1>2, <1>4, <1>12, <1>15, <1>16, ChargedKept
<1>17. ASSUME NEW i \in DOMAIN invoices' PROVE Quota(i)'
  <2> DEFINE D == DocsOf(docs, i)
  <2>1. i \in DOMAIN invoices /\ invoices'[i] = invoices[i] /\ i # 0
    BY <1>1, <1>8, <1>17
  <2>2. CASE \A d \in D : ~docs[d].open
    <3>1. Used(docs', DocsOf(docs', i)) = Used(docs, DocsOf(docs, i))
      BY <1>4, <1>6, <2>2
    <3> QED
      BY <1>11, <2>1, <3>1, QuotaStays
  <2>3. ASSUME NEW d \in D, docs[d].open PROVE Quota(i)'
    <3> SUFFICES ASSUME Single, HasTime(invoices[i].limit)
                 PROVE  Used(docs', D) + 0 <= invoices[i].limit.time
      BY <1>4, <2>1 DEF Quota, Room
    <3>1. d \in DOMAIN docs /\ docs[d].invoice = i
      BY <2>3 DEF DocsOf
    <3>2. /\ D \in SUBSET DOMAIN docs /\ D \in SUBSET DOMAIN docs'
          /\ D \ {d} \in SUBSET DOMAIN docs /\ d \in D
          /\ Used(docs', D \ {d}) = Used(docs, D \ {d})
      BY <1>1, <1>4, <1>15, <2>1, <2>3, <3>1
    <3>3. Charged(d)
      BY <3>1 DEF TariffsInv, Tariffs
    <3>4. HasTime(docs[d].limit) /\ Room(docs, D \ {d}, docs[d].limit.time, invoices[i])
      BY <2>1, <2>3, <3>1, <3>3 DEF Charged
    <3> HIDE DEF D
    <3>5. Used(docs, D \ {d}) + docs[d].limit.time <= invoices[i].limit.time
      BY <3>4 DEF Room
    <3>6. Used(docs', D) = docs'[d].time + Used(docs', D \ {d})
      BY <1>3, <3>2, SumSplit
    <3>7. /\ docs'[d].time = docs[d].time + 1 /\ docs[d].time < docs[d].limit.time
          /\ docs[d].time \in Nat /\ docs[d].limit.time \in Int
      BY <1>1, <1>2, <2>3, <3>1, <3>4, DocumentFacts, LimitsFacts DEF HasTime
    <3>8. Used(docs, D \ {d}) \in Nat
      BY <1>3, <3>2, Summable
    <3>9. invoices[i].limit.time \in Int
      BY <1>1, <2>1, InvoiceTyped, LimitsFacts DEF HasTime
    <3> QED
      BY <3>2, <3>5, <3>6, <3>7, <3>8, <3>9
  <2> QED
    BY <2>2, <2>3
<1> QED
  BY <1>13, <1>14, <1>16, <1>17 DEF Tariffs

LEMMA TariffsKept ==
  ASSUME SessionLimit = None, TariffsInv, [Next]_vars PROVE TariffsInv'
<1>1. AccessTyped' /\ Ordered'
  BY TypesKept, OrderedKept DEF TariffsInv
<1>2. CASE Portal /\ Outside
  <2>1. UNCHANGED <<now, docs, asking, sessions, auth>> /\ Grows
    BY <1>2, PortalGrows DEF Outside, nas, TariffsInv, AccessTyped
  <2> QED
    BY <1>1, <2>1, TariffsAside DEF TariffsInv
<1>3. CASE Aside
  <2>1. UNCHANGED <<now, docs, asking, sessions, auth, invoices>>
    BY <1>3 DEF Aside, nas, billing
  <2>2. Grows
    BY <2>1, NowFacts DEF TariffsInv, Grows
  <2> QED
    BY <1>1, <2>1, <2>2, TariffsAside DEF TariffsInv
<1>4. CASE AuthCrash
  <2>1. UNCHANGED <<now, docs, asking, sessions, invoices>>
        /\ auth' = [a \in Slots |-> Idle]
    BY <1>4 DEF AuthCrash, nas, billing
  <2>2. Grows
    BY <2>1, NowFacts DEF TariffsInv, Grows
  <2> HIDE DEF Idle
  <2> QED
    BY <1>1, <2>1, <2>2, TariffsAside DEF TariffsInv
<1>5. ASSUME NEW a \in Slots, Handle(a) PROVE Tariffs'
  BY <1>1, <1>5, TariffsLookup, TariffsReduce, TariffsFindDevice, TariffsFindLimits,
     TariffsBill, TariffsWrite DEF Handle
<1>6. AccessTyped
  BY DEF TariffsInv
<1>7. Tariffs'
  BY <1>1, <1>2, <1>3, <1>4, <1>5, <1>6, StepForms, TariffsReceive, TariffsEnd,
     TariffsTick DEF TariffsInv
<1> QED
  BY <1>1, <1>7 DEF TariffsInv

LEMMA TariffsInit == Init => TariffsInv
<1> SUFFICES ASSUME Init PROVE TariffsInv
  OBVIOUS
<1>1. AccessTyped /\ Ordered
  BY TypesInit, OrderedInit
<1>2. /\ sessions = <<>> /\ docs = <<>> /\ invoices = <<>>
      /\ \A a \in Slots : auth[a].pc = "idle" /\ auth[a].invoice = 0
  BY DEF Init, AccessInit, BillingInit, Idle
<1>3. Tariffs
  BY <1>2 DEF Tariffs, Knows, Held
<1> QED
  BY <1>1, <1>3 DEF TariffsInv

\* The variables keep their types; in particular a handler that is done keeps
\* nothing of its request.
THEOREM AccessTypeCorrect == Spec => []TypeOK
<1>1. Init => AccessTyped /\ Ordered
  BY TypesInit, OrderedInit
<1>2. AccessTyped /\ Ordered /\ [Next]_vars => AccessTyped' /\ Ordered'
  BY TypesKept, OrderedKept
<1>3. AccessTyped /\ Ordered => TypeOK
  <2> SUFFICES ASSUME AccessTyped, Ordered PROVE TypeOK
    OBVIOUS
  <2>1. BillingTypeOK
    BY TypedOK DEF AccessTyped
  <2>2. \A l \in Limits : IsLimits(l)
    BY DEF Limits, IsLimits
  <2>3. ASSUME NEW k \in DOMAIN sessions PROVE IsSession(sessions[k])
    BY <2>2, <2>3, SessionFacts DEF IsSession, RadSession
  <2>4. ASSUME NEW a \in Slots
        PROVE  /\ auth[a].session \in 0..Len(sessions)
               /\ auth[a].invoice \in 0..Len(invoices)
               /\ auth[a].psw \in Passwords
               /\ auth[a].pc = "idle" => auth[a] = Idle
    BY <2>4 DEF AccessTyped, Handling, Handler
  <2>5. ASSUME NEW d \in DOMAIN docs PROVE docs[d].time \in 0..MaxTime
    <3>1. /\ docs[d].time \in Nat /\ docs[d].start \in Nat /\ docs[d].start <= now
          /\ docs[d].time <= now - docs[d].start
      BY <2>5, DocumentFacts DEF Ordered, Counted
    <3>2. now \in Nat /\ now <= MaxTime /\ MaxTime \in Nat
      BY NowFacts DEF Time
    <3> QED
      BY <3>1, <3>2
  <2> QED
    BY <2>1, <2>3, <2>4, <2>5 DEF TypeOK, AccessTyped
<1> QED
  BY <1>1, <1>2, <1>3, PTL DEF Spec

\* Who logged in on a tariff is out when it ends, but for the grace and a tick.
LEMMA EndsInTime ==
  ASSUME SessionLimit = None, TariffsInv PROVE TariffEnds
<1> SUFFICES ASSUME NEW d \in DOMAIN docs, docs[d].open, docs[d].invoice # 0,
                    ~docs[d].byMac
             PROVE  now <= invoices[docs[d].invoice].stop + Grace + 1
  BY DEF TariffEnds
<1>1. AccessTyped /\ Counted(docs[d]) /\ Charged(d)
  BY DEF TariffsInv, Tariffs, Ordered
<1>2. /\ docs[d].time = now - docs[d].start
      /\ "time" \in DOMAIN docs[d].limit => docs[d].time <= docs[d].limit.time
  BY <1>1 DEF Counted
<1>3. /\ HasTime(docs[d].limit) /\ docs[d].invoice \in DOMAIN invoices
      /\ docs[d].start + docs[d].limit.time
           <= invoices[docs[d].invoice].stop + Grace + 1
  BY <1>1 DEF Charged, Mine
<1>4. /\ docs[d].start \in Nat /\ docs[d].limit.time \in Int /\ now \in Nat
      /\ invoices[docs[d].invoice].stop \in Nat /\ Grace \in Nat
  BY <1>1, <1>3, DocumentFacts, LimitsFacts, NowFacts, InvoiceTyped, AccessAssumption
     DEF HasTime
<1> QED
  BY <1>2, <1>3, <1>4 DEF HasTime

\* The use of a tariff is within its time.
LEMMA WithinTime ==
  ASSUME SessionLimit = None, TariffsInv PROVE QuotaKept
<1> SUFFICES ASSUME Single, NEW i \in DOMAIN invoices, HasTime(invoices[i].limit)
             PROVE  SumFunctionOnSet(Times, {d \in DOMAIN docs : docs[d].invoice = i})
                      <= invoices[i].limit.time
  BY DEF QuotaKept, Single, HasTime
<1>1. Quota(i) /\ docs \in Seq(Document)
  BY DEF TariffsInv, Tariffs, AccessTyped
<1>2. SumFunctionOnSet(Times, {d \in DOMAIN docs : docs[d].invoice = i})
        = Used(docs, DocsOf(docs, i))
  BY DEF Used, TimesOf, Times, DocsOf
<1>3. DocsOf(docs, i) \in SUBSET DOMAIN docs
  BY DEF DocsOf
<1>4. Used(docs, DocsOf(docs, i)) \in Nat
  BY <1>1, <1>3, Summable
<1>5. Used(docs, DocsOf(docs, i)) + 0 <= invoices[i].limit.time
  BY <1>1 DEF Quota, Room
<1> QED
  BY <1>2, <1>4, <1>5

\* Both hold of every run, whatever handlers overlap, repeat, are cancelled or
\* killed: a licence that limits every session (SessionLimit) makes them idle.
THEOREM TariffsHold == Spec => [](TariffEnds /\ QuotaKept)
<1>1. CASE SessionLimit # None
  <2>1. Init => TariffEnds /\ QuotaKept
    BY <1>1 DEF TariffEnds, QuotaKept
  <2>2. TariffEnds' /\ QuotaKept'
    BY <1>1 DEF TariffEnds, QuotaKept
  <2>3. TariffEnds /\ QuotaKept /\ [Next]_vars => TariffEnds' /\ QuotaKept'
    BY <2>2
  <2> QED
    BY <2>1, <2>3, PTL DEF Spec
<1>2. CASE SessionLimit = None
  <2>1. Init => TariffsInv
    BY TariffsInit
  <2>2. TariffsInv /\ [Next]_vars => TariffsInv'
    BY <1>2, TariffsKept
  <2>3. TariffsInv => TariffEnds /\ QuotaKept
    BY <1>2, EndsInTime, WithinTime
  <2> QED
    BY <2>1, <2>2, <2>3, PTL DEF Spec
<1> QED
  BY <1>1, <1>2

\* Who logged in on a tariff is out when the tariff ends (TariffEnds).
THEOREM EndsOnTime == Spec => []TariffEnds
BY TariffsHold, PTL

\* A tariff is not used longer than its time (QuotaKept).
THEOREM NeverOverUsed == Spec => []QuotaKept
BY TariffsHold, PTL

----------------------------------------------------------------------------
(* Logins: sequences of octets *)

IsSeq(s) == s \in Seq(Range(s))

LEMMA SeqFacts ==
  ASSUME NEW s, IsSeq(s)
  PROVE  /\ Len(s) \in Nat /\ DOMAIN s = 1..Len(s)
         /\ \A S : (\A i \in 1..Len(s) : s[i] \in S) => s \in Seq(S)
<1>1. Len(s) \in Nat /\ DOMAIN s = 1..Len(s) /\ s \in [1..Len(s) -> Range(s)]
  BY DEF IsSeq
<1>2. ASSUME NEW S, \A i \in 1..Len(s) : s[i] \in S PROVE s \in Seq(S)
  <2>1. s \in [1..Len(s) -> S]
    BY <1>1, <1>2
  <2> QED
    BY <1>1, <2>1
<1> QED
  BY <1>1, <1>2

LEMMA SeqIs == ASSUME NEW S, NEW s \in Seq(S) PROVE IsSeq(s)
<1>1. s \in [1..Len(s) -> Range(s)] /\ Len(s) \in Nat
  BY DEF Range
<1> QED
  BY <1>1 DEF IsSeq

LEMMA FunctionIs ==
  ASSUME NEW n \in Nat, NEW f, f = [i \in 1..n |-> f[i]]
  PROVE  IsSeq(f) /\ Len(f) = n
<1>1. f \in [1..n -> Range(f)]
  BY DEF Range
<1> QED
  BY <1>1 DEF IsSeq

LEMMA SameSeq ==
  ASSUME NEW s, NEW t, IsSeq(s), IsSeq(t), Len(s) = Len(t),
         \A i \in 1..Len(s) : s[i] = t[i]
  PROVE  s = t
<1>1. s \in Seq(Range(s) \cup Range(t)) /\ t \in Seq(Range(s) \cup Range(t))
  BY DEF IsSeq
<1> QED
  BY <1>1, SeqEqual

LEMMA Joined ==
  ASSUME NEW s, NEW t, IsSeq(s), IsSeq(t)
  PROVE  /\ IsSeq(s \o t) /\ Len(s \o t) = Len(s) + Len(t)
         /\ \A i \in 1..Len(s) + Len(t) :
              (s \o t)[i] = IF i <= Len(s) THEN s[i] ELSE t[i - Len(s)]
<1> DEFINE S == Range(s) \cup Range(t)
<1>1. s \in Seq(S) /\ t \in Seq(S)
  BY DEF IsSeq
<1> HIDE DEF S
<1>2. s \o t \in Seq(S)
  BY <1>1, ConcatProperties
<1>3. IsSeq(s \o t)
  BY <1>2, SeqIs
<1> QED
  BY <1>1, <1>3, ConcatProperties

LEMMA CancelRight ==
  ASSUME NEW s, NEW t, NEW u, IsSeq(s), IsSeq(t), IsSeq(u), s \o u = t \o u
  PROVE  s = t
<1> DEFINE S == Range(s) \cup Range(t) \cup Range(u)
<1>1. s \in Seq(S) /\ t \in Seq(S) /\ u \in Seq(S)
  BY DEF IsSeq
<1> HIDE DEF S
<1> QED
  BY <1>1, ConcatSimplifications

LEMMA CancelLeft ==
  ASSUME NEW s, NEW t, NEW u, IsSeq(s), IsSeq(t), IsSeq(u), u \o s = u \o t
  PROVE  s = t
<1> DEFINE S == Range(s) \cup Range(t) \cup Range(u)
<1>1. s \in Seq(S) /\ t \in Seq(S) /\ u \in Seq(S)
  BY DEF IsSeq
<1> HIDE DEF S
<1> QED
  BY <1>1, ConcatSimplifications

\* s[from:to]
LEMMA Sliced ==
  ASSUME NEW s, IsSeq(s), NEW from \in Nat, NEW to \in Nat, from <= to,
         to <= Len(s)
  PROVE  /\ IsSeq(Slice(s, from, to)) /\ Len(Slice(s, from, to)) = to - from
         /\ \A i \in 1..to - from : Slice(s, from, to)[i] = s[from + i]
<1>1. \A i \in from + 1..to : s[i] \in Range(s)
  BY SeqFacts DEF Range
<1>2. /\ SubSeq(s, from + 1, to) \in Seq(Range(s))
      /\ Len(SubSeq(s, from + 1, to))
           = IF from + 1 <= to THEN to - (from + 1) + 1 ELSE 0
      /\ \A i \in 1..to - (from + 1) + 1 :
           SubSeq(s, from + 1, to)[i] = s[(from + 1) + i - 1]
  BY <1>1, SubSeqProperties
<1>3. to - (from + 1) + 1 = to - from
  OBVIOUS
<1> DEFINE u == SubSeq(s, from + 1, to)
<1>4. ASSUME NEW i \in 1..to - from PROVE u[i] = s[from + i]
  <2>1. (from + 1) + i - 1 = from + i
    OBVIOUS
  <2> QED
    BY <1>2, <1>3, <2>1
<1>5. Len(u) = to - from
  BY <1>2
<1>6. IsSeq(u)
  BY <1>2, SeqIs
<1>7. u = Slice(s, from, to)
  BY DEF Slice
<1> HIDE DEF u
<1> QED
  BY <1>4, <1>5, <1>6, <1>7

LEMMA SliceLeft ==
  ASSUME NEW s, NEW t, IsSeq(s), IsSeq(t), NEW from \in Nat, NEW to \in Nat,
         from <= to, to <= Len(s)
  PROVE  Slice(s \o t, from, to) = Slice(s, from, to)
<1> DEFINE st == s \o t
<1>1. /\ IsSeq(st) /\ Len(st) = Len(s) + Len(t)
      /\ \A i \in 1..Len(s) : st[i] = s[i]
  BY Joined, SeqFacts
<1> HIDE DEF st
<1>2. to <= Len(st)
  BY <1>1, SeqFacts
<1>3. \A i \in 1..to - from : st[from + i] = s[from + i]
  BY <1>1, SeqFacts
<1>4. /\ IsSeq(Slice(st, from, to)) /\ Len(Slice(st, from, to)) = to - from
      /\ \A i \in 1..to - from : Slice(st, from, to)[i] = st[from + i]
  BY <1>1, <1>2, Sliced
<1>5. /\ IsSeq(Slice(s, from, to)) /\ Len(Slice(s, from, to)) = to - from
      /\ \A i \in 1..to - from : Slice(s, from, to)[i] = s[from + i]
  BY Sliced
<1>6. Slice(st, from, to) = Slice(s, from, to)
  BY <1>3, <1>4, <1>5, SameSeq
<1> QED
  BY <1>6 DEF st

LEMMA SliceAt ==
  ASSUME NEW s, NEW t, IsSeq(s), IsSeq(t), NEW from \in Nat, NEW to \in Nat,
         from <= to, to <= Len(s), to - from = Len(t),
         \A i \in 1..Len(t) : s[from + i] = t[i]
  PROVE  Slice(s, from, to) = t
<1>1. /\ IsSeq(Slice(s, from, to)) /\ Len(Slice(s, from, to)) = to - from
      /\ \A i \in 1..to - from : Slice(s, from, to)[i] = s[from + i]
  BY Sliced
<1> QED
  BY <1>1, SameSeq

LEMMA SliceRight ==
  ASSUME NEW s, NEW t, IsSeq(s), IsSeq(t), NEW from \in Nat, NEW to \in Nat,
         from = Len(s), to = Len(s) + Len(t)
  PROVE  Slice(s \o t, from, to) = t
<1> DEFINE st == s \o t
<1>1. Len(s) \in Nat /\ Len(t) \in Nat /\ from <= to /\ to - from = Len(t)
  BY SeqFacts
<1>2. IsSeq(st) /\ to <= Len(st)
  BY <1>1, Joined
<1>3. ASSUME NEW i \in 1..Len(t) PROVE st[from + i] = t[i]
  <2>1. \A j \in 1..Len(s) + Len(t) :
          st[j] = IF j <= Len(s) THEN s[j] ELSE t[j - Len(s)]
    BY Joined
  <2>2. /\ from + i \in 1..Len(s) + Len(t) /\ ~(from + i <= Len(s))
        /\ (from + i) - Len(s) = i
    BY <1>1
  <2> QED
    BY <2>1, <2>2
<1> HIDE DEF st
<1>4. Slice(st, from, to) = t
  BY <1>1, <1>2, <1>3, SliceAt
<1> QED
  BY <1>4 DEF st

LEMMA NullsSeq == ASSUME NEW k \in Nat PROVE IsSeq(Nulls(k)) /\ Len(Nulls(k)) = k
<1> DEFINE f == Nulls(k)
<1>1. f = [i \in 1..k |-> f[i]]
  BY DEF Nulls
<1> HIDE DEF f
<1>2. IsSeq(f) /\ Len(f) = k
  BY <1>1, FunctionIs
<1> QED
  BY <1>2 DEF f

LEMMA DigestSeq ==
  ASSUME NEW a, NEW data, NEW k \in Nat
  PROVE  IsSeq(Digest(a, data, k)) /\ Len(Digest(a, data, k)) = k
<1> DEFINE f == Digest(a, data, k)
<1>1. f = [i \in 1..k |-> f[i]]
  BY DEF Digest
<1> HIDE DEF f
<1>2. IsSeq(f) /\ Len(f) = k
  BY <1>1, FunctionIs
<1> QED
  BY <1>2 DEF f

LEMMA NoCollision ==
  ASSUME NEW a, NEW x, NEW y, NEW k \in Nat \ {0},
         Digest(a, x, k)[1] = Digest(a, y, k)[1]
  PROVE  x = y
<1>1. /\ Digest(a, x, k)[1] = [n |-> 0, of |-> {<<a, x, 1>>}]
      /\ Digest(a, y, k)[1] = [n |-> 0, of |-> {<<a, y, 1>>}]
  BY DEF Digest
<1>2. [n |-> 0, of |-> {<<a, x, 1>>}].of = [n |-> 0, of |-> {<<a, y, 1>>}].of
  BY <1>1
<1>3. {<<a, x, 1>>} = {<<a, y, 1>>}
  BY <1>2
<1>4. <<a, x, 1>> = <<a, y, 1>>
  BY <1>3
<1> QED
  BY <1>4

LEMMA OneInput ==
  \A a, x, y : /\ Digest(a, x, 8)[1] = Digest(a, y, 8)[1] => x = y
               /\ Digest(a, x, 16)[1] = Digest(a, y, 16)[1] => x = y
               /\ Digest(a, x, 20)[1] = Digest(a, y, 20)[1] => x = y
<1>1. \A k \in Nat \ {0} : \A a, x, y :
        Digest(a, x, k)[1] = Digest(a, y, k)[1] => x = y
  BY NoCollision
<1>2. 8 \in Nat \ {0} /\ 16 \in Nat \ {0} /\ 20 \in Nat \ {0}
  OBVIOUS
<1> QED
  BY <1>1, <1>2

LEMMA DigestSeqs ==
  \A a, x : /\ IsSeq(Digest(a, x, 8)) /\ Len(Digest(a, x, 8)) = 8
            /\ IsSeq(Digest(a, x, 16)) /\ Len(Digest(a, x, 16)) = 16
            /\ IsSeq(Digest(a, x, 20)) /\ Len(Digest(a, x, 20)) = 20
<1>1. \A k \in Nat : \A a, x : IsSeq(Digest(a, x, k)) /\ Len(Digest(a, x, k)) = k
  BY DigestSeq
<1>2. 8 \in Nat /\ 16 \in Nat /\ 20 \in Nat
  OBVIOUS
<1> QED
  BY <1>1, <1>2

----------------------------------------------------------------------------
(* Logins: passwords hidden by a digest (pw_decrypt) *)

\* A password is a sequence of octets that are not 0 and not of a digest.
LEMMA CleartextFacts ==
  ASSUME NEW c \in Cleartexts
  PROVE  /\ IsSeq(c) /\ Len(c) \in Nat
         /\ \A i \in 1..Len(c) : /\ c[i] = Octet(c[i].n)
                                 /\ c[i].n \in Nat /\ c[i] # Octet(0)
<1> DEFINE n == Len(c)
<1>1. n \in Nat /\ c = [i \in 1..n |-> Octet(c[i].n)]
  BY CleartextAssumption
<1>2. \A i \in 1..n : c[i].n \in 1..255
  BY CleartextAssumption
<1> HIDE DEF n
<1>3. \A i \in 1..n : c[i] = Octet(c[i].n)
  BY <1>1
<1>4. c = [i \in 1..n |-> c[i]]
  BY <1>1, <1>3
<1>5. IsSeq(c)
  BY <1>1, <1>4, FunctionIs
<1>6. ASSUME NEW i \in 1..n PROVE c[i] # Octet(0)
  <2>1. Octet(0).n = 0
    BY DEF Octet
  <2>2. c[i].n # 0
    BY <1>2
  <2>3. c[i] = Octet(0) => c[i].n = Octet(0).n
    OBVIOUS
  <2> QED
    BY <2>1, <2>2, <2>3
<1>7. n \in Nat /\ \A i \in 1..n : c[i].n \in Nat
  <2>1. n \in Nat
    BY <1>1
  <2>2. \A i \in 1..n : c[i].n \in Nat
    BY <1>2
  <2> QED
    BY <2>1, <2>2
<1> QED
  BY <1>3, <1>5, <1>6, <1>7 DEF n

LEMMA PaddedFacts ==
  ASSUME NEW c \in Cleartexts
  PROVE  /\ IsSeq(Padded(c)) /\ Len(Padded(c)) \in Nat /\ Len(c) <= Len(Padded(c))
         /\ \A i \in 1..Len(c) : Padded(c)[i] = c[i]
         /\ \A i \in Len(c) + 1..Len(Padded(c)) : Padded(c)[i] = Octet(0)
<1> DEFINE more == 16 * ((Len(c) + 15) \div 16) - Len(c)
           zeros == Nulls(more)
<1>1. Len(c) \in Nat /\ IsSeq(c)
  BY CleartextFacts
<1>2. more \in Nat
  BY <1>1
<1>3. Padded(c) = c \o zeros
  BY DEF Padded
<1> HIDE DEF more
<1>4. IsSeq(zeros) /\ Len(zeros) = more /\ \A i \in 1..more : zeros[i] = Octet(0)
  BY <1>2, NullsSeq DEF Nulls
<1> HIDE DEF zeros
<1> DEFINE s == c \o zeros
<1>5. /\ IsSeq(s) /\ Len(s) = Len(c) + more
      /\ \A i \in 1..Len(c) + more :
           s[i] = IF i <= Len(c) THEN c[i] ELSE zeros[i - Len(c)]
  BY <1>1, <1>4, Joined
<1> HIDE DEF s
<1>6. \A i \in 1..Len(c) : s[i] = c[i]
  BY <1>1, <1>2, <1>5
<1>7. ASSUME NEW i \in Len(c) + 1..Len(c) + more PROVE s[i] = Octet(0)
  <2>1. i - Len(c) \in 1..more /\ i \in 1..Len(c) + more /\ ~(i <= Len(c))
    BY <1>1, <1>2
  <2> QED
    BY <1>4, <1>5, <2>1
<1>8. s = Padded(c)
  BY <1>3 DEF s
<1> QED
  BY <1>1, <1>2, <1>5, <1>6, <1>7, <1>8

\* Taking the zeros off gives the password back: it has none at its end.
LEMMA StrippedPadded ==
  ASSUME NEW c \in Cleartexts PROVE Stripped(Padded(c)) = c
<1> DEFINE s == Padded(c)
           Ends(n) == /\ n = 0 \/ s[n] # Octet(0)
                      /\ \A i \in n + 1..Len(s) : s[i] = Octet(0)
<1>1. /\ IsSeq(s) /\ Len(s) \in Nat /\ Len(c) <= Len(s)
      /\ \A i \in 1..Len(c) : s[i] = c[i]
      /\ \A i \in Len(c) + 1..Len(s) : s[i] = Octet(0)
  BY PaddedFacts
<1>2. IsSeq(c) /\ Len(c) \in Nat /\ \A i \in 1..Len(c) : c[i] # Octet(0)
  BY CleartextFacts
<1>3. Stripped(s) = SubSeq(s, 1, CHOOSE n \in 0..Len(s) : Ends(n))
  BY DEF Stripped
<1> HIDE DEF s
<1>4. Ends(Len(c))
  BY <1>1, <1>2
<1>5. ASSUME NEW n \in 0..Len(s), Ends(n) PROVE n = Len(c)
  <2>1. CASE n > Len(c)
    BY <1>1, <1>2, <1>5, <2>1
  <2>2. CASE n < Len(c)
    <3>1. Len(c) \in n + 1..Len(s) /\ Len(c) \in 1..Len(c)
      BY <1>1, <1>2, <2>2
    <3> QED
      BY <1>1, <1>2, <1>5, <3>1
  <2> QED
    BY <1>1, <1>2, <2>1, <2>2
<1> HIDE DEF Ends
<1>6. (CHOOSE n \in 0..Len(s) : Ends(n)) = Len(c)
  <2>1. Len(c) \in 0..Len(s)
    BY <1>1, <1>2
  <2> QED
    BY <1>4, <1>5, <2>1
<1>7. Slice(s, 0, Len(c)) = c
  BY <1>1, <1>2, SliceAt
<1>8. SubSeq(s, 1, Len(c)) = c
  BY <1>7 DEF Slice
<1> QED
  BY <1>3, <1>6, <1>8 DEF s

LEMMA XorTwice ==
  ASSUME NEW k, NEW D
  PROVE  OctetXor(OctetXor(Octet(k), [n |-> 0, of |-> D]), [n |-> 0, of |-> D])
           = Octet(k)
<1>1. OctetXor(Octet(k), [n |-> 0, of |-> D]) = [n |-> k, of |-> D]
  <2>1. ({} \cup D) \ ({} \cap D) = D
    OBVIOUS
  <2> QED
    BY <2>1 DEF OctetXor, Octet
<1>2. (D \cup D) \ (D \cap D) = {}
  OBVIOUS
<1> QED
  BY <1>1, <1>2 DEF OctetXor, Octet

\* What the router hides an octet by is what the portal takes for it.
LEMMA HiddenByBefore ==
  ASSUME NEW v, NEW i \in Nat \ {0} PROVE HiddenBy(v, i) = Before(Authenticator, v, i)
<1>1. i <= 16 <=> Past(i) = 0
  BY DEF Past
<1> QED
  BY <1>1 DEF HiddenBy, Before

\* The portal reads a password as it was given, however many blocks it takes.
LEMMA DecryptedRight ==
  ASSUME NEW c \in Cleartexts PROVE Decrypted(Authenticator, Hidden[c]) = c
<1> DEFINE v == Hidden[c]
           s == Padded(c)
           Hash(i) == Digest("md5", Secret \o Before(Authenticator, v, i), 16)
           read == [i \in 1..Len(v) |-> OctetXor(v[i], Hash(i)[Place(i)])]
<1>1. IsSeq(s) /\ Len(s) \in Nat /\ \A i \in 1..Len(s) : \E k : s[i] = Octet(k)
  <2>1. /\ IsSeq(s) /\ Len(s) \in Nat /\ Len(c) <= Len(s)
        /\ \A i \in 1..Len(c) : s[i] = c[i]
        /\ \A i \in Len(c) + 1..Len(s) : s[i] = Octet(0)
    BY PaddedFacts
  <2>2. Len(c) \in Nat /\ \A i \in 1..Len(c) : c[i] = Octet(c[i].n)
    BY CleartextFacts
  <2> HIDE DEF s
  <2>3. \A i \in 1..Len(s) : i \in 1..Len(c) \/ i \in Len(c) + 1..Len(s)
    BY <2>1, <2>2
  <2> QED
    BY <2>1, <2>2, <2>3
<1>2. /\ Len(v) = Len(s) /\ Len(v) \in Nat
      /\ \A i \in 1..Len(v) : v[i] = OctetXor(s[i], Hash(i)[Place(i)])
  <2>1. Hides(c, v)
    BY HiddenAssumption
  <2>2. Len(v) = Len(s)
    BY <2>1 DEF Hides
  <2> HIDE DEF v
  <2>3. \A i \in 1..Len(v) :
          v[i] = OctetXor(s[i], Digest("md5", Secret \o HiddenBy(v, i), 16)[Place(i)])
    BY <2>1 DEF Hides
  <2>4. \A i \in 1..Len(v) : HiddenBy(v, i) = Before(Authenticator, v, i)
    BY <1>1, <2>2, HiddenByBefore
  <2> QED
    BY <1>1, <2>2, <2>3, <2>4
<1>3. Decrypted(Authenticator, v) = Stripped(read)
  BY DEF Decrypted
<1> HIDE DEF v, s
<1>4. ASSUME NEW i \in 1..Len(v) PROVE read[i] = s[i]
  <2>1. v[i] = OctetXor(s[i], Hash(i)[Place(i)])
    BY <1>2
  <2>2. Place(i) \in 1..16
    BY <1>1, <1>2 DEF Place
  <2>3. PICK D : Hash(i)[Place(i)] = [n |-> 0, of |-> D]
    BY <2>2 DEF Digest
  <2>4. PICK k : s[i] = Octet(k)
    BY <1>1, <1>2
  <2>5. read[i] = OctetXor(v[i], Hash(i)[Place(i)])
    OBVIOUS
  <2> HIDE DEF Hash, read
  <2> QED
    BY <2>1, <2>3, <2>4, <2>5, XorTwice
<1>5. IsSeq(read) /\ Len(read) = Len(v)
  <2>1. read = [i \in 1..Len(v) |-> read[i]]
    OBVIOUS
  <2> HIDE DEF read
  <2> QED
    BY <1>1, <1>2, <2>1, FunctionIs
<1> HIDE DEF read
<1>6. read = s
  BY <1>1, <1>2, <1>4, <1>5, SameSeq
<1> QED
  BY <1>3, <1>6, StrippedPadded DEF s, v

----------------------------------------------------------------------------
(* Logins: what a packet has, and CHAP *)

\* A packet with one attribute of a key.
LEMMA GetIs ==
  ASSUME NEW p, NEW a \in p.attrs, NEW k, a.k = k,
         \A b \in p.attrs : b.k = k => b = a
  PROVE  Has(p, k) /\ Get(p, k) = a.v
<1>1. (CHOOSE b \in p.attrs : b.k = k) = a
  OBVIOUS
<1> QED
  BY <1>1 DEF Has, Get

LEMMA AttributeIs ==
  ASSUME NEW k, NEW v PROVE Attribute(k, v).k = k /\ Attribute(k, v).v = v
BY DEF Attribute

\* No two keys are the same.
LEMMA KeysDiffer ==
  /\ UserName # UserPassword /\ UserName # CHAPPassword /\ UserName # CHAPChallenge
  /\ UserName # MSCHAPResponse /\ UserName # MSCHAPChallenge
  /\ UserName # MSCHAP2Response
  /\ UserPassword # CHAPPassword /\ UserPassword # CHAPChallenge
  /\ UserPassword # MSCHAPResponse /\ UserPassword # MSCHAPChallenge
  /\ UserPassword # MSCHAP2Response
  /\ CHAPPassword # CHAPChallenge /\ CHAPPassword # MSCHAPResponse
  /\ CHAPPassword # MSCHAPChallenge /\ CHAPPassword # MSCHAP2Response
  /\ MSCHAPResponse # MSCHAPChallenge /\ MSCHAPResponse # MSCHAP2Response
  /\ MSCHAPChallenge # MSCHAP2Response
<1>1. \A a, b, c, d : <<a, b>> = <<c, d>> => a = c /\ b = d
  OBVIOUS
<1>2. /\ UserName = <<0, 1>> /\ UserPassword = <<0, 2>> /\ CHAPPassword = <<0, 3>>
      /\ CHAPChallenge = <<0, 60>> /\ MSCHAPResponse = <<311, 1>>
      /\ MSCHAPChallenge = <<311, 11>> /\ MSCHAP2Response = <<311, 25>>
  BY DEF Standard, UserName, UserPassword, CHAPPassword, CHAPChallenge, Microsoft,
         MSCHAPResponse, MSCHAPChallenge, MSCHAP2Response
<1> QED
  BY <1>1, <1>2

\* A packet of three attributes at most.
LEMMA PacketIs ==
  ASSUME NEW p, NEW a, NEW b, NEW c, p.attrs = {a} \cup {b, c},
         a.k # b.k, a.k # c.k, b.k = c.k => b = c
  PROVE  /\ Get(p, a.k) = a.v /\ Get(p, b.k) = b.v /\ Get(p, c.k) = c.v
         /\ \A k : Has(p, k) <=> k \in {a.k, b.k, c.k}
<1>1. Get(p, a.k) = a.v
  BY GetIs
<1>2. Get(p, b.k) = b.v
  BY GetIs
<1>3. Get(p, c.k) = c.v
  BY GetIs
<1>4. \A k : Has(p, k) <=> k \in {a.k, b.k, c.k}
  BY DEF Has
<1> QED
  BY <1>1, <1>2, <1>3, <1>4

LEMMA PapRight ==
  ASSUME NEW given \in Cleartexts, NEW cleartext \in Cleartexts
  PROVE  CheckPassword(Asked("pap", given), cleartext) <=> given = cleartext
<1> DEFINE p == Asked("pap", given)
           name == Attribute(UserName, User)
           password == Attribute(UserPassword, Hidden[given])
<1>1. p.authenticator = Authenticator /\ p.attrs = {name} \cup {password}
  BY DEF Asked, Login
<1>2. name.k = UserName /\ password.k = UserPassword /\ password.v = Hidden[given]
  BY AttributeIs
<1> HIDE DEF p, name, password
<1>3. Has(p, UserPassword) /\ Get(p, UserPassword) = Hidden[given]
  <2>1. password \in p.attrs /\ \A b \in p.attrs : b.k = UserPassword => b = password
    BY <1>1, <1>2, KeysDiffer
  <2> QED
    BY <1>2, <2>1, GetIs
<1>4. CheckPassword(p, cleartext) <=> Decrypted(Authenticator, Hidden[given]) = cleartext
  BY <1>1, <1>3 DEF CheckPassword
<1> QED
  BY <1>4, DecryptedRight DEF p

LEMMA ConstantFacts ==
  /\ IsSeq(Authenticator) /\ Len(Authenticator) = 16
  /\ IsSeq(Challenge) /\ Len(Challenge) = 16
  /\ IsSeq(Peer) /\ Len(Peer) = 16
  /\ IsSeq(User) /\ Len(User) = 1
<1>1. IsSeq(Authenticator) /\ Len(Authenticator) = 16
  BY DigestSeq DEF Authenticator
<1>2. IsSeq(Challenge) /\ Len(Challenge) = 16
  BY DigestSeq DEF Challenge
<1>3. IsSeq(Peer) /\ Len(Peer) = 16
  BY DigestSeq DEF Peer
<1>4. IsSeq(User) /\ Len(User) = 1
  <2>1. User = <<Octet(85)>>
    BY DEF User, Octets
  <2>2. <<Octet(85)>> \in Seq({Octet(85)}) /\ Len(<<Octet(85)>>) = 1
    OBVIOUS
  <2> QED
    BY <2>1, <2>2, SeqIs
<1> QED
  BY <1>1, <1>2, <1>3, <1>4

LEMMA ChapRight ==
  ASSUME NEW given \in Cleartexts, NEW cleartext \in Cleartexts
  PROVE  CheckPassword(Asked("chap", given), cleartext) <=> given = cleartext
<1> DEFINE p == Asked("chap", given)
           id == <<Octet(5)>>
           Response(c) == Digest("md5", id \o c \o Challenge, 16)
           name == Attribute(UserName, User)
           challenge == Attribute(CHAPChallenge, Challenge)
           password == Attribute(CHAPPassword, id \o Response(given))
<1>1. p.attrs = {name} \cup {challenge, password}
  BY DEF Asked, Login
<1>2. /\ name.k = UserName /\ challenge.k = CHAPChallenge /\ password.k = CHAPPassword
      /\ challenge.v = Challenge /\ password.v = id \o Response(given)
  BY AttributeIs
<1> HIDE DEF p, name, challenge, password
<1>3. /\ Get(p, CHAPChallenge) = Challenge
      /\ Get(p, CHAPPassword) = id \o Response(given)
      /\ Has(p, CHAPPassword) /\ ~Has(p, UserPassword)
  <2>1. /\ name.k # challenge.k /\ name.k # password.k
        /\ challenge.k = password.k => challenge = password
    BY <1>2, KeysDiffer
  <2>2. /\ Get(p, challenge.k) = challenge.v /\ Get(p, password.k) = password.v
        /\ \A k : Has(p, k) <=> k \in {name.k, challenge.k, password.k}
    BY <1>1, <2>1, PacketIs
  <2> QED
    BY <1>2, <2>2, KeysDiffer
<1>4. IsSeq(id) /\ Len(id) = 1 /\ id[1] = Octet(5)
  <2>1. <<Octet(5)>> \in Seq({Octet(5)})
    OBVIOUS
  <2> QED
    BY <2>1, SeqIs
<1> HIDE DEF id
<1>5. \A c : IsSeq(Response(c)) /\ Len(Response(c)) = 16
  BY DigestSeq
<1>6. ASSUME Response(given) = Response(cleartext) PROVE given = cleartext
  <2>1. (id \o given) \o Challenge = (id \o cleartext) \o Challenge
    <3>1. Response(given)[1] = Response(cleartext)[1]
      BY <1>6
    <3> QED
      BY <3>1, OneInput
  <2>2. IsSeq(given) /\ IsSeq(cleartext) /\ IsSeq(Challenge)
    BY CleartextFacts, ConstantFacts
  <2>3. IsSeq(id \o given) /\ IsSeq(id \o cleartext)
    BY <1>4, <2>2, Joined
  <2>4. id \o given = id \o cleartext
    BY <2>1, <2>2, <2>3, CancelRight
  <2> QED
    BY <1>4, <2>2, <2>4, CancelLeft
<1> DEFINE v == id \o Response(given)
<1>7. /\ Len(v) = 17 /\ <<v[1]>> = id /\ Slice(v, 1, 17) = Response(given)
  <2> DEFINE r == Response(given)
  <2>1. IsSeq(r) /\ Len(r) = 16
    BY <1>5
  <2> HIDE DEF r
  <2>2. Len(id \o r) = 17 /\ (id \o r)[1] = Octet(5)
    <3>1. /\ Len(id \o r) = Len(id) + Len(r)
          /\ \A i \in 1..Len(id) + Len(r) :
               (id \o r)[i] = IF i <= Len(id) THEN id[i] ELSE r[i - Len(id)]
      BY <1>4, <2>1, Joined
    <3> QED
      BY <1>4, <2>1, <3>1
  <2>3. Slice(id \o r, 1, 17) = r
    <3>1. 17 = Len(id) + Len(r) /\ 1 = Len(id)
      BY <1>4, <2>1
    <3>2. \A from, to \in Nat : from = Len(id) /\ to = Len(id) + Len(r)
                               => Slice(id \o r, from, to) = r
      BY <1>4, <2>1, SliceRight
    <3> QED
      BY <3>1, <3>2
  <2> QED
    BY <2>2, <2>3 DEF r, id
<1>8. CheckPassword(p, cleartext)
        <=> Slice(v, 1, Len(v)) = Digest("md5", <<v[1]>> \o cleartext \o Challenge, 16)
  BY <1>3 DEF CheckPassword
<1> HIDE DEF v
<1>9. CheckPassword(p, cleartext) <=> Response(given) = Response(cleartext)
  BY <1>7, <1>8
<1> QED
  BY <1>6, <1>9 DEF p

----------------------------------------------------------------------------
(* Logins: MS-CHAP *)

LEMMA JoinedTo ==
  ASSUME NEW s, NEW t, IsSeq(s), IsSeq(t)
  PROVE  /\ IsSeq(s \o t) /\ Len(s \o t) = Len(s) + Len(t)
         /\ Len(s) > 0 => (s \o t)[1] = s[1]
<1>1. /\ IsSeq(s \o t) /\ Len(s \o t) = Len(s) + Len(t)
      /\ \A i \in 1..Len(s) + Len(t) :
           (s \o t)[i] = IF i <= Len(s) THEN s[i] ELSE t[i - Len(s)]
  BY Joined
<1>2. Len(s) \in Nat /\ Len(t) \in Nat
  BY SeqFacts
<1> QED
  BY <1>1, <1>2

LEMMA UnitSeq == ASSUME NEW x PROVE IsSeq(<<x>>) /\ Len(<<x>>) = 1
<1>1. <<x>> \in Seq({x}) /\ Len(<<x>>) = 1
  OBVIOUS
<1> QED
  BY <1>1, SeqIs

LEMMA Utf16One ==
  ASSUME NEW s, NEW t, IsSeq(s), IsSeq(t), Utf16(s) = Utf16(t) PROVE s = t
<1>1. Len(s) \in Nat /\ Len(t) \in Nat
  BY SeqFacts
<1>2. ASSUME NEW u, IsSeq(u), Len(u) \in Nat
      PROVE  /\ Len(Utf16(u)) = 2 * Len(u)
             /\ \A j \in 1..Len(u) : Utf16(u)[2 * j - 1] = u[j]
  <2> DEFINE f == Utf16(u)
  <2>1. f = [i \in 1..2 * Len(u) |-> f[i]]
    BY DEF Utf16
  <2>2. Len(f) = 2 * Len(u)
    <3> HIDE DEF f
    <3>1. 2 * Len(u) \in Nat
      BY <1>2
    <3> QED
      BY <2>1, <3>1, FunctionIs
  <2>3. ASSUME NEW j \in 1..Len(u) PROVE f[2 * j - 1] = u[j]
    <3>1. /\ 2 * j - 1 \in 1..2 * Len(u) /\ (2 * j - 1) % 2 = 1
          /\ ((2 * j - 1) + 1) \div 2 = j
      BY <1>2
    <3> QED
      BY <3>1 DEF Utf16
  <2> QED
    BY <2>2, <2>3
<1>3. 2 * Len(s) = 2 * Len(t)
  BY <1>1, <1>2
<1>4. Len(s) = Len(t)
  BY <1>1, <1>3
<1>5. \A j \in 1..Len(s) : s[j] = t[j]
  BY <1>1, <1>2, <1>4
<1> QED
  BY <1>4, <1>5, SameSeq

LEMMA HashSeq == \A a : IsSeq(NtHash(a)) /\ Len(NtHash(a)) = 16
BY DigestSeqs DEF NtHash

LEMMA HashOne ==
  ASSUME NEW a, NEW b, IsSeq(a), IsSeq(b), NtHash(a)[1] = NtHash(b)[1] PROVE a = b
<1>1. Utf16(a) = Utf16(b)
  BY OneInput DEF NtHash
<1> QED
  BY <1>1, Utf16One

\* The first key of a response is of the first seven octets of the hash.
LEMMA ResponseIs ==
  ASSUME NEW c, NEW p, IsSeq(c), IsSeq(p), Len(p) = 16
  PROVE  /\ IsSeq(ChallengeResponse(c, p)) /\ Len(ChallengeResponse(c, p)) = 24
         /\ \E key : /\ IsSeq(key) /\ key[1] = p[1]
                     /\ ChallengeResponse(c, p)[1] = Des(key, c)[1]
<1> DEFINE keys == p \o Nulls(5)
           key == Slice(keys, 0, 7)
           A == Des(key, c)
           B == Des(Slice(keys, 7, 14), c)
           C == Des(Slice(keys, 14, 21), c)
<1>1. /\ 7 * 0 = 0 /\ 7 * 0 + 7 = 7 /\ 7 * 1 = 7 /\ 7 * 1 + 7 = 14
      /\ 7 * 2 = 14 /\ 7 * 2 + 7 = 21
  OBVIOUS
<1>2. ChallengeResponse(c, p) = (A \o B) \o C
  BY <1>1 DEF ChallengeResponse
<1>3. /\ IsSeq(A) /\ Len(A) = 8 /\ IsSeq(B) /\ Len(B) = 8 /\ IsSeq(C) /\ Len(C) = 8
  BY DigestSeqs DEF Des
<1>4. IsSeq(key) /\ key[1] = p[1]
  <2> DEFINE zeros == Nulls(5)
  <2>1. IsSeq(zeros) /\ Len(zeros) = 5
    BY NullsSeq
  <2> HIDE DEF zeros
  <2>2. IsSeq(p \o zeros) /\ Len(p \o zeros) = 21 /\ (p \o zeros)[1] = p[1]
    <3>1. /\ IsSeq(p \o zeros) /\ Len(p \o zeros) = Len(p) + Len(zeros)
          /\ Len(p) > 0 => (p \o zeros)[1] = p[1]
      BY <2>1, JoinedTo
    <3> QED
      BY <2>1, <3>1
  <2> DEFINE u == p \o zeros
  <2>3. IsSeq(u) /\ Len(u) = 21 /\ u[1] = p[1]
    BY <2>2
  <2> HIDE DEF u
  <2>4. \A f, t \in Nat : f <= t /\ t <= Len(u) =>
          /\ IsSeq(Slice(u, f, t))
          /\ \A i \in 1..t - f : Slice(u, f, t)[i] = u[f + i]
    BY <2>3, Sliced
  <2>5. /\ IsSeq(Slice(u, 0, 7))
        /\ \A i \in 1..7 : Slice(u, 0, 7)[i] = u[0 + i]
    BY <2>3, <2>4
  <2>6. IsSeq(Slice(u, 0, 7)) /\ Slice(u, 0, 7)[1] = p[1]
    BY <2>3, <2>5
  <2> QED
    BY <2>6 DEF u, zeros
<1> HIDE DEF A, B, C, key
<1>5. IsSeq(A \o B) /\ Len(A \o B) = 16 /\ (A \o B)[1] = A[1]
  <2>1. /\ IsSeq(A \o B) /\ Len(A \o B) = Len(A) + Len(B)
        /\ Len(A) > 0 => (A \o B)[1] = A[1]
    BY <1>3, JoinedTo
  <2> QED
    BY <1>3, <2>1
<1> DEFINE D == A \o B
<1>6. IsSeq(D) /\ Len(D) = 16 /\ D[1] = A[1]
  BY <1>5
<1> HIDE DEF D
<1>7. IsSeq(D \o C) /\ Len(D \o C) = 24 /\ (D \o C)[1] = A[1]
  <2>1. /\ IsSeq(D \o C) /\ Len(D \o C) = Len(D) + Len(C)
        /\ Len(D) > 0 => (D \o C)[1] = D[1]
    BY <1>3, <1>6, JoinedTo
  <2> QED
    BY <1>3, <1>6, <2>1
<1>8. ChallengeResponse(c, p) = D \o C
  BY <1>2 DEF D
<1> QED
  BY <1>4, <1>7, <1>8 DEF A

LEMMA ResponseOne ==
  ASSUME NEW c, NEW p, NEW q, IsSeq(c), IsSeq(p), IsSeq(q), Len(p) = 16, Len(q) = 16,
         ChallengeResponse(c, p) = ChallengeResponse(c, q)
  PROVE  p[1] = q[1]
<1> DEFINE sep == <<Octet(256)>>
<1>1. PICK k : IsSeq(k) /\ k[1] = p[1] /\ ChallengeResponse(c, p)[1] = Des(k, c)[1]
  BY ResponseIs
<1>2. PICK l : IsSeq(l) /\ l[1] = q[1] /\ ChallengeResponse(c, q)[1] = Des(l, c)[1]
  BY ResponseIs
<1>3. (k \o sep) \o c = (l \o sep) \o c
  <2>1. Des(k, c)[1] = Des(l, c)[1]
    BY <1>1, <1>2
  <2> QED
    BY <2>1, OneInput DEF Des
<1>4. IsSeq(sep)
  BY UnitSeq
<1> HIDE DEF sep
<1>5. IsSeq(k \o sep) /\ IsSeq(l \o sep)
  BY <1>1, <1>2, <1>4, Joined
<1>6. k \o sep = l \o sep
  BY <1>3, <1>5, CancelRight
<1>7. k = l
  BY <1>1, <1>2, <1>4, <1>6, CancelRight
<1> QED
  BY <1>1, <1>2, <1>7

LEMMA NtResponseOne ==
  ASSUME NEW c, NEW a, NEW b, IsSeq(c), IsSeq(a), IsSeq(b),
         ChallengeResponse(c, NtHash(a)) = ChallengeResponse(c, NtHash(b))
  PROVE  a = b
BY HashSeq, ResponseOne, HashOne

\* The octets of a value of a response: what comes before it, and it.
LEMMA Value ==
  ASSUME NEW head, NEW value, IsSeq(head), IsSeq(value), Len(head) = 26,
         Len(value) = 24
  PROVE  Len(head \o value) = 50 /\ Slice(head \o value, 26, 50) = value
<1>1. \A from, to \in Nat : from = Len(head) /\ to = Len(head) + Len(value)
                            => Slice(head \o value, from, to) = value
  BY SliceRight
<1>2. Len(head \o value) = Len(head) + Len(value)
  BY JoinedTo
<1>3. 26 = Len(head) /\ 50 = Len(head) + Len(value)
  OBVIOUS
<1>4. 26 \in Nat /\ 50 \in Nat
  OBVIOUS
<1>5. Slice(head \o value, 26, 50) = value
  BY <1>1, <1>3, <1>4
<1> QED
  BY <1>2, <1>3, <1>5

LEMMA TwoOctets == \A a, b : IsSeq(Octets(<<a, b>>)) /\ Len(Octets(<<a, b>>)) = 2
<1> SUFFICES ASSUME NEW a, NEW b
             PROVE  IsSeq(Octets(<<a, b>>)) /\ Len(Octets(<<a, b>>)) = 2
  OBVIOUS
<1> DEFINE f == Octets(<<a, b>>)
<1>1. DOMAIN <<a, b>> = 1..2 /\ 2 \in Nat
  OBVIOUS
<1>2. f = [i \in 1..2 |-> f[i]]
  BY <1>1 DEF Octets
<1> HIDE DEF f
<1>3. IsSeq(f) /\ Len(f) = 2
  BY <1>1, <1>2, FunctionIs
<1> QED
  BY <1>3 DEF f

LEMMA ShortChallenge == IsSeq(Slice(Challenge, 0, 8))
<1>1. \A from, to \in Nat : from <= to /\ to <= Len(Challenge)
                            => IsSeq(Slice(Challenge, from, to))
  BY ConstantFacts, Sliced
<1> QED
  BY <1>1, ConstantFacts

LEMMA MschapRight ==
  ASSUME NEW given \in Cleartexts, NEW cleartext \in Cleartexts
  PROVE  CheckPassword(Asked("mschap", given), cleartext) <=> given = cleartext
<1> DEFINE p == Asked("mschap", given)
           c == Slice(Challenge, 0, 8)
           head == Octets(<<5, 1>>) \o Nulls(24)
           name == Attribute(UserName, User)
           challenge == Attribute(MSCHAPChallenge, c)
           response == Attribute(MSCHAPResponse, head \o NtResponse(c, given))
<1>1. p.attrs = {name} \cup {challenge, response}
  BY DEF Asked, Login
<1>2. /\ name.k = UserName /\ challenge.k = MSCHAPChallenge
      /\ response.k = MSCHAPResponse
      /\ challenge.v = c /\ response.v = head \o NtResponse(c, given)
  BY AttributeIs
<1>3. IsSeq(head) /\ Len(head) = 26
  <2> DEFINE s == Octets(<<5, 1>>)
             t == Nulls(24)
  <2>1. IsSeq(s) /\ Len(s) = 2 /\ IsSeq(t) /\ Len(t) = 24
    BY TwoOctets, NullsSeq
  <2> HIDE DEF s, t
  <2>2. IsSeq(s \o t) /\ Len(s \o t) = Len(s) + Len(t)
    BY <2>1, JoinedTo
  <2>3. IsSeq(s \o t) /\ Len(s \o t) = 26
    BY <2>1, <2>2
  <2> QED
    BY <2>3 DEF s, t
<1>4. IsSeq(c)
  BY ShortChallenge
<1> HIDE DEF p, c, head, name, challenge, response
<1>5. /\ Get(p, MSCHAPChallenge) = c
      /\ Get(p, MSCHAPResponse) = head \o NtResponse(c, given)
      /\ Has(p, MSCHAPChallenge) /\ Has(p, MSCHAPResponse)
      /\ ~Has(p, UserPassword) /\ ~Has(p, CHAPPassword)
  <2>1. /\ name.k # challenge.k /\ name.k # response.k
        /\ challenge.k = response.k => challenge = response
    BY <1>2, KeysDiffer
  <2>2. /\ Get(p, challenge.k) = challenge.v /\ Get(p, response.k) = response.v
        /\ \A k : Has(p, k) <=> k \in {name.k, challenge.k, response.k}
    BY <1>1, <2>1, PacketIs
  <2> QED
    BY <1>2, <2>2, KeysDiffer
<1>6. IsSeq(NtResponse(c, given)) /\ Len(NtResponse(c, given)) = 24
  BY <1>4, HashSeq, ResponseIs DEF NtResponse
<1>7. Slice(head \o NtResponse(c, given), 26, 50) = NtResponse(c, given)
  BY <1>3, <1>6, Value
<1>8. CheckPassword(p, cleartext) <=> NtResponse(c, cleartext) = NtResponse(c, given)
  BY <1>5, <1>7 DEF CheckPassword
<1>9. NtResponse(c, cleartext) = NtResponse(c, given) => given = cleartext
  BY <1>4, CleartextFacts, NtResponseOne DEF NtResponse
<1> QED
  BY <1>8, <1>9 DEF p

\* A login by MS-CHAPv2, as the portal takes it apart.
LEMMA Mschap2Is ==
  ASSUME NEW given \in Cleartexts,
         NEW p, p = Asked("mschap2", given),
         NEW value, value = NtResponse2(Challenge, Peer, User, given)
  PROVE  /\ Get(p, UserName) = User /\ Get(p, MSCHAPChallenge) = Challenge
         /\ Has(p, MSCHAPChallenge) /\ Has(p, MSCHAP2Response)
         /\ ~Has(p, UserPassword) /\ ~Has(p, CHAPPassword) /\ ~Has(p, MSCHAPResponse)
         /\ LET response == Get(p, MSCHAP2Response)
            IN  /\ Len(response) = 50 /\ Slice(response, 26, 50) = value
                /\ Slice(response, 2, 18) = Peer
         /\ IsSeq(value)
<1> DEFINE s == Octets(<<5, 0>>)
           t == Nulls(8)
           sent == ((s \o Peer) \o t) \o value
           name == Attribute(UserName, User)
           challenge == Attribute(MSCHAPChallenge, Challenge)
           response == Attribute(MSCHAP2Response, sent)
<1>1. p.attrs = {name} \cup {challenge, response}
  BY DEF Asked, Login
<1>2. /\ name.k = UserName /\ challenge.k = MSCHAPChallenge
      /\ response.k = MSCHAP2Response
      /\ name.v = User /\ challenge.v = Challenge /\ response.v = sent
  BY AttributeIs
<1>3. IsSeq(s) /\ Len(s) = 2 /\ IsSeq(t) /\ Len(t) = 8
  BY TwoOctets, NullsSeq
<1>4. IsSeq(value) /\ Len(value) = 24
  <2> DEFINE c == ChallengeHash(Peer, Challenge, User)
  <2>1. IsSeq(c)
    BY DigestSeqs DEF ChallengeHash
  <2>2. value = ChallengeResponse(c, NtHash(given))
    BY DEF NtResponse2
  <2> HIDE DEF c
  <2> QED
    BY <2>1, <2>2, HashSeq, ResponseIs
<1> HIDE DEF s, t
<1>5. IsSeq(s \o Peer) /\ Len(s \o Peer) = 18 /\ Slice(s \o Peer, 2, 18) = Peer
  <2>1. IsSeq(Peer) /\ Len(Peer) = 16
    BY ConstantFacts
  <2>2. IsSeq(s \o Peer) /\ Len(s \o Peer) = Len(s) + Len(Peer)
    BY <1>3, <2>1, JoinedTo
  <2>3. \A from, to \in Nat : from = Len(s) /\ to = Len(s) + Len(Peer)
                              => Slice(s \o Peer, from, to) = Peer
    BY <1>3, <2>1, SliceRight
  <2> QED
    BY <1>3, <2>1, <2>2, <2>3
<1> DEFINE u == s \o Peer
<1>6. IsSeq(u) /\ Len(u) = 18 /\ Slice(u, 2, 18) = Peer
  BY <1>5
<1> HIDE DEF u
<1>7. /\ IsSeq(u \o t) /\ Len(u \o t) = 26 /\ Slice(u \o t, 2, 18) = Peer
  <2>1. IsSeq(u \o t) /\ Len(u \o t) = Len(u) + Len(t)
    BY <1>3, <1>6, JoinedTo
  <2>2. \A from, to \in Nat : from <= to /\ to <= Len(u)
                              => Slice(u \o t, from, to) = Slice(u, from, to)
    BY <1>3, <1>6, SliceLeft
  <2>3. Slice(u \o t, 2, 18) = Slice(u, 2, 18)
    BY <1>6, <2>2
  <2> QED
    BY <1>3, <1>6, <2>1, <2>3
<1> DEFINE head == u \o t
<1>8. IsSeq(head) /\ Len(head) = 26 /\ Slice(head, 2, 18) = Peer
  BY <1>7
<1> HIDE DEF head
<1>9. /\ Len(head \o value) = 50 /\ Slice(head \o value, 26, 50) = value
      /\ Slice(head \o value, 2, 18) = Peer
  <2>1. Len(head \o value) = 50 /\ Slice(head \o value, 26, 50) = value
    BY <1>4, <1>8, Value
  <2>2. \A from, to \in Nat : from <= to /\ to <= Len(head)
                              => Slice(head \o value, from, to) = Slice(head, from, to)
    <3>1. IsSeq(head) /\ IsSeq(value)
      BY <1>4, <1>8
    <3> QED
      BY <3>1, SliceLeft
  <2>3. Slice(head \o value, 2, 18) = Slice(head, 2, 18)
    BY <1>8, <2>2
  <2> QED
    BY <1>8, <2>1, <2>3
<1>10. sent = head \o value
  BY DEF head, u
<1> HIDE DEF sent, name, challenge, response
<1>11. /\ Get(p, UserName) = User /\ Get(p, MSCHAPChallenge) = Challenge
       /\ Get(p, MSCHAP2Response) = sent
       /\ Has(p, MSCHAPChallenge) /\ Has(p, MSCHAP2Response)
       /\ ~Has(p, UserPassword) /\ ~Has(p, CHAPPassword) /\ ~Has(p, MSCHAPResponse)
  <2>1. /\ name.k # challenge.k /\ name.k # response.k
        /\ challenge.k = response.k => challenge = response
    BY <1>2, KeysDiffer
  <2>2. /\ Get(p, name.k) = name.v
        /\ Get(p, challenge.k) = challenge.v /\ Get(p, response.k) = response.v
        /\ \A k : Has(p, k) <=> k \in {name.k, challenge.k, response.k}
    BY <1>1, <2>1, PacketIs
  <2> QED
    BY <1>2, <2>2, KeysDiffer
<1> QED
  BY <1>4, <1>9, <1>10, <1>11

LEMMA Mschap2Right ==
  ASSUME NEW given \in Cleartexts, NEW cleartext \in Cleartexts
  PROVE  CheckPassword(Asked("mschap2", given), cleartext) <=> given = cleartext
<1> DEFINE p == Asked("mschap2", given)
           Value2(c) == NtResponse2(Challenge, Peer, User, c)
           r == Get(p, MSCHAP2Response)
<1>1. /\ Get(p, UserName) = User /\ Get(p, MSCHAPChallenge) = Challenge
      /\ Has(p, MSCHAPChallenge) /\ Has(p, MSCHAP2Response)
      /\ ~Has(p, UserPassword) /\ ~Has(p, CHAPPassword) /\ ~Has(p, MSCHAPResponse)
      /\ Len(r) = 50 /\ Slice(r, 26, 50) = Value2(given) /\ Slice(r, 2, 18) = Peer
  BY Mschap2Is
<1> HIDE DEF p
<1>2. CheckPassword(p, cleartext) <=> Value2(cleartext) = Value2(given)
  BY <1>1 DEF CheckPassword
<1>3. Value2(cleartext) = Value2(given) => given = cleartext
  <2> DEFINE c == ChallengeHash(Peer, Challenge, User)
  <2>1. IsSeq(c)
    BY DigestSeqs DEF ChallengeHash
  <2>2. \A a : Value2(a) = ChallengeResponse(c, NtHash(a))
    BY DEF NtResponse2
  <2> HIDE DEF c, Value2
  <2> QED
    BY <2>1, <2>2, CleartextFacts, NtResponseOne
<1> QED
  BY <1>2, <1>3 DEF p

LEMMA SuccessRight ==
  ASSUME NEW given \in Cleartexts, NEW cleartext \in Cleartexts
  PROVE  LET response == NtResponse2(Challenge, Peer, User, given)
         IN  Slice(Success(Asked("mschap2", given), cleartext), 1, 21)
               = AuthenticatorDigest(given, response, Peer, Challenge, User)
             <=> given = cleartext
<1> DEFINE p == Asked("mschap2", given)
           response == NtResponse2(Challenge, Peer, User, given)
           Digested(a) == Digest("md4", NtHash(a), 16)
           Inner(a) == Digest("sha1", (Digested(a) \o response) \o Magic1, 20)
           c == ChallengeHash(Peer, Challenge, User)
           Answer(a) == AuthenticatorDigest(a, response, Peer, Challenge, User)
<1>1. Slice(Success(p, cleartext), 1, 21) = Answer(cleartext)
  <2> DEFINE id == <<Octet(1)>>
             text == Answer(cleartext)
  <2>1. Success(p, cleartext) = id \o text
    BY Mschap2Is DEF Success, AuthenticatorResponse
  <2>2. IsSeq(text) /\ Len(text) = 20 /\ IsSeq(id) /\ Len(id) = 1
    BY DigestSeqs, UnitSeq DEF AuthenticatorDigest
  <2> HIDE DEF id, text
  <2>3. 21 = Len(id) + Len(text) /\ 1 = Len(id) /\ 1 \in Nat /\ 21 \in Nat
    BY <2>2
  <2>4. \A from, to \in Nat : from = Len(id) /\ to = Len(id) + Len(text)
                              => Slice(id \o text, from, to) = text
    BY <2>2, SliceRight
  <2> QED
    BY <2>1, <2>3, <2>4 DEF text
<1>2. IsSeq(response)
  BY Mschap2Is
<1>3. \A a : Answer(a) = Digest("sha1", (Inner(a) \o c) \o Magic2, 20)
  BY DEF AuthenticatorDigest
<1>4. IsSeq(c)
  BY DigestSeqs DEF ChallengeHash
<1>5. IsSeq(Magic1) /\ IsSeq(Magic2)
  <2>1. Magic1 = <<Octet(77)>> /\ Magic2 = <<Octet(80)>>
    BY DEF Magic1, Magic2, Octets
  <2> QED
    BY <2>1, UnitSeq
<1>6. \A a : IsSeq(Inner(a)) /\ IsSeq(Digested(a))
  BY DigestSeqs
<1> HIDE DEF response, c, Answer
<1>7. ASSUME Answer(given) = Answer(cleartext) PROVE given = cleartext
  <2>1. Inner(given) = Inner(cleartext)
    <3> HIDE DEF Inner
    <3>1. (Inner(given) \o c) \o Magic2 = (Inner(cleartext) \o c) \o Magic2
      BY <1>3, <1>7, OneInput
    <3>2. IsSeq(Inner(given) \o c) /\ IsSeq(Inner(cleartext) \o c)
      BY <1>4, <1>6, JoinedTo
    <3>3. Inner(given) \o c = Inner(cleartext) \o c
      BY <1>5, <3>1, <3>2, CancelRight
    <3> QED
      BY <1>4, <1>6, <3>3, CancelRight
  <2>2. Digested(given) = Digested(cleartext)
    <3>1. Inner(given)[1] = Inner(cleartext)[1]
      BY <2>1
    <3> HIDE DEF Digested
    <3>2. (Digested(given) \o response) \o Magic1
            = (Digested(cleartext) \o response) \o Magic1
      BY <3>1, OneInput
    <3>3. IsSeq(Digested(given) \o response) /\ IsSeq(Digested(cleartext) \o response)
      BY <1>2, <1>6, JoinedTo
    <3>4. Digested(given) \o response = Digested(cleartext) \o response
      BY <1>5, <3>2, <3>3, CancelRight
    <3> QED
      BY <1>2, <1>6, <3>4, CancelRight
  <2>3. NtHash(given) = NtHash(cleartext)
    <3>1. Digested(given)[1] = Digested(cleartext)[1]
      BY <2>2
    <3> QED
      BY <3>1, OneInput
  <2> QED
    BY <2>3, CleartextFacts, HashOne
<1>8. Slice(Success(p, cleartext), 1, 21) = Answer(given) <=> given = cleartext
  BY <1>1, <1>7
<1> QED
  BY <1>8 DEF p, Answer, response

----------------------------------------------------------------------------
(* Logins: DES keys, and the theorems *)

LEMMA Divided ==
  ASSUME NEW n \in Nat \ {0}, NEW a \in Nat
  PROVE  /\ a \div n \in Nat /\ a % n \in Nat /\ a % n < n
         /\ a = n * (a \div n) + (a % n)
OBVIOUS

LEMMA Division ==
  ASSUME NEW n \in Nat \ {0}, NEW x \in Nat, NEW r \in Nat, r < n
  PROVE  (n * x + r) \div n = x /\ (n * x + r) % n = r
<1> DEFINE a == n * x + r
           y == a \div n
           t == a % n
<1>1. a \in Nat
  OBVIOUS
<1> HIDE DEF a
<1>2. y \in Nat /\ t \in Nat /\ t < n /\ a = n * y + t
  BY <1>1, Divided
<1>3. n * x + r = n * y + t
  BY <1>2 DEF a
<1> HIDE DEF y, t
<1>4. n * (x - y) = t - r
  BY <1>2, <1>3
<1>5. x - y < 1
  <2> SUFFICES ASSUME x - y >= 1 PROVE FALSE
    BY <1>2
  <2>1. n * (x - y) >= n
    BY <1>2
  <2> QED
    BY <1>2, <1>4, <2>1
<1>6. x - y > -1
  <2> SUFFICES ASSUME x - y <= -1 PROVE FALSE
    BY <1>2
  <2>1. n * (x - y) <= -n
    BY <1>2
  <2> QED
    BY <1>2, <1>4, <2>1
<1>7. x = y
  BY <1>2, <1>5, <1>6
<1>8. r = t
  BY <1>2, <1>3, <1>7
<1> QED
  BY <1>7, <1>8 DEF a, y, t

\* An octet of a key of two octets, half of it, when the one before goes up by
\* 2 * h and this one down by q.
HalfOctet(a, c, h, q) == (((a * (2 * h)) % 256) + (c \div q)) \div 2

Byte == 0..255
Positive == Nat \ {0}

\* The bits of an octet that go up into the next octet of a key, and those that
\* come down into its own.
Low(o, q) == o % q
High(o, q) == o \div (2 * q)

\* An octet goes up by 2 * h and down by q: 8 bits together.
Shifts(h, q) == 2 * (h * q) = 256

\* The octet before shifted up, and this one down: its upper bits are those of
\* the one, its lower bits those of the other.
LEMMA Shifted ==
  ASSUME NEW h \in Nat \ {0}, NEW q \in Nat \ {0}, Shifts(h, q),
         NEW a \in 0..255, NEW c \in 0..255
  PROVE  HalfOctet(a, c, h, q) = h * (a % q) + (c \div (2 * q))
<1> USE DEF Shifts
<1> DEFINE x == a \div q
           y == a % q
           w == c \div q
           m == c \div (2 * q)
<1>1. x \in Nat /\ y \in Nat /\ y < q /\ a = q * x + y
  BY Divided
<1>2. w \in Nat
  BY Divided
<1>3. w \div 2 = m
  <2>1. w \div 2 \in Nat /\ w % 2 \in Nat /\ w % 2 < 2 /\ w = 2 * (w \div 2) + (w % 2)
    BY <1>2
  <2>2. c % q \in Nat /\ c % q < q /\ c = q * w + (c % q)
    BY Divided
  <2> HIDE DEF w, m
  <2> DEFINE u == w \div 2
             z == w % 2
             r == q * z + (c % q)
  <2>3. u \in Nat /\ z \in Nat /\ z < 2 /\ w = 2 * u + z
    BY <2>1
  <2> HIDE DEF u, z
  <2>4. r \in Nat /\ r < 2 * q
    <3>1. z = 0 \/ z = 1
      BY <2>3
    <3> QED
      BY <2>2, <3>1
  <2>5. c = (2 * q) * u + r
    <3>1. q * w = q * (2 * u) + q * z
      BY <2>3
    <3>2. q * (2 * u) = (2 * q) * u
      BY <2>3
    <3> QED
      BY <2>2, <2>3, <3>1, <3>2
  <2> HIDE DEF r
  <2>6. c \div (2 * q) = u
    BY <2>3, <2>4, <2>5, Division
  <2> QED
    BY <2>6 DEF u, m
<1>4. (a * (2 * h)) % 256 = 2 * (h * y)
  <2> HIDE DEF x, y
  <2>1. a * (2 * h) = 256 * x + 2 * (h * y)
    <3>1. a * (2 * h) = (q * x) * (2 * h) + y * (2 * h)
      BY <1>1
    <3>2. (q * x) * (2 * h) = (2 * (h * q)) * x
      BY <1>1
    <3>3. y * (2 * h) = 2 * (h * y)
      BY <1>1
    <3> QED
      BY <3>1, <3>2, <3>3
  <2>2. h * y \in Nat /\ h * y < h * q
    BY <1>1
  <2> DEFINE r == 2 * (h * y)
  <2>3. r \in Nat /\ r < 256 /\ a * (2 * h) = 256 * x + r
    BY <2>1, <2>2
  <2> HIDE DEF r
  <2>4. (256 * x + r) % 256 = r
    BY <1>1, <2>3, Division
  <2> QED
    BY <2>3, <2>4 DEF r
<1>5. (2 * (h * y) + w) \div 2 = h * y + (w \div 2)
  <2>1. h * y \in Nat
    BY <1>1
  <2> DEFINE v == h * y
  <2> HIDE DEF w, v
  <2>2. v \in Nat
    BY <2>1 DEF v
  <2>3. (2 * v + w) \div 2 = v + (w \div 2)
    BY <1>2, <2>2
  <2> QED
    BY <2>3 DEF v
<1> QED
  BY <1>3, <1>4, <1>5 DEF HalfOctet

LEMMA ShiftedOne ==
  ASSUME NEW h \in Positive, NEW q \in Positive, Shifts(h, q),
         NEW a \in Byte, NEW b \in Byte, NEW c \in Byte, NEW d \in Byte,
         HalfOctet(a, c, h, q) = HalfOctet(b, d, h, q)
  PROVE  Low(a, q) = Low(b, q) /\ High(c, q) = High(d, q)
<1> USE DEF Byte, Positive
<1>1. \A o \in 0..255 : o \div (2 * q) \in Nat /\ o \div (2 * q) < h
  <2> SUFFICES ASSUME NEW o \in 0..255
               PROVE  o \div (2 * q) \in Nat /\ o \div (2 * q) < h
    OBVIOUS
  <2> DEFINE m == o \div (2 * q)
             r == o % (2 * q)
  <2>1. m \in Nat /\ r \in Nat /\ o = (2 * q) * m + r
    <3>1. 2 * q \in Nat \ {0} /\ o \in Nat
      OBVIOUS
    <3> QED
      BY <3>1, Divided
  <2> HIDE DEF m, r
  <2>2. m < h
    <3> SUFFICES ASSUME m >= h PROVE FALSE
      BY <2>1
    <3>1. (2 * q) * m >= (2 * q) * h
      BY <2>1
    <3>2. (2 * q) * h = 256
      BY DEF Shifts
    <3> QED
      BY <2>1, <3>1, <3>2
  <2> QED
    BY <2>1, <2>2 DEF m
<1> DEFINE x == a % q
           y == b % q
           m == c \div (2 * q)
           n == d \div (2 * q)
<1>2. h * x + m = h * y + n
  <2>1. HalfOctet(a, c, h, q) = h * x + m
    BY Shifted
  <2>2. HalfOctet(b, d, h, q) = h * y + n
    BY Shifted
  <2> QED
    BY <2>1, <2>2
<1>3. x \in Nat /\ y \in Nat
  BY Divided
<1>4. m \in Nat /\ m < h /\ n \in Nat /\ n < h
  BY <1>1
<1> HIDE DEF x, y, m, n
<1>5. (h * x + m) \div h = x /\ (h * x + m) % h = m
  BY <1>3, <1>4, Division
<1>6. (h * y + n) \div h = y /\ (h * y + n) % h = n
  BY <1>3, <1>4, Division
<1>7. x = y /\ m = n
  BY <1>2, <1>5, <1>6
<1> QED
  BY <1>7 DEF x, y, m, n, Low, High

LEMMA Powers ==
  ASSUME NEW i \in 1..8
  PROVE  /\ 2^(8 - i) \in Nat \ {0} /\ 2^(i - 1) \in Nat \ {0}
         /\ 2^(9 - i) = 2 * 2^(8 - i) /\ 2^i = 2 * 2^(i - 1)
         /\ Shifts(2^(8 - i), 2^(i - 1))
<1>1. /\ 2^0 = 1 /\ 2^1 = 2 /\ 2^2 = 4 /\ 2^3 = 8 /\ 2^4 = 16 /\ 2^5 = 32
      /\ 2^6 = 64 /\ 2^7 = 128 /\ 2^8 = 256
  OBVIOUS
<1>2. CASE i = 1
  <2>1. 8 - i = 7 /\ i - 1 = 0 /\ 9 - i = 8
    BY <1>2
  <2> QED
    BY <1>1, <1>2, <2>1 DEF Shifts
<1>3. CASE i = 2
  <2>1. 8 - i = 6 /\ i - 1 = 1 /\ 9 - i = 7
    BY <1>3
  <2> QED
    BY <1>1, <1>3, <2>1 DEF Shifts
<1>4. CASE i = 3
  <2>1. 8 - i = 5 /\ i - 1 = 2 /\ 9 - i = 6
    BY <1>4
  <2> QED
    BY <1>1, <1>4, <2>1 DEF Shifts
<1>5. CASE i = 4
  <2>1. 8 - i = 4 /\ i - 1 = 3 /\ 9 - i = 5
    BY <1>5
  <2> QED
    BY <1>1, <1>5, <2>1 DEF Shifts
<1>6. CASE i = 5
  <2>1. 8 - i = 3 /\ i - 1 = 4 /\ 9 - i = 4
    BY <1>6
  <2> QED
    BY <1>1, <1>6, <2>1 DEF Shifts
<1>7. CASE i = 6
  <2>1. 8 - i = 2 /\ i - 1 = 5 /\ 9 - i = 3
    BY <1>7
  <2> QED
    BY <1>1, <1>7, <2>1 DEF Shifts
<1>8. CASE i = 7
  <2>1. 8 - i = 1 /\ i - 1 = 6 /\ 9 - i = 2
    BY <1>8
  <2> QED
    BY <1>1, <1>8, <2>1 DEF Shifts
<1>9. CASE i = 8
  <2>1. 8 - i = 0 /\ i - 1 = 7 /\ 9 - i = 1
    BY <1>9
  <2> QED
    BY <1>1, <1>9, <2>1 DEF Shifts
<1> QED
  BY <1>2, <1>3, <1>4, <1>5, <1>6, <1>7, <1>8, <1>9

\* The eight octets of a key have every bit of the seven (des.py:23).
THEOREM KeyKeepsBits ==
  ASSUME NEW k \in [1..7 -> 0..255], NEW l \in [1..7 -> 0..255], Key64(k) = Key64(l)
  PROVE  k = l
<1> DEFINE At(f, i) == IF i \in 1..7 THEN f[i] ELSE 0
           Octet64(f, i) == (((At(f, i - 1) * 2^(9 - i)) % 256)
                              + (At(f, i) \div 2^(i - 1))) \div 2
<1>1. \A f \in {k, l}, i \in 1..8 : Key64(f)[i] = 2 * Octet64(f, i)
  BY DEF Key64
<1> HIDE DEF Octet64
<1>2. ASSUME NEW i \in 1..8
      PROVE  /\ At(k, i - 1) % 2^(i - 1) = At(l, i - 1) % 2^(i - 1)
             /\ At(k, i) \div 2^i = At(l, i) \div 2^i
  <2> DEFINE h == 2^(8 - i)
             q == 2^(i - 1)
             a == At(k, i - 1)
             b == At(l, i - 1)
             c == At(k, i)
             d == At(l, i)
  <2>1. h \in Nat \ {0} /\ q \in Nat \ {0} /\ Shifts(h, q)
    BY Powers
  <2>2. 2^(9 - i) = 2 * h /\ 2^i = 2 * q
    BY Powers
  <2>3. a \in 0..255 /\ b \in 0..255 /\ c \in 0..255 /\ d \in 0..255
    OBVIOUS
  <2>4. /\ Octet64(k, i) = HalfOctet(a, c, h, q)
        /\ Octet64(l, i) = HalfOctet(b, d, h, q)
    BY <2>2 DEF Octet64, HalfOctet
  <2> HIDE DEF a, b, c, d, h, q
  <2>5. Octet64(k, i) = Octet64(l, i)
    <3> DEFINE s == ((a * (2 * h)) % 256) + (c \div q)
               t == ((b * (2 * h)) % 256) + (d \div q)
    <3>1. s \in Int /\ t \in Int
      <4>1. c \div q \in Int /\ d \div q \in Int
        BY <2>1, <2>3
      <4>2. a * (2 * h) \in Int /\ b * (2 * h) \in Int
        BY <2>1, <2>3
      <4>3. (a * (2 * h)) % 256 \in Int /\ (b * (2 * h)) % 256 \in Int
        BY <4>2
      <4> QED
        BY <4>1, <4>3
    <3>2. 2 * Octet64(k, i) = 2 * Octet64(l, i)
      <4>1. Key64(k)[i] = 2 * Octet64(k, i)
        BY <1>1
      <4>2. Key64(l)[i] = 2 * Octet64(l, i)
        BY <1>1
      <4> QED
        BY <4>1, <4>2
    <3>3. Octet64(k, i) = s \div 2 /\ Octet64(l, i) = t \div 2
      BY <2>4 DEF HalfOctet
    <3> HIDE DEF s, t
    <3>4. s \div 2 \in Int /\ t \div 2 \in Int
      BY <3>1
    <3> QED
      BY <3>2, <3>3, <3>4
  <2>6. HalfOctet(a, c, h, q) = HalfOctet(b, d, h, q)
    BY <2>4, <2>5
  <2>7. Low(a, q) = Low(b, q) /\ High(c, q) = High(d, q)
    <3>1. h \in Positive /\ q \in Positive /\ Shifts(h, q)
      BY <2>1 DEF Positive
    <3>2. a \in Byte /\ b \in Byte /\ c \in Byte /\ d \in Byte
      BY <2>3 DEF Byte
    <3> QED
      BY <2>6, <3>1, <3>2, ShiftedOne
  <2> QED
    BY <2>2, <2>7 DEF a, b, c, d, q, Low, High
<1>3. \A j \in 1..7 : At(k, j) = k[j] /\ At(l, j) = l[j]
  OBVIOUS
<1> HIDE DEF At
<1>4. ASSUME NEW j \in 1..7 PROVE k[j] = l[j]
  <2> DEFINE n == 2^j
  <2>1. n \in Nat \ {0}
    <3>1. j + 1 \in 1..8 /\ (j + 1) - 1 = j
      OBVIOUS
    <3>2. 2^((j + 1) - 1) \in Nat \ {0}
      BY <3>1, Powers
    <3> QED
      BY <3>1, <3>2
  <2>2. k[j] \div n = l[j] \div n
    <3>1. j \in 1..8
      OBVIOUS
    <3>2. At(k, j) \div n = At(l, j) \div n
      BY <1>2, <3>1
    <3> QED
      BY <1>3, <3>2
  <2>3. k[j] % n = l[j] % n
    <3>1. j + 1 \in 1..8 /\ (j + 1) - 1 = j
      OBVIOUS
    <3>2. At(k, (j + 1) - 1) % 2^((j + 1) - 1) = At(l, (j + 1) - 1) % 2^((j + 1) - 1)
      BY <1>2, <3>1
    <3>3. At(k, j) % n = At(l, j) % n
      BY <3>1, <3>2
    <3> QED
      BY <1>3, <3>3
  <2>4. k[j] \in Nat /\ l[j] \in Nat
    <3>1. k[j] \in 0..255 /\ l[j] \in 0..255
      OBVIOUS
    <3> QED
      BY <3>1
  <2> HIDE DEF n
  <2>5. k[j] = n * (k[j] \div n) + (k[j] % n) /\ l[j] = n * (l[j] \div n) + (l[j] % n)
    BY <2>1, <2>4, Divided
  <2> QED
    BY <2>2, <2>3, <2>5
<1> QED
  BY <1>4

LEMMA OneBitKeys == OneBit \subseteq [1..7 -> 0..255]
<1> SUFFICES ASSUME NEW j \in 1..7, NEW b \in 0..7
             PROVE  [i \in 1..7 |-> IF i = j THEN 2^b ELSE 0] \in [1..7 -> 0..255]
  BY DEF OneBit
<1>1. /\ 2^0 = 1 /\ 2^1 = 2 /\ 2^2 = 4 /\ 2^3 = 8 /\ 2^4 = 16 /\ 2^5 = 32
      /\ 2^6 = 64 /\ 2^7 = 128
  OBVIOUS
<1>2. CASE b = 0
  <2>1. 2^b \in 0..255
    BY <1>1, <1>2
  <2> QED
    BY <2>1
<1>3. CASE b = 1
  <2>1. 2^b \in 0..255
    BY <1>1, <1>3
  <2> QED
    BY <2>1
<1>4. CASE b = 2
  <2>1. 2^b \in 0..255
    BY <1>1, <1>4
  <2> QED
    BY <2>1
<1>5. CASE b = 3
  <2>1. 2^b \in 0..255
    BY <1>1, <1>5
  <2> QED
    BY <2>1
<1>6. CASE b = 4
  <2>1. 2^b \in 0..255
    BY <1>1, <1>6
  <2> QED
    BY <2>1
<1>7. CASE b = 5
  <2>1. 2^b \in 0..255
    BY <1>1, <1>7
  <2> QED
    BY <2>1
<1>8. CASE b = 6
  <2>1. 2^b \in 0..255
    BY <1>1, <1>8
  <2> QED
    BY <2>1
<1>9. CASE b = 7
  <2>1. 2^b \in 0..255
    BY <1>1, <1>9
  <2> QED
    BY <2>1
<1> QED
  BY <1>2, <1>3, <1>4, <1>5, <1>6, <1>7, <1>8, <1>9

\* Whatever method the router asks by, and whatever passwords there are, the
\* portal accepts the one given and no other (check_password), and the text of its
\* answer is the one the router expects (packet.py:190).
THEOREM PasswordsRight == PasswordsChecked
<1>1. ASSUME NEW method \in Methods, NEW given \in Cleartexts, NEW cleartext \in Cleartexts
      PROVE  CheckPassword(Asked(method, given), cleartext) <=> given = cleartext
  BY PapRight, ChapRight, MschapRight, Mschap2Right DEF Methods
<1>2. \A k, l \in OneBit : Key64(k) = Key64(l) => k = l
  BY OneBitKeys, KeyKeepsBits
<1> QED
  BY <1>1, <1>2, SuccessRight DEF PasswordsChecked

\* So it is in every state of a run of the portal (LoginsChecked): what
\* do_authorize takes for the right password is.
THEOREM LoginsRight == Spec => []LoginsChecked
<1>1. LoginsChecked
  BY PasswordsRight DEF LoginsChecked
<1> QED
  BY <1>1, PTL

=============================================================================
