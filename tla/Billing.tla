------------------------------- MODULE Billing -------------------------------
(***************************************************************************)
(* Paid access on the portal (rest/billing.py): addinvoice, which the      *)
(* handlers of the portal call for a device that is let in where its       *)
(* portal has a tariff, and voucher, which turns a code into an invoice.   *)
(* Both run in the http process and meet in the collections `invoice' and  *)
(* `voucher'; every await is a step.  Access reads the invoices.           *)
(***************************************************************************)
EXTENDS Integers, Sequences, FiniteSets

CONSTANTS
  Users, Vouchers,
  Calls,         \* slots for concurrent calls of addinvoice
  Redeems,       \* slots for concurrent POST /billing/voucher
  Tarif,         \* uam.tarif: what addinvoice gives, None without one
  Sold,          \* the tariff of a voucher, None when it has been removed
  Closed,        \* when a voucher expires
  None,
  Keys,          \* the limits a tariff may set
  MaxTime,       \* bound: last tick
  MaxInvoices    \* bound: invoices written

Time == 1..MaxTime

\* Limits: a value for some of the keys; 0 lifts a limit.
IsLimits(l) == l \in [DOMAIN l -> Int] /\ DOMAIN l \subseteq Keys

\* duration in days, 0 for no end.
Tariff(t) == t.duration \in Nat /\ IsLimits(t.limit)

ASSUME NoneAssumption == None \notin Users \cup Vouchers
ASSUME TariffAssumption == /\ Tarif = None \/ Tariff(Tarif)
                           /\ \A v \in Vouchers : Sold[v] = None \/ Tariff(Sold[v])
                           /\ Closed \in [Vouchers -> Int]
ASSUME CallsAssumption == IsFiniteSet(Calls)
ASSUME MaxAssumption == MaxTime \in Nat \ {0} /\ MaxInvoices \in Nat

VARIABLES
  now,       \* the clock
  invoices,  \* collection invoice, in natural order
  spent,     \* collection voucher: the user of an `invoiced' one
  call,      \* calls of addinvoice
  redeem,    \* POST /billing/voucher handlers
  torn       \* history: vouchers whose handler ended half-way

billing == <<invoices, spent, call, redeem, torn>>

Opt(S) == S \cup {None}

\* stop is 0 when the tariff has no end; ticks begin with 1.
IsInvoice(i) == /\ i.user \in Users /\ i.start \in Time
                /\ i.stop \in Nat /\ i.voucher \in Opt(Vouchers)
                /\ IsLimits(i.limit)

BillingTypeOK ==
  /\ now \in Time
  /\ \A i \in DOMAIN invoices : IsInvoice(invoices[i])
  /\ Len(invoices) <= MaxInvoices
  /\ spent \in [Vouchers -> Opt(Users)]
  /\ call \in [Calls -> [pc : {"idle", "find", "insert"}, user : Opt(Users),
                         now : 0..MaxTime]]
  /\ redeem \in [Redeems -> [pc : {"idle", "claim", "insert"},
                             user : Opt(Users), voucher : Opt(Vouchers),
                             now : 0..MaxTime]]
  /\ torn \subseteq Vouchers

NoCall == [pc |-> "idle", user |-> None, now |-> 0]
NoRedeem == [pc |-> "idle", user |-> None, voucher |-> None, now |-> 0]

BillingInit ==
  /\ now = 1
  /\ invoices = <<>>
  /\ spent = [v \in Vouchers |-> None]
  /\ call = [c \in Calls |-> NoCall]
  /\ redeem = [r \in Redeems |-> NoRedeem]
  /\ torn = {}

----------------------------------------------------------------------------

\* A stop of 0 is no date: {"$gt": now} does not find it.
Stop(t, n) == IF t.duration > 0 THEN n + t.duration ELSE 0

\* The invoices that the queries of billing.py and protocol.py match.
Active(u, n) ==
  {i \in DOMAIN invoices : /\ invoices[i].user = u
                           /\ invoices[i].start <= n /\ n < invoices[i].stop}

Issue(u, t, n, v) ==
  /\ Len(invoices) < MaxInvoices
  /\ invoices' = Append(invoices,
       [user |-> u, start |-> n, stop |-> Stop(t, n), voucher |-> v,
        limit |-> t.limit])

(* addinvoice *)

Ask(c, u) ==
  /\ call[c].pc = "idle" /\ Tarif # None
  /\ call' = [call EXCEPT ![c] = [pc |-> "find", user |-> u, now |-> now]]
  /\ UNCHANGED <<now, invoices, spent, redeem, torn>>

NotInvoicedEver(u, n) == TRUE                     \* mutant: always a new one
NotInvoiced(u, n) == Active(u, n) = {}

FindInvoice(c) ==
  /\ call[c].pc = "find"
  /\ call' = [call EXCEPT ![c] = IF NotInvoiced(@.user, @.now)
                                 THEN [@ EXCEPT !.pc = "insert"] ELSE NoCall]
  /\ UNCHANGED <<now, invoices, spent, redeem, torn>>

InsertInvoice(c) ==
  /\ call[c].pc = "insert"
  /\ Issue(call[c].user, Tarif, call[c].now, None)
  /\ call' = [call EXCEPT ![c] = NoCall]
  /\ UNCHANGED <<now, spent, redeem, torn>>

(* voucher *)

Enter(r, u, v) ==
  /\ redeem[r].pc = "idle"
  /\ redeem' = [redeem EXCEPT ![r] = [pc |-> "claim", user |-> u,
                                      voucher |-> v, now |-> now]]
  /\ UNCHANGED <<now, invoices, spent, call, torn>>

UsableTwice(v, n) == n < Closed[v]                \* mutant: no `invoiced'
Usable(v, n) == spent[v] = None /\ n < Closed[v]

\* find_one_and_update, or {"error": "wrongcode"}.
Claim(r) ==
  /\ redeem[r].pc = "claim"
  /\ IF Usable(redeem[r].voucher, redeem[r].now)
     THEN /\ spent' = [spent EXCEPT ![redeem[r].voucher] = redeem[r].user]
          /\ redeem' = [redeem EXCEPT ![r].pc = "insert"]
     ELSE redeem' = [redeem EXCEPT ![r] = NoRedeem] /\ UNCHANGED spent
  /\ UNCHANGED <<now, invoices, call, torn>>

VoucherOfNone(r) == None                          \* mutant: as in addinvoice
VoucherOf(r) == redeem[r].voucher

InsertPaid(r) ==
  /\ redeem[r].pc = "insert" /\ Sold[redeem[r].voucher] # None
  /\ Issue(redeem[r].user, Sold[redeem[r].voucher], redeem[r].now,
           VoucherOf(r))
  /\ redeem' = [redeem EXCEPT ![r] = NoRedeem]
  /\ UNCHANGED <<now, spent, call, torn>>

\* tarif.get: there is no tariff, and the handler raises.
NoTariff(r) ==
  /\ redeem[r].pc = "insert" /\ Sold[redeem[r].voucher] = None
  /\ redeem' = [redeem EXCEPT ![r] = NoRedeem]
  /\ torn' = torn \cup {redeem[r].voucher}
  /\ UNCHANGED <<now, invoices, spent, call>>

\* The http process is killed; handlers under way are gone.
HttpCrash ==
  /\ call' = [c \in Calls |-> NoCall]
  /\ redeem' = [r \in Redeems |-> NoRedeem]
  /\ torn' = torn \cup {redeem[r].voucher :
                          r \in {r \in Redeems : redeem[r].pc = "insert"}}
  /\ UNCHANGED <<now, invoices, spent>>

Portal ==
  \/ \E c \in Calls : \/ \E u \in Users : Ask(c, u)
                      \/ FindInvoice(c) \/ InsertInvoice(c)
  \/ \E r \in Redeems : \/ \E u \in Users, v \in Vouchers : Enter(r, u, v)
                        \/ Claim(r) \/ InsertPaid(r) \/ NoTariff(r)
  \/ HttpCrash

\* A handler is done in about a tick.
Prompt == /\ \A c \in Calls : call[c].pc # "idle" => call[c].now = now
          /\ \A r \in Redeems : redeem[r].pc # "idle" => redeem[r].now = now

Days == /\ now < MaxTime /\ Prompt
        /\ now' = now + 1 /\ UNCHANGED billing

BillingNext == Portal \/ Days

BillingSpec == BillingInit /\ [][BillingNext]_<<now, billing>>

----------------------------------------------------------------------------
(* Properties *)

\* A code gives one invoice, to the user it is marked with, whatever requests
\* with that code overlap (billing.py:86).
VoucherSpentOnce ==
  \A i, j \in DOMAIN invoices : invoices[i].voucher # None =>
    /\ spent[invoices[i].voucher] = invoices[i].user
    /\ invoices[i].voucher = invoices[j].voucher => i = j

\* A code that is used up has its invoice, or a handler that is about to write
\* it; only a process killed between the two updates (billing.py:86 and 110,
\* `TODO: wrap in a transaction'), or a tariff that has been removed (line 90),
\* takes a code for nothing.
PaidIsInvoiced ==
  \A v \in Vouchers : spent[v] # None =>
    \/ v \in torn
    \/ \E i \in DOMAIN invoices : invoices[i].voucher = v
    \/ \E r \in Redeems : redeem[r].pc = "insert" /\ redeem[r].voucher = v

\* A user has one invoice of the portal's tariff at a time, and one more for
\* each call that overlapped the one that wrote it: addinvoice looks and
\* writes in two operations (billing.py:20 and 42).
TarifOnce ==
  \A u \in Users : Cardinality(
    {i \in DOMAIN invoices : /\ invoices[i].user = u
                             /\ invoices[i].voucher = None
                             /\ invoices[i].start <= now
                             /\ now < invoices[i].stop}) <= Cardinality(Calls)
=============================================================================
