------------------------------- MODULE Access -------------------------------
(***************************************************************************)
(* Access-Request (literadius/protocol.py handle_auth): who is let in, by  *)
(* password or by hardware address, with which limits, and what a tariff   *)
(* leaves of them.  The process radius.auth serves requests concurrently;  *)
(* every await is a step.  It reads the invoices of Billing, the devices   *)
(* that the portal checks and the accounting of the sessions it let in.    *)
(*                                                                         *)
(* A tick is the time step of the one-time passwords: the password of a    *)
(* device that the portal shows at tick n is named n; that a password is   *)
(* accepted exactly if it is the one given, by whichever method, is shown  *)
(* in Logins.                                                              *)
(***************************************************************************)
EXTENDS Billing, Logins, SequencesExt

CONSTANTS
  Macs,
  UserOf,        \* the account of the device with this mac
  Passworded,    \* users with a `password' of their own
  MacAuth,       \* uam.macauth
  Base, Called,  \* limits of the profiles `default' and of the callee
  Payable,       \* the merged `payable'
  SessionLimit,  \* radius.SESSIONLIMIT, None with a licence
  Expires,       \* ticks in an hour: a session without a time limit
  Grace,         \* ticks in the 28 seconds past the end of an invoice
  Slots,         \* concurrent handlers of Access-Request
  MaxSessions,   \* bound: rad_sessions written
  MaxDocs        \* bound: sessions of the NAS

Pw == -1         \* the password an administrator gave a user
Wrong == 0
Passwords == Time \cup {Pw, Wrong}

\* `bytes' is treated as `time' is.
Quotas == {"time", "ports"}

ASSUME MacAssumption == UserOf \in [Macs -> Users] /\ Passworded \subseteq Users
ASSUME LimitAssumption == /\ IsLimits(Base) /\ IsLimits(Called)
                          /\ Quotas \subseteq Keys
                          /\ SessionLimit = None \/ SessionLimit \in Nat
ASSUME AccessAssumption == /\ {MacAuth, Payable} \subseteq BOOLEAN
                           /\ {Expires, Grace} \subseteq Nat

VARIABLES
  checked,   \* macs whose document in devices is checked
  marks,     \* mark_device updates under way
  sessions,  \* collection rad_sessions, in natural order
  auth,      \* handlers of Access-Request
  asking,    \* macs whose request the NAS has no answer to
  docs,      \* collection accounting, which follows the NAS
  unmarked   \* history: macs whose mark was lost

nas == <<asking, docs>>
vars == <<now, billing, checked, marks, sessions, auth, nas, unmarked>>

NoLimit == [k \in {} |-> 0]

Idle == [pc |-> "idle", mac |-> None, byMac |-> FALSE, password |-> Wrong,
         now |-> 0, session |-> 0, psw |-> Wrong, at |-> 0, invoice |-> 0,
         limit |-> NoLimit]

IsSession(s) ==
  /\ s.mac \in Macs /\ s.password \in Passwords /\ s.start \in Time
  /\ IsLimits(s.limit) /\ s.stop \in Int
  /\ s.invoice \in 0..Len(invoices)

TypeOK ==
  /\ BillingTypeOK
  /\ checked \subseteq Macs /\ marks \subseteq Macs /\ unmarked \subseteq Macs
  /\ \A i \in DOMAIN sessions : IsSession(sessions[i])
  /\ DOMAIN auth = Slots
  /\ \A a \in Slots : /\ auth[a].session \in 0..Len(sessions)
                      /\ auth[a].invoice \in 0..Len(invoices)
                      /\ auth[a].psw \in Passwords
                      /\ auth[a].pc = "idle" => auth[a] = Idle
  /\ asking \subseteq Macs
  /\ \A i \in DOMAIN docs : docs[i].time \in 0..MaxTime

AccessInit ==
  /\ checked = {} /\ marks = {} /\ unmarked = {}
  /\ sessions = <<>>
  /\ auth = [a \in Slots |-> Idle]
  /\ asking = {} /\ docs = <<>>

Init == BillingInit /\ AccessInit

----------------------------------------------------------------------------
(* Limits *)

Zeros(l) == {k \in DOMAIN l : l[k] = 0}

\* `climit.pop(k, None)' for the zeros of l.
Lifted(c, l) == Restrict(c, DOMAIN c \ Zeros(l))

Over(c, l) == [k \in DOMAIN c \cup DOMAIN l |-> IF k \in DOMAIN l THEN l[k]
                                                ELSE c[k]]

\* get_limits: the callee's limits over the default ones.
Merged == LET Onto(c, l) == Over(Lifted(c, l), Lifted(l, l))
          IN  Onto(Onto(NoLimit, Base), Called)

Times == [i \in DOMAIN docs |-> docs[i].time]

DocsSince(u, n) == {i \in DOMAIN docs : docs[i].user = u /\ docs[i].start >= n}

\* reduce_limits: less the time used and the sessions open since n; a limit
\* of 0 stays.
ReducedNever(l, u, n) == l                        \* mutant: nothing is summed
Reduced(l, u, n) ==
  LET used == [time  |-> SumFunctionOnSet(Times, DocsSince(u, n)),
               ports |-> Cardinality({i \in DocsSince(u, n) : docs[i].open})]
  IN  [k \in DOMAIN l |-> IF k \in Quotas /\ l[k] # 0 THEN l[k] - used[k]
                          ELSE l[k]]

CappedNever(l, t) == l                            \* mutant: no `stop'
\* The time is at most what is left of the invoice.
Capped(l, t) == Over(l, [k \in {"time"} |-> IF k \in DOMAIN l THEN Min({l[k], t})
                                            ELSE t])

Remaining(i, n) == Capped(Reduced(invoices[i].limit, invoices[i].user,
                                  invoices[i].start),
                          invoices[i].stop - n + Grace)

\* A tariff with a limit of 0, used up or not, does not apply.
Applies(l) == \A k \in DOMAIN l : l[k] > 0

\* set_limits: "E=691 {} limit exceed".
Exceeded(l) == \E k \in DOMAIN l \cap Quotas : l[k] <= 0

Final(l) == IF SessionLimit = None THEN l
            ELSE Over(l, [k \in {"time"} |-> SessionLimit])

----------------------------------------------------------------------------
(* The NAS and the portal *)

Open(m) == {i \in DOMAIN docs : docs[i].mac = m /\ docs[i].open}
Busy(m) == {a \in Slots : auth[a].mac = m}

\* A device asks for access, with its password or with its mac for a user name;
\* the NAS may ask again until it is answered.
Receive(a, m, byMac, p) ==
  /\ auth[a].pc = "idle"
  /\ Open(m) = {} /\ Len(docs) < MaxDocs
  /\ \A b \in Busy(m) : /\ m \in asking
                        /\ auth[b].byMac = byMac /\ auth[b].password = p
  /\ asking' = asking \cup {m}
  /\ auth' = [auth EXCEPT ![a] = [Idle EXCEPT !.pc = "lookup", !.mac = m,
                 !.byMac = byMac, !.password = p, !.now = now]]
  /\ UNCHANGED <<now, billing, checked, marks, sessions, docs, unmarked>>

\* The answer to a; the NAS begins a session and reports it.
Accept(r, l, i) ==
  /\ asking' = asking \ {r.mac}
  /\ IF r.mac \in asking
     THEN docs' = Append(docs, [mac |-> r.mac, user |-> UserOf[r.mac],
             start |-> now, time |-> 0, open |-> TRUE, limit |-> l,
             invoice |-> i, byMac |-> r.byMac])
     ELSE UNCHANGED docs

Reject(r) == asking' = asking \ {r.mac} /\ UNCHANGED docs

\* The Stop, which is written before the device asks again.
End(i) ==
  /\ docs[i].open /\ docs' = [docs EXCEPT ![i].open = FALSE]
  /\ UNCHANGED <<now, billing, checked, marks, sessions, auth, asking, unmarked>>

\* What Registration does: the phone of a device is proved.
Check(m) ==
  /\ checked' = checked \cup {m}
  /\ UNCHANGED <<now, billing, marks, sessions, auth, nas, unmarked>>

AtLimit(i) == "time" \in DOMAIN docs[i].limit /\ docs[i].time >= docs[i].limit.time

\* Handlers are cancelled after 5 seconds; the NAS reports its sessions at every
\* tick and ends them on time.
Tick ==
  /\ now < MaxTime
  /\ Prompt /\ \A a \in Slots : auth[a].pc # "idle" => auth[a].now = now
  /\ \A i \in DOMAIN docs : docs[i].open => ~AtLimit(i)
  /\ now' = now + 1
  /\ docs' = [i \in DOMAIN docs |-> IF docs[i].open
                                    THEN [docs[i] EXCEPT !.time = @ + 1]
                                    ELSE docs[i]]
  /\ UNCHANGED <<billing, checked, marks, sessions, auth, asking, unmarked>>

----------------------------------------------------------------------------
(* radius.auth *)

Done(a) == auth' = [auth EXCEPT ![a] = Idle]
Goes(a, r) == auth' = [auth EXCEPT ![a] = r]

LiveAll(m, n) == {i \in DOMAIN sessions : sessions[i].mac = m}   \* mutant: no stop
Live(m, n) == {i \in DOMAIN sessions : sessions[i].mac = m
                                       /\ n < sessions[i].stop}

\* find_one(sort=$natural, -1).
Newest(S) == IF S = {} THEN 0 ELSE Max(S)

\* The session's password, or else the user's own.
OwnPassword(m, s) == IF s # 0 THEN sessions[s].password
                     ELSE IF UserOf[m] \in Passworded THEN Pw ELSE Wrong

MarkedNot(m) == {}                                \* mutant: no update
Marked(m) == {m}

\* mark_device is started and not awaited.
KnownPassword(a) ==
  LET r == auth[a]
      s == Newest(Live(r.mac, r.now))
  IN  /\ r.pc = "lookup" /\ ~r.byMac
      /\ r.password # Wrong /\ r.password = OwnPassword(r.mac, s)
      /\ marks' = marks \cup Marked(r.mac)
      /\ Goes(a, [r EXCEPT !.pc = "limits", !.session = s, !.psw = r.password])
      /\ UNCHANGED <<now, billing, checked, sessions, nas, unmarked>>

\* getpassw(n=0), getpassw(n=-1).
OneTimePassword(a) ==
  LET r == auth[a]
      s == Newest(Live(r.mac, r.now))
  IN  /\ r.pc = "lookup" /\ ~r.byMac
      /\ r.password # OwnPassword(r.mac, s)
      /\ r.password \in {now, now - 1} \ {Wrong}
      /\ Goes(a, [r EXCEPT !.pc = "device", !.session = s, !.psw = r.password])
      /\ UNCHANGED <<now, billing, checked, marks, sessions, nas, unmarked>>

ByMac(a) ==
  LET r == auth[a]
      s == Newest(Live(r.mac, r.now))
  IN  /\ r.pc = "lookup" /\ r.byMac /\ MacAuth /\ s # 0
      /\ Goes(a, [r EXCEPT !.pc = IF sessions[s].limit = NoLimit THEN "device"
                                  ELSE "reduce",
                           !.session = s, !.limit = sessions[s].limit])
      /\ UNCHANGED <<now, billing, checked, marks, sessions, nas, unmarked>>

Refuse(a) ==
  LET r == auth[a]
      s == Newest(Live(r.mac, r.now))
  IN  /\ r.pc = "lookup"
      /\ IF r.byMac THEN ~MacAuth \/ s = 0
         ELSE r.password = Wrong
              \/ r.password \notin {OwnPassword(r.mac, s), now, now - 1}
      /\ Done(a) /\ Reject(r)
      /\ UNCHANGED <<now, billing, checked, marks, sessions, unmarked>>

\* What is left of the session's limits; when nothing is, handle_auth goes on.
Reduce(a) ==
  LET r == auth[a]
      s == sessions[r.session]
      l == Reduced(r.limit, UserOf[r.mac], s.start)
  IN  /\ r.pc = "reduce"
      /\ IF Exceeded(l)
         THEN Goes(a, [r EXCEPT !.pc = "device"]) /\ UNCHANGED nas
         ELSE Done(a) /\ Accept(r, l, s.invoice)
      /\ UNCHANGED <<now, billing, checked, marks, sessions, unmarked>>

FindDevice(a) ==
  LET r == auth[a]
  IN  /\ r.pc = "device"
      /\ IF r.mac \in checked
         THEN Goes(a, [r EXCEPT !.pc = "limits"]) /\ UNCHANGED nas
         ELSE Done(a) /\ Reject(r)
      /\ UNCHANGED <<now, billing, checked, marks, sessions, unmarked>>

\* The limits of the profiles and an invoice are read.
FindLimits(a) ==
  LET r == auth[a]
      found == IF Payable THEN Active(UserOf[r.mac], now) ELSE {}
  IN  /\ r.pc = "limits"
      /\ IF found = {}
         THEN Goes(a, [r EXCEPT !.pc = "insert", !.limit = Final(Merged)])
         ELSE Goes(a, [r EXCEPT !.pc = "billing", !.at = now,
                               !.invoice = Min(found)])
      /\ UNCHANGED <<now, billing, checked, marks, sessions, nas, unmarked>>

\* The tariff's limits over those of the portal, if something is left of them.
Bill(a) ==
  LET r == auth[a]
      i == invoices[r.invoice]
      l == Remaining(r.invoice, r.at)
      lifted == Lifted(Merged, i.limit)
  IN  /\ r.pc = "billing"
      /\ Goes(a, [r EXCEPT !.pc = "insert",
                           !.limit = Final(IF Applies(l) THEN Over(lifted, l)
                                           ELSE lifted),
                           !.invoice = IF Applies(l) THEN @ ELSE 0])
      /\ UNCHANGED <<now, billing, checked, marks, sessions, nas, unmarked>>

Session(r) ==
  [mac |-> r.mac, password |-> r.psw, limit |-> r.limit, start |-> r.now,
   stop |-> r.now + (IF "time" \in DOMAIN r.limit THEN r.limit.time ELSE Expires),
   invoice |-> r.invoice]

\* The session is inserted and the answer sent.
Insert(a) ==
  LET r == auth[a]
  IN  /\ r.pc = "insert" /\ Len(sessions) < MaxSessions
      /\ sessions' = Append(sessions, Session(r))
      /\ Done(a)
      /\ IF Exceeded(r.limit) THEN Reject(r) ELSE Accept(r, r.limit, r.invoice)
      /\ UNCHANGED <<now, billing, checked, marks, unmarked>>

\* cancel_answer; an insert under way may still be made.
Cancel(a) ==
  LET r == auth[a]
  IN  /\ r.pc # "idle" /\ now > r.now
      /\ Done(a)
      /\ \/ UNCHANGED sessions
         \/ /\ r.pc = "insert" /\ Len(sessions) < MaxSessions
            /\ sessions' = Append(sessions, Session(r))
      /\ UNCHANGED <<now, billing, checked, marks, nas, unmarked>>

MarkLands(m) ==
  /\ marks' = marks \ {m} /\ checked' = checked \cup {m}
  /\ UNCHANGED <<now, billing, sessions, auth, nas, unmarked>>

\* Line 596 may write checked into the filter before the thread that runs the
\* update reads it: it then finds no document, and the unique index on account
\* and mac refuses a second one.
MarkLost(m) ==
  /\ m \notin checked
  /\ marks' = marks \ {m} /\ unmarked' = unmarked \cup {m}
  /\ UNCHANGED <<now, billing, checked, sessions, auth, nas>>

\* The process radius.auth is killed.
AuthCrash ==
  /\ auth' = [a \in Slots |-> Idle]
  /\ marks' = {} /\ unmarked' = unmarked \cup marks
  /\ UNCHANGED <<now, billing, checked, sessions, nas>>

Handle(a) == \/ KnownPassword(a) \/ OneTimePassword(a) \/ ByMac(a) \/ Refuse(a)
             \/ Reduce(a) \/ FindDevice(a) \/ FindLimits(a) \/ Bill(a)
             \/ Insert(a) \/ Cancel(a)

Outside == UNCHANGED <<checked, marks, sessions, auth, nas, unmarked>>

Next ==
  \/ Portal /\ Outside
  \/ \E m \in Macs : Check(m)
  \/ \E m \in marks : MarkLands(m) \/ MarkLost(m)
  \/ \E a \in Slots, m \in Macs :
       \/ Receive(a, m, TRUE, Wrong)
       \/ \E p \in 1..now \cup {Pw} : Receive(a, m, FALSE, p)
  \/ \E a \in Slots : Handle(a)
  \/ \E i \in DOMAIN docs : End(i)
  \/ AuthCrash \/ Tick

Spec == Init /\ [][Next]_vars

----------------------------------------------------------------------------
(* Properties *)

\* Whoever has a session has proved the phone of the device or the password of
\* the account, and its document says so, or is about to: protocol.py:609 takes
\* the update that is under way for the device.  A killed process or the filter
\* of line 596 loses it.
SessionsBacked ==
  \A i \in DOMAIN sessions : sessions[i].mac \in checked \cup marks \cup unmarked

\* A one-time password that has run out lets its device in only while a session
\* begun with it lasts (protocol.py:541, 551).
StaleOnlyInSession ==
  \A i \in DOMAIN sessions :
    LET s == sessions[i]
    IN  s.password \in Time =>
          \/ s.start <= s.password + 1
          \/ \E j \in 1..i - 1 : /\ sessions[j].mac = s.mac
                                 /\ sessions[j].password = s.password
                                 /\ s.start < sessions[j].stop

\* A tariff is not used longer than its time, whatever requests are repeated or
\* cancelled and whatever processes are killed, if the user has one device and
\* its Stop is written before it asks again (protocol.py:291).
QuotaKept ==
  (SessionLimit = None /\ \A m, k \in Macs : UserOf[m] = UserOf[k] => m = k) =>
    \A i \in DOMAIN invoices :
      ("time" \in DOMAIN invoices[i].limit /\ invoices[i].limit.time > 0) =>
        SumFunctionOnSet(Times, {d \in DOMAIN docs : docs[d].invoice = i})
          <= invoices[i].limit.time

\* Who logged in on a tariff is out when the tariff ends, but for the grace of
\* 28 seconds and the time the answer took.  (A login by mac counts the time of
\* its session anew from what was used of it, and may last longer.)
TariffEnds ==
  SessionLimit = None =>
    \A d \in DOMAIN docs :
      (docs[d].open /\ docs[d].invoice # 0 /\ ~docs[d].byMac) =>
        now <= invoices[docs[d].invoice].stop + Grace + 1

\* In the first states: a password is accepted exactly if it is the one given, by
\* whichever method the router asks (packet.py:190).
LoginsChecked == now = 1 => PasswordsChecked
=============================================================================
