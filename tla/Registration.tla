--------------------------- MODULE Registration ---------------------------
(***************************************************************************)
(* Registration of a device on the hotspot portal: POST /phone/            *)
(* (rest/phone.py), POST /device/<oid> (rest/device.py), the handler of    *)
(* incoming SMS (zte.py handle) and the handler of incoming calls (ami.py  *)
(* newchannel_cb).  The four run in three processes and meet only in the   *)
(* `devices', `users', `counters' and `sms_sent' collections.  Every await *)
(* of a handler is a point where the others may run, so a handler is a     *)
(* sequence of steps, each of which makes one atomic database operation    *)
(* and works otherwise on what the handler read before.                    *)
(*                                                                         *)
(* A device document is named by its (phone, mac) pair, the key of the     *)
(* unique index of reindex.py.  Time is counted in abstract ticks.         *)
(***************************************************************************)
EXTENDS Integers, FiniteSets

CONSTANTS
  Phones, Macs,      \* telephone numbers, hardware addresses
  Reqs,              \* slots for concurrent POST /phone/ handlers
  Polls,             \* slots for concurrent POST /device/ handlers
  Codes,             \* the codes getsms() can draw
  Uams,              \* merged portal settings a request may find
  None,              \* an absent field of a document
  Month,             \* ticks in the month of the sending limit
  CallWindow,        \* ami.py: config 'timeout'
  AnyText,           \* zte.py: client.anytext, 0 when not configured
  TryMax,            \* device.py: wrong codes before 403 (7 in the code)
  MaxTime,           \* bound: last tick
  MaxUid,            \* bound: last value of the userid counter
  MaxTexts,          \* bound: SMS queued in a behaviour
  MaxFailures        \* bound: handlers that fail, kills of the process

Methods == {"sms", "call"}
CheckIds == {"id", "empty"}   \* sms.ru gave an id to ask about, or refused
Devices == Phones \X Macs
Phone(d) == d[1]
Mac(d) == d[2]
Time == 0..MaxTime
Uids == 1..MaxUid
TextIds == 1..MaxTexts

Uam == [id : STRING, nosms : BOOLEAN, callrecieve : BOOLEAN,
        smsrecieve : BOOLEAN, smssend : BOOLEAN, sms_limit : Int,
        sms_timeout : Int, devmax : Nat, rereg : Nat]
   \* devmax and rereg after their `or' defaults, so never 0

ASSUME NoneAssumption == None \notin Codes \cup Int \cup Methods \cup CheckIds
ASSUME BoundAssumption == /\ MaxTime \in Nat /\ MaxUid \in Nat
                          /\ MaxTexts \in Nat /\ TryMax \in Nat
                          /\ MaxFailures \in Nat
ASSUME UamAssumption == Uams \subseteq Uam
ASSUME SetAssumption == /\ IsFiniteSet(Phones) /\ Phones # {}
                        /\ IsFiniteSet(Macs) /\ Macs # {}
                        /\ IsFiniteSet(Reqs) /\ Uams # {}

VARIABLES
  dev,       \* collection devices
  natural,   \* devices in order of insertion ($natural)
  users,     \* collection users: records [id, with]
  userid,    \* document userid of collection counters
  texts,     \* SMS handed to the database for collection sms_sent
  landed,    \* those of texts that are in sms_sent
  req,       \* POST /phone/ handlers
  poll,      \* POST /device/ handlers
  now,       \* the clock
  failures,  \* history: handlers that failed, kills of the process
  accepted,  \* history: <<device, code>> accepted by device_handler
  contacted, \* history: phones whose call or SMS was received and used
  granted    \* history: devices whose page was given a password

vars == <<dev, natural, users, userid, texts, landed, req, poll, now,
          accepted, contacted, granted, failures>>

----------------------------------------------------------------------------
(* Documents and handler states *)

Opt(S) == S \cup {None}

Document == [known : BOOLEAN, seen : Time, registred : Time,
             username : Opt(Uids), method : Opt(Methods), checked : BOOLEAN,
             sms_sent : Opt(Codes), sms_time : Opt(Time),
             sms_waited : Opt(Codes), variant : BOOLEAN,
             check_id : Opt(CheckIds), try : 0..TryMax + 1]

NoDocument == [known |-> FALSE, seen |-> 0, registred |-> 0,
               username |-> None, method |-> None, checked |-> FALSE,
               sms_sent |-> None, sms_time |-> None, sms_waited |-> None,
               variant |-> FALSE, check_id |-> None, try |-> 0]

\* The `upd' dictionary: what the final $set of phone_handler writes.
Update == [username : Opt(Uids), checked : BOOLEAN, sms_sent : Opt(Codes),
           sms_time : Opt(Time), sms_waited : Opt(Codes),
           variant : BOOLEAN, check_id : Opt(CheckIds)]

NoUpdate == [username |-> None, checked |-> FALSE, sms_sent |-> None,
             sms_time |-> None, sms_waited |-> None, variant |-> FALSE,
             check_id |-> None]

Text == [id : TextIds, device : Devices, code : Codes, sent : Time,
         callee : STRING]

Steps == {"idle", "upsert", "count", "find", "next", "insert", "decide",
          "update"}

\* A handler of POST /phone/: where it is, its arguments and its locals.
Request == [pc : Steps, device : Devices, method : Methods, uam : Uams,
            now : Time, left : Int, doc : Document, smssend : BOOLEAN,
            upd : Update]

\* A handler of POST /device/: sleeping after a wrong code, or awaiting sms.ru.
Polling == [pc : {"idle", "sleep", "smsru"}, device : Devices, doc : Document]

SomeDevice == CHOOSE d \in Devices : TRUE
SomeUam == CHOOSE u \in Uams : TRUE

IdleRequest == [pc |-> "idle", device |-> SomeDevice, method |-> "sms",
                uam |-> SomeUam, now |-> 0, left |-> 0, doc |-> NoDocument,
                smssend |-> FALSE, upd |-> NoUpdate]

IdlePoll == [pc |-> "idle", device |-> SomeDevice, doc |-> NoDocument]

TypeOK ==
  /\ dev \in [Devices -> Document]
  /\ natural \in [Devices -> Nat]
  /\ users \subseteq [id : Uids, with : Phones]
  /\ userid \in 0..MaxUid
  /\ texts \subseteq Text
  /\ landed \subseteq texts
  /\ req \in [Reqs -> Request]
  /\ poll \in [Polls -> Polling]
  /\ now \in Time
  /\ accepted \subseteq Devices \X Codes
  /\ contacted \subseteq Phones
  /\ granted \subseteq Devices
  /\ failures \in 0..MaxFailures

Init ==
  /\ dev = [d \in Devices |-> NoDocument]
  /\ natural = [d \in Devices |-> 0]
  /\ users = {}
  /\ userid = 0
  /\ texts = {}
  /\ landed = {}
  /\ req = [h \in Reqs |-> IdleRequest]
  /\ poll = [p \in Polls |-> IdlePoll]
  /\ now = 0
  /\ accepted = {}
  /\ contacted = {}
  /\ granted = {}
  /\ failures = 0

----------------------------------------------------------------------------
(* POST /phone/ *)

\* `uam.get("sms_timeout") or -1', then -1 means rereg and -2 means False.
SmsTimeout(u) == CASE u.sms_timeout \in {0, -1} -> u.rereg
                   [] u.sms_timeout = -2 -> None
                   [] OTHER -> u.sms_timeout

SentThisMonth(u) == {m \in landed : m.callee = u.id /\ m.sent > now - Month}

\* `sms_limit = uam.get("sms_limit") or -1', less what was sent; 1 if no limit.
SmsLeft(u) == IF u.smssend /\ u.sms_limit > 0
              THEN u.sms_limit - Cardinality(SentThisMonth(u))
              ELSE 1

\* The settings and the monthly count are read.
PhoneStart(h) ==
  /\ req[h].pc = "idle"
  /\ \E d \in Devices, m \in Methods, u \in Uams :
       req' = [req EXCEPT ![h] =
                 [IdleRequest EXCEPT !.pc = "upsert", !.device = d,
                    !.method = m, !.uam = u, !.now = now,
                    !.left = SmsLeft(u)]]
  /\ UNCHANGED <<dev, natural, users, userid, texts, landed, poll, now,
                 accepted, contacted, granted, failures>>

Inserted == Cardinality({d \in Devices : dev[d].known})

\* The unique index of reindex.py:31 on (username, mac) takes a device without
\* an account for the account null: it has room for one on each mac.
Refused(d) == /\ ~dev[d].known
              /\ \E e \in Devices : /\ dev[e].known /\ Mac(e) = Mac(d)
                                    /\ dev[e].username = None

\* The upsert would insert a second one: DuplicateKeyError.
PhoneRefused(h) ==
  /\ req[h].pc = "upsert" /\ Refused(req[h].device)
  /\ req' = [req EXCEPT ![h] = IdleRequest]
  /\ UNCHANGED <<dev, natural, users, userid, texts, landed, poll, now,
                 accepted, contacted, granted, failures>>

\* find_one_and_update(q, updq, upsert=True): `device' is what it returns.
PhoneUpsert(h) ==
  LET d == req[h].device
      doc == IF dev[d].known
             THEN [dev[d] EXCEPT !.seen = req[h].now]
             ELSE [NoDocument EXCEPT !.known = TRUE, !.seen = req[h].now,
                                     !.registred = req[h].now]
  IN  /\ req[h].pc = "upsert" /\ ~Refused(d)
      /\ dev' = [dev EXCEPT ![d] = doc]
      /\ natural' = [natural EXCEPT ![d] = IF dev[d].known THEN @
                                                           ELSE Inserted + 1]
      /\ req' = [req EXCEPT ![h] = [@ EXCEPT !.pc = "count", !.doc = doc]]
      /\ UNCHANGED <<users, userid, texts, landed, poll, now, accepted,
                     contacted, granted, failures>>

\* The documents count_documents counts against devmax.
Unchecked(mac, since) ==
  {d \in Devices : /\ dev[d].known /\ Mac(d) = mac
                   /\ dev[d].seen > since /\ ~dev[d].checked}

PhoneCount(h) ==
  LET r == req[h]
      n == Cardinality(Unchecked(Mac(r.device), r.now - r.uam.rereg))
  IN  /\ r.pc = "count"
      /\ req' = [req EXCEPT ![h] =
                   [@ EXCEPT !.pc = IF r.doc.username = None THEN "find"
                                                             ELSE "decide",
                             !.smssend = r.uam.smssend /\ n < r.uam.devmax]]
      /\ UNCHANGED <<dev, natural, users, userid, texts, landed, poll, now,
                     accepted, contacted, granted, failures>>

AccountsOfNobody(phone) == {}               \* mutant: `with' misspelt

\* find_one({"with": phone}).
AccountsOf(phone) == {x \in users : x.with = phone}

\* setuser: the account of the phone, if there is one.
FindUser(h) ==
  /\ req[h].pc = "find"
  /\ \/ \E x \in AccountsOf(Phone(req[h].device)) :
          /\ req' = [req EXCEPT ![h] =
                       [@ EXCEPT !.pc = "decide", !.upd.username = x.id]]
     \/ /\ AccountsOf(Phone(req[h].device)) = {}
        /\ req' = [req EXCEPT ![h].pc = "next"]
  /\ UNCHANGED <<dev, natural, users, userid, texts, landed, poll, now,
                 accepted, contacted, granted, failures>>

Number == userid + 1

\* nextuser: $inc of the counter.
NextUser(h) ==
  /\ req[h].pc = "next"
  /\ userid < MaxUid
  /\ userid' = userid + 1
  /\ req' = [req EXCEPT ![h] =
               [@ EXCEPT !.pc = "insert", !.upd.username = Number]]
  /\ UNCHANGED <<dev, natural, users, texts, landed, poll, now, accepted,
                 contacted, granted, failures>>

\* `_id' is unique: a number that another account has is a DuplicateKeyError.
NumberTaken(r) == \E x \in users : x.id = r.upd.username

InsertUser(h) ==
  LET r == req[h]
  IN  /\ r.pc = "insert"
      /\ IF NumberTaken(r)
         THEN users' = users /\ req' = [req EXCEPT ![h] = IdleRequest]
         ELSE /\ users' = users \cup {[id |-> r.upd.username,
                                      with |-> Phone(r.device)]}
              /\ req' = [req EXCEPT ![h].pc = "decide"]
      /\ UNCHANGED <<dev, natural, userid, texts, landed, poll, now, accepted,
                     contacted, granted, failures>>

\* Whether the device as it was read has to be registered (again).
NeedsReg(r) ==
  LET doc == r.doc
      timeout == SmsTimeout(r.uam)
  IN  \/ doc.username = None
      \/ /\ ~doc.checked
         /\ \/ r.now - doc.registred > r.uam.rereg
            \/ /\ r.smssend
               /\ \/ doc.sms_sent = None
                  \/ doc.sms_time = None
                  \/ /\ timeout # None /\ doc.sms_time # None
                     /\ r.now - doc.sms_time > timeout
            \/ /\ ~r.smssend
               /\ r.uam.callrecieve /\ r.method = "call"

Sends(r) == r.smssend /\ r.method = "sms" /\ r.left > 0

TooSoonNever(r) == FALSE                    \* mutant: no `smssend timeout'

\* The code on the page is kept and no SMS is sent.
TooSoon(r) == /\ SmsTimeout(r.uam) # None
              /\ r.doc.sms_time # None
              /\ r.now - r.doc.sms_time < SmsTimeout(r.uam)

\* device.get("sms_sent", getsms()): the old code, or any new one.
CodeFor(doc) == IF doc.sms_sent = None THEN Codes ELSE {doc.sms_sent}

\* The call and incoming-SMS part of `upd': no number, or a number of ours;
\* sms.ru gave a number and an id, refused, or could not be reached.
WithNumber(r) ==
  IF r.uam.callrecieve /\ r.method = "call"
  THEN {r.upd, [r.upd EXCEPT !.variant = TRUE, !.check_id = "id"],
               [r.upd EXCEPT !.check_id = "empty"],
               [r.upd EXCEPT !.variant = TRUE]}
  ELSE IF r.uam.smsrecieve
       THEN {r.upd} \cup {[r.upd EXCEPT !.sms_waited = c] : c \in Codes}
       ELSE {r.upd}

Proceed(h, upd) ==
  req' = [req EXCEPT ![h] = [@ EXCEPT !.pc = "update", !.upd = upd]]

NewText(id, r, c) == [id |-> id, device |-> r.device, code |-> c,
                      sent |-> r.now, callee |-> r.uam.id]

\* Nothing to do: the document read by the upsert is the answer.
PhoneUnchanged(h) ==
  LET r == req[h]
  IN  /\ r.pc = "decide"
      /\ ~NeedsReg(r) /\ r.method = r.doc.method
      /\ granted' = IF r.doc.checked THEN granted \cup {r.device} ELSE granted
      /\ req' = [req EXCEPT ![h] = IdleRequest]
      /\ UNCHANGED <<dev, natural, users, userid, texts, landed, poll, now,
                     accepted, contacted, failures>>

Registers(r) == r.pc = "decide" /\ (NeedsReg(r) \/ r.method # r.doc.method)

\* Registration that queues no SMS.
PhoneQuiet(h) ==
  LET r == req[h]
  IN  /\ Registers(r)
      /\ \/ r.uam.nosms /\ Proceed(h, [r.upd EXCEPT !.checked = TRUE])
         \/ /\ ~r.uam.nosms
            /\ \E upd \in WithNumber(r) :
                 \/ ~Sends(r) /\ Proceed(h, upd)
                 \/ /\ Sends(r) /\ TooSoon(r)
                    /\ \E c \in CodeFor(r.doc) :
                         Proceed(h, [upd EXCEPT !.sms_sent = c])
      /\ UNCHANGED <<dev, natural, users, userid, texts, landed, poll, now,
                     accepted, contacted, granted, failures>>

\* Registration by SMS: sms_sent.insert_one is started and not awaited.
PhoneText(h) ==
  LET r == req[h]
      id == Cardinality(texts) + 1
  IN  /\ Registers(r)
      /\ ~r.uam.nosms /\ Sends(r) /\ ~TooSoon(r)
      /\ id <= MaxTexts
      /\ \E upd \in WithNumber(r), c \in CodeFor(r.doc) :
           /\ Proceed(h, [upd EXCEPT !.sms_sent = c, !.sms_time = r.now])
           /\ texts' = texts \cup {NewText(id, r, c)}
      /\ UNCHANGED <<dev, natural, users, userid, landed, poll, now,
                     accepted, contacted, granted, failures>>

\* The insert reaches sms_sent.
TextLands ==
  /\ \E m \in texts \ landed : landed' = landed \cup {m}
  /\ UNCHANGED <<dev, natural, users, userid, texts, req, poll, now,
                 accepted, contacted, granted, failures>>

SetWhole(old, new) == new                   \* mutant: absent fields too

SetPresent(old, new) == IF old = None THEN old ELSE new  \* mutant: no insert
Set(old, new) == IF new = None THEN old ELSE new

\* $set of `upd' on a document; `try' and `method' are always in it.
Apply(doc, upd, method) ==
  [doc EXCEPT !.try = 0, !.method = method,
              !.username = Set(@, upd.username),
              !.checked = @ \/ upd.checked,
              !.sms_sent = Set(@, upd.sms_sent),
              !.sms_time = Set(@, upd.sms_time),
              !.sms_waited = Set(@, upd.sms_waited),
              !.variant = @ \/ upd.variant,
              !.check_id = Set(@, upd.check_id)]

StoredAsRead(r) == r.doc                    \* mutant: the document is replaced
Stored(r) == dev[r.device]

\* The $set gives the device an account that another device of its mac has: a
\* DuplicateKeyError, by the same index.
AccountTaken(r) ==
  /\ r.upd.username # None
  /\ \E e \in Devices \ {r.device} : /\ dev[e].known
                                      /\ Mac(e) = Mac(r.device)
                                      /\ dev[e].username = r.upd.username

PhoneUpdate(h) ==
  LET r == req[h]
      doc == Apply(Stored(r), r.upd, r.method)
  IN  /\ r.pc = "update"
      /\ IF AccountTaken(r)
         THEN UNCHANGED <<dev, granted>>
         ELSE /\ dev' = [dev EXCEPT ![r.device] = doc]
              /\ granted' = IF doc.checked THEN granted \cup {r.device}
                                           ELSE granted
      /\ req' = [req EXCEPT ![h] = IdleRequest]
      /\ UNCHANGED <<natural, users, userid, texts, landed, poll, now,
                     accepted, contacted, failures>>

----------------------------------------------------------------------------
(* POST /device/<oid> *)

AcceptsWaited(doc, c) == c \in {doc.sms_sent, doc.sms_waited}  \* mutant: $or
Accepts(doc, c) == doc.sms_sent = c

\* The code is the stored one: one atomic find_one_and_update.
PollRightCode(p, d, c) ==
  /\ poll[p].pc = "idle"
  /\ dev[d].known /\ Accepts(dev[d], c)
  /\ dev' = [dev EXCEPT ![d].checked = TRUE]
  /\ accepted' = accepted \cup {<<d, c>>}
  /\ granted' = granted \cup {d}
  /\ UNCHANGED <<natural, users, userid, texts, landed, req, poll, now,
                 contacted, failures>>

\* It is not: `try' is counted; after TryMax tries 403, before that a sleep.
PollWrongCode(p, d, c) ==
  /\ poll[p].pc = "idle"
  /\ dev[d].known /\ ~Accepts(dev[d], c)
  /\ LET n == IF dev[d].try > TryMax THEN dev[d].try ELSE dev[d].try + 1
         doc == [dev[d] EXCEPT !.try = n]
     IN  /\ dev' = [dev EXCEPT ![d] = doc]
         /\ poll' = IF n > TryMax THEN poll
                    ELSE [poll EXCEPT ![p] = [pc |-> "sleep", device |-> d,
                                              doc |-> doc]]
  /\ UNCHANGED <<natural, users, userid, texts, landed, req, now, accepted,
                 contacted, granted, failures>>

\* What device_handler answers for a document it has read; a checked document
\* without a username is a KeyError, sms.ru without an id a TypeError.
Answer(p, d, doc) ==
  /\ granted' = IF doc.checked /\ doc.username # None
                THEN granted \cup {d} ELSE granted
  /\ poll' = [poll EXCEPT ![p] =
                IF ~doc.checked /\ doc.method = "call" /\ doc.variant
                   /\ doc.check_id = "id"
                THEN [pc |-> "smsru", device |-> d, doc |-> NoDocument]
                ELSE IdlePoll]

\* The sleep is over: the answer is built from the document read before it.
PollWake(p) ==
  /\ poll[p].pc = "sleep"
  /\ Answer(p, poll[p].device, poll[p].doc)
  /\ UNCHANGED <<dev, natural, users, userid, texts, landed, req, now,
                 accepted, contacted, failures>>

\* A poll without a code (uam.js sends one every second).
PollPlain(p, d) ==
  /\ poll[p].pc = "idle"
  /\ dev[d].known
  /\ Answer(p, d, dev[d])
  /\ UNCHANGED <<dev, natural, users, userid, texts, landed, req, now,
                 accepted, contacted, failures>>

\* smsru_check: sms.ru has had the call (status 401), or it has not.
PollSmsru(p) ==
  LET d == poll[p].device
  IN  /\ poll[p].pc = "smsru"
      /\ \/ /\ dev' = [dev EXCEPT ![d].checked = TRUE]
            /\ contacted' = contacted \cup {Phone(d)}
         \/ UNCHANGED <<dev, contacted>>
      /\ poll' = [poll EXCEPT ![p] = IdlePoll]
      /\ UNCHANGED <<natural, users, userid, texts, landed, req, now,
                     accepted, granted, failures>>

----------------------------------------------------------------------------
(* Incoming SMS and calls: the processes smser and ami *)

\* find_one_and_update of one of S, on a call or an SMS from phone.
CheckOne(S, phone) ==
  /\ \E d \in S : dev' = [dev EXCEPT ![d].checked = TRUE]
  /\ contacted' = contacted \cup {phone}

\* zte.handle, the text carries a token: phone and sms_waited must match.
TokenArrives(phone, token) ==
  /\ CheckOne({d \in Devices : /\ dev[d].known /\ Phone(d) = phone
                               /\ dev[d].sms_waited = token}, phone)
  /\ UNCHANGED <<natural, users, userid, texts, landed, req, poll, now,
                 accepted, granted, failures>>

SeenSince(phone, window) ==
  {d \in Devices : /\ dev[d].known /\ Phone(d) = phone
                   /\ dev[d].seen > now - window}

\* zte.handle, no token, on a modem that takes any text.
TextArrives(phone) ==
  /\ AnyText > 0
  /\ CheckOne(SeenSince(phone, AnyText), phone)
  /\ UNCHANGED <<natural, users, userid, texts, landed, req, poll, now,
                 accepted, granted, failures>>

\* newchannel_cb: the most recently inserted device of the caller.
CallArrives(phone) ==
  /\ LET S == SeenSince(phone, CallWindow)
     IN  CheckOne({d \in S : \A e \in S : natural[e] <= natural[d]}, phone)
  /\ UNCHANGED <<natural, users, userid, texts, landed, req, poll, now,
                 accepted, granted, failures>>

----------------------------------------------------------------------------
(* The clock, and handlers that do not come to their end *)

Tick ==
  /\ now < MaxTime
  /\ now' = now + 1
  /\ UNCHANGED <<dev, natural, users, userid, texts, landed, req, poll,
                 accepted, contacted, granted, failures>>

\* The handlers of H and Q end where they are: the database raises (what it
\* did may have been done), the visitor's browser hangs up, which cancels the
\* handler, or the process is killed.
BreakOff(H, Q) ==
  /\ failures < MaxFailures
  /\ failures' = failures + 1
  /\ req' = [h \in Reqs |-> IF h \in H THEN IdleRequest ELSE req[h]]
  /\ poll' = [p \in Polls |-> IF p \in Q THEN IdlePoll ELSE poll[p]]
  /\ UNCHANGED <<dev, natural, users, userid, texts, landed, now, accepted,
                 contacted, granted>>

Fail == \/ \E h \in Reqs : req[h].pc # "idle" /\ BreakOff({h}, {})
        \/ \E p \in Polls : poll[p].pc # "idle" /\ BreakOff({}, {p})
        \/ BreakOff(Reqs, Polls)

PhoneStep(h) == \/ PhoneRefused(h) \/ PhoneUpsert(h) \/ PhoneCount(h)
                \/ FindUser(h) \/ NextUser(h) \/ InsertUser(h)
                \/ PhoneUnchanged(h) \/ PhoneQuiet(h) \/ PhoneText(h)
                \/ PhoneUpdate(h)

PollStep(p) == PollWake(p) \/ PollSmsru(p)

PollRequest(p) == \E d \in Devices :
  \/ PollPlain(p, d)
  \/ \E c \in Codes : PollRightCode(p, d, c) \/ PollWrongCode(p, d, c)

Incoming(phone) == \/ TextArrives(phone) \/ CallArrives(phone)
                   \/ \E t \in Codes : TokenArrives(phone, t)

Next == \/ \E h \in Reqs : PhoneStart(h) \/ PhoneStep(h)
        \/ \E p \in Polls : PollStep(p) \/ PollRequest(p)
        \/ \E phone \in Phones : Incoming(phone)
        \/ TextLands \/ Tick \/ Fail

Spec == Init /\ [][Next]_vars

\* The visitor types a code that came by SMS.
TypeReceived(d, c) ==
  /\ \E m \in landed : m.device = d /\ m.code = c
  /\ \E p \in Polls : PollRightCode(p, d, c)

\* The event loop runs every handler that is ready and the database answers;
\* the visitor tries every code received for as long as the page asks.
Fairness == /\ \A h \in Reqs : WF_vars(PhoneStep(h))
            /\ \A p \in Polls : WF_vars(PollStep(p))
            /\ WF_vars(TextLands)
            /\ \A d \in Devices, c \in Codes : SF_vars(TypeReceived(d, c))

FairSpec == Spec /\ Fairness

\* The visitor of a device whose registration broke off tries again.
TriesAgain(d) ==
  /\ dev[d].known /\ dev[d].username = None
  /\ \E h \in Reqs : PhoneStart(h) /\ req'[h].device = d

RetrySpec == /\ Spec /\ \A h \in Reqs : WF_vars(PhoneStep(h))
             /\ \A d \in Devices : SF_vars(TriesAgain(d))

----------------------------------------------------------------------------
(* Properties *)

\* The reasons a device may be let in: its portal checks nothing, its phone
\* called or texted in, or a code that was sent to it by SMS came back.
Justified(d) ==
  \/ \E u \in Uams : u.nosms
  \/ Phone(d) \in contacted
  \/ \E m \in texts : m.device = d /\ <<d, m.code>> \in accepted

\* A page is given its password only when its phone number has been proved,
\* whatever requests, polls, calls and SMS overlap (phone.py:214,
\* device.py:48: both trust a document that may have been read long before).
PasswordOnlyAfterProof == \A d \in granted : Justified(d)

\* The account a device is given belongs to its own phone number: setuser's
\* find, counter and insert are three operations that other registrations
\* interleave (phone.py:23-30).
AccountOfPhone ==
  \A d \in Devices : dev[d].username # None =>
    \E x \in users : x.id = dev[d].username /\ x.with = Phone(d)

\* No registration ends in a DuplicateKeyError of setuser's insert or of the
\* last $set, phone.py:30 and 209, from which a visitor would not get away:
\* nextuser's number is nobody's, and no account is on two devices of a mac,
\* whatever registrations overlap in between and wherever they fail.
NeverDuplicate ==
  \A h \in Reqs :
    /\ req[h].pc = "insert" => ~NumberTaken(req[h])
    /\ req[h].pc = "update" => ~AccountTaken(req[h])

\* setuser finds no account, draws a number and inserts one in three operations
\* (phone.py:25-30), and nothing but `_id' is unique in `users': a phone may
\* get several accounts, but only from registrations that overlap, not by
\* coming back, with whatever device and after whatever failure.
AccountsBounded ==
  \A phone \in Phones :
    Cardinality({x \in users : x.with = phone}) <= Cardinality(Reqs)

\* A code the portal waits for was handed to the SMS queue for that device.
StoredCodeWasTexted ==
  \A d \in Devices : dev[d].sms_sent # None =>
    \E m \in texts : m.device = d /\ m.code = dev[d].sms_sent

\* Texts of one device that are closer than the timeout come from requests
\* that overlapped: phone.py:179 reads sms_time long before phone.py:209 writes
\* it.  Of n requests that run at once, an older one may overwrite the time of
\* a newer text with its own, after which every slot that is free by then sends
\* again: 1 + 2 + ... + n texts, and no more unless a handler fails between
\* a text and its time.
ResendsBounded ==
  failures = 0 => \A m \in texts :
    LET soon == {k \in texts :
          /\ k.device = m.device /\ k.sent >= m.sent
          /\ \A u \in Uams : /\ SmsTimeout(u) # None
                             /\ k.sent - m.sent < SmsTimeout(u)}
        n == Cardinality(Reqs)
    IN  2 * Cardinality(soon) <= n * (n + 1)

\* Once let in, a device stays in: no step of an overlapping request, which
\* may have read the device before it was checked, takes that back.
StaysChecked == [][\A d \in Devices : dev[d].checked => dev'[d].checked]_vars

\* The four handlers implement Admission: a device is marked as checked at the
\* moment of a call, a text or the right code and at no other, no overlapping
\* request takes the mark back, and a password is told to a device that is in
\* at that moment, though phone.py:214 and device.py:48 trust what was read
\* before their awaits.
Door == INSTANCE Admission WITH
          Device <- Devices, Code <- Codes,
          PhoneOf <- [d \in Devices |-> Phone(d)],
          Open <- \E u \in Uams : u.nosms,
          texted <- {<<m.device, m.code>> : m \in texts},
          returned <- accepted, called <- contacted,
          checked <- {d \in Devices : dev[d].checked},
          granted <- granted

AdmissionSpec == Door!Spec

\* A visitor to whose device an SMS was queued is let in in the end: whatever
\* overlaps, some code that was sent stays the one the portal waits for.
TextedGetsIn ==
  \A d \in Devices :
    (\E m \in texts : m.device = d) ~> dev[d].checked

\* phone.py:88 inserts a device without the account that phone.py:209 gives it,
\* and until then it keeps every other phone of its mac out (Refused).  What
\* fails in between leaves it behind: it is registered in the end, and the mac
\* free again, provided its own visitor comes back.
LeftIsRegistered ==
  \A d \in Devices :
    (dev[d].known /\ dev[d].username = None) ~> dev[d].username # None
=============================================================================
