------------------------- MODULE Registration_proofs -------------------------
(***************************************************************************)
(* Proofs about Registration, for every set of phones, hardware addresses, *)
(* requests, polls, codes and portal settings.                             *)
(***************************************************************************)
EXTENDS Registration, FiniteSetTheorems, TLAPS

USE DEF Stored, Number, AccountsOf, Accepts

----------------------------------------------------------------------------
(* What the steps come to *)

\* A handler of POST /phone/ ends on a DuplicateKeyError.
Drops(h) ==
  /\ \/ req[h].pc = "upsert"
     \/ req[h].pc = "insert" /\ NumberTaken(req[h])
     \/ req[h].pc = "update" /\ AccountTaken(req[h])
  /\ req' = [req EXCEPT ![h] = IdleRequest]
  /\ UNCHANGED <<dev, natural, users, userid, texts, landed, poll, now,
                 accepted, contacted, granted, failures>>

\* InsertUser and PhoneUpdate when they succeed.
Opens(h) ==
  /\ req[h].pc = "insert" /\ ~NumberTaken(req[h])
  /\ users' = users \cup {[id |-> req[h].upd.username,
                          with |-> Phone(req[h].device)]}
  /\ req' = [req EXCEPT ![h].pc = "decide"]
  /\ UNCHANGED <<dev, natural, userid, texts, landed, poll, now, accepted,
                 contacted, granted, failures>>

Gives(h) ==
  LET r == req[h]
      doc == Apply(Stored(r), r.upd, r.method)
  IN  /\ r.pc = "update" /\ ~AccountTaken(r)
      /\ dev' = [dev EXCEPT ![r.device] = doc]
      /\ granted' = IF doc.checked THEN granted \cup {r.device} ELSE granted
      /\ req' = [req EXCEPT ![h] = IdleRequest]
      /\ UNCHANGED <<natural, users, userid, texts, landed, poll, now,
                     accepted, contacted, failures>>

Moves(h) == \/ Drops(h) \/ PhoneUpsert(h) \/ PhoneCount(h) \/ FindUser(h)
            \/ NextUser(h) \/ Opens(h) \/ PhoneUnchanged(h) \/ PhoneQuiet(h)
            \/ PhoneText(h) \/ Gives(h)

LEMMA StepMoves == ASSUME NEW h \in Reqs, PhoneStep(h) PROVE Moves(h)
<1>1. ASSUME PhoneRefused(h) PROVE Drops(h)
  BY <1>1 DEF PhoneRefused, Drops
<1>2. ASSUME InsertUser(h) PROVE Drops(h) \/ Opens(h)
  BY <1>2 DEF InsertUser, Drops, Opens
<1>3. ASSUME PhoneUpdate(h) PROVE Drops(h) \/ Gives(h)
  BY <1>3 DEF PhoneUpdate, Drops, Gives
<1> QED
  BY <1>1, <1>2, <1>3 DEF PhoneStep, Moves

LEMMA NextCases ==
  ASSUME [Next]_vars
  PROVE  \/ \E h \in Reqs : PhoneStart(h) \/ Moves(h)
         \/ \E p \in Polls : PollStep(p) \/ PollRequest(p)
         \/ \E phone \in Phones : Incoming(phone)
         \/ TextLands \/ Tick \/ UNCHANGED vars
         \/ \E H \in SUBSET Reqs, Q \in SUBSET Polls : BreakOff(H, Q)
<1>1. ASSUME Fail
      PROVE  \E H \in SUBSET Reqs, Q \in SUBSET Polls : BreakOff(H, Q)
  <2>1. ASSUME NEW h \in Reqs, BreakOff({h}, {})
        PROVE  \E H \in SUBSET Reqs, Q \in SUBSET Polls : BreakOff(H, Q)
    <3>1. {h} \in SUBSET Reqs /\ {} \in SUBSET Polls
      OBVIOUS
    <3> QED
      BY <2>1, <3>1, Zenon
  <2>2. ASSUME NEW p \in Polls, BreakOff({}, {p})
        PROVE  \E H \in SUBSET Reqs, Q \in SUBSET Polls : BreakOff(H, Q)
    <3>1. {} \in SUBSET Reqs /\ {p} \in SUBSET Polls
      OBVIOUS
    <3> QED
      BY <2>2, <3>1, Zenon
  <2>3. ASSUME BreakOff(Reqs, Polls)
        PROVE  \E H \in SUBSET Reqs, Q \in SUBSET Polls : BreakOff(H, Q)
    <3>1. Reqs \in SUBSET Reqs /\ Polls \in SUBSET Polls
      OBVIOUS
    <3> QED
      BY <2>3, <3>1, Zenon
  <2> QED
    BY <1>1, <2>1, <2>2, <2>3 DEF Fail
<1> QED
  BY <1>1, StepMoves, Zenon DEF Next

----------------------------------------------------------------------------
(* Types *)

\* TypeOK is not inductive: setuser inserts an account with the number it has
\* drawn (phone.py:30), and the texts that phone.py:64 counts are finitely many.
DrawnRequest == {r \in Request : r.pc = "insert" => r.upd.username \in Uids}

Typed == /\ TypeOK
         /\ req \in [Reqs -> DrawnRequest]
         /\ IsFiniteSet(texts)

LEMMA DevicesFinite == IsFiniteSet(Devices)
<1>1. IsFiniteSet(Phones) /\ IsFiniteSet(Macs)
  BY SetAssumption
<1> QED
  BY <1>1, FS_Product DEF Devices

LEMMA IdleTyped == IdleRequest \in DrawnRequest /\ IdlePoll \in Polling
<1>1. SomeDevice \in Devices /\ SomeUam \in Uams
  <2>1. PICK p \in Phones, m \in Macs : TRUE
    BY SetAssumption
  <2>2. <<p, m>> \in Devices
    BY <2>1 DEF Devices
  <2>3. SomeDevice \in Devices
    BY <2>2, Zenon DEF SomeDevice
  <2>4. SomeUam \in Uams
    BY SetAssumption, Zenon DEF SomeUam
  <2> QED
    BY <2>3, <2>4
<1>2. NoDocument \in Document /\ NoUpdate \in Update
  BY BoundAssumption
     DEF NoDocument, NoUpdate, Document, Update, Opt, Time
<1> QED
  BY <1>1, <1>2, BoundAssumption
     DEF IdleRequest, IdlePoll, DrawnRequest, Request, Polling, Steps,
         Methods, Time

LEMMA TypedInit == Init => Typed
<1> SUFFICES ASSUME Init PROVE Typed
  OBVIOUS
<1> USE DEF Init
<1>1. dev \in [Devices -> Document]
  BY BoundAssumption DEF NoDocument, Document, Opt, Time
<1>2. /\ req \in [Reqs -> DrawnRequest] /\ req \in [Reqs -> Request]
      /\ poll \in [Polls -> Polling]
  BY IdleTyped DEF DrawnRequest
<1>3. userid \in 0..MaxUid /\ now \in Time
  BY BoundAssumption DEF Time
<1>4. IsFiniteSet(texts)
  BY FS_EmptySet
<1>5. natural \in [Devices -> Nat] /\ failures \in 0..MaxFailures
  BY BoundAssumption
<1> QED
  BY <1>1, <1>2, <1>3, <1>4, <1>5 DEF Typed, TypeOK

LEMMA RequestTyped ==
  ASSUME Typed, NEW h \in Reqs, NEW r \in DrawnRequest,
         req' = [req EXCEPT ![h] = r]
  PROVE  req' \in [Reqs -> DrawnRequest] /\ req' \in [Reqs -> Request]
BY DEF Typed, DrawnRequest

LEMMA DocumentTyped ==
  ASSUME TypeOK, NEW d \in Devices, NEW doc \in Document,
         dev' = [dev EXCEPT ![d] = doc]
  PROVE  dev' \in [Devices -> Document]
BY DEF TypeOK

LEMMA SmsLeftTyped == ASSUME Typed, NEW u \in Uams PROVE SmsLeft(u) \in Int
<1>1. IsFiniteSet(SentThisMonth(u))
  BY FS_Subset DEF Typed, TypeOK, SentThisMonth
<1>2. Cardinality(SentThisMonth(u)) \in Nat
  BY <1>1, FS_CardinalityType
<1>3. u.sms_limit \in Int
  BY UamAssumption DEF Uam
<1> QED
  BY <1>2, <1>3 DEF SmsLeft

LEMMA PhoneStartTyped ==
  ASSUME Typed, NEW h \in Reqs, PhoneStart(h) PROVE Typed'
<1> PICK d \in Devices, m \in Methods, u \in Uams :
      req' = [req EXCEPT ![h] =
                [IdleRequest EXCEPT !.pc = "upsert", !.device = d,
                   !.method = m, !.uam = u, !.now = now, !.left = SmsLeft(u)]]
  BY DEF PhoneStart
<1> DEFINE r == [IdleRequest EXCEPT !.pc = "upsert", !.device = d,
                   !.method = m, !.uam = u, !.now = now, !.left = SmsLeft(u)]
<1>1. r \in DrawnRequest
  BY IdleTyped, SmsLeftTyped DEF Typed, TypeOK, DrawnRequest, Request, Steps
<1> HIDE DEF r
<1>2. req' \in [Reqs -> DrawnRequest] /\ req' \in [Reqs -> Request]
  BY <1>1, RequestTyped DEF r
<1> QED
  BY <1>2 DEF Typed, TypeOK, PhoneStart

LEMMA PhoneUpsertTyped ==
  ASSUME Typed, NEW h \in Reqs, PhoneUpsert(h) PROVE Typed'
<1> DEFINE d == req[h].device
           doc == IF dev[d].known
                  THEN [dev[d] EXCEPT !.seen = req[h].now]
                  ELSE [NoDocument EXCEPT !.known = TRUE, !.seen = req[h].now,
                                          !.registred = req[h].now]
           r == [req[h] EXCEPT !.pc = "count", !.doc = doc]
<1>1. req[h] \in Request
  BY DEF Typed, TypeOK
<1>2. d \in Devices /\ req[h].now \in Time /\ dev[d] \in Document
  BY <1>1 DEF Request, Typed, TypeOK
<1>3. NoDocument \in Document
  BY BoundAssumption DEF NoDocument, Document, Opt, Time
<1>4. doc \in Document
  BY <1>2, <1>3 DEF Document
<1> HIDE DEF d, doc
<1>5. r \in DrawnRequest
  BY <1>1, <1>4 DEF DrawnRequest, Request, Steps
<1> HIDE DEF r
<1>6. Inserted \in Nat
  <2>1. IsFiniteSet({e \in Devices : dev[e].known})
    BY DevicesFinite, FS_Subset
  <2> QED
    BY <2>1, FS_CardinalityType DEF Inserted
<1>7. dev' = [dev EXCEPT ![d] = doc] /\ req' = [req EXCEPT ![h] = r]
      /\ natural' = [natural EXCEPT ![d] = IF dev[d].known THEN @
                                                           ELSE Inserted + 1]
      /\ UNCHANGED <<users, userid, texts, landed, poll, now, accepted,
                     contacted, granted, failures>>
  BY DEF PhoneUpsert, d, doc, r
<1>8. dev' \in [Devices -> Document]
  BY <1>2, <1>4, <1>7, DocumentTyped DEF Typed
<1>9. req' \in [Reqs -> DrawnRequest] /\ req' \in [Reqs -> Request]
  BY <1>5, <1>7, RequestTyped
<1>10. natural' \in [Devices -> Nat]
  <2>1. natural \in [Devices -> Nat]
    BY DEF Typed, TypeOK
  <2>2. Inserted + 1 \in Nat
    BY <1>6
  <2> QED
    BY <1>7, <2>1, <2>2, Zenon
<1> QED
  BY <1>7, <1>8, <1>9, <1>10 DEF Typed, TypeOK

\* The remaining steps of POST /phone/ keep the types one field at a time.
LEMMA RequestFields ==
  ASSUME Typed, NEW h \in Reqs
  PROVE  /\ req[h] \in Request
         /\ req[h].device \in Devices /\ Phone(req[h].device) \in Phones
         /\ req[h].uam \in Uams /\ req[h].uam \in Uam
         /\ req[h].now \in Time /\ req[h].method \in Methods
         /\ req[h].doc \in Document /\ req[h].upd \in Update
<1>1. req[h] \in Request
  BY DEF Typed, TypeOK
<1>2. Phone(req[h].device) \in Phones
  BY <1>1 DEF Request, Devices, Phone
<1>3. req[h].uam \in Uam
  BY <1>1, UamAssumption DEF Request
<1> QED
  BY <1>1, <1>2, <1>3 DEF Request

LEMMA PhoneCountTyped ==
  ASSUME Typed, NEW h \in Reqs, PhoneCount(h) PROVE Typed'
<1> DEFINE n == Cardinality(Unchecked(Mac(req[h].device),
                                      req[h].now - req[h].uam.rereg))
           pc == IF req[h].doc.username = None THEN "find" ELSE "decide"
           smssend == req[h].uam.smssend /\ n < req[h].uam.devmax
           r == [req[h] EXCEPT !.pc = pc, !.smssend = smssend]
<1>1. pc \in Steps /\ pc # "insert" /\ smssend \in BOOLEAN
  <2>1. pc \in Steps /\ pc # "insert"
    BY DEF Steps
  <2> QED
    BY <2>1, RequestFields DEF Uam
<1>2. req' = [req EXCEPT ![h] = r]
  BY DEF PhoneCount
<1> HIDE DEF pc, smssend
<1>3. r \in DrawnRequest
  BY <1>1, RequestFields DEF DrawnRequest, Request
<1> HIDE DEF r
<1>4. req' \in [Reqs -> DrawnRequest] /\ req' \in [Reqs -> Request]
  BY <1>2, <1>3, RequestTyped
<1> QED
  BY <1>4 DEF PhoneCount, Typed, TypeOK

LEMMA FindUserTyped ==
  ASSUME Typed, NEW h \in Reqs, FindUser(h) PROVE Typed'
<1>1. req' \in [Reqs -> DrawnRequest] /\ req' \in [Reqs -> Request]
  <2>1. CASE \E x \in users :
          req' = [req EXCEPT ![h] =
                    [@ EXCEPT !.pc = "decide", !.upd.username = x.id]]
    <3> PICK x \in users :
          req' = [req EXCEPT ![h] =
                    [@ EXCEPT !.pc = "decide", !.upd.username = x.id]]
      BY <2>1
    <3> DEFINE upd == [req[h].upd EXCEPT !.username = x.id]
               r == [req[h] EXCEPT !.pc = "decide", !.upd = upd]
    <3>1. x.id \in Uids
      BY DEF Typed, TypeOK
    <3>2. upd \in Update
      BY <3>1, RequestFields DEF Update, Opt
    <3>3. req' = [req EXCEPT ![h] = r]
      BY DEF upd
    <3> HIDE DEF upd
    <3>4. r \in DrawnRequest
      BY <3>2, RequestFields DEF DrawnRequest, Request, Steps
    <3> HIDE DEF r
    <3> QED
      BY <3>3, <3>4, RequestTyped
  <2>2. CASE req' = [req EXCEPT ![h].pc = "next"]
    <3> DEFINE r == [req[h] EXCEPT !.pc = "next"]
    <3>1. r \in DrawnRequest
      BY RequestFields DEF DrawnRequest, Request, Steps
    <3> QED
      BY <2>2, <3>1, RequestTyped
  <2> QED
    BY <2>1, <2>2 DEF FindUser
<1> QED
  BY <1>1 DEF FindUser, Typed, TypeOK

LEMMA NextUserTyped ==
  ASSUME Typed, NEW h \in Reqs, NextUser(h) PROVE Typed'
<1> DEFINE upd == [req[h].upd EXCEPT !.username = userid + 1]
           r == [req[h] EXCEPT !.pc = "insert", !.upd = upd]
<1>1. userid + 1 \in Uids /\ userid' \in 0..MaxUid
  BY BoundAssumption DEF NextUser, Typed, TypeOK, Uids
<1>2. upd \in Update /\ upd.username \in Uids
  BY <1>1, RequestFields DEF Update, Opt
<1>3. req' = [req EXCEPT ![h] = r]
  BY DEF NextUser, upd
<1> HIDE DEF upd
<1>4. r \in DrawnRequest
  BY <1>2, RequestFields DEF DrawnRequest, Request, Steps
<1> HIDE DEF r
<1>5. req' \in [Reqs -> DrawnRequest] /\ req' \in [Reqs -> Request]
  BY <1>3, <1>4, RequestTyped
<1> QED
  BY <1>1, <1>5 DEF NextUser, Typed, TypeOK

LEMMA InsertUserTyped ==
  ASSUME Typed, NEW h \in Reqs, Opens(h) PROVE Typed'
<1> DEFINE r == [req[h] EXCEPT !.pc = "decide"]
<1>1. req[h].upd.username \in Uids
  BY DEF Typed, DrawnRequest, Opens
<1>2. users' \subseteq [id : Uids, with : Phones]
  BY <1>1, RequestFields DEF Opens, Typed, TypeOK
<1>3. r \in DrawnRequest
  BY RequestFields DEF DrawnRequest, Request, Steps
<1>4. req' \in [Reqs -> DrawnRequest] /\ req' \in [Reqs -> Request]
  BY <1>3, RequestTyped DEF Opens
<1> QED
  BY <1>2, <1>4 DEF Opens, Typed, TypeOK

LEMMA PhoneUnchangedTyped ==
  ASSUME Typed, NEW h \in Reqs, PhoneUnchanged(h) PROVE Typed'
<1>1. req' \in [Reqs -> DrawnRequest] /\ req' \in [Reqs -> Request]
  BY IdleTyped, RequestTyped DEF PhoneUnchanged
<1>2. granted' \subseteq Devices
  BY RequestFields DEF PhoneUnchanged, Typed, TypeOK
<1> QED
  BY <1>1, <1>2 DEF PhoneUnchanged, Typed, TypeOK

LEMMA DropsTyped ==
  ASSUME Typed, NEW h \in Reqs, Drops(h) PROVE Typed'
<1>1. req' \in [Reqs -> DrawnRequest] /\ req' \in [Reqs -> Request]
  BY IdleTyped, RequestTyped DEF Drops
<1> QED
  BY <1>1 DEF Drops, Typed, TypeOK

LEMMA ProceedTyped ==
  ASSUME Typed, NEW h \in Reqs, NEW upd \in Update, Proceed(h, upd)
  PROVE  req' \in [Reqs -> DrawnRequest] /\ req' \in [Reqs -> Request]
<1> DEFINE r == [req[h] EXCEPT !.pc = "update", !.upd = upd]
<1>1. r \in DrawnRequest
  BY RequestFields DEF DrawnRequest, Request, Steps
<1>2. req' = [req EXCEPT ![h] = r]
  BY DEF Proceed
<1> HIDE DEF r
<1> QED
  BY <1>1, <1>2, RequestTyped

LEMMA WithNumberTyped ==
  ASSUME NEW r, r.upd \in Update, NEW upd \in WithNumber(r)
  PROVE  upd \in Update
BY DEF WithNumber, Update, Opt, CheckIds

LEMMA CodeForTyped ==
  ASSUME NEW doc \in Document, NEW c \in CodeFor(doc) PROVE c \in Codes
BY DEF CodeFor, Document, Opt

LEMMA PhoneQuietTyped ==
  ASSUME Typed, NEW h \in Reqs, PhoneQuiet(h) PROVE Typed'
<1> DEFINE r == req[h]
<1>1. req' \in [Reqs -> DrawnRequest] /\ req' \in [Reqs -> Request]
  <2>1. CASE Proceed(h, [r.upd EXCEPT !.checked = TRUE])
    <3>1. [r.upd EXCEPT !.checked = TRUE] \in Update
      BY RequestFields DEF Update
    <3> QED
      BY <2>1, <3>1, ProceedTyped
  <2>2. CASE \E upd \in WithNumber(r) : Proceed(h, upd)
    BY <2>2, WithNumberTyped, RequestFields, ProceedTyped
  <2>3. CASE \E upd \in WithNumber(r), c \in CodeFor(r.doc) :
               Proceed(h, [upd EXCEPT !.sms_sent = c])
    <3> PICK upd \in WithNumber(r), c \in CodeFor(r.doc) :
               Proceed(h, [upd EXCEPT !.sms_sent = c])
      BY <2>3
    <3>1. upd \in Update /\ c \in Codes
      BY WithNumberTyped, CodeForTyped, RequestFields
    <3>2. [upd EXCEPT !.sms_sent = c] \in Update
      BY <3>1 DEF Update, Opt
    <3> QED
      BY <3>2, ProceedTyped
  <2> QED
    BY <2>1, <2>2, <2>3 DEF PhoneQuiet
<1> QED
  BY <1>1 DEF PhoneQuiet, Typed, TypeOK

LEMMA NewTextTyped ==
  ASSUME Typed, NEW h \in Reqs, NEW c \in Codes,
         Cardinality(texts) + 1 <= MaxTexts
  PROVE  NewText(Cardinality(texts) + 1, req[h], c) \in Text
<1>1. Cardinality(texts) \in Nat
  BY FS_CardinalityType DEF Typed
<1>2. Cardinality(texts) + 1 \in TextIds
  BY <1>1, BoundAssumption DEF TextIds
<1>3. req[h].uam.id \in STRING
  BY RequestFields DEF Uam
<1> QED
  BY <1>2, <1>3, RequestFields DEF NewText, Text

LEMMA PhoneTextTyped ==
  ASSUME Typed, NEW h \in Reqs, PhoneText(h) PROVE Typed'
<1> DEFINE r == req[h]
           id == Cardinality(texts) + 1
<1> PICK upd \in WithNumber(r), c \in CodeFor(r.doc) :
      /\ Proceed(h, [upd EXCEPT !.sms_sent = c, !.sms_time = r.now])
      /\ texts' = texts \cup {NewText(id, r, c)}
  BY DEF PhoneText
<1>1. upd \in Update /\ c \in Codes
  BY WithNumberTyped, CodeForTyped, RequestFields
<1>2. [upd EXCEPT !.sms_sent = c, !.sms_time = r.now] \in Update
  BY <1>1, RequestFields DEF Update, Opt
<1>3. req' \in [Reqs -> DrawnRequest] /\ req' \in [Reqs -> Request]
  BY <1>2, ProceedTyped
<1>4. NewText(id, r, c) \in Text
  BY <1>1, NewTextTyped DEF PhoneText
<1>5. IsFiniteSet(texts')
  BY FS_AddElement DEF Typed
<1> QED
  BY <1>3, <1>4, <1>5 DEF PhoneText, Typed, TypeOK

LEMMA ApplyTyped ==
  ASSUME NEW doc \in Document, NEW upd \in Update, NEW m \in Methods
  PROVE  Apply(doc, upd, m) \in Document
<1>1. /\ Set(doc.username, upd.username) \in Opt(Uids)
      /\ Set(doc.sms_sent, upd.sms_sent) \in Opt(Codes)
      /\ Set(doc.sms_time, upd.sms_time) \in Opt(Time)
      /\ Set(doc.sms_waited, upd.sms_waited) \in Opt(Codes)
      /\ Set(doc.check_id, upd.check_id) \in Opt(CheckIds)
  BY DEF Set, Document, Update, Opt
<1>2. m \in Opt(Methods) /\ 0 \in 0..TryMax + 1
  BY BoundAssumption DEF Opt
<1>3. (doc.checked \/ upd.checked) \in BOOLEAN
      /\ (doc.variant \/ upd.variant) \in BOOLEAN
  BY DEF Document, Update
<1> QED
  BY <1>1, <1>2, <1>3 DEF Apply, Document

LEMMA PhoneUpdateTyped ==
  ASSUME Typed, NEW h \in Reqs, Gives(h) PROVE Typed'
<1> DEFINE r == req[h]
           doc == Apply(dev[r.device], r.upd, r.method)
<1>1. doc \in Document
  BY RequestFields, ApplyTyped DEF Typed, TypeOK
<1>2. dev' = [dev EXCEPT ![r.device] = doc]
  BY DEF Gives
<1>3. granted' \subseteq Devices
  BY RequestFields DEF Gives, Typed, TypeOK
<1> HIDE DEF doc
<1>4. dev' \in [Devices -> Document]
  BY <1>1, <1>2, RequestFields, DocumentTyped DEF Typed
<1>5. req' \in [Reqs -> DrawnRequest] /\ req' \in [Reqs -> Request]
  BY IdleTyped, RequestTyped DEF Gives
<1> QED
  BY <1>3, <1>4, <1>5 DEF Gives, Typed, TypeOK

----------------------------------------------------------------------------

\* Every other step that writes a device only sets `checked' or `try'.
LEMMA CheckedTyped ==
  ASSUME Typed, NEW d \in Devices, dev' = [dev EXCEPT ![d].checked = TRUE]
  PROVE  dev' \in [Devices -> Document]
<1>1. [dev[d] EXCEPT !.checked = TRUE] \in Document
  BY DEF Typed, TypeOK, Document
<1> QED
  BY <1>1, DocumentTyped DEF Typed

LEMMA PollRightCodeTyped ==
  ASSUME Typed, NEW p \in Polls, NEW d \in Devices, NEW c \in Codes,
         PollRightCode(p, d, c)
  PROVE  Typed'
<1>1. dev' \in [Devices -> Document]
  BY CheckedTyped DEF PollRightCode
<1> QED
  BY <1>1 DEF PollRightCode, Typed, TypeOK

LEMMA PollWrongCodeTyped ==
  ASSUME Typed, NEW p \in Polls, NEW d \in Devices, NEW c \in Codes,
         PollWrongCode(p, d, c)
  PROVE  Typed'
<1> DEFINE n == IF dev[d].try > TryMax THEN dev[d].try ELSE dev[d].try + 1
           doc == [dev[d] EXCEPT !.try = n]
           q == [pc |-> "sleep", device |-> d, doc |-> doc]
<1>1. dev[d] \in Document
  BY DEF Typed, TypeOK
<1>2. n \in 0..TryMax + 1
  BY <1>1, BoundAssumption DEF Document
<1>3. /\ dev' = [dev EXCEPT ![d] = doc]
      /\ poll' = IF n > TryMax THEN poll ELSE [poll EXCEPT ![p] = q]
  BY DEF PollWrongCode
<1> HIDE DEF n
<1>4. doc \in Document
  BY <1>1, <1>2 DEF Document
<1> HIDE DEF doc
<1>5. q \in Polling
  BY <1>4 DEF Polling
<1>6. dev' \in [Devices -> Document]
  BY <1>3, <1>4, DocumentTyped DEF Typed
<1>7. poll' \in [Polls -> Polling]
  BY <1>3, <1>5 DEF Typed, TypeOK
<1> QED
  BY <1>6, <1>7 DEF PollWrongCode, Typed, TypeOK

LEMMA AnswerTyped ==
  ASSUME Typed, NEW p \in Polls, NEW d \in Devices, NEW doc \in Document,
         Answer(p, d, doc)
  PROVE  poll' \in [Polls -> Polling] /\ granted' \subseteq Devices
<1>1. NoDocument \in Document
  BY BoundAssumption DEF NoDocument, Document, Opt, Time
<1>2. [pc |-> "smsru", device |-> d, doc |-> NoDocument] \in Polling
  BY <1>1 DEF Polling
<1> QED
  BY <1>2, IdleTyped DEF Answer, Typed, TypeOK

LEMMA PollPlainTyped ==
  ASSUME Typed, NEW p \in Polls, NEW d \in Devices, PollPlain(p, d)
  PROVE  Typed'
<1>1. dev[d] \in Document
  BY DEF Typed, TypeOK
<1> QED
  BY <1>1, AnswerTyped DEF PollPlain, Typed, TypeOK

LEMMA PollStepTyped ==
  ASSUME Typed, NEW p \in Polls, PollStep(p) PROVE Typed'
<1>1. poll[p].device \in Devices /\ poll[p].doc \in Document
  BY DEF Typed, TypeOK, Polling
<1>2. ASSUME PollWake(p) PROVE Typed'
  BY <1>1, <1>2, AnswerTyped DEF PollWake, Typed, TypeOK
<1>3. ASSUME PollSmsru(p) PROVE Typed'
  <2>1. dev' \in [Devices -> Document]
    BY <1>1, <1>3, CheckedTyped DEF PollSmsru, Typed, TypeOK
  <2>2. poll' \in [Polls -> Polling]
    BY <1>3, IdleTyped DEF PollSmsru, Typed, TypeOK
  <2>3. contacted' \subseteq Phones
    BY <1>1, <1>3 DEF PollSmsru, Typed, TypeOK, Devices, Phone
  <2> QED
    BY <1>3, <2>1, <2>2, <2>3 DEF PollSmsru, Typed, TypeOK
<1> QED
  BY <1>2, <1>3 DEF PollStep

LEMMA CheckOneTyped ==
  ASSUME Typed, NEW S \in SUBSET Devices, NEW phone \in Phones,
         CheckOne(S, phone)
  PROVE  dev' \in [Devices -> Document] /\ contacted' \subseteq Phones
BY CheckedTyped DEF CheckOne, Typed, TypeOK

LEMMA IncomingTyped ==
  ASSUME Typed, NEW phone \in Phones, Incoming(phone) PROVE Typed'
<1>1. ASSUME TextArrives(phone) PROVE Typed'
  BY <1>1, CheckOneTyped DEF TextArrives, SeenSince, Typed, TypeOK
<1>2. ASSUME CallArrives(phone) PROVE Typed'
  BY <1>2, CheckOneTyped DEF CallArrives, SeenSince, Typed, TypeOK
<1>3. ASSUME NEW t \in Codes, TokenArrives(phone, t) PROVE Typed'
  BY <1>3, CheckOneTyped DEF TokenArrives, Typed, TypeOK
<1> QED
  BY <1>1, <1>2, <1>3 DEF Incoming

LEMMA TickTyped == ASSUME Typed, Tick PROVE Typed'
<1>1. now' \in Time
  BY BoundAssumption DEF Tick, Typed, TypeOK, Time
<1> QED
  BY <1>1 DEF Tick, Typed, TypeOK

LEMMA EndsTyped == ASSUME Typed, NEW H, NEW Q, BreakOff(H, Q) PROVE Typed'
<1>1. /\ req' \in [Reqs -> DrawnRequest] /\ req' \in [Reqs -> Request]
      /\ poll' \in [Polls -> Polling]
  BY IdleTyped DEF BreakOff, DrawnRequest, Typed, TypeOK
<1>2. failures' \in 0..MaxFailures
  BY BoundAssumption DEF BreakOff, Typed, TypeOK
<1> QED
  BY <1>1, <1>2 DEF BreakOff, Typed, TypeOK

LEMMA TypedNext == ASSUME Typed, [Next]_vars PROVE Typed'
<1>1. ASSUME NEW h \in Reqs, PhoneStart(h) \/ Moves(h) PROVE Typed'
  BY <1>1, PhoneStartTyped, DropsTyped, PhoneUpsertTyped,
     PhoneCountTyped, FindUserTyped, NextUserTyped, InsertUserTyped,
     PhoneUnchangedTyped, PhoneQuietTyped, PhoneTextTyped, PhoneUpdateTyped
     DEF Moves
<1>2. ASSUME NEW p \in Polls, PollStep(p) \/ PollRequest(p) PROVE Typed'
  BY <1>2, PollStepTyped, PollPlainTyped, PollRightCodeTyped,
     PollWrongCodeTyped
     DEF PollRequest
<1>3. ASSUME TextLands PROVE Typed'
  BY <1>3 DEF TextLands, Typed, TypeOK
<1>4. ASSUME UNCHANGED vars PROVE Typed'
  BY <1>4 DEF vars, Typed, TypeOK
<1> QED
  BY <1>1, <1>2, <1>3, <1>4, IncomingTyped, TickTyped, EndsTyped, NextCases

\* Every reachable state has its type: the documents, the handlers' locals and
\* the counters stay in range, and setuser never inserts an account without a
\* number.
THEOREM TypeCorrect == Spec => []TypeOK
<1>1. Typed => TypeOK
  BY DEF Typed
<1> QED
  BY <1>1, TypedInit, TypedNext, PTL DEF Spec

\* What a step of a registration leaves as it is.
LEMMA OneRequest ==
  ASSUME Typed, NEW h \in Reqs, PhoneStart(h) \/ Moves(h)
  PROVE  /\ \A g \in Reqs \ {h} : req'[g] = req[g]
         /\ \A g \in Reqs : req[g].device \in Devices
<1>1. \A g \in Reqs \ {h} : req'[g] = req[g]
  BY DEF Moves, PhoneStart, Drops, PhoneUpsert, PhoneCount,
         FindUser, NextUser, Opens, PhoneUnchanged, PhoneQuiet,
         PhoneText, Gives, Proceed, Typed
<1> QED
  BY <1>1, RequestFields

----------------------------------------------------------------------------
(* Accounts *)

\* The account that a registration is going to give is an account of its phone.
HasAccount(r) ==
  r.upd.username # None =>
    \E x \in users : x.id = r.upd.username /\ x.with = Phone(r.device)

\* The number a registration has drawn and not used is its own.
OwnNumber(h) ==
  req[h].pc = "insert" =>
    /\ req[h].upd.username <= userid
    /\ ~NumberTaken(req[h])
    /\ \A g \in Reqs \ {h} :
         req[g].pc = "insert" => req[g].upd.username # req[h].upd.username

\* `_id' is unique in users.
IdsUnique == \A x, y \in users : x.id = y.id => x.with = y.with

Accounts ==
  /\ IdsUnique
  /\ AccountOfPhone
  /\ \A x \in users : x.id <= userid
  /\ \A h \in Reqs : req[h].pc # "insert" => HasAccount(req[h])
  /\ \A h \in Reqs : OwnNumber(h)

LEMMA AccountsInit == Init => Accounts
BY DEF Init, Accounts, IdsUnique, AccountOfPhone, HasAccount,
       OwnNumber, NoDocument, IdleRequest, NoUpdate

\* No step takes a device's account away from it or gives it another, except
\* the last one of a registration.
KeepsUsernames ==
  \A d \in Devices : dev'[d].username \in {None, dev[d].username}

LEMMA AccountsRequest ==
  ASSUME Typed, Accounts, NEW h \in Reqs, NEW r, r.pc # "insert",
         HasAccount(r), req' = [req EXCEPT ![h] = r],
         users' = users, userid' = userid, KeepsUsernames
  PROVE  Accounts'
<1>1. IdsUnique' /\ (\A x \in users : x.id <= userid)'
  BY DEF Accounts, IdsUnique
<1>2. AccountOfPhone'
  BY DEF Accounts, AccountOfPhone, KeepsUsernames
<1>3. ASSUME NEW g \in Reqs
      PROVE  (req[g].pc # "insert" => HasAccount(req[g]))' /\ OwnNumber(g)'
  <2>1. req'[g] = IF g = h THEN r ELSE req[g]
    BY DEF Typed
  <2>2. req'[g].pc # "insert" => HasAccount(req[g])'
    BY <2>1 DEF Accounts, HasAccount
  <2>3. \A k \in Reqs : req'[k].pc = "insert" => req'[k] = req[k]
    BY DEF Typed
  <2>4. OwnNumber(g)'
    BY <2>3 DEF Accounts, OwnNumber, NumberTaken
  <2> QED
    BY <2>2, <2>4
<1> QED
  BY <1>1, <1>2, <1>3 DEF Accounts

LEMMA AccountsSame ==
  ASSUME Typed, Accounts, UNCHANGED <<req, users, userid>>, KeepsUsernames
  PROVE  Accounts'
BY DEF Accounts, IdsUnique, AccountOfPhone, HasAccount, OwnNumber,
       NumberTaken, KeepsUsernames

LEMMA WithNumberKeeps ==
  ASSUME NEW r, r.upd \in Update, NEW upd \in WithNumber(r)
  PROVE  /\ upd.username = r.upd.username /\ upd.checked = r.upd.checked
         /\ upd.sms_sent = r.upd.sms_sent /\ upd.sms_time = r.upd.sms_time
BY DEF WithNumber, Update

\* A registration that decides keeps its account.
LEMMA AccountsProceed ==
  ASSUME Typed, Accounts, NEW h \in Reqs, req[h].pc = "decide",
         NEW upd \in Update, upd.username = req[h].upd.username,
         Proceed(h, upd), UNCHANGED <<dev, users, userid>>
  PROVE  Accounts'
<1> DEFINE r == [req[h] EXCEPT !.pc = "update", !.upd = upd]
<1>1. r.pc = "update" /\ r.upd = upd /\ r.device = req[h].device
  BY RequestFields DEF Request
<1>2. req' = [req EXCEPT ![h] = r]
  BY DEF Proceed
<1> HIDE DEF r
<1>3. HasAccount(r)
  BY <1>1 DEF Accounts, HasAccount
<1>4. KeepsUsernames
  BY DEF KeepsUsernames
<1> QED
  BY <1>1, <1>2, <1>3, <1>4, AccountsRequest

\* Steps of a registration before it has an account, or after it is given.
LEMMA AccountsPlain ==
  ASSUME Typed, Accounts, NEW h \in Reqs,
         \/ PhoneStart(h) \/ Drops(h) \/ PhoneUpsert(h)
         \/ PhoneCount(h) \/ PhoneUnchanged(h)
  PROVE  Accounts'
<1> DEFINE r == req'[h]
<1>2. req[h].pc # "insert" => HasAccount(req[h])
  BY DEF Accounts
<1>3. /\ r.pc # "insert" /\ req' = [req EXCEPT ![h] = r]
      /\ \/ r.upd.username = None
         \/ /\ HasAccount(req[h]) /\ r.upd.username = req[h].upd.username
            /\ r.device = req[h].device
  <2>1. CASE PhoneStart(h)
    <3>1. PICK d \in Devices, m \in Methods, u \in Uams :
            req' = [req EXCEPT ![h] =
                      [IdleRequest EXCEPT !.pc = "upsert", !.device = d,
                         !.method = m, !.uam = u, !.now = now,
                         !.left = SmsLeft(u)]]
      BY <2>1 DEF PhoneStart
    <3>2. r.pc = "upsert" /\ r.upd = NoUpdate
      BY <3>1 DEF Typed, IdleRequest
    <3> QED
      BY <3>1, <3>2 DEF Typed, NoUpdate
  <2>2. CASE Drops(h) \/ PhoneUnchanged(h)
    BY <2>2 DEF Drops, PhoneUnchanged, Typed, IdleRequest, NoUpdate
  <2>3. CASE PhoneUpsert(h)
    BY <1>2, <2>3, RequestFields DEF PhoneUpsert, Typed, Request
  <2>4. CASE PhoneCount(h)
    BY <1>2, <2>4, RequestFields DEF PhoneCount, Typed, Request
  <2> QED
    BY <2>1, <2>2, <2>3, <2>4
<1>4. HasAccount(r)
  BY <1>2, <1>3 DEF HasAccount
<1>5. users' = users /\ userid' = userid
  BY DEF PhoneStart, Drops, PhoneUpsert, PhoneCount, PhoneUnchanged
<1>6. KeepsUsernames
  <2>1. CASE PhoneUpsert(h)
    <3> DEFINE d == req[h].device
               doc == IF dev[d].known
                      THEN [dev[d] EXCEPT !.seen = req[h].now]
                      ELSE [NoDocument EXCEPT !.known = TRUE,
                              !.seen = req[h].now, !.registred = req[h].now]
    <3>1. d \in Devices /\ dev[d] \in Document
      BY RequestFields DEF Typed, TypeOK
    <3>2. doc.username \in {None, dev[d].username}
      BY <3>1 DEF NoDocument, Document
    <3>3. dev' = [dev EXCEPT ![d] = doc]
      BY <2>1 DEF PhoneUpsert
    <3> HIDE DEF doc
    <3> QED
      BY <3>1, <3>2, <3>3 DEF KeepsUsernames, Typed, TypeOK
  <2>2. CASE dev' = dev
    BY <2>2 DEF KeepsUsernames
  <2> QED
    BY <2>1, <2>2 DEF PhoneStart, Drops, PhoneCount, PhoneUnchanged
<1> HIDE DEF r
<1> QED
  BY <1>3, <1>4, <1>5, <1>6, AccountsRequest

LEMMA AccountsFind ==
  ASSUME Typed, Accounts, NEW h \in Reqs, FindUser(h) PROVE Accounts'
<1> DEFINE r == req'[h]
<1>1. users' = users /\ userid' = userid /\ KeepsUsernames
  BY DEF FindUser, KeepsUsernames
<1>2. HasAccount(req[h])
  BY DEF Accounts, FindUser
<1>3. /\ r.pc # "insert" /\ req' = [req EXCEPT ![h] = r]
      /\ HasAccount(r)
  <2>1. CASE \E x \in users :
               /\ x.with = Phone(req[h].device)
               /\ req' = [req EXCEPT ![h] =
                            [@ EXCEPT !.pc = "decide", !.upd.username = x.id]]
    BY <2>1, RequestFields DEF Typed, Request, Update, HasAccount
  <2>2. CASE req' = [req EXCEPT ![h].pc = "next"]
    BY <1>2, <2>2, RequestFields DEF Typed, Request, HasAccount
  <2> QED
    BY <2>1, <2>2 DEF FindUser
<1> HIDE DEF r
<1> QED
  BY <1>1, <1>3, AccountsRequest

\* The counter gives out each number once.
LEMMA AccountsNumber ==
  ASSUME Typed, Accounts, NEW h \in Reqs, NextUser(h) PROVE Accounts'
<1>1. /\ \A g \in Reqs \ {h} : req'[g] = req[g]
      /\ req'[h].pc = "insert" /\ req'[h].upd.username = userid + 1
      /\ users' = users /\ userid' = userid + 1 /\ dev' = dev
      /\ userid \in Int
  BY RequestFields DEF NextUser, Typed, TypeOK, Request, Update
<1>2. \A x \in users : x.id \in Int /\ x.id <= userid
  BY DEF Typed, TypeOK, Accounts, Uids
<1>3. \A g \in Reqs : req[g].pc = "insert" => /\ req[g].upd.username \in Int
                                             /\ req[g].upd.username <= userid
  BY DEF Typed, DrawnRequest, Accounts, OwnNumber, Uids
<1>4. \A g \in Reqs : OwnNumber(g)'
  <2> TAKE g \in Reqs
  <2>1. CASE g = h
    BY <1>1, <1>2, <1>3, <2>1 DEF OwnNumber, NumberTaken
  <2>2. CASE g # h
    BY <1>1, <1>2, <1>3, <2>2 DEF OwnNumber, NumberTaken, Accounts
  <2> QED
    BY <2>1, <2>2
<1>5. \A g \in Reqs : (req[g].pc # "insert" => HasAccount(req[g]))'
  BY <1>1 DEF Accounts, HasAccount
<1>6. IdsUnique' /\ AccountOfPhone' /\ (\A x \in users : x.id <= userid)'
  BY <1>1, <1>2 DEF Accounts, IdsUnique, AccountOfPhone
<1> QED
  BY <1>4, <1>5, <1>6 DEF Accounts

LEMMA AccountsInsert ==
  ASSUME Typed, Accounts, NEW h \in Reqs, Opens(h) PROVE Accounts'
<1> DEFINE new == [id |-> req[h].upd.username,
                   with |-> Phone(req[h].device)]
<1>1. /\ \A g \in Reqs \ {h} : req'[g] = req[g]
      /\ req'[h].pc = "decide" /\ req'[h].upd = req[h].upd
      /\ req'[h].device = req[h].device
      /\ users' = users \cup {new} /\ userid' = userid /\ dev' = dev
      /\ req[h].pc = "insert"
  BY RequestFields DEF Opens, Typed, Request
<1>2. OwnNumber(h)
  BY DEF Accounts
<1>3. IdsUnique' /\ (\A x \in users : x.id <= userid)'
  BY <1>1, <1>2 DEF Accounts, IdsUnique, OwnNumber, NumberTaken
<1>4. AccountOfPhone'
  BY <1>1 DEF Accounts, AccountOfPhone
<1>5. \A g \in Reqs : OwnNumber(g)'
  BY <1>1, <1>2 DEF Accounts, OwnNumber, NumberTaken
<1>6. \A g \in Reqs : (req[g].pc # "insert" => HasAccount(req[g]))'
  <2> TAKE g \in Reqs
  <2>1. CASE g = h
    <3>1. /\ new \in users' /\ new.id = req'[h].upd.username
          /\ new.with = Phone(req'[h].device)
      BY <1>1
    <3> HIDE DEF new
    <3> QED
      BY <2>1, <3>1 DEF HasAccount
  <2>2. CASE g # h
    BY <1>1, <2>2 DEF Accounts, HasAccount
  <2> QED
    BY <2>1, <2>2
<1> QED
  BY <1>3, <1>4, <1>5, <1>6 DEF Accounts

\* A registration that decides goes on with the account it has in `upd'.
LEMMA DecideKeeps ==
  ASSUME Typed, NEW h \in Reqs, PhoneQuiet(h) \/ PhoneText(h)
  PROVE  \E upd \in Update : /\ upd.username = req[h].upd.username
                             /\ Proceed(h, upd)
<1> DEFINE r == req[h]
<1>1. \A upd \in WithNumber(r) :
        upd \in Update /\ upd.username = r.upd.username
  BY RequestFields, WithNumberTyped, WithNumberKeeps
<1>2. CASE Proceed(h, [r.upd EXCEPT !.checked = TRUE])
  <2>1. [r.upd EXCEPT !.checked = TRUE] \in Update
    BY RequestFields DEF Update
  <2>2. [r.upd EXCEPT !.checked = TRUE].username = r.upd.username
    BY RequestFields DEF Update
  <2> QED
    BY <1>2, <2>1, <2>2
<1>3. CASE \E upd \in WithNumber(r) : Proceed(h, upd)
  BY <1>1, <1>3
<1>4. CASE \E upd \in WithNumber(r), c \in CodeFor(r.doc) :
             Proceed(h, [upd EXCEPT !.sms_sent = c])
  <2> PICK upd \in WithNumber(r), c \in CodeFor(r.doc) :
             Proceed(h, [upd EXCEPT !.sms_sent = c])
    BY <1>4
  <2>1. upd \in Update /\ c \in Codes
    BY <1>1, CodeForTyped, RequestFields
  <2>2. [upd EXCEPT !.sms_sent = c] \in Update
    BY <2>1 DEF Update, Opt
  <2>3. [upd EXCEPT !.sms_sent = c].username = upd.username
    BY <2>1 DEF Update
  <2> QED
    BY <1>1, <2>2, <2>3
<1>5. CASE \E upd \in WithNumber(r), c \in CodeFor(r.doc) :
             Proceed(h, [upd EXCEPT !.sms_sent = c, !.sms_time = r.now])
  <2> PICK upd \in WithNumber(r), c \in CodeFor(r.doc) :
             Proceed(h, [upd EXCEPT !.sms_sent = c, !.sms_time = r.now])
    BY <1>5
  <2>1. upd \in Update /\ c \in Codes
    BY <1>1, CodeForTyped, RequestFields
  <2>2. [upd EXCEPT !.sms_sent = c, !.sms_time = r.now] \in Update
    BY <2>1, RequestFields DEF Update, Opt
  <2>3. [upd EXCEPT !.sms_sent = c, !.sms_time = r.now].username
          = upd.username
    BY <2>1 DEF Update
  <2> QED
    BY <1>1, <2>2, <2>3
<1> QED
  BY <1>2, <1>3, <1>4, <1>5 DEF PhoneQuiet, PhoneText

LEMMA AccountsDecide ==
  ASSUME Typed, Accounts, NEW h \in Reqs, PhoneQuiet(h) \/ PhoneText(h)
  PROVE  Accounts'
<1>1. req[h].pc = "decide" /\ UNCHANGED <<dev, users, userid>>
  BY DEF PhoneQuiet, PhoneText, Registers
<1> QED
  BY <1>1, DecideKeeps, AccountsProceed

\* The last step gives the device the account of its phone.
LEMMA AccountsUpdate ==
  ASSUME Typed, Accounts, NEW h \in Reqs, Gives(h) PROVE Accounts'
<1> DEFINE d == req[h].device
           upd == req[h].upd
<1>1. /\ \A g \in Reqs \ {h} : req'[g] = req[g]
      /\ req'[h] = IdleRequest
      /\ \A e \in Devices \ {d} : dev'[e] = dev[e]
      /\ dev'[d].username = Set(dev[d].username, upd.username)
      /\ users' = users /\ userid' = userid
  BY RequestFields DEF Gives, Typed, TypeOK, Apply, Document
<1>2. HasAccount(req[h])
  BY DEF Accounts, Gives
<1>3. AccountOfPhone'
  BY <1>1, <1>2 DEF Accounts, AccountOfPhone, HasAccount, Set
<1>4. \A g \in Reqs : (req[g].pc # "insert" => HasAccount(req[g]))'
                      /\ OwnNumber(g)'
  <2> TAKE g \in Reqs
  <2>1. CASE g = h
    BY <1>1, <2>1 DEF IdleRequest, NoUpdate, HasAccount, OwnNumber
  <2>2. CASE g # h
    BY <1>1, <2>2
       DEF Accounts, HasAccount, OwnNumber, NumberTaken, IdleRequest
  <2> QED
    BY <2>1, <2>2
<1>5. IdsUnique' /\ (\A x \in users : x.id <= userid)'
  BY <1>1 DEF Accounts, IdsUnique
<1> QED
  BY <1>3, <1>4, <1>5 DEF Accounts

LEMMA CheckKeepsUsernames ==
  ASSUME Typed, NEW d \in Devices, dev' = [dev EXCEPT ![d].checked = TRUE]
  PROVE  KeepsUsernames
BY DEF KeepsUsernames, Typed, TypeOK, Document

LEMMA AccountsPoll ==
  ASSUME Typed, Accounts, NEW p \in Polls, PollStep(p) \/ PollRequest(p)
  PROVE  Accounts'
<1>1. poll[p].device \in Devices
  BY DEF Typed, TypeOK, Polling
<1>2. UNCHANGED <<req, users, userid>>
  BY DEF PollStep, PollRequest, PollWake, PollSmsru, PollPlain,
         PollRightCode, PollWrongCode
<1>3. KeepsUsernames
  <2>1. ASSUME PollStep(p) PROVE KeepsUsernames
    BY <1>1, <2>1, CheckKeepsUsernames
       DEF PollStep, PollWake, PollSmsru, KeepsUsernames
  <2>2. ASSUME NEW d \in Devices, PollPlain(p, d) PROVE KeepsUsernames
    BY <2>2 DEF PollPlain, KeepsUsernames
  <2>3. ASSUME NEW d \in Devices, NEW c \in Codes, PollRightCode(p, d, c)
        PROVE KeepsUsernames
    BY <2>3, CheckKeepsUsernames DEF PollRightCode
  <2>4. ASSUME NEW d \in Devices, NEW c \in Codes, PollWrongCode(p, d, c)
        PROVE KeepsUsernames
    BY <2>4 DEF PollWrongCode, KeepsUsernames, Typed, TypeOK, Document
  <2> QED
    BY <2>1, <2>2, <2>3, <2>4 DEF PollRequest
<1> QED
  BY <1>2, <1>3, AccountsSame

LEMMA AccountsIncoming ==
  ASSUME Typed, Accounts, NEW phone \in Phones, Incoming(phone)
  PROVE  Accounts'
<1>1. UNCHANGED <<req, users, userid>>
  BY DEF Incoming, TextArrives, CallArrives, TokenArrives
<1>2. PICK S \in SUBSET Devices : CheckOne(S, phone)
  <2>1. ASSUME TextArrives(phone) PROVE \E S \in SUBSET Devices : CheckOne(S, phone)
    BY <2>1 DEF TextArrives, SeenSince
  <2>2. ASSUME CallArrives(phone) PROVE \E S \in SUBSET Devices : CheckOne(S, phone)
    BY <2>2 DEF CallArrives, SeenSince
  <2>3. ASSUME NEW t \in Codes, TokenArrives(phone, t)
        PROVE \E S \in SUBSET Devices : CheckOne(S, phone)
    BY <2>3 DEF TokenArrives
  <2> QED
    BY <2>1, <2>2, <2>3 DEF Incoming
<1>3. KeepsUsernames
  BY <1>2, CheckKeepsUsernames DEF CheckOne
<1> QED
  BY <1>1, <1>3, AccountsSame

LEMMA AccountsEnds == ASSUME Typed, Accounts, NEW H, NEW Q, BreakOff(H, Q) PROVE Accounts'
<1>1. \A h \in Reqs : \/ req'[h] = req[h]
                      \/ req'[h].pc = "idle" /\ req'[h].upd.username = None
  BY DEF BreakOff, IdleRequest, NoUpdate
<1>2. UNCHANGED <<dev, users, userid>>
  BY DEF BreakOff
<1> QED
  BY <1>1, <1>2 DEF Accounts, IdsUnique, AccountOfPhone, HasAccount,
                    OwnNumber, NumberTaken

LEMMA AccountsNext ==
  ASSUME Typed, Accounts, [Next]_vars PROVE Accounts'
<1>1. ASSUME NEW h \in Reqs, PhoneStart(h) \/ Moves(h) PROVE Accounts'
  BY <1>1, AccountsPlain, AccountsFind, AccountsNumber, AccountsInsert,
     AccountsDecide, AccountsUpdate DEF Moves
<1>2. ASSUME TextLands \/ Tick \/ UNCHANGED vars PROVE Accounts'
  <2>1. UNCHANGED <<req, users, userid>> /\ KeepsUsernames
    BY <1>2 DEF TextLands, Tick, vars, KeepsUsernames
  <2> QED
    BY <2>1, AccountsSame
<1> QED
  BY <1>1, <1>2, AccountsPoll, AccountsIncoming, AccountsEnds, NextCases

LEMMA AccountsAlways == Spec => [](Typed /\ Accounts)
<1>1. Init => Typed /\ Accounts
  BY TypedInit, AccountsInit
<1>2. Typed /\ Accounts /\ [Next]_vars => (Typed /\ Accounts)'
  BY TypedNext, AccountsNext
<1> QED
  BY <1>1, <1>2, PTL DEF Spec

\* A device of the mac with the account that a registration is about to give
\* would have the phone of that account, and so be the device registered.
LEMMA NoDuplicate == Typed /\ Accounts => NeverDuplicate
<1> SUFFICES ASSUME Typed, Accounts, NEW h \in Reqs
             PROVE  /\ req[h].pc = "insert" => ~NumberTaken(req[h])
                    /\ req[h].pc = "update" => ~AccountTaken(req[h])
  BY DEF NeverDuplicate
<1>1. req[h].pc = "insert" => ~NumberTaken(req[h])
  BY DEF Accounts, OwnNumber
<1>2. ASSUME req[h].pc = "update", AccountTaken(req[h]) PROVE FALSE
  <2>1. PICK e \in Devices \ {req[h].device} :
               /\ Mac(e) = Mac(req[h].device)
               /\ dev[e].username = req[h].upd.username
    BY <1>2 DEF AccountTaken
  <2>2. req[h].upd.username # None
    BY <1>2 DEF AccountTaken
  <2>3. PICK x \in users : /\ x.id = req[h].upd.username
                           /\ x.with = Phone(req[h].device)
    BY <1>2, <2>2 DEF Accounts, HasAccount
  <2>4. PICK y \in users : y.id = dev[e].username /\ y.with = Phone(e)
    BY <2>1, <2>2 DEF Accounts, AccountOfPhone
  <2>5. Phone(e) = Phone(req[h].device)
    BY <2>1, <2>3, <2>4 DEF Accounts, IdsUnique
  <2>6. e \in Devices /\ req[h].device \in Devices
    BY RequestFields
  <2> QED
    BY <2>1, <2>5, <2>6 DEF Devices, Phone, Mac
<1> QED
  BY <1>1, <1>2

\* Whatever registrations overlap in setuser, and wherever they fail or are
\* killed, none ends in a DuplicateKeyError of its insert or its last $set.
THEOREM AccountsSafe == Spec => []NeverDuplicate
BY AccountsAlways, NoDuplicate, PTL

\* A device has an account of its own phone.
THEOREM AccountsOwn == Spec => []AccountOfPhone
<1>1. Accounts => AccountOfPhone
  BY DEF Accounts
<1> QED
  BY <1>1, AccountsAlways, PTL

\* The registrations that have found no account of the phone and have not
\* inserted one yet.
Opening(phone) == {h \in Reqs : /\ req[h].pc \in {"next", "insert"}
                                /\ Phone(req[h].device) = phone}

Held(phone) == {x \in users : x.with = phone}

\* No registration begins to open an account while the phone has one.
Few(phone) ==
  /\ IsFiniteSet(Held(phone))
  /\ Cardinality(Held(phone)) + Cardinality(Opening(phone))
       <= Cardinality(Reqs)

AccountsFew == \A phone \in Phones : Few(phone)

LEMMA OpeningFinite ==
  /\ IsFiniteSet(Reqs) /\ Cardinality(Reqs) \in Nat
  /\ \A S \in SUBSET Reqs : /\ IsFiniteSet(S) /\ Cardinality(S) \in Nat
                            /\ Cardinality(S) <= Cardinality(Reqs)
BY SetAssumption, FS_Subset, FS_CardinalityType

LEMMA FewInit == Init => AccountsFew
<1> SUFFICES ASSUME Init, NEW phone \in Phones PROVE Few(phone)
  BY DEF AccountsFew
<1>1. Held(phone) = {} /\ Opening(phone) = {}
  BY DEF Init, Held, Opening, IdleRequest
<1>2. IsFiniteSet({}) /\ Cardinality({}) = 0
  BY FS_EmptySet
<1> QED
  BY <1>1, <1>2, OpeningFinite DEF Few

\* Steps that open no account and begin to open none, or the first.
LEMMA FewSame ==
  ASSUME AccountsFew, users' = users,
         \A phone \in Phones : \/ Opening(phone)' \subseteq Opening(phone)
                               \/ Held(phone) = {}
  PROVE  AccountsFew'
<1> SUFFICES ASSUME NEW phone \in Phones PROVE Few(phone)'
  BY DEF AccountsFew
<1>1. Held(phone)' = Held(phone) /\ Few(phone)
  BY DEF Held, AccountsFew
<1>2. Opening(phone) \in SUBSET Reqs /\ Opening(phone)' \in SUBSET Reqs
  BY DEF Opening
<1>3. Cardinality(Held(phone)) \in Nat
  BY <1>1, FS_CardinalityType DEF Few
<1>4. CASE Held(phone) = {}
  <2>1. Cardinality(Held(phone)) = 0
    BY <1>4, FS_EmptySet
  <2> QED
    BY <1>1, <1>2, <2>1, OpeningFinite DEF Few
<1>5. CASE Opening(phone)' \subseteq Opening(phone)
  <2>1. Cardinality(Opening(phone)') <= Cardinality(Opening(phone))
    BY <1>2, <1>5, OpeningFinite, FS_Subset
  <2>2. Cardinality(Opening(phone)') \in Nat /\ Cardinality(Opening(phone)) \in Nat
    BY <1>2, OpeningFinite
  <2>3. /\ IsFiniteSet(Held(phone))
        /\ Cardinality(Held(phone)) + Cardinality(Opening(phone))
             <= Cardinality(Reqs)
    BY <1>1 DEF Few
  <2> QED
    BY <1>1, <1>3, <2>1, <2>2, <2>3, OpeningFinite DEF Few
<1> QED
  BY <1>4, <1>5

LEMMA FewOpens ==
  ASSUME Typed, AccountsFew, NEW h \in Reqs, Opens(h) PROVE AccountsFew'
<1> SUFFICES ASSUME NEW phone \in Phones PROVE Few(phone)'
  BY DEF AccountsFew
<1> DEFINE new == [id |-> req[h].upd.username, with |-> Phone(req[h].device)]
<1>1. /\ \A g \in Reqs \ {h} : req'[g] = req[g]
      /\ req[h].pc = "insert" /\ req'[h].pc = "decide"
      /\ users' = users \cup {new}
  BY RequestFields DEF Opens, Typed, Request
<1>2. Few(phone)
  BY DEF AccountsFew
<1>3. CASE Phone(req[h].device) = phone
  <2>1. Held(phone)' = Held(phone) \cup {new}
    BY <1>1, <1>3 DEF Held
  <2>2. Opening(phone)' = Opening(phone) \ {h} /\ h \in Opening(phone)
    BY <1>1, <1>3 DEF Opening
  <2> HIDE DEF new
  <2>3. /\ Cardinality(Held(phone)) \in Nat /\ IsFiniteSet(Held(phone))
        /\ Cardinality(Held(phone) \cup {new}) <= Cardinality(Held(phone)) + 1
        /\ Cardinality(Held(phone) \cup {new}) \in Nat
        /\ IsFiniteSet(Held(phone) \cup {new})
    BY <1>2, FS_AddElement, FS_CardinalityType DEF Few
  <2>4. Opening(phone) \in SUBSET Reqs
    BY DEF Opening
  <2>5. /\ Cardinality(Opening(phone) \ {h}) = Cardinality(Opening(phone)) - 1
        /\ Cardinality(Opening(phone)) \in Nat
    BY <2>2, <2>4, OpeningFinite, FS_RemoveElement
  <2>6. Cardinality(Held(phone)) + Cardinality(Opening(phone))
          <= Cardinality(Reqs)
    BY <1>2 DEF Few
  <2> QED
    BY <2>1, <2>2, <2>3, <2>5, <2>6, OpeningFinite DEF Few
<1>4. CASE Phone(req[h].device) # phone
  <2>1. Held(phone)' = Held(phone)
    BY <1>1, <1>4 DEF Held
  <2>2. Opening(phone)' = Opening(phone)
    BY <1>1, <1>4, RequestFields DEF Opening, Opens, Typed, Request
  <2> QED
    BY <1>2, <2>1, <2>2 DEF Few
<1> QED
  BY <1>3, <1>4

LEMMA FewMoves ==
  ASSUME Typed, AccountsFew, NEW h \in Reqs, PhoneStart(h) \/ Moves(h)
  PROVE  AccountsFew'
<1>1. /\ \A g \in Reqs \ {h} : req'[g] = req[g]
      /\ req[h].device \in Devices
  BY OneRequest
<1>2. ASSUME users' = users, req'[h].pc \notin {"next", "insert"}
      PROVE  AccountsFew'
  <2>1. \A phone \in Phones : Opening(phone)' \subseteq Opening(phone)
    BY <1>1, <1>2 DEF Opening
  <2> QED
    BY <1>2, <2>1, FewSame
<1>3. CASE PhoneStart(h)
  <2>1. users' = users /\ req'[h].pc = "upsert"
    BY <1>3 DEF PhoneStart, Typed, IdleRequest
  <2> QED
    BY <1>2, <2>1
<1>4. CASE Drops(h) \/ PhoneUnchanged(h) \/ Gives(h)
  <2>1. users' = users /\ req'[h].pc = "idle"
    BY <1>4 DEF Drops, PhoneUnchanged, Gives, Typed, IdleRequest
  <2> QED
    BY <1>2, <2>1
<1>5. CASE PhoneUpsert(h) \/ PhoneCount(h)
  <2>1. ASSUME PhoneUpsert(h) PROVE req'[h].pc = "count"
    BY <2>1, RequestFields DEF PhoneUpsert, Typed, Request
  <2>2. ASSUME PhoneCount(h) PROVE req'[h].pc \in {"find", "decide"}
    BY <2>2, RequestFields DEF PhoneCount, Typed, Request
  <2>3. users' = users
    BY <1>5 DEF PhoneUpsert, PhoneCount
  <2> QED
    BY <1>2, <1>5, <2>1, <2>2, <2>3
<1>6. CASE FindUser(h)
  <2>1. CASE Held(Phone(req[h].device)) # {}
    <3>1. users' = users /\ req'[h].pc = "decide"
      BY <1>6, <2>1, RequestFields DEF FindUser, Held, Typed, Request
    <3> QED
      BY <1>2, <3>1
  <2>2. CASE Held(Phone(req[h].device)) = {}
    <3>1. /\ users' = users
          /\ req'[h].device = req[h].device
      BY <1>6, RequestFields DEF FindUser, Typed, Request
    <3>2. \A phone \in Phones : \/ Opening(phone)' \subseteq Opening(phone)
                                \/ Held(phone) = {}
      BY <1>1, <2>2, <3>1 DEF Opening
    <3> QED
      BY <3>1, <3>2, FewSame
  <2> QED
    BY <2>1, <2>2
<1>7. CASE NextUser(h)
  <2>1. /\ users' = users /\ req[h].pc = "next"
        /\ req'[h].device = req[h].device
    BY <1>7, RequestFields DEF NextUser, Typed, Request
  <2>2. \A phone \in Phones : Opening(phone)' \subseteq Opening(phone)
    BY <1>1, <2>1 DEF Opening
  <2> QED
    BY <2>1, <2>2, FewSame
<1>8. CASE PhoneQuiet(h) \/ PhoneText(h)
  <2>1. users' = users
    BY <1>8 DEF PhoneQuiet, PhoneText
  <2>2. PICK upd \in Update : Proceed(h, upd)
    BY <1>8, DecideKeeps
  <2>3. req'[h].pc = "update"
    BY <2>2, RequestFields DEF Proceed, Typed, Request
  <2> QED
    BY <1>2, <2>1, <2>3
<1> QED
  BY <1>3, <1>4, <1>5, <1>6, <1>7, <1>8, FewOpens DEF Moves

LEMMA FewNext ==
  ASSUME Typed, AccountsFew, [Next]_vars PROVE AccountsFew'
<1>1. ASSUME users' = users,
             \A h \in Reqs : req'[h] = req[h] \/ req'[h].pc = "idle"
      PROVE  AccountsFew'
  <2>1. \A phone \in Phones : Opening(phone)' \subseteq Opening(phone)
    BY <1>1 DEF Opening
  <2> QED
    BY <1>1, <2>1, FewSame
<1>2. ASSUME NEW p \in Polls, PollStep(p) \/ PollRequest(p)
      PROVE  AccountsFew'
  BY <1>1, <1>2 DEF PollStep, PollRequest, PollWake, PollSmsru, PollPlain,
                    PollRightCode, PollWrongCode
<1>3. ASSUME NEW phone \in Phones, Incoming(phone) PROVE AccountsFew'
  BY <1>1, <1>3 DEF Incoming, TextArrives, CallArrives, TokenArrives
<1>4. ASSUME TextLands \/ Tick \/ UNCHANGED vars PROVE AccountsFew'
  BY <1>1, <1>4 DEF TextLands, Tick, vars
<1>5. ASSUME NEW H, NEW Q, BreakOff(H, Q) PROVE AccountsFew'
  BY <1>1, <1>5 DEF BreakOff, IdleRequest
<1> QED
  BY <1>2, <1>3, <1>4, <1>5, FewMoves, NextCases

\* A phone gets no more accounts than the portal handles registrations at once:
\* of those that overlap each may open one, and none that comes later does.
THEOREM AccountsNotMany == Spec => []AccountsBounded
<1>1. Init => Typed /\ AccountsFew
  BY TypedInit, FewInit
<1>2. Typed /\ AccountsFew /\ [Next]_vars => (Typed /\ AccountsFew)'
  BY TypedNext, FewNext
<1>3. AccountsFew => AccountsBounded
  <2> SUFFICES ASSUME AccountsFew, NEW phone \in Phones
               PROVE  Cardinality(Held(phone)) <= Cardinality(Reqs)
    BY DEF AccountsBounded, Held
  <2>1. Few(phone)
    BY DEF AccountsFew
  <2>2. Opening(phone) \in SUBSET Reqs
    BY DEF Opening
  <2>3. Cardinality(Held(phone)) \in Nat
    BY <2>1, FS_CardinalityType DEF Few
  <2>4. Cardinality(Opening(phone)) \in Nat
    BY <2>2, OpeningFinite
  <2>5. Cardinality(Held(phone)) + Cardinality(Opening(phone))
          <= Cardinality(Reqs)
    BY <2>1 DEF Few
  <2> QED
    BY <2>3, <2>4, <2>5, OpeningFinite
<1> QED
  BY <1>1, <1>2, <1>3, PTL DEF Spec

----------------------------------------------------------------------------
(* Proof of the phone number *)

\* The devices that may be let in, and the codes that were sent to a device.
Entitled == {d \in Devices : Justified(d)}
Sent == {<<m.device, m.code>> : m \in texts}

\* What a document, as it was read or as it is going to be written, says of a
\* device is true: it is checked because it may be, its code was sent to it,
\* and a time of sending comes with a code.
Backed(entitled, sent, d, doc) ==
  /\ doc.checked => d \in entitled
  /\ doc.sms_sent # None => <<d, doc.sms_sent>> \in sent
  /\ doc.sms_time # None => doc.sms_sent # None

\* That holds of the documents in the collection and of the copies that the
\* handlers hold across their awaits.
Vouched ==
  /\ \A d \in Devices : Backed(Entitled, Sent, d, dev[d])
  /\ \A h \in Reqs : /\ Backed(Entitled, Sent, req[h].device, req[h].doc)
                     /\ Backed(Entitled, Sent, req[h].device, req[h].upd)
  /\ \A p \in Polls : Backed(Entitled, Sent, poll[p].device, poll[p].doc)
  /\ granted \subseteq Entitled

LEMMA VouchedInit == Init => Vouched
BY DEF Init, Vouched, Backed, NoDocument, IdleRequest, IdlePoll, NoUpdate

LEMMA Blank ==
  ASSUME NEW E, NEW S, NEW d
  PROVE  Backed(E, S, d, NoDocument) /\ Backed(E, S, d, NoUpdate)
BY DEF Backed, NoDocument, NoUpdate

LEMMA Grows ==
  ASSUME Typed, texts \subseteq texts', accepted \subseteq accepted',
         contacted \subseteq contacted'
  PROVE  Entitled \subseteq Entitled' /\ Sent \subseteq Sent'
BY DEF Entitled, Sent, Justified

\* A copy that was right stays right.
LEMMA VouchedStep ==
  ASSUME Vouched, Entitled \subseteq Entitled', Sent \subseteq Sent',
         \A d \in Devices : dev'[d] = dev[d]
                            \/ Backed(Entitled', Sent', d, dev'[d]),
         \A h \in Reqs :
           \/ req'[h] = req[h]
           \/ /\ Backed(Entitled', Sent', req'[h].device, req'[h].doc)
              /\ Backed(Entitled', Sent', req'[h].device, req'[h].upd),
         \A p \in Polls :
           poll'[p] = poll[p]
           \/ Backed(Entitled', Sent', poll'[p].device, poll'[p].doc),
         \A d \in granted' : d \in granted \/ d \in Entitled'
  PROVE  Vouched'
<1>1. ASSUME NEW d, NEW doc, Backed(Entitled, Sent, d, doc)
      PROVE  Backed(Entitled', Sent', d, doc)
  BY <1>1 DEF Backed
<1>2. (\A d \in Devices : Backed(Entitled, Sent, d, dev[d]))'
  BY <1>1 DEF Vouched
<1>3. (\A h \in Reqs : /\ Backed(Entitled, Sent, req[h].device, req[h].doc)
                       /\ Backed(Entitled, Sent, req[h].device, req[h].upd))'
  BY <1>1 DEF Vouched
<1>4. (\A p \in Polls : Backed(Entitled, Sent, poll[p].device, poll[p].doc))'
  BY <1>1 DEF Vouched
<1>5. (granted \subseteq Entitled)'
  BY DEF Vouched
<1> QED
  BY <1>2, <1>3, <1>4, <1>5 DEF Vouched

\* The steps of one registration.
LEMMA VouchedRequest ==
  ASSUME Typed, Vouched, NEW h \in Reqs, NEW r,
         req' = [req EXCEPT ![h] = r], poll' = poll, granted' \subseteq Entitled,
         texts \subseteq texts', UNCHANGED <<accepted, contacted>>,
         \A d \in Devices : dev'[d] = dev[d] \/ Backed(Entitled, Sent, d, dev'[d]),
         Backed(Entitled', Sent', r.device, r.doc),
         Backed(Entitled', Sent', r.device, r.upd)
  PROVE  Vouched'
<1>1. Entitled \subseteq Entitled' /\ Sent \subseteq Sent'
  BY Grows
<1>2. \A d \in Devices : dev'[d] = dev[d] \/ Backed(Entitled', Sent', d, dev'[d])
  BY <1>1 DEF Backed
<1>3. \A g \in Reqs :
        \/ req'[g] = req[g]
        \/ /\ Backed(Entitled', Sent', req'[g].device, req'[g].doc)
           /\ Backed(Entitled', Sent', req'[g].device, req'[g].upd)
  BY DEF Typed
<1>4. \A d \in granted' : d \in granted \/ d \in Entitled'
  BY <1>1
<1> QED
  BY <1>1, <1>2, <1>3, <1>4, VouchedStep

LEMMA VouchedHeld ==
  ASSUME Typed, Vouched, NEW h \in Reqs
  PROVE  /\ Backed(Entitled, Sent, req[h].device, req[h].doc)
         /\ Backed(Entitled, Sent, req[h].device, req[h].upd)
         /\ Backed(Entitled, Sent, req[h].device, dev[req[h].device])
BY RequestFields DEF Vouched

\* The steps of a registration that send nothing.
LEMMA VouchedPlain ==
  ASSUME Typed, Vouched, NEW h \in Reqs,
         \/ PhoneStart(h) \/ Drops(h) \/ PhoneUpsert(h)
         \/ PhoneCount(h) \/ FindUser(h) \/ NextUser(h) \/ Opens(h)
         \/ PhoneUnchanged(h)
  PROVE  Vouched'
<1> DEFINE r == req'[h]
           d == req[h].device
<1>1. /\ poll' = poll /\ texts' = texts /\ UNCHANGED <<accepted, contacted>>
  BY DEF PhoneStart, Drops, PhoneUpsert, PhoneCount, FindUser,
         NextUser, Opens, PhoneUnchanged
<1>2. Entitled \subseteq Entitled' /\ Sent \subseteq Sent'
  BY <1>1, Grows
<1>3. ASSUME NEW e, NEW doc, Backed(Entitled, Sent, e, doc)
      PROVE  Backed(Entitled', Sent', e, doc)
  BY <1>2, <1>3 DEF Backed
<1>4. req' = [req EXCEPT ![h] = r]
  BY DEF PhoneStart, Drops, PhoneUpsert, PhoneCount, FindUser,
         NextUser, Opens, PhoneUnchanged, Typed
<1>5. granted' \subseteq Entitled
  BY VouchedHeld
     DEF PhoneStart, Drops, PhoneUpsert, PhoneCount, FindUser,
         NextUser, Opens, PhoneUnchanged, Vouched, Backed
<1>6. \A e \in Devices : dev'[e] = dev[e] \/ Backed(Entitled, Sent, e, dev'[e])
  <2>1. CASE dev' = dev
    BY <2>1
  <2>2. CASE PhoneUpsert(h)
    <3>1. d \in Devices /\ dev[d] \in Document
      BY RequestFields DEF Typed, TypeOK
    <3>2. \A e \in Devices \ {d} : dev'[e] = dev[e]
      BY <2>2 DEF PhoneUpsert, Typed, TypeOK
    <3>3. Backed(Entitled, Sent, d, dev'[d])
      BY <2>2, <3>1, VouchedHeld
         DEF PhoneUpsert, Typed, TypeOK, Backed, Document, NoDocument
    <3> QED
      BY <3>2, <3>3
  <2> QED
    BY <2>1, <2>2 DEF PhoneStart, Drops, PhoneCount, FindUser,
                      NextUser, Opens, PhoneUnchanged
<1>7. Backed(Entitled, Sent, r.device, r.doc)
      /\ Backed(Entitled, Sent, r.device, r.upd)
  <2>1. CASE PhoneStart(h)
    <3>1. PICK e \in Devices, m \in Methods, u \in Uams :
            req' = [req EXCEPT ![h] =
                      [IdleRequest EXCEPT !.pc = "upsert", !.device = e,
                         !.method = m, !.uam = u, !.now = now,
                         !.left = SmsLeft(u)]]
      BY <2>1 DEF PhoneStart
    <3>2. r.doc = NoDocument /\ r.upd = NoUpdate
      BY <3>1 DEF Typed, IdleRequest
    <3> QED
      BY <3>2, Blank
  <2>2. CASE Drops(h) \/ PhoneUnchanged(h)
    BY <2>2, Blank DEF Drops, PhoneUnchanged, IdleRequest, Typed
  <2>3. CASE PhoneUpsert(h)
    <3>1. r.device = d /\ r.upd = req[h].upd
          /\ r.doc.checked = dev'[d].checked
          /\ r.doc.sms_sent = dev'[d].sms_sent
          /\ r.doc.sms_time = dev'[d].sms_time
      BY <2>3, RequestFields DEF PhoneUpsert, Typed, TypeOK, Request
    <3>2. Backed(Entitled, Sent, d, dev'[d])
      BY <1>6, RequestFields, VouchedHeld
    <3> QED
      BY <3>1, <3>2, VouchedHeld DEF Backed
  <2>4. CASE PhoneCount(h) \/ Opens(h)
    <3>1. r.device = d /\ r.doc = req[h].doc /\ r.upd = req[h].upd
      <4>1. CASE PhoneCount(h)
        <5> PICK pc, b :
              req' = [req EXCEPT ![h] = [@ EXCEPT !.pc = pc, !.smssend = b]]
          BY <4>1 DEF PhoneCount
        <5> QED
          BY RequestFields DEF Typed, Request
      <4>2. CASE Opens(h)
        BY <4>2, RequestFields DEF Opens, Typed, Request
      <4> QED
        BY <2>4, <4>1, <4>2
    <3> QED
      BY <3>1, VouchedHeld
  <2>5. CASE FindUser(h) \/ NextUser(h)
    <3>1. /\ r.device = d /\ r.doc = req[h].doc
          /\ r.upd.checked = req[h].upd.checked
          /\ r.upd.sms_sent = req[h].upd.sms_sent
          /\ r.upd.sms_time = req[h].upd.sms_time
      <4>1. PICK pc, id :
              \/ req' = [req EXCEPT ![h].pc = pc]
              \/ req' = [req EXCEPT ![h] =
                           [@ EXCEPT !.pc = pc, !.upd.username = id]]
        BY <2>5 DEF FindUser, NextUser
      <4> QED
        <5>1. CASE req' = [req EXCEPT ![h].pc = pc]
          BY <5>1, RequestFields DEF Typed, Request
        <5>2. CASE req' = [req EXCEPT ![h] =
                             [@ EXCEPT !.pc = pc, !.upd.username = id]]
          BY <5>2, RequestFields DEF Typed, Request, Update
        <5> QED
          BY <4>1, <5>1, <5>2
    <3> QED
      BY <3>1, VouchedHeld DEF Backed
  <2> QED
    BY <2>1, <2>2, <2>3, <2>4, <2>5
<1> HIDE DEF r
<1> QED
  BY <1>1, <1>3, <1>4, <1>5, <1>6, <1>7, VouchedRequest

LEMMA VouchedProceed ==
  ASSUME Typed, Vouched, NEW h \in Reqs, NEW upd \in Update,
         Proceed(h, upd), texts \subseteq texts',
         Backed(Entitled', Sent', req[h].device, upd),
         UNCHANGED <<dev, poll, granted, accepted, contacted>>
  PROVE  Vouched'
<1> DEFINE r == [req[h] EXCEPT !.pc = "update", !.upd = upd]
<1>1. r.upd = upd /\ r.device = req[h].device /\ r.doc = req[h].doc
  BY RequestFields DEF Request
<1>2. req' = [req EXCEPT ![h] = r]
  BY DEF Proceed
<1> HIDE DEF r
<1>3. Backed(Entitled', Sent', r.device, r.doc)
  BY <1>1, Grows, VouchedHeld DEF Backed
<1> QED
  BY <1>1, <1>2, <1>3, VouchedRequest DEF Vouched

\* A registration without checks, or one that keeps the code it has read.
LEMMA VouchedQuiet ==
  ASSUME Typed, Vouched, NEW h \in Reqs, PhoneQuiet(h) PROVE Vouched'
<1> DEFINE r == req[h]
<1>1. UNCHANGED <<dev, poll, granted, texts, accepted, contacted>>
  BY DEF PhoneQuiet
<1>2. Entitled \subseteq Entitled' /\ Sent \subseteq Sent'
  BY <1>1, Grows
<1>3. ASSUME NEW upd \in Update, Backed(Entitled, Sent, r.device, upd),
             Proceed(h, upd)
      PROVE  Vouched'
  <2>1. Backed(Entitled', Sent', r.device, upd)
    BY <1>2, <1>3 DEF Backed
  <2> QED
    BY <1>1, <1>3, <2>1, VouchedProceed
<1>4. CASE r.uam.nosms /\ Proceed(h, [r.upd EXCEPT !.checked = TRUE])
  <2>1. r.device \in Entitled
    BY <1>4, RequestFields DEF Entitled, Justified
  <2>2. [r.upd EXCEPT !.checked = TRUE] \in Update
    BY RequestFields DEF Update
  <2>3. Backed(Entitled, Sent, r.device, [r.upd EXCEPT !.checked = TRUE])
    BY <2>1, RequestFields, VouchedHeld DEF Backed, Update
  <2> QED
    BY <1>3, <1>4, <2>2, <2>3
<1>5. CASE \E upd \in WithNumber(r) : Proceed(h, upd)
  <2> PICK upd \in WithNumber(r) : Proceed(h, upd)
    BY <1>5
  <2>1. upd \in Update
    BY RequestFields, WithNumberTyped
  <2>2. Backed(Entitled, Sent, r.device, upd)
    BY RequestFields, WithNumberKeeps, VouchedHeld DEF Backed
  <2> QED
    BY <1>3, <2>1, <2>2
<1>6. CASE \E upd \in WithNumber(r), c \in CodeFor(r.doc) :
             TooSoon(r) /\ Proceed(h, [upd EXCEPT !.sms_sent = c])
  <2> PICK upd \in WithNumber(r), c \in CodeFor(r.doc) :
             TooSoon(r) /\ Proceed(h, [upd EXCEPT !.sms_sent = c])
    BY <1>6
  <2>1. upd \in Update /\ c \in Codes
    BY RequestFields, WithNumberTyped, CodeForTyped
  <2>2. [upd EXCEPT !.sms_sent = c] \in Update
    BY <2>1 DEF Update, Opt
  <2>3. <<r.device, c>> \in Sent
    BY VouchedHeld DEF TooSoon, CodeFor, Backed
  <2>4. Backed(Entitled, Sent, r.device, [upd EXCEPT !.sms_sent = c])
    <3>1. c # None
      BY <2>1, NoneAssumption
    <3>2. upd.checked = r.upd.checked
      BY RequestFields, WithNumberKeeps
    <3> QED
      BY <2>1, <2>3, <3>1, <3>2, VouchedHeld DEF Backed, Update
  <2> QED
    BY <1>3, <2>2, <2>4
<1> QED
  BY <1>4, <1>5, <1>6 DEF PhoneQuiet

LEMMA VouchedText ==
  ASSUME Typed, Vouched, NEW h \in Reqs, PhoneText(h) PROVE Vouched'
<1> DEFINE r == req[h]
           id == Cardinality(texts) + 1
<1> PICK upd \in WithNumber(r), c \in CodeFor(r.doc) :
      /\ Proceed(h, [upd EXCEPT !.sms_sent = c, !.sms_time = r.now])
      /\ texts' = texts \cup {NewText(id, r, c)}
  BY DEF PhoneText
<1> DEFINE new == [upd EXCEPT !.sms_sent = c, !.sms_time = r.now]
<1>1. upd \in Update /\ c \in Codes
  BY RequestFields, WithNumberTyped, CodeForTyped
<1>2. new \in Update
  BY <1>1, RequestFields DEF Update, Opt
<1>3. UNCHANGED <<dev, poll, granted, accepted, contacted>>
  BY DEF PhoneText
<1>4. Entitled \subseteq Entitled' /\ Sent \subseteq Sent'
  BY <1>3, Grows
<1>5. <<r.device, c>> \in Sent'
  <2> DEFINE m == NewText(id, r, c)
  <2>1. m \in texts'
    OBVIOUS
  <2>2. m.device = r.device /\ m.code = c
    BY DEF NewText
  <2> HIDE DEF m
  <2> QED
    BY <2>1, <2>2 DEF Sent
<1>6. Backed(Entitled', Sent', r.device, new)
  <2>1. c # None
    BY <1>1, NoneAssumption
  <2>2. upd.checked = r.upd.checked
    BY RequestFields, WithNumberKeeps
  <2>3. new.checked = upd.checked /\ new.sms_sent = c
    BY <1>1 DEF Update
  <2> QED
    BY <1>4, <1>5, <2>1, <2>2, <2>3, VouchedHeld DEF Backed
<1> HIDE DEF new
<1> QED
  BY <1>2, <1>3, <1>6, VouchedProceed DEF new

\* The last step joins two documents that are both right.
LEMMA VouchedUpdate ==
  ASSUME Typed, Vouched, NEW h \in Reqs, Gives(h) PROVE Vouched'
<1> DEFINE r == req[h]
           doc == Apply(dev[r.device], r.upd, r.method)
<1>1. /\ dev' = [dev EXCEPT ![r.device] = doc]
      /\ req' = [req EXCEPT ![h] = IdleRequest]
      /\ granted' = IF doc.checked THEN granted \cup {r.device} ELSE granted
      /\ UNCHANGED <<poll, texts, accepted, contacted>>
  BY DEF Gives
<1>2. Backed(Entitled, Sent, r.device, doc)
  <2>1. /\ doc.checked = (dev[r.device].checked \/ r.upd.checked)
        /\ doc.sms_sent = Set(dev[r.device].sms_sent, r.upd.sms_sent)
        /\ doc.sms_time = Set(dev[r.device].sms_time, r.upd.sms_time)
    <3>1. dev[r.device] \in Document
      BY RequestFields DEF Typed, TypeOK
    <3> QED
      BY <3>1 DEF Apply, Document
  <2> HIDE DEF doc
  <2> QED
    BY <2>1, VouchedHeld DEF Backed, Set
<1> HIDE DEF doc
<1>3. \A d \in Devices : dev'[d] = dev[d] \/ Backed(Entitled, Sent, d, dev'[d])
  BY <1>1, <1>2, RequestFields DEF Typed, TypeOK
<1>4. granted' \subseteq Entitled
  BY <1>1, <1>2 DEF Vouched, Backed
<1>5. /\ Backed(Entitled', Sent', IdleRequest.device, IdleRequest.doc)
      /\ Backed(Entitled', Sent', IdleRequest.device, IdleRequest.upd)
  BY Blank DEF IdleRequest
<1> QED
  BY <1>1, <1>3, <1>4, <1>5, VouchedRequest

\* What the other handlers do to a device: it is checked and may be.
LEMMA VouchedCheck ==
  ASSUME Typed, Vouched, NEW d \in Devices, d \in Entitled',
         dev' = [dev EXCEPT ![d].checked = TRUE],
         Entitled \subseteq Entitled', Sent \subseteq Sent'
  PROVE  \A e \in Devices : dev'[e] = dev[e]
                            \/ Backed(Entitled', Sent', e, dev'[e])
<1>1. /\ dev'[d].sms_sent = dev[d].sms_sent
      /\ dev'[d].sms_time = dev[d].sms_time
      /\ \A e \in Devices \ {d} : dev'[e] = dev[e]
  BY DEF Typed, TypeOK, Document
<1>2. Backed(Entitled', Sent', d, dev'[d])
  BY <1>1 DEF Vouched, Backed
<1> QED
  BY <1>1, <1>2

LEMMA VouchedRightCode ==
  ASSUME Typed, Vouched, NEW p \in Polls, NEW d \in Devices, NEW c \in Codes,
         PollRightCode(p, d, c)
  PROVE  Vouched'
<1>1. /\ dev' = [dev EXCEPT ![d].checked = TRUE] /\ dev[d].sms_sent = c
      /\ accepted' = accepted \cup {<<d, c>>} /\ granted' = granted \cup {d}
      /\ UNCHANGED <<req, poll, texts, contacted>>
  BY DEF PollRightCode
<1>2. Entitled \subseteq Entitled' /\ Sent \subseteq Sent'
  BY <1>1, Grows
<1>3. d \in Entitled'
  <2>1. <<d, c>> \in Sent
    BY <1>1, NoneAssumption DEF Vouched, Backed
  <2>2. PICK m \in texts : m.device = d /\ m.code = c
    BY <2>1 DEF Sent
  <2> QED
    BY <1>1, <2>2 DEF Entitled, Justified
<1>4. \A e \in Devices : dev'[e] = dev[e]
                         \/ Backed(Entitled', Sent', e, dev'[e])
  BY <1>1, <1>2, <1>3, VouchedCheck
<1> QED
  BY <1>1, <1>2, <1>3, <1>4, VouchedStep

LEMMA VouchedWrongCode ==
  ASSUME Typed, Vouched, NEW p \in Polls, NEW d \in Devices, NEW c \in Codes,
         PollWrongCode(p, d, c)
  PROVE  Vouched'
<1> DEFINE n == IF dev[d].try > TryMax THEN dev[d].try ELSE dev[d].try + 1
           doc == [dev[d] EXCEPT !.try = n]
<1>1. /\ dev' = [dev EXCEPT ![d] = doc]
      /\ poll' = IF n > TryMax THEN poll
                 ELSE [poll EXCEPT ![p] = [pc |-> "sleep", device |-> d,
                                           doc |-> doc]]
      /\ UNCHANGED <<req, texts, accepted, contacted, granted>>
  BY DEF PollWrongCode
<1>2. Entitled \subseteq Entitled' /\ Sent \subseteq Sent'
  BY <1>1, Grows
<1>3. Backed(Entitled', Sent', d, doc)
  <2>1. /\ doc.checked = dev[d].checked /\ doc.sms_sent = dev[d].sms_sent
        /\ doc.sms_time = dev[d].sms_time
    BY DEF Typed, TypeOK, Document
  <2> HIDE DEF doc
  <2> QED
    BY <1>2, <2>1 DEF Vouched, Backed
<1> HIDE DEF n, doc
<1>4. \A e \in Devices : dev'[e] = dev[e]
                         \/ Backed(Entitled', Sent', e, dev'[e])
  BY <1>1, <1>3 DEF Typed, TypeOK
<1>5. \A q \in Polls : poll'[q] = poll[q]
                       \/ Backed(Entitled', Sent', poll'[q].device, poll'[q].doc)
  BY <1>1, <1>3 DEF Typed, TypeOK
<1> QED
  BY <1>1, <1>2, <1>4, <1>5, VouchedStep

\* An answer trusts the document it was built from, however old.
LEMMA VouchedAnswer ==
  ASSUME Typed, Vouched, NEW p \in Polls, NEW d \in Devices, NEW doc,
         Backed(Entitled, Sent, d, doc), Answer(p, d, doc),
         UNCHANGED <<dev, req, texts, accepted, contacted>>
  PROVE  Vouched'
<1>1. Entitled \subseteq Entitled' /\ Sent \subseteq Sent'
  BY Grows
<1>2. \A e \in granted' : e \in granted \/ e \in Entitled'
  BY <1>1 DEF Answer, Backed
<1>3. \A q \in Polls : poll'[q] = poll[q]
                       \/ Backed(Entitled', Sent', poll'[q].device, poll'[q].doc)
  BY Blank DEF Answer, IdlePoll, Typed, TypeOK
<1> QED
  BY <1>1, <1>2, <1>3, VouchedStep

LEMMA VouchedPoll ==
  ASSUME Typed, Vouched, NEW p \in Polls, PollStep(p) \/ PollRequest(p)
  PROVE  Vouched'
<1> DEFINE d == poll[p].device
<1>1. d \in Devices /\ Phone(d) \in Phones
  BY DEF Typed, TypeOK, Polling, Devices, Phone
<1>2. ASSUME PollWake(p) PROVE Vouched'
  BY <1>1, <1>2, VouchedAnswer DEF PollWake, Vouched
<1>3. ASSUME NEW e \in Devices, PollPlain(p, e) PROVE Vouched'
  BY <1>3, VouchedAnswer DEF PollPlain, Vouched
<1>4. ASSUME PollSmsru(p) PROVE Vouched'
  <2>1. Entitled \subseteq Entitled' /\ Sent \subseteq Sent'
    BY <1>4, Grows DEF PollSmsru
  <2>2. \A e \in Devices : dev'[e] = dev[e]
                           \/ Backed(Entitled', Sent', e, dev'[e])
    <3>1. CASE dev' = [dev EXCEPT ![d].checked = TRUE]
               /\ contacted' = contacted \cup {Phone(d)}
      <4>1. d \in Entitled'
        BY <1>1, <3>1 DEF Entitled, Justified
      <4> QED
        BY <1>1, <2>1, <3>1, <4>1, VouchedCheck
    <3>2. CASE dev' = dev
      BY <3>2
    <3> QED
      BY <1>4, <3>1, <3>2 DEF PollSmsru
  <2>3. \A q \in Polls : poll'[q] = poll[q]
                         \/ Backed(Entitled', Sent', poll'[q].device, poll'[q].doc)
    BY <1>4, Blank DEF PollSmsru, IdlePoll, Typed, TypeOK
  <2>4. UNCHANGED <<req, granted>>
    BY <1>4 DEF PollSmsru
  <2> QED
    BY <2>1, <2>2, <2>3, <2>4, VouchedStep
<1> QED
  BY <1>2, <1>3, <1>4, VouchedRightCode, VouchedWrongCode
     DEF PollStep, PollRequest

LEMMA VouchedIncoming ==
  ASSUME Typed, Vouched, NEW phone \in Phones, Incoming(phone)
  PROVE  Vouched'
<1>1. UNCHANGED <<req, poll, texts, accepted, granted>>
  BY DEF Incoming, TextArrives, CallArrives, TokenArrives
<1>2. PICK d \in Devices : /\ Phone(d) = phone
                           /\ dev' = [dev EXCEPT ![d].checked = TRUE]
                           /\ contacted' = contacted \cup {phone}
  BY DEF Incoming, TextArrives, CallArrives, TokenArrives, CheckOne, SeenSince
<1>3. Entitled \subseteq Entitled' /\ Sent \subseteq Sent'
  BY <1>1, <1>2, Grows
<1>4. d \in Entitled'
  BY <1>2 DEF Entitled, Justified
<1>5. \A e \in Devices : dev'[e] = dev[e]
                         \/ Backed(Entitled', Sent', e, dev'[e])
  BY <1>2, <1>3, <1>4, VouchedCheck
<1> QED
  BY <1>1, <1>3, <1>5, VouchedStep

LEMMA VouchedEnds == ASSUME Typed, Vouched, NEW H, NEW Q, BreakOff(H, Q) PROVE Vouched'
<1>1. UNCHANGED <<dev, texts, accepted, contacted, granted>>
  BY DEF BreakOff
<1>2. \A h \in Reqs : \/ req'[h] = req[h]
                      \/ req'[h].doc = NoDocument /\ req'[h].upd = NoUpdate
  BY DEF BreakOff, IdleRequest
<1>3. \A p \in Polls : poll'[p] = poll[p] \/ poll'[p].doc = NoDocument
  BY DEF BreakOff, IdlePoll
<1> QED
  BY <1>1, <1>2, <1>3, Blank, Grows, VouchedStep

LEMMA VouchedNext ==
  ASSUME Typed, Vouched, [Next]_vars PROVE Vouched'
<1>1. ASSUME NEW h \in Reqs, PhoneStart(h) \/ Moves(h) PROVE Vouched'
  BY <1>1, VouchedPlain, VouchedQuiet, VouchedText, VouchedUpdate
     DEF Moves
<1>2. ASSUME TextLands \/ Tick \/ UNCHANGED vars PROVE Vouched'
  <2>1. UNCHANGED <<dev, req, poll, texts, accepted, contacted, granted>>
    BY <1>2 DEF TextLands, Tick, vars
  <2> QED
    BY <2>1, Grows, VouchedStep
<1> QED
  BY <1>1, <1>2, VouchedPoll, VouchedIncoming, VouchedEnds, NextCases

THEOREM VouchedAlways == Spec => [](Typed /\ Vouched)
<1>1. Init => Typed /\ Vouched
  BY TypedInit, VouchedInit
<1>2. Typed /\ Vouched /\ [Next]_vars => (Typed /\ Vouched)'
  BY TypedNext, VouchedNext
<1> QED
  BY <1>1, <1>2, PTL DEF Spec

\* A page is given its password only after the phone number was proved, for
\* every number of overlapping requests, polls, calls and texts.
THEOREM ProofBeforePassword == Spec => []PasswordOnlyAfterProof
<1>1. Vouched => PasswordOnlyAfterProof
  BY DEF Vouched, PasswordOnlyAfterProof, Entitled
<1> QED
  BY <1>1, VouchedAlways, PTL

\* The code the portal waits for was sent to the device it waits for.
THEOREM CodeWasTexted == Spec => []StoredCodeWasTexted
<1>1. Vouched => StoredCodeWasTexted
  <2> SUFFICES ASSUME Vouched, NEW d \in Devices, dev[d].sms_sent # None
               PROVE  \E m \in texts : m.device = d /\ m.code = dev[d].sms_sent
    BY DEF StoredCodeWasTexted
  <2>1. <<d, dev[d].sms_sent>> \in Sent
    BY DEF Vouched, Backed
  <2> QED
    BY <2>1 DEF Sent
<1> QED
  BY <1>1, VouchedAlways, PTL

----------------------------------------------------------------------------
(* A device stays in *)

\* The handlers past their first operation work on a device that is in the
\* collection, and nothing is checked that is not there.
Present ==
  /\ \A d \in Devices : dev[d].known \/ ~dev[d].checked
  /\ \A h \in Reqs : req[h].pc \in {"idle", "upsert"}
                     \/ dev[req[h].device].known
  /\ \A p \in Polls : poll[p].pc = "idle" \/ dev[poll[p].device].known

\* What every step does to a device: it stays in the collection and checked.
KeepsDevice(d) ==
  /\ dev[d].known => dev'[d].known
  /\ dev[d].checked => dev'[d].checked
  /\ dev'[d].known \/ ~dev'[d].checked

LEMMA PresentInit == Init => Present
BY DEF Init, Present, NoDocument, IdleRequest, IdlePoll

LEMMA PresentStep ==
  ASSUME Typed, Typed', Present, \A d \in Devices : KeepsDevice(d),
         \A h \in Reqs :
           \/ req'[h].pc \in {"idle", "upsert"}
           \/ dev'[req'[h].device].known
           \/ req'[h].device = req[h].device /\ req[h].pc \notin {"idle", "upsert"},
         \A p \in Polls :
           poll'[p].pc = "idle" \/ poll'[p] = poll[p]
           \/ dev'[poll'[p].device].known
  PROVE  Present'
<1>1. \A h \in Reqs : req[h].device \in Devices
  BY DEF Typed, TypeOK, Request
<1>2. \A p \in Polls : poll[p].device \in Devices
  BY DEF Typed, TypeOK, Polling
<1> QED
  BY <1>1, <1>2 DEF Present, KeepsDevice

LEMMA SameKeeps ==
  ASSUME Present, dev' = dev PROVE \A d \in Devices : KeepsDevice(d)
BY DEF KeepsDevice, Present

LEMMA CheckKeeps ==
  ASSUME Typed, Present, NEW d \in Devices, dev[d].known,
         dev' = [dev EXCEPT ![d].checked = TRUE]
  PROVE  \A e \in Devices : KeepsDevice(e)
BY DEF KeepsDevice, Present, Typed, TypeOK, Document

LEMMA RequestKeeps ==
  ASSUME Typed, Present, NEW h \in Reqs, PhoneStart(h) \/ Moves(h)
  PROVE  \A d \in Devices : KeepsDevice(d)
<1> DEFINE d == req[h].device
<1>1. d \in Devices /\ dev[d] \in Document
  BY RequestFields DEF Typed, TypeOK
<1>2. ASSUME PhoneUpsert(h) PROVE \A e \in Devices : KeepsDevice(e)
  <2>1. \A e \in Devices \ {d} : dev'[e] = dev[e]
    BY <1>2 DEF PhoneUpsert, Typed, TypeOK
  <2>2. dev'[d].known /\ (dev[d].known => dev'[d].checked = dev[d].checked)
    BY <1>1, <1>2
       DEF PhoneUpsert, Typed, TypeOK, Document, NoDocument
  <2> QED
    BY <2>1, <2>2 DEF KeepsDevice, Present
<1>3. ASSUME Gives(h) PROVE \A e \in Devices : KeepsDevice(e)
  <2>1. \A e \in Devices \ {d} : dev'[e] = dev[e]
    BY <1>3 DEF Gives, Typed, TypeOK
  <2>2. /\ dev'[d].checked = (dev[d].checked \/ req[h].upd.checked)
        /\ dev'[d].known = dev[d].known
    BY <1>1, <1>3 DEF Gives, Apply, Typed, TypeOK, Document
  <2>3. dev[d].known
    BY <1>3 DEF Gives, Present
  <2> QED
    BY <2>1, <2>2, <2>3 DEF KeepsDevice, Present
<1>4. PhoneUpsert(h) \/ Gives(h) \/ dev' = dev
  BY DEF Moves, PhoneStart, Drops, PhoneCount, FindUser, NextUser,
         Opens, PhoneUnchanged, PhoneQuiet, PhoneText
<1> QED
  BY <1>2, <1>3, <1>4, SameKeeps

\* A registration moves past "upsert" when its device is in the collection.
LEMMA RequestPresent ==
  ASSUME Typed, Present, NEW h \in Reqs, PhoneStart(h) \/ Moves(h)
  PROVE  \A g \in Reqs :
           \/ req'[g].pc \in {"idle", "upsert"}
           \/ dev'[req'[g].device].known
           \/ req'[g].device = req[g].device /\ req[g].pc \notin {"idle", "upsert"}
<1>1. \A g \in Reqs \ {h} : req'[g] = req[g]
  BY DEF Moves, PhoneStart, Drops, PhoneUpsert, PhoneCount,
         FindUser, NextUser, Opens, PhoneUnchanged, PhoneQuiet,
         PhoneText, Gives, Proceed, Typed
<1>2. ASSUME NEW g \in Reqs \ {h}
      PROVE  \/ req'[g].pc \in {"idle", "upsert"}
             \/ dev'[req'[g].device].known
  <2>1. req[g].device \in Devices
    BY RequestFields
  <2>2. \A d \in Devices : dev[d].known => dev'[d].known
    BY RequestKeeps DEF KeepsDevice
  <2> QED
    BY <1>1, <2>1, <2>2 DEF Present
<1>3. CASE PhoneStart(h)
  <2>1. req'[h].pc = "upsert"
    <3>1. PICK d, m, u :
            req' = [req EXCEPT ![h] =
                      [IdleRequest EXCEPT !.pc = "upsert", !.device = d,
                         !.method = m, !.uam = u, !.now = now,
                         !.left = SmsLeft(u)]]
      BY <1>3 DEF PhoneStart
    <3> QED
      BY <3>1 DEF Typed, IdleRequest
  <2> QED
    BY <1>2, <2>1
<1>4. CASE Drops(h) \/ PhoneUnchanged(h) \/ Gives(h)
  <2>1. req'[h].pc = "idle"
    BY <1>4 DEF Drops, PhoneUnchanged, Gives, IdleRequest, Typed
  <2> QED
    BY <1>2, <2>1
<1>5. CASE PhoneUpsert(h)
  <2>1. req'[h].device = req[h].device /\ dev'[req[h].device].known
    BY <1>5, RequestFields
       DEF PhoneUpsert, Typed, TypeOK, Request, Document, NoDocument
  <2> QED
    BY <1>2, <2>1
<1>6. CASE \/ PhoneCount(h) \/ FindUser(h) \/ NextUser(h) \/ Opens(h)
           \/ PhoneQuiet(h) \/ PhoneText(h)
  <2>1. req[h].pc \notin {"idle", "upsert"}
    BY <1>6 DEF PhoneCount, FindUser, NextUser, Opens, PhoneQuiet,
                PhoneText, Registers
  <2>2. req'[h].device = req[h].device
    <3>1. ASSUME PhoneCount(h) PROVE req'[h].device = req[h].device
      BY <3>1, RequestFields DEF PhoneCount, Typed, Request
    <3>2. ASSUME FindUser(h) PROVE req'[h].device = req[h].device
      BY <3>2, RequestFields DEF FindUser, Typed, Request
    <3>3. ASSUME NextUser(h) PROVE req'[h].device = req[h].device
      BY <3>3, RequestFields DEF NextUser, Typed, Request
    <3>4. ASSUME Opens(h) PROVE req'[h].device = req[h].device
      BY <3>4, RequestFields DEF Opens, Typed, Request
    <3>5. ASSUME NEW upd, Proceed(h, upd)
          PROVE  req'[h].device = req[h].device
      BY <3>5, RequestFields DEF Proceed, Typed, Request
    <3>6. PhoneQuiet(h) \/ PhoneText(h) => \E upd : Proceed(h, upd)
      BY DEF PhoneQuiet, PhoneText
    <3> QED
      BY <1>6, <3>1, <3>2, <3>3, <3>4, <3>5, <3>6
  <2> QED
    BY <1>2, <2>1, <2>2
<1> QED
  BY <1>3, <1>4, <1>5, <1>6 DEF Moves

\* A poll finds its device in the collection.
LEMMA PollPresent ==
  ASSUME Typed, Present, NEW p \in Polls, PollStep(p) \/ PollRequest(p)
  PROVE  /\ \A d \in Devices : KeepsDevice(d)
         /\ \A q \in Polls : poll'[q].pc = "idle" \/ poll'[q] = poll[q]
                             \/ dev'[poll'[q].device].known
<1> DEFINE Moved == \A q \in Polls : poll'[q].pc = "idle" \/ poll'[q] = poll[q]
                                     \/ dev'[poll'[q].device].known
           d == poll[p].device
<1>1. d \in Devices
  BY DEF Typed, TypeOK, Polling
<1>2. ASSUME NEW e \in Devices, NEW doc, dev[e].known, Answer(p, e, doc),
             dev' = dev
      PROVE  (\A f \in Devices : KeepsDevice(f)) /\ Moved
  BY <1>2, SameKeeps DEF Answer, IdlePoll, Typed, TypeOK
<1>3. ASSUME PollWake(p) PROVE (\A f \in Devices : KeepsDevice(f)) /\ Moved
  BY <1>1, <1>2, <1>3 DEF PollWake, Present
<1>4. ASSUME PollSmsru(p) PROVE (\A f \in Devices : KeepsDevice(f)) /\ Moved
  <2>1. dev[d].known
    BY <1>4 DEF PollSmsru, Present
  <2>2. \A f \in Devices : KeepsDevice(f)
    BY <1>1, <1>4, <2>1, SameKeeps, CheckKeeps DEF PollSmsru
  <2>3. Moved
    BY <1>4 DEF PollSmsru, IdlePoll, Typed, TypeOK
  <2> QED
    BY <2>2, <2>3
<1>5. ASSUME NEW e \in Devices, PollPlain(p, e)
      PROVE  (\A f \in Devices : KeepsDevice(f)) /\ Moved
  BY <1>2, <1>5 DEF PollPlain
<1>6. ASSUME NEW e \in Devices, NEW c \in Codes, PollRightCode(p, e, c)
      PROVE  (\A f \in Devices : KeepsDevice(f)) /\ Moved
  BY <1>6, CheckKeeps DEF PollRightCode
<1>7. ASSUME NEW e \in Devices, NEW c \in Codes, PollWrongCode(p, e, c)
      PROVE  (\A f \in Devices : KeepsDevice(f)) /\ Moved
  <2>1. /\ dev'[e].known = dev[e].known /\ dev[e].known
        /\ dev'[e].checked = dev[e].checked
        /\ \A f \in Devices \ {e} : dev'[f] = dev[f]
    BY <1>7 DEF PollWrongCode, Typed, TypeOK, Document
  <2>2. \A f \in Devices : KeepsDevice(f)
    BY <2>1 DEF KeepsDevice, Present
  <2>3. Moved
    BY <1>7, <2>1 DEF PollWrongCode, Typed, TypeOK
  <2> QED
    BY <2>2, <2>3
<1> QED
  BY <1>3, <1>4, <1>5, <1>6, <1>7 DEF PollStep, PollRequest

LEMMA IncomingKeeps ==
  ASSUME Typed, Present, NEW phone \in Phones, Incoming(phone)
  PROVE  \A d \in Devices : KeepsDevice(d)
<1>1. PICK d \in Devices : /\ dev[d].known
                           /\ dev' = [dev EXCEPT ![d].checked = TRUE]
  BY DEF Incoming, TextArrives, CallArrives, TokenArrives, CheckOne, SeenSince
<1> QED
  BY <1>1, CheckKeeps

LEMMA StepKeeps ==
  ASSUME Typed, Typed', Present, [Next]_vars
  PROVE  Present' /\ \A d \in Devices : KeepsDevice(d)
<1>1. ASSUME NEW h \in Reqs, PhoneStart(h) \/ Moves(h)
      PROVE  Present' /\ \A d \in Devices : KeepsDevice(d)
  <2>1. poll' = poll
    BY <1>1 DEF Moves, PhoneStart, Drops, PhoneUpsert, PhoneCount,
                FindUser, NextUser, Opens, PhoneUnchanged, PhoneQuiet,
                PhoneText, Gives
  <2>2. \A d \in Devices : KeepsDevice(d)
    BY <1>1, RequestKeeps
  <2> QED
    BY <1>1, <2>1, <2>2, RequestPresent, PresentStep
<1>2. ASSUME req' = req, \A d \in Devices : KeepsDevice(d),
             \A p \in Polls : poll'[p].pc = "idle" \/ poll'[p] = poll[p]
                              \/ dev'[poll'[p].device].known
      PROVE  Present' /\ \A d \in Devices : KeepsDevice(d)
  <2>1. \A h \in Reqs :
          \/ req'[h].pc \in {"idle", "upsert"}
          \/ dev'[req'[h].device].known
          \/ /\ req'[h].device = req[h].device
             /\ req[h].pc \notin {"idle", "upsert"}
    BY <1>2
  <2> QED
    BY <1>2, <2>1, PresentStep
<1>3. ASSUME NEW p \in Polls, PollStep(p) \/ PollRequest(p)
      PROVE  Present' /\ \A d \in Devices : KeepsDevice(d)
  <2>1. req' = req
    BY <1>3 DEF PollStep, PollRequest, PollWake, PollSmsru, PollPlain,
                PollRightCode, PollWrongCode
  <2> QED
    BY <1>2, <1>3, <2>1, PollPresent
<1>4. ASSUME NEW phone \in Phones, Incoming(phone)
      PROVE  Present' /\ \A d \in Devices : KeepsDevice(d)
  <2>1. req' = req /\ poll' = poll
    BY <1>4 DEF Incoming, TextArrives, CallArrives, TokenArrives
  <2> QED
    BY <1>2, <1>4, <2>1, IncomingKeeps
<1>5. ASSUME TextLands \/ Tick \/ UNCHANGED vars
      PROVE  Present' /\ \A d \in Devices : KeepsDevice(d)
  <2>1. dev' = dev /\ req' = req /\ poll' = poll
    BY <1>5 DEF TextLands, Tick, vars
  <2> QED
    BY <1>2, <2>1, SameKeeps
<1>6. ASSUME NEW H, NEW Q, BreakOff(H, Q)
      PROVE  Present' /\ \A d \in Devices : KeepsDevice(d)
  <2>1. /\ dev' = dev
        /\ \A h \in Reqs : req'[h] = req[h] \/ req'[h].pc = "idle"
        /\ \A p \in Polls : poll'[p] = poll[p] \/ poll'[p].pc = "idle"
    BY <1>6 DEF BreakOff, IdleRequest, IdlePoll
  <2>2. \A d \in Devices : KeepsDevice(d)
    BY <2>1, SameKeeps
  <2> QED
    BY <2>1, <2>2, PresentStep
<1> QED
  BY <1>1, <1>3, <1>4, <1>5, <1>6, NextCases

\* Once let in a device stays in, whatever a registration that read it before
\* it was checked writes afterwards.
THEOREM CheckedForGood == Spec => StaysChecked
<1>1. Init => Typed /\ Present
  BY TypedInit, PresentInit
<1>2. Typed /\ Present /\ [Next]_vars => (Typed /\ Present)'
  BY TypedNext, StepKeeps
<1>3. Typed /\ Typed' /\ Present /\ [Next]_vars
        => [\A d \in Devices : dev[d].checked => dev'[d].checked]_vars
  BY StepKeeps DEF KeepsDevice
<1> QED
  BY <1>1, <1>2, <1>3, PTL DEF Spec, StaysChecked

----------------------------------------------------------------------------
(* The refinement of Admission *)

\* The devices that are in; whether some portal asks for no proof.
In == {d \in Devices : dev[d].checked}
Unasked == \E u \in Uams : u.nosms

\* A copy of a document, however old, says no more than the collection does: a
\* device that was in when it was read is in.  What a registration is going to
\* write checks a device only where no proof is asked for.
Current ==
  /\ \A h \in Reqs : /\ req[h].doc.checked => dev[req[h].device].checked
                     /\ req[h].upd.checked => Unasked
  /\ \A p \in Polls : poll[p].doc.checked => dev[poll[p].device].checked

LEMMA CurrentInit == Init => Current
BY DEF Init, Current, NoDocument, NoUpdate, IdleRequest, IdlePoll

LEMMA CurrentStep ==
  ASSUME Typed, Current, \A d \in Devices : KeepsDevice(d),
         \A h \in Reqs :
           \/ req'[h] = req[h]
           \/ /\ req'[h].doc.checked => dev'[req'[h].device].checked
              /\ req'[h].upd.checked => Unasked,
         \A p \in Polls :
           poll'[p] = poll[p]
           \/ (poll'[p].doc.checked => dev'[poll'[p].device].checked)
  PROVE  Current'
<1>1. \A h \in Reqs : req[h].device \in Devices
  BY DEF Typed, TypeOK, Request
<1>2. \A p \in Polls : poll[p].device \in Devices
  BY DEF Typed, TypeOK, Polling
<1>3. Unasked' = Unasked
  BY DEF Unasked
<1> QED
  BY <1>1, <1>2, <1>3 DEF Current, KeepsDevice

\* A registration starts anew, reads its device, or keeps what it has read.
LEMMA RequestCopies ==
  ASSUME Typed, Current, NEW h \in Reqs, PhoneStart(h) \/ Moves(h)
  PROVE  /\ \A g \in Reqs \ {h} : req'[g] = req[g]
         /\ \/ req'[h].doc = NoDocument /\ req'[h].upd = NoUpdate
            \/ /\ req'[h].device = req[h].device
               /\ req'[h].doc.checked => \/ req[h].doc.checked
                                         \/ dev'[req[h].device].checked
               /\ req'[h].upd.checked => Unasked
<1> DEFINE r == req[h]
           Kept == /\ req'[h].device = r.device
                   /\ req'[h].doc.checked => \/ r.doc.checked
                                             \/ dev'[r.device].checked
                   /\ req'[h].upd.checked => Unasked
           Goal == \/ req'[h].doc = NoDocument /\ req'[h].upd = NoUpdate
                   \/ Kept
<1>1. \A g \in Reqs \ {h} : req'[g] = req[g]
  BY DEF Moves, PhoneStart, Drops, PhoneUpsert, PhoneCount,
         FindUser, NextUser, Opens, PhoneUnchanged, PhoneQuiet,
         PhoneText, Gives, Proceed, Typed
<1>2. r.upd.checked => Unasked
  BY DEF Current
<1>3. CASE PhoneStart(h)
  <2>1. PICK d, m, u :
          req' = [req EXCEPT ![h] =
                    [IdleRequest EXCEPT !.pc = "upsert", !.device = d,
                       !.method = m, !.uam = u, !.now = now,
                       !.left = SmsLeft(u)]]
    BY <1>3 DEF PhoneStart
  <2>2. req'[h].doc = NoDocument /\ req'[h].upd = NoUpdate
    BY <2>1 DEF Typed, IdleRequest
  <2> QED
    BY <2>2, <1>1
<1>4. CASE Drops(h) \/ PhoneUnchanged(h) \/ Gives(h)
  <2>1. req'[h].doc = NoDocument /\ req'[h].upd = NoUpdate
    BY <1>4 DEF Drops, PhoneUnchanged, Gives, IdleRequest, Typed
  <2> QED
    BY <2>1, <1>1
<1>5. CASE PhoneUpsert(h)
  <2>1. /\ req'[h].device = r.device /\ req'[h].upd = r.upd
        /\ req'[h].doc.checked = dev'[r.device].checked
    BY <1>5, RequestFields DEF PhoneUpsert, Typed, TypeOK, Request
  <2> QED
    BY <2>1, <1>1, <1>2
<1>6. ASSUME NEW pc, NEW b,
             req' = [req EXCEPT ![h] = [@ EXCEPT !.pc = pc, !.smssend = b]]
      PROVE  Kept
  BY <1>2, <1>6, RequestFields DEF Typed, Request
<1>7. ASSUME NEW pc, req' = [req EXCEPT ![h].pc = pc] PROVE Kept
  BY <1>2, <1>7, RequestFields DEF Typed, Request
<1>8. ASSUME NEW pc, NEW id,
             req' = [req EXCEPT ![h] = [@ EXCEPT !.pc = pc, !.upd.username = id]]
      PROVE  Kept
  BY <1>2, <1>8, RequestFields DEF Typed, Request, Update
<1>9. CASE PhoneCount(h) \/ Opens(h) \/ FindUser(h) \/ NextUser(h)
  <2>1. CASE PhoneCount(h)
    <3> PICK pc, b :
          req' = [req EXCEPT ![h] = [@ EXCEPT !.pc = pc, !.smssend = b]]
      BY <2>1 DEF PhoneCount
    <3> QED
      BY <1>1, <1>6
  <2>2. CASE Opens(h)
    BY <1>1, <1>7, <2>2 DEF Opens
  <2>3. CASE FindUser(h) \/ NextUser(h)
    <3> PICK pc, id :
          \/ req' = [req EXCEPT ![h].pc = pc]
          \/ req' = [req EXCEPT ![h] =
                       [@ EXCEPT !.pc = pc, !.upd.username = id]]
      BY <2>3 DEF FindUser, NextUser
    <3> QED
      BY <1>1, <1>7, <1>8
  <2> QED
    BY <1>9, <2>1, <2>2, <2>3
<1>10. ASSUME NEW upd, Proceed(h, upd), upd.checked => Unasked PROVE Kept
  <2>1. /\ req'[h].device = r.device /\ req'[h].doc = r.doc
        /\ req'[h].upd = upd
    BY <1>10, RequestFields DEF Proceed, Typed, Request
  <2> QED
    BY <1>10, <2>1
<1>11. ASSUME NEW upd \in WithNumber(r)
       PROVE  upd \in Update /\ (upd.checked => Unasked)
  BY <1>2, RequestFields, WithNumberKeeps, WithNumberTyped
<1>12. CASE PhoneQuiet(h)
  <2>1. CASE r.uam.nosms /\ Proceed(h, [r.upd EXCEPT !.checked = TRUE])
    <3>1. Unasked
      BY <2>1, RequestFields DEF Unasked
    <3> QED
      BY <1>1, <1>10, <2>1, <3>1
  <2>2. CASE \E upd \in WithNumber(r) : Proceed(h, upd)
    BY <1>1, <1>10, <1>11, <2>2
  <2>3. CASE \E upd \in WithNumber(r), c \in CodeFor(r.doc) :
               Proceed(h, [upd EXCEPT !.sms_sent = c])
    <3> PICK upd \in WithNumber(r), c \in CodeFor(r.doc) :
               Proceed(h, [upd EXCEPT !.sms_sent = c])
      BY <2>3
    <3>1. [upd EXCEPT !.sms_sent = c].checked = upd.checked
      BY <1>11 DEF Update
    <3> QED
      BY <1>1, <1>10, <1>11, <3>1
  <2> QED
    BY <1>12, <2>1, <2>2, <2>3 DEF PhoneQuiet
<1>13. CASE PhoneText(h)
  <2> PICK upd \in WithNumber(r), c \in CodeFor(r.doc) :
             Proceed(h, [upd EXCEPT !.sms_sent = c, !.sms_time = r.now])
    BY <1>13 DEF PhoneText
  <2>1. [upd EXCEPT !.sms_sent = c, !.sms_time = r.now].checked = upd.checked
    BY <1>11 DEF Update
  <2> QED
    BY <1>1, <1>10, <1>11, <2>1
<1> QED
  BY <1>3, <1>4, <1>5, <1>9, <1>12, <1>13 DEF Moves

LEMMA CurrentNext ==
  ASSUME Typed, Present, Current, \A d \in Devices : KeepsDevice(d),
         [Next]_vars
  PROVE  Current'
<1> DEFINE SameRequests == \A h \in Reqs : req'[h] = req[h]
           SamePolls == \A p \in Polls : poll'[p] = poll[p]
<1>1. ASSUME NEW h \in Reqs, PhoneStart(h) \/ Moves(h) PROVE Current'
  <2>1. SamePolls
    BY <1>1 DEF Moves, PhoneStart, Drops, PhoneUpsert, PhoneCount,
                FindUser, NextUser, Opens, PhoneUnchanged, PhoneQuiet,
                PhoneText, Gives
  <2>2. req[h].device \in Devices
    BY RequestFields
  <2>3. /\ req'[h].doc.checked => dev'[req'[h].device].checked
        /\ req'[h].upd.checked => Unasked
    <3>1. CASE req'[h].doc = NoDocument /\ req'[h].upd = NoUpdate
      BY <3>1 DEF NoDocument, NoUpdate
    <3>2. CASE /\ req'[h].device = req[h].device
               /\ req'[h].doc.checked => \/ req[h].doc.checked
                                         \/ dev'[req[h].device].checked
               /\ req'[h].upd.checked => Unasked
      BY <2>2, <3>2 DEF Current, KeepsDevice
    <3> QED
      BY <1>1, <3>1, <3>2, RequestCopies
  <2>4. \A g \in Reqs \ {h} : req'[g] = req[g]
    BY <1>1, RequestCopies
  <2> QED
    BY <2>1, <2>3, <2>4, CurrentStep
<1>2. ASSUME SameRequests, NEW p \in Polls,
             \A q \in Polls \ {p} : poll'[q] = poll[q],
             \/ poll'[p] = poll[p]
             \/ poll'[p].doc.checked => dev'[poll'[p].device].checked
      PROVE  Current'
  BY <1>2, CurrentStep
<1>3. ASSUME NEW p \in Polls, NEW d, NEW doc, Answer(p, d, doc),
             SameRequests
      PROVE  Current'
  <2>1. \A q \in Polls \ {p} : poll'[q] = poll[q]
    BY <1>3 DEF Answer, Typed, TypeOK
  <2>2. ~poll'[p].doc.checked
    BY <1>3 DEF Answer, Typed, TypeOK, IdlePoll, NoDocument
  <2> QED
    BY <1>2, <1>3, <2>1, <2>2
<1>4. ASSUME NEW p \in Polls, PollStep(p) \/ PollRequest(p) PROVE Current'
  <2>1. SameRequests
    BY <1>4 DEF PollStep, PollRequest, PollWake, PollSmsru, PollPlain,
                PollRightCode, PollWrongCode
  <2>2. CASE PollWake(p)
    BY <1>3, <2>1, <2>2 DEF PollWake
  <2>3. CASE PollSmsru(p)
    <3>1. \A q \in Polls \ {p} : poll'[q] = poll[q]
      BY <2>3 DEF PollSmsru, Typed, TypeOK
    <3>2. ~poll'[p].doc.checked
      BY <2>3 DEF PollSmsru, Typed, TypeOK, IdlePoll, NoDocument
    <3> QED
      BY <1>2, <2>1, <3>1, <3>2
  <2>4. ASSUME NEW d \in Devices, PollPlain(p, d) PROVE Current'
    BY <1>3, <2>1, <2>4 DEF PollPlain
  <2>5. ASSUME NEW d \in Devices, NEW c \in Codes, PollRightCode(p, d, c)
        PROVE  Current'
    <3>1. SamePolls
      BY <2>5 DEF PollRightCode
    <3> QED
      BY <1>2, <2>1, <3>1
  <2>6. ASSUME NEW d \in Devices, NEW c \in Codes, PollWrongCode(p, d, c)
        PROVE  Current'
    <3>1. /\ \A q \in Polls \ {p} : poll'[q] = poll[q]
          /\ \/ poll'[p] = poll[p]
             \/ /\ poll'[p].device = d
                /\ poll'[p].doc.checked = dev[d].checked
      BY <2>6 DEF PollWrongCode, Typed, TypeOK, Document
    <3> QED
      BY <1>2, <2>1, <3>1 DEF KeepsDevice
  <2> QED
    BY <1>4, <2>2, <2>3, <2>4, <2>5, <2>6 DEF PollStep, PollRequest
<1>5. ASSUME SameRequests, SamePolls PROVE Current'
  BY <1>5, CurrentStep
<1>6. ASSUME NEW phone \in Phones, Incoming(phone) PROVE Current'
  BY <1>5, <1>6 DEF Incoming, TextArrives, CallArrives, TokenArrives
<1>7. CASE TextLands \/ Tick \/ UNCHANGED vars
  BY <1>5, <1>7 DEF TextLands, Tick, vars
<1>8. ASSUME NEW H, NEW Q, BreakOff(H, Q) PROVE Current'
  <2>1. /\ \A h \in Reqs : \/ req'[h] = req[h]
                           \/ ~req'[h].doc.checked /\ ~req'[h].upd.checked
        /\ \A p \in Polls : poll'[p] = poll[p] \/ ~poll'[p].doc.checked
    BY <1>8 DEF BreakOff, IdleRequest, IdlePoll, NoDocument, NoUpdate
  <2> QED
    BY <2>1, CurrentStep
<1> QED
  BY <1>1, <1>4, <1>6, <1>7, <1>8, NextCases

\* What the steps do to the devices that are in.
LEMMA InSame ==
  ASSUME \A d \in Devices : dev'[d].checked = dev[d].checked PROVE In' = In
BY DEF In

LEMMA InGains ==
  ASSUME NEW d \in Devices, dev'[d].checked,
         \A e \in Devices \ {d} : dev'[e].checked = dev[e].checked
  PROVE  In' = In \cup {d}
BY DEF In

LEMMA CheckGains ==
  ASSUME Typed, NEW d \in Devices, dev' = [dev EXCEPT ![d].checked = TRUE]
  PROVE  In' = In \cup {d}
<1>1. dev'[d].checked /\ \A e \in Devices \ {d} : dev'[e] = dev[e]
  BY DEF Typed, TypeOK, Document
<1> QED
  BY <1>1, InGains

\* The steps of Admission in terms of the sets defined above.
LEMMA DoorDefs ==
  ASSUME NEW d \in Devices
  PROVE  /\ UNCHANGED <<Sent, accepted, contacted, In, granted>>
              => UNCHANGED Door!vars
         /\ \A c \in Codes :
              /\ Sent' = Sent \cup {<<d, c>>}
              /\ UNCHANGED <<accepted, contacted, In, granted>>
              => Door!Next
         /\ \A c \in Codes :
              /\ <<d, c>> \in Sent /\ accepted' = accepted \cup {<<d, c>>}
              /\ In' = In \cup {d} /\ granted' = granted \cup {d}
              /\ UNCHANGED <<Sent, contacted>>
              => Door!Next
         /\ /\ contacted' = contacted \cup {Phone(d)} /\ In' = In \cup {d}
            /\ UNCHANGED <<Sent, accepted, granted>>
            => Door!Next
         /\ /\ Unasked \/ d \in In
            /\ In' = In \cup {d} /\ granted' = granted \cup {d}
            /\ UNCHANGED <<Sent, accepted, contacted>>
            => Door!Next
BY DEF Door!Next, Door!vars, Door!Text, Door!Return, Door!Contact,
       Door!Enter, Door!Enters, Door!Grant, Sent, In, Unasked

LEMMA DoorStutter ==
  ASSUME UNCHANGED <<texts, accepted, contacted, granted>>,
         \A d \in Devices : dev'[d].checked = dev[d].checked
  PROVE  UNCHANGED Door!vars
BY DEF Door!vars

\* What a handler tells the page of a document it trusts.
LEMMA DoorGrants ==
  ASSUME NEW d \in Devices, d \in In, UNCHANGED <<dev, texts, accepted, contacted>>,
         granted' = granted \cup {d}
  PROVE  Door!Next
BY DoorDefs DEF Sent, In

LEMMA DoorRequest ==
  ASSUME Typed, Present, Current, NEW h \in Reqs, PhoneStart(h) \/ Moves(h)
  PROVE  [Door!Next]_(Door!vars)
<1> DEFINE r == req[h]
           d == r.device
<1>1. d \in Devices /\ dev[d] \in Document
  BY RequestFields DEF Typed, TypeOK
<1>2. CASE \/ PhoneStart(h) \/ Drops(h) \/ PhoneCount(h)
           \/ FindUser(h) \/ NextUser(h) \/ Opens(h) \/ PhoneQuiet(h)
  BY <1>2, DoorStutter
     DEF PhoneStart, Drops, PhoneCount, FindUser, NextUser,
         Opens, PhoneQuiet
<1>3. CASE PhoneUpsert(h)
  <2>1. \A e \in Devices \ {d} : dev'[e] = dev[e]
    BY <1>3 DEF PhoneUpsert, Typed, TypeOK
  <2>2. dev'[d].checked = dev[d].checked
    BY <1>1, <1>3
       DEF PhoneUpsert, Present, Typed, TypeOK, Document, NoDocument
  <2>3. \A e \in Devices : dev'[e].checked = dev[e].checked
    BY <2>1, <2>2
  <2> QED
    BY <1>3, <2>3, DoorStutter DEF PhoneUpsert
<1>4. CASE PhoneUnchanged(h)
  <2>1. CASE r.doc.checked
    <3>1. d \in In
      BY <1>1, <2>1 DEF In, Current
    <3> QED
      BY <1>1, <1>4, <2>1, <3>1, DoorGrants DEF PhoneUnchanged
  <2>2. CASE ~r.doc.checked
    BY <1>4, <2>2, DoorStutter DEF PhoneUnchanged
  <2> QED
    BY <2>1, <2>2
<1>5. CASE PhoneText(h)
  <2>1. PICK c, id : c \in Codes /\ texts' = texts \cup {NewText(id, r, c)}
    BY <1>5, RequestFields, CodeForTyped DEF PhoneText
  <2>2. Sent' = Sent \cup {<<d, c>>}
    <3> DEFINE m == NewText(id, r, c)
    <3>1. texts' = texts \cup {m} /\ m.device = d /\ m.code = c
      BY <2>1 DEF NewText
    <3> HIDE DEF m
    <3> QED
      BY <3>1 DEF Sent
  <2>3. UNCHANGED <<accepted, contacted, In, granted>>
    BY <1>5 DEF PhoneText, In
  <2> QED
    BY <1>1, <2>1, <2>2, <2>3, DoorDefs
<1>6. CASE Gives(h)
  <2>1. /\ dev'[d].checked = (dev[d].checked \/ r.upd.checked)
        /\ granted' = IF dev'[d].checked THEN granted \cup {d} ELSE granted
        /\ \A e \in Devices \ {d} : dev'[e].checked = dev[e].checked
        /\ UNCHANGED <<texts, accepted, contacted>>
    BY <1>1, <1>6 DEF Gives, Apply, Typed, TypeOK, Document
  <2>2. CASE dev'[d].checked
    <3>1. Unasked \/ d \in In
      BY <1>1, <2>1, <2>2 DEF In, Current
    <3>2. In' = In \cup {d}
      BY <1>1, <2>1, <2>2, InGains
    <3> QED
      BY <1>1, <2>1, <2>2, <3>1, <3>2, DoorDefs DEF Sent
  <2>3. CASE ~dev'[d].checked
    <3>1. \A e \in Devices : dev'[e].checked = dev[e].checked
      BY <1>1, <2>1, <2>3 DEF Document
    <3> QED
      BY <2>1, <2>3, <3>1, DoorStutter
  <2> QED
    BY <2>2, <2>3
<1> QED
  BY <1>2, <1>3, <1>4, <1>5, <1>6 DEF Moves

LEMMA DoorPoll ==
  ASSUME Typed, Vouched, Current, NEW p \in Polls, PollStep(p) \/ PollRequest(p)
  PROVE  [Door!Next]_(Door!vars)
<1> DEFINE d == poll[p].device
<1>1. d \in Devices
  BY DEF Typed, TypeOK, Polling
<1>2. ASSUME NEW e \in Devices, NEW doc, doc.checked => e \in In,
             Answer(p, e, doc), UNCHANGED <<dev, texts, accepted, contacted>>
      PROVE  [Door!Next]_(Door!vars)
  <2>1. CASE granted' = granted
    BY <1>2, <2>1, DoorStutter
  <2>2. CASE doc.checked /\ granted' = granted \cup {e}
    BY <1>2, <2>2, DoorGrants
  <2> QED
    BY <1>2, <2>1, <2>2 DEF Answer
<1>3. CASE PollWake(p)
  <2>1. poll[p].doc.checked => d \in In
    BY <1>1 DEF In, Current
  <2> QED
    BY <1>1, <1>2, <1>3, <2>1 DEF PollWake
<1>4. CASE PollSmsru(p)
  <2>1. CASE dev' = [dev EXCEPT ![d].checked = TRUE]
             /\ contacted' = contacted \cup {Phone(d)}
    <3>1. In' = In \cup {d}
      BY <1>1, <2>1, CheckGains
    <3> QED
      BY <1>1, <1>4, <2>1, <3>1, DoorDefs DEF PollSmsru, Sent
  <2>2. CASE UNCHANGED <<dev, contacted>>
    BY <1>4, <2>2, DoorStutter DEF PollSmsru
  <2> QED
    BY <1>4, <2>1, <2>2 DEF PollSmsru
<1>5. ASSUME NEW e \in Devices, PollPlain(p, e)
      PROVE  [Door!Next]_(Door!vars)
  <2>1. dev[e].checked => e \in In
    BY DEF In
  <2> QED
    BY <1>2, <1>5, <2>1 DEF PollPlain
<1>6. ASSUME NEW e \in Devices, NEW c \in Codes, PollRightCode(p, e, c)
      PROVE  [Door!Next]_(Door!vars)
  <2>1. <<e, c>> \in Sent
    BY <1>6, NoneAssumption DEF PollRightCode, Vouched, Backed
  <2>2. In' = In \cup {e}
    BY <1>6, CheckGains DEF PollRightCode
  <2> QED
    BY <1>6, <2>1, <2>2, DoorDefs DEF PollRightCode, Sent
<1>7. ASSUME NEW e \in Devices, NEW c \in Codes, PollWrongCode(p, e, c)
      PROVE  [Door!Next]_(Door!vars)
  <2>1. \A f \in Devices : dev'[f].checked = dev[f].checked
    BY <1>7 DEF PollWrongCode, Typed, TypeOK, Document
  <2> QED
    BY <1>7, <2>1, DoorStutter DEF PollWrongCode
<1> QED
  BY <1>3, <1>4, <1>5, <1>6, <1>7 DEF PollStep, PollRequest

LEMMA DoorIncoming ==
  ASSUME Typed, NEW phone \in Phones, Incoming(phone)
  PROVE  [Door!Next]_(Door!vars)
<1>1. PICK d \in Devices : /\ Phone(d) = phone
                           /\ dev' = [dev EXCEPT ![d].checked = TRUE]
                           /\ contacted' = contacted \cup {phone}
  BY DEF Incoming, TextArrives, CallArrives, TokenArrives, CheckOne, SeenSince
<1>2. UNCHANGED <<texts, accepted, granted>>
  BY DEF Incoming, TextArrives, CallArrives, TokenArrives
<1>3. In' = In \cup {d}
  BY <1>1, CheckGains
<1> QED
  BY <1>1, <1>2, <1>3, DoorDefs DEF Sent

LEMMA DoorNext ==
  ASSUME Typed, Vouched, Present, Current, [Next]_vars
  PROVE  [Door!Next]_(Door!vars)
<1>1. CASE TextLands \/ Tick \/ UNCHANGED vars
  BY <1>1, DoorStutter DEF TextLands, Tick, vars
<1>2. ASSUME NEW H, NEW Q, BreakOff(H, Q) PROVE [Door!Next]_(Door!vars)
  BY <1>2, DoorStutter DEF BreakOff
<1> QED
  BY <1>1, <1>2, DoorRequest, DoorPoll, DoorIncoming, NextCases

LEMMA DoorInit == Init => Door!Init
BY DEF Init, Door!Init, NoDocument

\* The handlers implement Admission, for any number of registrations, polls,
\* calls and texts that overlap, and processes that are killed.
THEOREM AdmissionRefined == Spec => AdmissionSpec
<1> DEFINE Inv == Typed /\ Vouched /\ Present /\ Current
<1>1. Init => Inv
  BY TypedInit, VouchedInit, PresentInit, CurrentInit
<1>2. Inv /\ [Next]_vars => Inv'
  BY TypedNext, VouchedNext, StepKeeps, CurrentNext
<1>3. Inv /\ [Next]_vars => [Door!Next]_(Door!vars)
  BY DoorNext
<1> QED
  BY <1>1, <1>2, <1>3, DoorInit, PTL DEF Spec, AdmissionSpec, Door!Spec

----------------------------------------------------------------------------
(* How many texts overlapping registrations can send *)

\* A time before s, as the check of `smssend timeout' sees it.
Early(s, t) == t = None \/ t < s

Reading == {"count", "find", "next", "insert", "decide"}

\* The handlers that took their time before s.
Elder(s) == {h \in Reqs : req[h].pc # "idle" /\ req[h].now < s}

\* Whether a handler that is no elder may still queue a text for d: the
\* document shows no text since s and the handler is not about to write one,
\* or it works on a document that showed none.
Free(s, d, r) ==
  \/ /\ Early(s, dev[d].sms_time)
     /\ ~(r.pc = "update" /\ r.device = d /\ r.upd.sms_time # None)
  \/ /\ r.pc \in Reading /\ r.device = d
     /\ Early(s, r.doc.sms_time)

Texters(s, d) == {h \in Reqs \ Elder(s) : Free(s, d, req[h])}

\* From s on, and for every portal within its timeout of s.
Near(s, t) == /\ t >= s
              /\ \A u \in Uams : /\ SmsTimeout(u) # None
                                 /\ t - s < SmsTimeout(u)

NearTexts(s, d) == {m \in texts : m.device = d /\ Near(s, m.sent)}

\* The texts sent, those the free handlers can add, and those that can be added
\* when an elder ends and writes a time before s over a newer one: the j-th to
\* end leaves n - k + j handlers free to text again.
Fits(c, a, k, n) == 2 * c + 2 * a + k * (2 * n - k + 1) <= n * (n + 1)

Room(s, d) ==
  now >= s => Fits(Cardinality(NearTexts(s, d)), Cardinality(Texters(s, d)),
                   Cardinality(Elder(s)), Cardinality(Reqs))

RoomLeft == \A s \in Time, d \in Devices : Room(s, d)

\* A handler works with the time it took, and knows a text's time to write
\* only between queueing the text and writing it.
Clocked(r) == /\ r.now <= now
              /\ r.pc # "update" => r.upd.sms_time = None
              /\ r.upd.sms_time \in {None, r.now}

Timed == /\ \A m \in texts : m.sent <= now
         /\ \A h \in Reqs : Clocked(req[h])
         /\ \A d \in Devices : ~dev[d].known => dev[d].sms_time = None

LEMMA FitsLess ==
  ASSUME NEW c \in Nat, NEW a \in Nat, NEW k \in Nat, NEW n \in Nat,
         NEW c2 \in Nat, NEW a2 \in Nat,
         Fits(c, a, k, n), c2 + a2 <= c + a
  PROVE  Fits(c2, a2, k, n)
<1> DEFINE x == k * (2 * n - k + 1)
           y == n * (n + 1)
<1>1. x \in Int /\ y \in Int
  OBVIOUS
<1>2. 2 * c + 2 * a + x <= y
  BY DEF Fits
<1> HIDE DEF x, y
<1>3. 2 * c2 + 2 * a2 + x <= y
  BY <1>1, <1>2
<1> QED
  BY <1>3 DEF Fits, x, y

LEMMA FitsElder ==
  ASSUME NEW c \in Nat, NEW a \in Nat, NEW k \in Nat, NEW n \in Nat,
         NEW c2 \in Nat, NEW a2 \in Nat, NEW k2 \in Nat,
         Fits(c, a, k, n), c2 <= c, k = k2 + 1, a2 + k2 <= n
  PROVE  Fits(c2, a2, k2, n)
<1> DEFINE x == k * (2 * n - k + 1)
           x2 == k2 * (2 * n - k2 + 1)
           y == n * (n + 1)
<1>1. x \in Int /\ y \in Int /\ x2 \in Int
  OBVIOUS
<1>2. x = x2 + 2 * (n - k2)
  <2>1. x = k2 * (2 * n - k2) + (2 * n - k2)
    OBVIOUS
  <2>2. x2 = k2 * (2 * n - k2) + k2
    OBVIOUS
  <2> QED
    BY <2>1, <2>2
<1>3. 2 * c + 2 * a + x <= y
  BY DEF Fits
<1> HIDE DEF x, y, x2
<1>4. 2 * c2 + 2 * a2 + x2 <= y
  BY <1>1, <1>2, <1>3
<1> QED
  BY <1>4 DEF Fits, x2, y

LEMMA FitsTick ==
  ASSUME NEW a \in Nat, NEW k \in Nat, NEW n \in Nat, a + k <= n
  PROVE  Fits(0, a, k, n)
<1> DEFINE x == k * (2 * n - k + 1)
           y == n * (n + 1)
           z == (n - k) * (n - k)
<1>1. x \in Int /\ y \in Int /\ z \in Int
  OBVIOUS
<1>2. y - x - 2 * (n - k) = z - (n - k)
  OBVIOUS
<1>3. z >= n - k
  <2>1. PICK j \in Nat : j = n - k
    OBVIOUS
  <2>2. j * j >= j
    OBVIOUS
  <2> QED
    BY <2>1, <2>2
<1> HIDE DEF x, y, z
<1>4. 2 * 0 + 2 * a + x <= y
  BY <1>1, <1>2, <1>3
<1> QED
  BY <1>4 DEF Fits, x, y

LEMMA FitsEnd ==
  ASSUME NEW c \in Nat, NEW a \in Nat, NEW k \in Nat, NEW n \in Nat,
         Fits(c, a, k, n), k <= n
  PROVE  2 * c <= n * (n + 1)
<1>1. k * (2 * n - k + 1) >= 0
  <2>1. 2 * n - k + 1 \in Nat
    OBVIOUS
  <2>2. \A i, j \in Nat : i * j >= 0
    OBVIOUS
  <2> QED
    BY <2>1, <2>2
<1> QED
  BY <1>1 DEF Fits
LEMMA Sizes ==
  ASSUME NEW T, IsFiniteSet(T), NEW N \in SUBSET T,
         NEW E \in SUBSET Reqs, NEW X \in SUBSET (Reqs \ E)
  PROVE  /\ IsFiniteSet(N) /\ IsFiniteSet(X) /\ IsFiniteSet(E)
         /\ Cardinality(N) \in Nat /\ Cardinality(X) \in Nat
         /\ Cardinality(E) \in Nat /\ Cardinality(Reqs) \in Nat
         /\ Cardinality(X) + Cardinality(E) <= Cardinality(Reqs)
<1>1. IsFiniteSet(Reqs) /\ X \subseteq Reqs /\ E \cap X = {}
  BY SetAssumption
<1>2. IsFiniteSet(N) /\ IsFiniteSet(X) /\ IsFiniteSet(E)
  BY <1>1, FS_Subset
<1>3. /\ Cardinality(N) \in Nat /\ Cardinality(X) \in Nat
      /\ Cardinality(E) \in Nat /\ Cardinality(Reqs) \in Nat
  BY <1>1, <1>2, FS_CardinalityType
<1>4. Cardinality(E \cup X) = Cardinality(E) + Cardinality(X)
  <2>1. Cardinality(E \cup X)
          = Cardinality(E) + Cardinality(X) - Cardinality(E \cap X)
    BY <1>2, FS_Union
  <2>2. Cardinality(E \cap X) = 0
    BY <1>1, FS_EmptySet, Zenon
  <2> QED
    BY <1>3, <2>1, <2>2
<1>5. Cardinality(E \cup X) <= Cardinality(Reqs)
  BY <1>1, FS_Subset
<1> QED
  BY <1>2, <1>3, <1>4, <1>5

\* The sizes that Room compares, in a state and after a step.
LEMMA RoomSizes ==
  ASSUME Typed, Typed', NEW s \in Time, NEW d \in Devices
  PROVE  /\ IsFiniteSet(NearTexts(s, d)) /\ IsFiniteSet(NearTexts(s, d)')
         /\ IsFiniteSet(Texters(s, d)) /\ IsFiniteSet(Texters(s, d)')
         /\ IsFiniteSet(Elder(s)) /\ IsFiniteSet(Elder(s)')
         /\ Cardinality(NearTexts(s, d)) \in Nat
         /\ Cardinality(NearTexts(s, d)') \in Nat
         /\ Cardinality(Texters(s, d)) \in Nat
         /\ Cardinality(Texters(s, d)') \in Nat
         /\ Cardinality(Elder(s)) \in Nat
         /\ Cardinality(Elder(s)') \in Nat
         /\ Cardinality(Reqs) \in Nat
         /\ Cardinality(Texters(s, d)) + Cardinality(Elder(s))
              <= Cardinality(Reqs)
         /\ Cardinality(Texters(s, d)') + Cardinality(Elder(s)')
              <= Cardinality(Reqs)
<1>1. /\ NearTexts(s, d) \in SUBSET texts /\ IsFiniteSet(texts)
      /\ Elder(s) \in SUBSET Reqs
      /\ Texters(s, d) \in SUBSET (Reqs \ Elder(s))
  BY DEF NearTexts, Typed, Elder, Texters
<1>2. /\ NearTexts(s, d)' \in SUBSET texts' /\ IsFiniteSet(texts')
      /\ Elder(s)' \in SUBSET Reqs
      /\ Texters(s, d)' \in SUBSET (Reqs \ Elder(s)')
  BY DEF NearTexts, Typed, Elder, Texters
<1> QED
  BY <1>1, <1>2, Sizes

\* What the steps of a registration do to the times of texts.
SameTimes == \A d \in Devices : dev'[d].sms_time = dev[d].sms_time

Keeps(h) == /\ req'[h].device = req[h].device /\ req'[h].now = req[h].now
            /\ SameTimes

Begins(h) == /\ req[h].pc = "idle" /\ req'[h].pc = "upsert"
             /\ req'[h].now = now /\ req'[h].upd.sms_time = None
             /\ SameTimes /\ texts' = texts

Reads(h) == /\ req[h].pc = "upsert" /\ req'[h].pc = "count"
            /\ req'[h].doc.sms_time = dev[req[h].device].sms_time
            /\ req'[h].upd.sms_time = None
            /\ Keeps(h) /\ texts' = texts

Works(h) == /\ req[h].pc \in Reading
            /\ req'[h].pc \in Reading \cup {"update"}
            /\ req'[h].doc.sms_time = req[h].doc.sms_time
            /\ req'[h].upd.sms_time = None
            /\ Keeps(h) /\ texts' = texts

Queues(h) == /\ req[h].pc = "decide" /\ req'[h].pc = "update"
             /\ req'[h].upd.sms_time = req[h].now
             /\ ~TooSoon(req[h])
             /\ Keeps(h)
             /\ \E m : /\ texts' = texts \cup {m}
                       /\ m.device = req[h].device /\ m.sent = req[h].now

Writes(r, d) == r.pc = "update" /\ r.device = d /\ r.upd.sms_time # None

Ends(h) == /\ req[h].pc # "idle" /\ req'[h].pc = "idle"
           /\ req'[h].now = 0 /\ req'[h].upd.sms_time = None
           /\ texts' = texts
           /\ \A d \in Devices : dev'[d].sms_time = IF Writes(req[h], d)
                                                    THEN req[h].upd.sms_time
                                                    ELSE dev[d].sms_time

LEMMA RequestTimes ==
  ASSUME Typed, Timed, NeverDuplicate, NEW h \in Reqs,
         PhoneStart(h) \/ Moves(h)
  PROVE  /\ \/ Begins(h) \/ Reads(h) \/ Works(h) \/ Queues(h) \/ Ends(h)
         /\ now' = now
<1> DEFINE r == req[h]
           d == r.device
<1>1. /\ d \in Devices /\ r.upd \in Update /\ r.doc \in Document
      /\ dev[d] \in Document /\ Clocked(r) /\ r \in Request
  BY RequestFields DEF Typed, TypeOK, Timed
<1>2. ASSUME PhoneStart(h) PROVE Begins(h)
  <2>1. PICK e, m, u :
          req' = [req EXCEPT ![h] =
                    [IdleRequest EXCEPT !.pc = "upsert", !.device = e,
                       !.method = m, !.uam = u, !.now = now,
                       !.left = SmsLeft(u)]]
    BY <1>2 DEF PhoneStart
  <2>2. /\ req'[h].pc = "upsert" /\ req'[h].now = now
        /\ req'[h].upd = NoUpdate
    BY <2>1 DEF Typed, IdleRequest
  <2>3. r.pc = "idle" /\ dev' = dev /\ texts' = texts
    BY <1>2 DEF PhoneStart
  <2> QED
    BY <2>2, <2>3 DEF Begins, SameTimes, NoUpdate
<1>3. ASSUME PhoneUpsert(h) PROVE Reads(h)
  <2> DEFINE doc == IF dev[d].known
                    THEN [dev[d] EXCEPT !.seen = r.now]
                    ELSE [NoDocument EXCEPT !.known = TRUE, !.seen = r.now,
                                            !.registred = r.now]
  <2>1. doc.sms_time = dev[d].sms_time
    BY <1>1 DEF NoDocument, Document, Timed
  <2> HIDE DEF doc
  <2>2. /\ dev' = [dev EXCEPT ![d] = doc] /\ texts' = texts
        /\ req' = [req EXCEPT ![h] = [r EXCEPT !.pc = "count", !.doc = doc]]
        /\ r.pc = "upsert"
    BY <1>3 DEF PhoneUpsert, doc
  <2>3. SameTimes
    BY <1>1, <2>1, <2>2 DEF SameTimes, Typed, TypeOK
  <2>4. /\ req'[h].pc = "count" /\ req'[h].doc = doc
        /\ req'[h].device = d /\ req'[h].now = r.now
        /\ req'[h].upd = r.upd
    BY <1>1, <2>2 DEF Typed, TypeOK, Request
  <2> QED
    BY <1>1, <2>1, <2>2, <2>3, <2>4 DEF Reads, Keeps, Clocked
<1>4. ASSUME PhoneCount(h) \/ FindUser(h) \/ NextUser(h) \/ Opens(h)
      PROVE  Works(h)
  <2>1. /\ r.pc \in Reading \ {"decide"} /\ dev' = dev /\ texts' = texts
    BY <1>4 DEF PhoneCount, FindUser, NextUser, Opens, Reading
  <2>2. /\ req'[h].device = d /\ req'[h].now = r.now /\ req'[h].doc = r.doc
        /\ req'[h].pc \in Reading
        /\ req'[h].upd.sms_time = r.upd.sms_time
    <3>1. CASE PhoneCount(h)
      BY <1>1, <3>1 DEF PhoneCount, Typed, Request, Reading
    <3>2. CASE FindUser(h)
      <4>1. CASE req' = [req EXCEPT ![h].pc = "next"]
        BY <1>1, <4>1 DEF Typed, Request, Reading
      <4>2. ASSUME NEW x, req' = [req EXCEPT ![h] =
                     [@ EXCEPT !.pc = "decide", !.upd.username = x.id]]
            PROVE  /\ req'[h].device = d /\ req'[h].now = r.now
                   /\ req'[h].doc = r.doc /\ req'[h].pc \in Reading
                   /\ req'[h].upd.sms_time = r.upd.sms_time
        <5> DEFINE upd == [r.upd EXCEPT !.username = x.id]
        <5>1. upd.sms_time = r.upd.sms_time
          BY <1>1 DEF Update
        <5>2. req' = [req EXCEPT ![h] =
                        [r EXCEPT !.pc = "decide", !.upd = upd]]
          BY <1>1, <4>2 DEF Request
        <5> HIDE DEF upd
        <5> QED
          BY <1>1, <5>1, <5>2 DEF Typed, Request, Reading
      <4> QED
        BY <3>2, <4>1, <4>2 DEF FindUser
    <3>3. CASE NextUser(h)
      BY <1>1, <3>3 DEF NextUser, Typed, Request, Update, Reading
    <3>4. CASE Opens(h)
      BY <1>1, <3>4 DEF Opens, Typed, Request, Reading
    <3> QED
      BY <1>4, <3>1, <3>2, <3>3, <3>4
  <2> QED
    BY <1>1, <2>1, <2>2 DEF Works, Keeps, SameTimes, Clocked, Reading
<1>5. ASSUME NEW upd, Proceed(h, upd)
      PROVE  /\ req'[h].device = d /\ req'[h].now = r.now
             /\ req'[h].doc = r.doc /\ req'[h].pc = "update"
             /\ req'[h].upd = upd
  BY <1>1, <1>5 DEF Proceed, Typed, Request
<1>6. ASSUME NEW upd \in WithNumber(r), NEW c
      PROVE  /\ upd.sms_time = r.upd.sms_time
             /\ [upd EXCEPT !.sms_sent = c].sms_time = upd.sms_time
             /\ [upd EXCEPT !.sms_sent = c, !.sms_time = r.now].sms_time
                  = r.now
  BY <1>1, WithNumberKeeps, WithNumberTyped DEF Update
<1>7. ASSUME PhoneQuiet(h) PROVE Works(h)
  <2>1. PICK upd : Proceed(h, upd) /\ upd.sms_time = r.upd.sms_time
    <3>1. [r.upd EXCEPT !.checked = TRUE].sms_time = r.upd.sms_time
      BY <1>1 DEF Update
    <3> QED
      <4>1. CASE Proceed(h, [r.upd EXCEPT !.checked = TRUE])
        BY <3>1, <4>1
      <4>2. CASE \E upd \in WithNumber(r) : Proceed(h, upd)
        BY <1>6, <4>2
      <4>3. CASE \E upd \in WithNumber(r), c \in CodeFor(r.doc) :
                   Proceed(h, [upd EXCEPT !.sms_sent = c])
        <5>1. PICK upd \in WithNumber(r), c \in CodeFor(r.doc) :
                     Proceed(h, [upd EXCEPT !.sms_sent = c])
          BY <4>3
        <5> DEFINE u == [upd EXCEPT !.sms_sent = c]
        <5>2. Proceed(h, u) /\ u.sms_time = r.upd.sms_time
          BY <1>6, <5>1
        <5> QED
          BY <5>2
      <4> QED
        BY <1>7, <4>1, <4>2, <4>3 DEF PhoneQuiet
  <2>2. r.pc = "decide" /\ dev' = dev /\ texts' = texts
    BY <1>7 DEF PhoneQuiet, Registers
  <2> QED
    BY <1>1, <1>5, <2>1, <2>2 DEF Works, Keeps, SameTimes, Clocked, Reading
<1>8. ASSUME PhoneText(h) PROVE Queues(h)
  <2> DEFINE id == Cardinality(texts) + 1
  <2>1. PICK upd \in WithNumber(r), c \in CodeFor(r.doc) :
          /\ Proceed(h, [upd EXCEPT !.sms_sent = c, !.sms_time = r.now])
          /\ texts' = texts \cup {NewText(id, r, c)}
    BY <1>8 DEF PhoneText
  <2>2. /\ NewText(id, r, c).device = d /\ NewText(id, r, c).sent = r.now
    BY DEF NewText
  <2>3. r.pc = "decide" /\ ~TooSoon(r) /\ dev' = dev
    BY <1>8 DEF PhoneText, Registers
  <2>4. /\ req'[h].device = d /\ req'[h].now = r.now
        /\ req'[h].pc = "update" /\ req'[h].upd.sms_time = r.now
    <3> DEFINE u == [upd EXCEPT !.sms_sent = c, !.sms_time = r.now]
    <3>1. Proceed(h, u) /\ u.sms_time = r.now
      BY <1>6, <2>1
    <3> HIDE DEF u
    <3> QED
      BY <1>5, <3>1
  <2> QED
    BY <2>1, <2>2, <2>3, <2>4 DEF Queues, Keeps, SameTimes
<1>9. ASSUME Drops(h) \/ PhoneUnchanged(h) \/ Gives(h)
      PROVE  Ends(h)
  <2>1. /\ req'[h].pc = "idle" /\ req'[h].now = 0
        /\ req'[h].upd.sms_time = None /\ texts' = texts /\ r.pc # "idle"
    BY <1>9 DEF Drops, PhoneUnchanged, Gives, IdleRequest,
                NoUpdate, Typed
  <2>2. ASSUME NEW e \in Devices
        PROVE  dev'[e].sms_time = IF Writes(r, e) THEN r.upd.sms_time
                                                  ELSE dev[e].sms_time
    <3>1. CASE Gives(h)
      <4> DEFINE doc == Apply(dev[d], r.upd, r.method)
      <4>1. doc.sms_time = Set(dev[d].sms_time, r.upd.sms_time)
        BY <1>1 DEF Apply, Document
      <4>2. dev' = [dev EXCEPT ![d] = doc] /\ r.pc = "update"
        BY <3>1 DEF Gives
      <4> HIDE DEF doc
      <4>3. IF e = d THEN dev'[e] = doc ELSE dev'[e] = dev[e]
        BY <1>1, <4>2 DEF Typed, TypeOK
      <4> QED
        BY <4>1, <4>2, <4>3 DEF Set, Writes
    <3>2. CASE Drops(h) \/ PhoneUnchanged(h)
      <4>1. dev' = dev /\ req[h].pc # "update"
        BY <3>2 DEF Drops, PhoneUnchanged, NeverDuplicate
      <4> QED
        BY <4>1 DEF Writes
    <3> QED
      BY <1>9, <3>1, <3>2
  <2> QED
    BY <2>1, <2>2 DEF Ends
<1>10. now' = now
  BY DEF Moves, PhoneStart, Drops, PhoneUpsert, PhoneCount,
         FindUser, NextUser, Opens, PhoneUnchanged, PhoneQuiet,
         PhoneText, Gives
<1> QED
  BY <1>2, <1>3, <1>4, <1>7, <1>8, <1>9, <1>10 DEF Moves

\* No more texts, the same elders and no more handlers that are free to text.
LEMMA RoomKept ==
  ASSUME Typed, Typed', NEW s \in Time, NEW d \in Devices,
         now >= s, Room(s, d),
         NearTexts(s, d)' \subseteq NearTexts(s, d),
         Elder(s)' = Elder(s), Texters(s, d)' \subseteq Texters(s, d)
  PROVE  Room(s, d)'
<1>1. /\ Cardinality(NearTexts(s, d)') <= Cardinality(NearTexts(s, d))
      /\ Cardinality(Texters(s, d)') <= Cardinality(Texters(s, d))
  BY RoomSizes, FS_Subset
<1>2. Fits(Cardinality(NearTexts(s, d)), Cardinality(Texters(s, d)),
           Cardinality(Elder(s)), Cardinality(Reqs))
  BY DEF Room
<1>3. Fits(Cardinality(NearTexts(s, d)'), Cardinality(Texters(s, d)'),
           Cardinality(Elder(s)), Cardinality(Reqs))
  <2>1. Cardinality(NearTexts(s, d)') + Cardinality(Texters(s, d)')
          <= Cardinality(NearTexts(s, d)) + Cardinality(Texters(s, d))
    BY <1>1, RoomSizes
  <2> QED
    BY <1>2, <2>1, RoomSizes, FitsLess
<1> QED
  BY <1>3 DEF Room, Fits

\* The other handlers, when one takes a step.
LEMMA OthersKept ==
  ASSUME NEW s \in Time, NEW d \in Devices, NEW h \in Reqs,
         \A g \in Reqs \ {h} : req'[g] = req[g],
         Early(s, dev'[d].sms_time) => Early(s, dev[d].sms_time)
  PROVE  \A g \in Reqs \ {h} :
           /\ g \in Elder(s)' <=> g \in Elder(s)
           /\ g \in Texters(s, d)' => g \in Texters(s, d)
<1> SUFFICES ASSUME NEW g \in Reqs \ {h}
             PROVE  /\ g \in Elder(s)' <=> g \in Elder(s)
                    /\ g \in Texters(s, d)' => g \in Texters(s, d)
  OBVIOUS
<1>1. req'[g] = req[g]
  OBVIOUS
<1>2. g \in Elder(s)' <=> g \in Elder(s)
  BY <1>1 DEF Elder
<1>3. Free(s, d, req[g])' => Free(s, d, req[g])
  BY <1>1 DEF Free
<1> QED
  BY <1>2, <1>3 DEF Texters

LEMMA RoomSteps ==
  ASSUME Typed, Typed', Timed, NEW s \in Time, NEW d \in Devices,
         now >= s, Room(s, d), now' = now, NEW h \in Reqs,
         \A g \in Reqs \ {h} : req'[g] = req[g],
         Begins(h) \/ Reads(h) \/ Works(h)
  PROVE  Room(s, d)'
<1>1. dev'[d].sms_time = dev[d].sms_time /\ texts' = texts
  BY DEF Begins, Reads, Works, Keeps, SameTimes
<1>2. NearTexts(s, d)' = NearTexts(s, d)
  BY <1>1 DEF NearTexts
<1>3. /\ s \in Int /\ now \in Int /\ req[h].now \in Int
      /\ req[h].device \in Devices
  BY RequestFields DEF Time, Typed, TypeOK
<1>4. h \in Elder(s)' <=> h \in Elder(s)
  BY <1>3 DEF Elder, Begins, Reads, Works, Keeps, Reading
<1>5. h \notin Elder(s) => (Free(s, d, req[h])' => Free(s, d, req[h]))
  BY <1>1, <1>3 DEF Free, Begins, Reads, Works, Keeps, Reading
<1>6. Elder(s)' = Elder(s)
  BY <1>1, <1>4, OthersKept DEF Elder
<1>7. Texters(s, d)' \subseteq Texters(s, d)
  BY <1>1, <1>4, <1>5, OthersKept DEF Texters
<1> QED
  BY <1>2, <1>6, <1>7, RoomKept

\* A text near s is queued by an elder, whose time is before s, or by a handler
\* that was free to and is not any more.
LEMMA RoomQueues ==
  ASSUME Typed, Typed', Timed, NEW s \in Time, NEW d \in Devices,
         now >= s, Room(s, d), now' = now, NEW h \in Reqs,
         \A g \in Reqs \ {h} : req'[g] = req[g], Queues(h)
  PROVE  Room(s, d)'
<1> DEFINE r == req[h]
<1>1. /\ dev'[d].sms_time = dev[d].sms_time
      /\ s \in Int /\ r.now \in Int
      /\ r.device \in Devices /\ r.uam \in Uams /\ r.doc \in Document
  BY RequestFields DEF Queues, Keeps, SameTimes, Time
<1>2. PICK m : /\ texts' = texts \cup {m}
               /\ m.device = r.device /\ m.sent = r.now
  BY DEF Queues
<1>3. h \in Elder(s)' <=> h \in Elder(s)
  BY DEF Elder, Queues, Keeps
<1>4. Elder(s)' = Elder(s)
  BY <1>1, <1>3, OthersKept DEF Elder
<1>5. Free(s, d, req[h])' => Free(s, d, req[h]) /\ r.device # d
  <2>1. /\ req'[h].pc = "update" /\ req'[h].device = r.device
        /\ req'[h].upd.sms_time # None /\ r.pc = "decide"
    BY <1>1, NoneAssumption DEF Queues, Keeps
  <2> QED
    BY <1>1, <2>1 DEF Free, Reading
<1>6. Texters(s, d)' \subseteq Texters(s, d)
  BY <1>1, <1>3, <1>5, OthersKept DEF Texters
<1>7. CASE ~(m.device = d /\ Near(s, m.sent))
  <2>1. NearTexts(s, d)' = NearTexts(s, d)
    BY <1>2, <1>7 DEF NearTexts
  <2> QED
    BY <1>4, <1>6, <2>1, RoomKept
<1>8. CASE m.device = d /\ Near(s, m.sent)
  <2>1. r.now >= s /\ r.device = d
    BY <1>2, <1>8 DEF Near
  <2>2. h \in Texters(s, d) \ Texters(s, d)'
    <3>1. Early(s, r.doc.sms_time)
      <4>1. SmsTimeout(r.uam) # None /\ r.now - s < SmsTimeout(r.uam)
        BY <1>1, <1>2, <1>8 DEF Near
      <4>2. r.doc.sms_time # None
              => ~(r.now - r.doc.sms_time < SmsTimeout(r.uam))
        BY <4>1 DEF Queues, TooSoon
      <4>3. SmsTimeout(r.uam) \in Int
        BY <1>1, <4>1, UamAssumption DEF SmsTimeout, Uam
      <4>4. r.doc.sms_time \in Int \cup {None}
        BY <1>1 DEF Document, Opt, Time
      <4> QED
        BY <1>1, <4>1, <4>2, <4>3, <4>4 DEF Early
    <3>2. h \notin Elder(s)
      BY <1>1, <2>1 DEF Elder
    <3>3. Free(s, d, r)
      BY <2>1, <3>1 DEF Free, Queues, Reading
    <3> QED
      BY <1>5, <2>1, <3>2, <3>3 DEF Texters
  <2>3. Cardinality(NearTexts(s, d)') <= Cardinality(NearTexts(s, d)) + 1
    <3>1. NearTexts(s, d)' \subseteq NearTexts(s, d) \cup {m}
      BY <1>2 DEF NearTexts
    <3>2. /\ IsFiniteSet(NearTexts(s, d) \cup {m})
          /\ Cardinality(NearTexts(s, d) \cup {m})
               <= Cardinality(NearTexts(s, d)) + 1
      <4> DEFINE S == NearTexts(s, d)
      <4>1. IsFiniteSet(S) /\ Cardinality(S) \in Nat
        BY RoomSizes
      <4> HIDE DEF S
      <4>2. /\ IsFiniteSet(S \cup {m})
            /\ Cardinality(S \cup {m})
                 = IF m \in S THEN Cardinality(S) ELSE Cardinality(S) + 1
        BY <4>1, FS_AddElement
      <4>3. /\ IsFiniteSet(S \cup {m})
            /\ Cardinality(S \cup {m}) <= Cardinality(S) + 1
        BY <4>1, <4>2
      <4> QED
        BY <4>3 DEF S
    <3>3. Cardinality(NearTexts(s, d)')
            <= Cardinality(NearTexts(s, d) \cup {m})
      BY <3>1, <3>2, FS_Subset
    <3>4. Cardinality(NearTexts(s, d) \cup {m}) \in Nat
      BY <3>2, FS_CardinalityType
    <3> QED
      BY <3>2, <3>3, <3>4, RoomSizes
  <2>4. Cardinality(Texters(s, d)') <= Cardinality(Texters(s, d)) - 1
    <3>1. Texters(s, d)' \subseteq Texters(s, d) \ {h}
      BY <1>6, <2>2
    <3>2. /\ IsFiniteSet(Texters(s, d) \ {h})
          /\ Cardinality(Texters(s, d) \ {h}) = Cardinality(Texters(s, d)) - 1
      BY <2>2, RoomSizes, FS_RemoveElement
    <3> QED
      BY <3>1, <3>2, FS_Subset
  <2>5. Fits(Cardinality(NearTexts(s, d)), Cardinality(Texters(s, d)),
             Cardinality(Elder(s)), Cardinality(Reqs))
    BY DEF Room
  <2>6. Fits(Cardinality(NearTexts(s, d)'), Cardinality(Texters(s, d)'),
             Cardinality(Elder(s)), Cardinality(Reqs))
    <3>1. Cardinality(NearTexts(s, d)') + Cardinality(Texters(s, d)')
            <= Cardinality(NearTexts(s, d)) + Cardinality(Texters(s, d))
      BY <2>3, <2>4, RoomSizes
    <3> QED
      BY <2>5, <3>1, RoomSizes, FitsLess
  <2> QED
    BY <1>4, <2>6 DEF Room, Fits
<1> QED
  BY <1>7, <1>8

\* A handler that ends: one that is no elder writes no time before s, and an
\* elder that does is one elder less.
LEMMA RoomEnds ==
  ASSUME Typed, Typed', Timed, NEW s \in Time, NEW d \in Devices,
         now >= s, Room(s, d), now' = now, NEW h \in Reqs,
         \A g \in Reqs \ {h} : req'[g] = req[g], Ends(h)
  PROVE  Room(s, d)'
<1> DEFINE r == req[h]
<1>1. /\ s \in Int /\ r.now \in Int /\ Clocked(r)
  BY RequestFields DEF Time, Timed
<1>2. NearTexts(s, d)' = NearTexts(s, d)
  BY DEF NearTexts, Ends
<1>3. h \notin Elder(s)'
  BY DEF Elder, Ends
<1>4. \A g \in Reqs \ {h} : g \in Elder(s)' <=> g \in Elder(s)
  BY DEF Elder
<1>5. CASE h \notin Elder(s)
  <2>1. r.now >= s
    BY <1>1, <1>5 DEF Elder, Ends
  <2>2. Early(s, dev'[d].sms_time)
          => Early(s, dev[d].sms_time) /\ ~Writes(r, d)
    <3>1. r.upd.sms_time \in {None, r.now} /\ None # r.now
      BY <1>1, NoneAssumption DEF Clocked
    <3> QED
      BY <1>1, <2>1, <3>1 DEF Early, Ends, Writes
  <2>3. Free(s, d, req[h])' => Free(s, d, req[h])
    BY <2>2 DEF Free, Ends, Writes, Reading
  <2>4. Elder(s)' = Elder(s)
    BY <1>3, <1>4, <1>5 DEF Elder
  <2>5. Texters(s, d)' \subseteq Texters(s, d)
    BY <1>5, <2>2, <2>3, OthersKept DEF Texters
  <2> QED
    BY <1>2, <2>4, <2>5, RoomKept
<1>6. CASE h \in Elder(s)
  <2>1. Elder(s)' = Elder(s) \ {h}
    BY <1>3, <1>4, <1>6 DEF Elder
  <2>2. Cardinality(Elder(s)) = Cardinality(Elder(s)') + 1
    <3>1. Cardinality(Elder(s) \ {h}) = Cardinality(Elder(s)) - 1
      BY <1>6, RoomSizes, FS_RemoveElement
    <3> QED
      BY <2>1, <3>1, RoomSizes
  <2>3. Fits(Cardinality(NearTexts(s, d)), Cardinality(Texters(s, d)),
             Cardinality(Elder(s)), Cardinality(Reqs))
    BY DEF Room
  <2>4. Fits(Cardinality(NearTexts(s, d)'), Cardinality(Texters(s, d)'),
             Cardinality(Elder(s)'), Cardinality(Reqs))
    <3>1. Cardinality(NearTexts(s, d)') <= Cardinality(NearTexts(s, d))
      BY <1>2, RoomSizes
    <3> QED
      BY <2>2, <2>3, <3>1, RoomSizes, FitsElder
  <2> QED
    BY <2>4 DEF Room, Fits
<1> QED
  BY <1>5, <1>6

\* Before s no text is near it, and no more handlers can text than there are.
LEMMA RoomTick ==
  ASSUME Typed, Typed', Timed, NEW s \in Time, NEW d \in Devices,
         now < s, texts' = texts
  PROVE  Room(s, d)'
<1>1. NearTexts(s, d)' = {}
  <2>1. \A m \in texts : ~(m.sent >= s)
    BY DEF Timed, Typed, TypeOK, Text, Time
  <2> QED
    BY <2>1 DEF NearTexts, Near
<1>2. Cardinality(NearTexts(s, d)') = 0
  BY <1>1, FS_EmptySet
<1>3. Fits(0, Cardinality(Texters(s, d)'), Cardinality(Elder(s)'),
           Cardinality(Reqs))
  BY RoomSizes, FitsTick
<1> QED
  BY <1>2, <1>3 DEF Room, Fits

\* The steps that are not of POST /phone/ change no request and no time.
LEMMA RoomElsewhere ==
  ASSUME Typed, Typed', NEW s \in Time, NEW d \in Devices,
         now >= s, Room(s, d), req' = req, texts' = texts, SameTimes
  PROVE  Room(s, d)'
<1>1. NearTexts(s, d)' = NearTexts(s, d) /\ Elder(s)' = Elder(s)
  BY DEF NearTexts, Elder
<1>2. dev'[d].sms_time = dev[d].sms_time
  BY DEF SameTimes
<1>3. Texters(s, d)' = Texters(s, d)
  BY <1>1, <1>2 DEF Texters, Free
<1> QED
  BY <1>1, <1>3, RoomKept

LEMMA RoomInit == Init => Timed /\ RoomLeft
<1> SUFFICES ASSUME Init PROVE Timed /\ RoomLeft
  OBVIOUS
<1>1. Timed
  BY DEF Init, Timed, Clocked, IdleRequest, NoUpdate, NoDocument
<1>2. ASSUME NEW s \in Time, NEW d \in Devices PROVE Room(s, d)
  <2>1. Typed
    BY TypedInit
  <2>2. /\ NearTexts(s, d) \in SUBSET {} /\ Elder(s) \in SUBSET Reqs
        /\ Texters(s, d) \in SUBSET (Reqs \ Elder(s))
    BY DEF Init, NearTexts, Elder, Texters
  <2>3. NearTexts(s, d) = {} /\ Cardinality(NearTexts(s, d)) = 0
    BY <2>2, FS_EmptySet
  <2>4. IsFiniteSet({})
    BY FS_EmptySet
  <2>5. /\ Cardinality(Texters(s, d)) \in Nat
        /\ Cardinality(Elder(s)) \in Nat /\ Cardinality(Reqs) \in Nat
        /\ Cardinality(Texters(s, d)) + Cardinality(Elder(s))
             <= Cardinality(Reqs)
    BY <2>2, <2>4, Sizes
  <2>6. Fits(0, Cardinality(Texters(s, d)), Cardinality(Elder(s)),
             Cardinality(Reqs))
    BY <2>5, FitsTick
  <2> QED
    BY <2>3, <2>6 DEF Room
<1> QED
  BY <1>1, <1>2 DEF RoomLeft

\* What the steps that are not of POST /phone/ leave as it is.
\* Failures are counted, and a step that none follows is none.
LEMMA NoneFailed ==
  ASSUME Typed, [Next]_vars, failures' = 0
  PROVE  failures = 0 /\ \A H, Q : ~BreakOff(H, Q)
<1>1. failures \in Nat
  BY BoundAssumption DEF Typed, TypeOK
<1>2. \A H, Q : ~BreakOff(H, Q)
  BY <1>1 DEF BreakOff
<1>3. ASSUME NEW h \in Reqs, PhoneStart(h) \/ Moves(h)
      PROVE  failures' = failures
  BY <1>3 DEF Moves, PhoneStart, Drops, PhoneUpsert, PhoneCount, FindUser,
              NextUser, Opens, PhoneUnchanged, PhoneQuiet, PhoneText, Gives
<1>4. ASSUME NEW p \in Polls, PollStep(p) \/ PollRequest(p)
      PROVE  failures' = failures
  BY <1>4 DEF PollStep, PollRequest, PollWake, PollSmsru, PollPlain,
              PollRightCode, PollWrongCode
<1>5. ASSUME NEW phone \in Phones, Incoming(phone)
      PROVE  failures' = failures
  BY <1>5 DEF Incoming, TextArrives, CallArrives, TokenArrives
<1>6. ASSUME TextLands \/ Tick \/ UNCHANGED vars PROVE failures' = failures
  BY <1>6 DEF TextLands, Tick, vars
<1> QED
  BY <1>2, <1>3, <1>4, <1>5, <1>6, NextCases

LEMMA ElsewhereSame ==
  ASSUME Typed, failures' = 0, [Next]_vars,
         \A h \in Reqs : ~(PhoneStart(h) \/ Moves(h))
  PROVE  /\ req' = req /\ texts' = texts /\ SameTimes
         /\ now' = now \/ now' = now + 1
<1>1. ASSUME NEW d \in Devices, dev' = [dev EXCEPT ![d].checked = TRUE]
      PROVE  SameTimes
  BY <1>1 DEF SameTimes, Typed, TypeOK, Document
<1>2. ASSUME NEW p \in Polls, PollStep(p)
      PROVE  req' = req /\ texts' = texts /\ SameTimes /\ now' = now
  <2>1. poll[p].device \in Devices
    BY DEF Typed, TypeOK, Polling
  <2>2. dev' = dev \/ dev' = [dev EXCEPT ![poll[p].device].checked = TRUE]
    BY <1>2 DEF PollStep, PollWake, PollSmsru
  <2>3. SameTimes
    BY <1>1, <2>1, <2>2 DEF SameTimes
  <2> QED
    BY <1>2, <2>3 DEF PollStep, PollWake, PollSmsru
<1>3. ASSUME NEW p \in Polls, PollRequest(p)
      PROVE  req' = req /\ texts' = texts /\ SameTimes /\ now' = now
  <2>1. ASSUME NEW d \in Devices, PollPlain(p, d)
        PROVE  req' = req /\ texts' = texts /\ SameTimes /\ now' = now
    BY <2>1 DEF PollPlain, SameTimes
  <2>2. ASSUME NEW d \in Devices, NEW c \in Codes, PollRightCode(p, d, c)
        PROVE  req' = req /\ texts' = texts /\ SameTimes /\ now' = now
    BY <1>1, <2>2 DEF PollRightCode
  <2>3. ASSUME NEW d \in Devices, NEW c \in Codes, PollWrongCode(p, d, c)
        PROVE  req' = req /\ texts' = texts /\ SameTimes /\ now' = now
    <3>1. PICK n : dev' = [dev EXCEPT ![d] = [dev[d] EXCEPT !.try = n]]
      BY <2>3 DEF PollWrongCode
    <3>2. SameTimes
      BY <3>1 DEF SameTimes, Typed, TypeOK, Document
    <3> QED
      BY <2>3, <3>2 DEF PollWrongCode
  <2> QED
    BY <1>3, <2>1, <2>2, <2>3 DEF PollRequest
<1>4. ASSUME NEW phone \in Phones, Incoming(phone)
      PROVE  req' = req /\ texts' = texts /\ SameTimes /\ now' = now
  <2>1. PICK d \in Devices : dev' = [dev EXCEPT ![d].checked = TRUE]
    BY <1>4
       DEF Incoming, TextArrives, CallArrives, TokenArrives, CheckOne, SeenSince
  <2> QED
    BY <1>1, <1>4, <2>1 DEF Incoming, TextArrives, CallArrives, TokenArrives
<1>5. ASSUME TextLands \/ Tick \/ UNCHANGED vars
      PROVE  /\ req' = req /\ texts' = texts /\ SameTimes
             /\ now' = now \/ now' = now + 1
  BY <1>5 DEF TextLands, Tick, vars, SameTimes
<1> QED
  BY <1>2, <1>3, <1>4, <1>5, NextCases, NoneFailed

LEMMA TimedNext ==
  ASSUME failures' = 0, Typed, Typed', NeverDuplicate, Present, Timed,
         [Next]_vars
  PROVE  Timed'
<1>1. \A d \in Devices : KeepsDevice(d)
  BY StepKeeps
<1>2. now \in Int /\ \A h \in Reqs : req[h].device \in Devices
  BY RequestFields DEF Typed, TypeOK, Time
<1>3. ASSUME NEW h \in Reqs, PhoneStart(h) \/ Moves(h) PROVE Timed'
  <2>1. /\ Begins(h) \/ Reads(h) \/ Works(h) \/ Queues(h) \/ Ends(h)
        /\ now' = now
    BY <1>3, RequestTimes
  <2>2. \A g \in Reqs \ {h} : req'[g] = req[g]
    BY <1>3, OneRequest
  <2>3. Clocked(req[h]) /\ now \in Time /\ 0 <= now
    BY DEF Timed, Typed, TypeOK, Time
  <2>4. Clocked(req[h])'
    BY <1>2, <2>1, <2>3
       DEF Clocked, Begins, Reads, Works, Queues, Ends, Keeps, Reading
  <2>5. \A g \in Reqs : Clocked(req[g])'
    <3>1. ASSUME NEW g \in Reqs \ {h} PROVE Clocked(req[g])'
      BY <2>1, <2>2 DEF Timed, Clocked
    <3> QED
      BY <2>4, <3>1
  <2>6. \A m \in texts' : m.sent <= now'
    BY <2>1, <2>3
       DEF Timed, Clocked, Begins, Reads, Works, Queues, Ends, Keeps
  <2>7. ASSUME NEW d \in Devices, ~dev'[d].known
        PROVE  dev'[d].sms_time = None
    <3>1. ~dev[d].known /\ dev[d].sms_time = None
      BY <1>1, <2>7 DEF KeepsDevice, Timed
    <3>2. ~Writes(req[h], d)
      BY <3>1 DEF Writes, Present
    <3> QED
      BY <2>1, <3>1, <3>2
         DEF Begins, Reads, Works, Queues, Ends, Keeps, SameTimes
  <2> QED
    BY <2>5, <2>6, <2>7 DEF Timed
<1>4. ASSUME \A h \in Reqs : ~(PhoneStart(h) \/ Moves(h)) PROVE Timed'
  <2>1. /\ req' = req /\ texts' = texts /\ SameTimes
        /\ now' = now \/ now' = now + 1
    BY <1>4, ElsewhereSame
  <2>2. \A m \in texts : m.sent \in Int
    BY DEF Typed, TypeOK, Text, Time
  <2>3. \A h \in Reqs : req[h].now \in Int
    BY RequestFields DEF Time
  <2>4. \A h \in Reqs : Clocked(req[h])'
    BY <1>2, <2>1, <2>3 DEF Timed, Clocked
  <2>5. \A m \in texts' : m.sent <= now'
    BY <1>2, <2>1, <2>2 DEF Timed
  <2>6. \A d \in Devices : ~dev'[d].known => dev'[d].sms_time = None
    BY <1>1, <2>1 DEF Timed, SameTimes, KeepsDevice
  <2> QED
    BY <2>4, <2>5, <2>6 DEF Timed
<1> QED
  BY <1>3, <1>4

LEMMA RoomNext ==
  ASSUME failures' = 0, Typed, Typed', NeverDuplicate, Present, Timed,
         RoomLeft, [Next]_vars
  PROVE  RoomLeft'
<1> SUFFICES ASSUME NEW s \in Time, NEW d \in Devices PROVE Room(s, d)'
  BY DEF RoomLeft
<1>1. now \in Int /\ s \in Int /\ Room(s, d)
  BY DEF Typed, TypeOK, Time, RoomLeft
<1>2. ASSUME NEW h \in Reqs, PhoneStart(h) \/ Moves(h), now >= s
      PROVE  Room(s, d)'
  <2>1. /\ Begins(h) \/ Reads(h) \/ Works(h) \/ Queues(h) \/ Ends(h)
        /\ now' = now
    BY <1>2, RequestTimes
  <2>2. \A g \in Reqs \ {h} : req'[g] = req[g]
    BY <1>2, OneRequest
  <2> QED
    BY <1>1, <1>2, <2>1, <2>2, RoomSteps, RoomQueues, RoomEnds
<1>3. ASSUME NEW h \in Reqs, PhoneStart(h) \/ Moves(h), now < s
      PROVE  Room(s, d)'
  <2>1. now' = now
    BY <1>3, RequestTimes
  <2> QED
    BY <1>1, <1>3, <2>1 DEF Room
<1>4. ASSUME \A h \in Reqs : ~(PhoneStart(h) \/ Moves(h))
      PROVE  Room(s, d)'
  <2>1. req' = req /\ texts' = texts /\ SameTimes
    BY <1>4, ElsewhereSame
  <2>2. CASE now < s
    BY <2>1, <2>2, RoomTick
  <2>3. CASE now >= s
    BY <1>1, <2>1, <2>3, RoomElsewhere
  <2> QED
    BY <1>1, <2>2, <2>3
<1> QED
  BY <1>1, <1>2, <1>3, <1>4

\* Of n requests that run at once, none of which fails, at most
\* n(n+1)/2 texts go to one device within the timeout of the first of them.
THEOREM FewResends == Spec => []ResendsBounded
<1> DEFINE Inv == /\ Typed /\ Accounts /\ Present
                  /\ failures = 0 => Timed /\ RoomLeft
<1>1. Init => Inv
  BY TypedInit, AccountsInit, PresentInit, RoomInit
<1>2. Inv /\ [Next]_vars => Inv'
  BY TypedNext, AccountsNext, NoDuplicate, StepKeeps, NoneFailed, TimedNext,
     RoomNext
<1>3. Inv => ResendsBounded
  <2> SUFFICES ASSUME Inv, failures = 0, NEW m \in texts
               PROVE  2 * Cardinality(
                        {k \in texts :
                           /\ k.device = m.device /\ k.sent >= m.sent
                           /\ \A u \in Uams : /\ SmsTimeout(u) # None
                                              /\ k.sent - m.sent < SmsTimeout(u)})
                        <= Cardinality(Reqs) * (Cardinality(Reqs) + 1)
    BY DEF ResendsBounded
  <2> DEFINE s == m.sent
             d == m.device
  <2>1. s \in Time /\ d \in Devices /\ now >= s
    BY DEF Typed, TypeOK, Text, Timed, Time
  <2>2. NearTexts(s, d)
          = {k \in texts :
               /\ k.device = m.device /\ k.sent >= m.sent
               /\ \A u \in Uams : /\ SmsTimeout(u) # None
                                  /\ k.sent - m.sent < SmsTimeout(u)}
    BY DEF NearTexts, Near
  <2>3. /\ NearTexts(s, d) \in SUBSET texts /\ IsFiniteSet(texts)
        /\ Elder(s) \in SUBSET Reqs
        /\ Texters(s, d) \in SUBSET (Reqs \ Elder(s))
    BY DEF NearTexts, Typed, Elder, Texters
  <2>4. /\ Cardinality(NearTexts(s, d)) \in Nat
        /\ Cardinality(Texters(s, d)) \in Nat
        /\ Cardinality(Elder(s)) \in Nat /\ Cardinality(Reqs) \in Nat
        /\ Cardinality(Texters(s, d)) + Cardinality(Elder(s))
             <= Cardinality(Reqs)
    BY <2>3, Sizes
  <2>5. Fits(Cardinality(NearTexts(s, d)), Cardinality(Texters(s, d)),
             Cardinality(Elder(s)), Cardinality(Reqs))
    BY <2>1 DEF RoomLeft, Room
  <2>6. Cardinality(Elder(s)) <= Cardinality(Reqs)
    BY <2>4
  <2>7. 2 * Cardinality(NearTexts(s, d))
          <= Cardinality(Reqs) * (Cardinality(Reqs) + 1)
    BY <2>4, <2>5, <2>6, FitsEnd
  <2> QED
    BY <2>2, <2>7
<1> QED
  BY <1>1, <1>2, <1>3, PTL DEF Spec
=============================================================================
