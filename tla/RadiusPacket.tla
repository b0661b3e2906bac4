---------------------------- MODULE RadiusPacket ----------------------------
(***************************************************************************)
(* What Access takes for granted of a packet: that it is read as it was    *)
(* written (literadius/packet.py), and that the router reads in a reply    *)
(* the limits that set_limits meant.  Pure functions of octets, as they    *)
(* are defined in Logins.                                                  *)
(***************************************************************************)
EXTENDS Logins, FiniteSets, SequencesExt

CONSTANTS
  Byte,          \* values of an octet of an integer, 256
  Mega           \* 2^20

Word == Byte * Byte * Byte * Byte                \* integers have 4 octets

\* struct.pack of an integer; its value again.
Pack(v, size, base) == [i \in 1..size |-> Octet((v \div base^(size - i)) % base)]
Int4(v) == Pack(v, 4, Byte)
Value(s) == FoldLeft(LAMBDA acc, o : acc * Byte + o.n, 0, s)

----------------------------------------------------------------------------
(* Attributes *)

ReplyMessage == Standard(18)
SessionTimeout == Standard(27)
PortLimit == Standard(62)
MessageAuthenticator == Standard(80)
FilterId == Standard(11)
AscendDataRate == Standard(197)
AscendXmitRate == Standard(255)
Mikrotik == 14988
WISPr == 14122
WISPrRedirectionURL == <<WISPr, 4>>
WISPrBandwidthMaxUp == <<WISPr, 7>>
WISPrBandwidthMaxDown == <<WISPr, 8>>
RecvLimit == <<Mikrotik, 1>>
XmitLimit == <<Mikrotik, 2>>
RateLimit == <<Mikrotik, 8>>
RecvLimitGigawords == <<Mikrotik, 14>>
XmitLimitGigawords == <<Mikrotik, 15>>

AccessRequest == 1
AccessAccept == 2
AccessReject == 3

\* data: what a value is cut into.
LongestOfAll(k) == 255                           \* mutant: no room for a header
Longest(k) == IF k[1] = 0 THEN 253 ELSE 249

Lead(k, size) ==
  IF k[1] = 0 THEN <<Octet(k[2]), Octet(size + 2)>>
  ELSE <<Octet(26), Octet(size + 8)>> \o Pack(k[1], 4, 256)
         \o <<Octet(k[2]), Octet(size + 2)>>

\* A value without octets gives nothing.
Chunks(k, v) ==
  LET n == (Len(v) + Longest(k) - 1) \div Longest(k)
      Cut(i) == Slice(v, (i - 1) * Longest(k), Min({i * Longest(k), Len(v)}))
  IN  FlattenSeq([i \in 1..n |-> Lead(k, Len(Cut(i))) \o Cut(i)])

\* parse: keys and values, from a cursor on.  Every vendor attribute holds one
\* of the vendor's.
RECURSIVE EntriesFrom(_, _)
EntriesFrom(body, cursor) ==
  IF cursor >= Len(body) THEN <<>>
  ELSE LET vendor == body[cursor + 1].n = 26
           start == IF vendor THEN cursor + 8 ELSE cursor + 2
           end == start + body[start].n - 2
           id == Slice(body, cursor + 2, cursor + 6)
           key == IF vendor
                  THEN <<FoldLeft(LAMBDA acc, o : acc * 256 + o.n, 0, id),
                         body[start - 1].n>>
                  ELSE Standard(body[cursor + 1].n)
       IN  <<[k |-> key, v |-> Slice(body, start, end), at |-> start]>>
             \o EntriesFrom(body, end)
Entries(body) == EntriesFrom(body, 0)

----------------------------------------------------------------------------
(* Packets *)

Header(code, id, size, authenticator) ==
  <<Octet(code), Octet(id)>> \o Pack(size, 2, 256) \o authenticator

\* get_message_authenticator: its own octets count as zeros.
Signature(header, body, cursor) ==
  Digest("hmac", Secret \o header \o Slice(body, 0, cursor) \o Nulls(16)
                   \o Slice(body, cursor + 16, Len(body)), 16)

\* Packet(data): a later value of a key replaces an earlier one; a signature
\* that is not right raises.
Received(data) ==
  LET header == Slice(data, 0, 20)
      body == Slice(data, 20, Len(data))
      all == Entries(body)
      last == {i \in DOMAIN all : \A j \in i + 1..Len(all) : all[j].k # all[i].k}
  IN  [ok |-> \A i \in DOMAIN all : all[i].k = MessageAuthenticator =>
                Signature(header, body, all[i].at) = all[i].v,
       id |-> header[2].n,
       authenticator |-> Slice(header, 4, 20),
       attrs |-> {[k |-> all[i].k, v |-> all[i].v] : i \in last}]

\* reply() of a request, and data() of the reply; attrs in the order in which
\* they were set.
Data(code, request, attrs, signed) ==
  LET plain == FlattenSeq([i \in DOMAIN attrs |-> Chunks(attrs[i].k, attrs[i].v)])
      body == IF signed THEN plain \o Lead(MessageAuthenticator, 16) \o Nulls(16)
              ELSE plain
      header == Header(code, request.id, 20 + Len(body), request.authenticator)
      cursor == Len(plain) + 2
      resp == header \o
        IF signed THEN Slice(body, 0, cursor) \o Signature(header, body, cursor)
        ELSE body
  IN  Slice(resp, 0, 4) \o Digest("md5", resp \o Secret, 16)
        \o Slice(resp, 20, Len(resp))

----------------------------------------------------------------------------
(* set_limits.  A limit is a key and a number; rates and bytes are in mega. *)

\* "rate" to a MikroTik is a text; "bytes" goes to the attributes of a MikroTik
\* whatever the router is, since `nas | typeofNAS.mikrotik' is never 0.
Written(nas, limit) ==
  LET v == limit.v
      b == v * Mega
  IN  CASE limit.k = "rate" /\ "mikrotik" \in nas -> <<Attribute(RateLimit, Octets(<<v>>))>>
        [] limit.k = "rate" /\ "mikrotik" \notin nas ->
             IF nas \cap {"wispr", "chilli"} # {}
             THEN <<Attribute(WISPrBandwidthMaxDown, Int4(b)),
                    Attribute(WISPrBandwidthMaxUp, Int4(b))>>
             ELSE <<Attribute(AscendDataRate, Int4(b)),
                    Attribute(AscendXmitRate, Int4(b))>>
        [] limit.k = "time" -> <<Attribute(SessionTimeout, Int4(v))>>
        [] limit.k = "redir" -> <<Attribute(WISPrRedirectionURL, v)>>
        [] limit.k = "filter" -> <<Attribute(FilterId, v)>>
        [] limit.k = "ports" -> <<Attribute(PortLimit, Int4(v))>>
        [] limit.k = "bytes" ->
             <<Attribute(RecvLimit, Int4(b % Word)), Attribute(XmitLimit, Int4(b % Word))>>
             \o IF b \div Word > 0
                THEN <<Attribute(RecvLimitGigawords, Int4(b \div Word)),
                       Attribute(XmitLimitGigawords, Int4(b \div Word))>>
                ELSE <<>>

UsedUpNever(limit) == FALSE                      \* mutant: no assertion
UsedUp(limit) == limit.k \in {"time", "ports", "bytes"} /\ limit.v <= 0

\* An assertion that fails turns the reply into a Reject with a message; what
\* was set before stays in it.
SetLimits(nas, limits) ==
  LET bad == {i \in DOMAIN limits : UsedUp(limits[i])}
      n == IF bad = {} THEN Len(limits) ELSE Min(bad) - 1
      set == FlattenSeq([i \in 1..n |-> Written(nas, limits[i])])
  IN  IF bad = {} THEN [code |-> AccessAccept, attrs |-> set]
      ELSE [code |-> AccessReject,
            attrs |-> Append(set, Attribute(ReplyMessage, Octets(<<69>>)))]

----------------------------------------------------------------------------
(* The router *)

\* A request with the attributes of a sequence, signed with a secret or not.
Request(attrs, secret) ==
  LET plain == FlattenSeq([i \in DOMAIN attrs |->
                 Lead(attrs[i].k, Len(attrs[i].v)) \o attrs[i].v])
      start == plain \o Lead(MessageAuthenticator, 16)
      body == IF secret = <<>> THEN plain ELSE start \o Nulls(16)
      header == Header(AccessRequest, 9, 20 + Len(body), Authenticator)
  IN  header \o IF secret = <<>> THEN body
                ELSE start \o Digest("hmac", secret \o header \o body, 16)

\* What the router checks in a reply to its request.
Verified(data, signed) ==
  LET body == Slice(data, 20, Len(data))
      own == Slice(data, 0, 4) \o Authenticator
      plain == Slice(body, 0, Len(body) - 16)
  IN  /\ Slice(data, 4, 20) = Digest("md5", own \o body \o Secret, 16)
      /\ Slice(data, 2, 4) = Pack(Len(data), 2, 256)
      /\ signed => body = plain \o Digest("hmac", Secret \o own \o plain \o Nulls(16), 16)

\* What it sends for a password, a block after the other.
RECURSIVE HiddenFrom(_, _)
HiddenFrom(password, before) ==
  IF password = <<>> THEN <<>>
  ELSE LET padded == Slice(password, 0, Min({16, Len(password)})) \o Nulls(16)
           hash == Digest("md5", Secret \o before, 16)
           block == [i \in 1..16 |-> OctetXor(padded[i], hash[i])]
       IN  block \o HiddenFrom(Slice(password, 16, Len(password)), block)

\* What a MikroTik makes of its attributes: the octets of a session.
Sum(attrs, low, high) ==
  LET Number(k) == LET with == {i \in DOMAIN attrs : attrs[i].k = k}
                   IN  IF with = {} THEN 0 ELSE Value(attrs[Max(with)].v)
  IN  Number(low) + Word * Number(high)

----------------------------------------------------------------------------
(* Properties, over small inputs at the boundaries *)

\* One octet, another, a block and one more.
SomeCleartexts == {Octets(<<49>>), Octets(<<50>>),
                   Octets([i \in 1..16 |-> 49]), Octets([i \in 1..17 |-> 49]),
                   Octets([i \in 1..17 |-> IF i = 17 THEN 50 ELSE 49])}
HiddenSome == [c \in SomeCleartexts |-> HiddenFrom(c, Authenticator)]

\* A vendor's value of 248 octets or more does not fit the octet of its length
\* (data() adds 8 to a piece of 249 and raises); none that spot4 sets is so long.
Values(k) == {Octets([i \in 1..size |-> i % 3]) :
                size \in {1, 247} \cup (IF k[1] = 0 THEN {253, 254, 507} ELSE {})}

\* The limits there may be, about the word.
LimitsAt == {<<[k |-> "filter", v |-> Octets(<<102>>)],
              [k |-> "time", v |-> t], [k |-> "bytes", v |-> b]>> :
             t \in {0, 1, Word - 1},
             b \in {0, 1, (Word \div Mega) - 1, Word \div Mega, 1 + (Word \div Mega),
                    2 + 2 * (Word \div Mega)}}

\* Both sides of a router understand each other: a request is read as it was
\* written, a login by any method too, and refused if it was signed with another
\* secret; a reply can be verified, carries values of any length, in pieces of 253
\* octets at most (packet.py:118), and a MikroTik reads in it the limits that were
\* meant, in gigawords too (protocol.py:375).
PacketsUnderstood ==
  LET request == Received(Request(<<>>, <<>>))
  IN
  /\ \A x, y \in Values(RateLimit), secret \in {<<>>, Secret, Nulls(2)} :
       LET attrs == <<Attribute(ReplyMessage, x), Attribute(RateLimit, y)>>
           p == Received(Request(attrs, secret))
       IN  /\ p.ok <=> secret # Nulls(2)
           /\ {a \in p.attrs : a.k # MessageAuthenticator} = ToSet(attrs)
  /\ \A method \in Methods, given \in Cleartexts :
       LET p == Received(Request(SetToSeq(Login(method, given)), <<>>))
       IN  /\ p.ok /\ p.attrs = Login(method, given)
           /\ p.authenticator = Authenticator
  /\ \A k \in {ReplyMessage, RateLimit}, signed \in BOOLEAN :
       \A v \in Values(k) :
         LET data == Data(AccessAccept, request, <<Attribute(k, v)>>, signed)
             read == SelectSeq(Entries(Slice(data, 20, Len(data))), LAMBDA e : e.k = k)
         IN  /\ Verified(data, signed)
             /\ FlattenSeq([i \in DOMAIN read |-> read[i].v]) = v
             /\ \A o \in ToSet(data) : o.n <= 255
  /\ \A limits \in LimitsAt :
       LET reply == SetLimits({"mikrotik"}, limits)
           data == Data(reply.code, request, reply.attrs, FALSE)
           read == Entries(Slice(data, 20, Len(data)))
       IN  /\ reply.code = AccessReject <=> \E i \in 2..3 : limits[i].v = 0
           /\ reply.code = AccessAccept =>
                /\ Sum(read, SessionTimeout, <<0, 0>>) = limits[2].v
                /\ Sum(read, RecvLimit, RecvLimitGigawords) = limits[3].v * Mega
                /\ Sum(read, XmitLimit, XmitLimitGigawords) = limits[3].v * Mega
=============================================================================
