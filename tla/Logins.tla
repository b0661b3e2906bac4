------------------------------- MODULE Logins -------------------------------
(***************************************************************************)
(* What Access takes for granted of a password: that it is accepted        *)
(* exactly when it is the right one, by whichever method the router asks   *)
(* (Packet.check_password and pw_decrypt of literadius/packet.py, mschap/).*)
(* Pure functions of octets.                                               *)
(*                                                                         *)
(* An octet is a number and a set of digest octets, all under exclusive    *)
(* or.  A digest is a symbol for its input: two are equal if their inputs  *)
(* are (md5, hmac, md4, sha1 and DES have no collisions).                  *)
(***************************************************************************)
EXTENDS Integers, Sequences

----------------------------------------------------------------------------
(* Octets *)

Octet(n) == [n |-> n, of |-> {}]
Octets(s) == [i \in DOMAIN s |-> Octet(s[i])]
Nulls(k) == [i \in 1..k |-> Octet(0)]

Digest(algorithm, data, size) ==
  [i \in 1..size |-> [n |-> 0, of |-> {<<algorithm, data, i>>}]]

\* Exclusive or with the octet of a digest, whose number is 0.
OctetXor(o, digest) ==
  [o EXCEPT !.of = (@ \cup digest.of) \ (@ \cap digest.of)]

\* s[from:to] of Python.
Slice(s, from, to) == SubSeq(s, from + 1, to)

Secret == Octets(<<7, 7>>)

----------------------------------------------------------------------------
(* Attributes.  A key is a vendor, 0 without one, and a type. *)

Standard(type) == <<0, type>>
UserName == Standard(1)
UserPassword == Standard(2)
CHAPPassword == Standard(3)
CHAPChallenge == Standard(60)
Microsoft == 311
MSCHAPResponse == <<Microsoft, 1>>
MSCHAPChallenge == <<Microsoft, 11>>
MSCHAP2Response == <<Microsoft, 25>>

Attribute(k, v) == [k |-> k, v |-> v]
Has(p, k) == \E a \in p.attrs : a.k = k
Get(p, k) == (CHOOSE a \in p.attrs : a.k = k).v

----------------------------------------------------------------------------
(* Cleartexts *)

\* Of octet i of a value in blocks of 16: the octets before its block, and its
\* place in the block.
Past(i) == 16 * ((i - 1) \div 16)
Place(i) == ((i - 1) % 16) + 1

BeforeNever(authenticator, v, i) == authenticator        \* mutant: not chained
Before(authenticator, v, i) ==
  IF Past(i) = 0 THEN authenticator ELSE Slice(v, Past(i) - 16, Past(i))

\* rstrip of zeros
Stripped(s) ==
  SubSeq(s, 1, CHOOSE n \in 0..Len(s) : /\ n = 0 \/ s[n] # Octet(0)
                                        /\ \A i \in n + 1..Len(s) : s[i] = Octet(0))

\* pw_decrypt
Decrypted(authenticator, v) ==
  LET Hash(i) == Digest("md5", Secret \o Before(authenticator, v, i), 16)
  IN  Stripped([i \in 1..Len(v) |-> OctetXor(v[i], Hash(i)[Place(i)])])

Utf16(s) == [i \in 1..2 * Len(s) |-> IF i % 2 = 1 THEN s[(i + 1) \div 2] ELSE Octet(0)]
NtHash(password) == Digest("md4", Utf16(password), 16)

\* des.py: 56 bits become the upper seven of eight octets; the parity is not
\* part of the key.
Key64(k) ==
  LET At(i) == IF i \in 1..7 THEN k[i] ELSE 0
  IN  [i \in 1..8 |->
         2 * ((((At(i - 1) * 2^(9 - i)) % 256) + (At(i) \div 2^(i - 1))) \div 2)]
Des(key, data) == Digest("des", key \o <<Octet(256)>> \o data, 8)

\* challenge_response: the hash padded to 21 octets is three keys.
ChallengeResponse(challenge, hash) ==
  LET keys == hash \o Nulls(5)
      Part(i) == Des(Slice(keys, 7 * i, 7 * i + 7), challenge)
  IN  Part(0) \o Part(1) \o Part(2)

ChallengeHash(peer, challenge, user) == Digest("sha1", peer \o challenge \o user, 8)

NtResponse(challenge, password) == ChallengeResponse(challenge, NtHash(password))
NtResponse2(challenge, peer, user, password) ==
  ChallengeResponse(ChallengeHash(peer, challenge, user), NtHash(password))

Magic1 == Octets(<<77>>)
Magic2 == Octets(<<80>>)
AuthenticatorDigest(password, response, peer, challenge, user) ==
  LET digest == Digest("sha1", Digest("md4", NtHash(password), 16)
                                 \o response \o Magic1, 20)
  IN  Digest("sha1", digest \o ChallengeHash(peer, challenge, user) \o Magic2, 20)

\* The Ident octet of an MS-CHAP2-Success, which is always 1, and its text.
AuthenticatorResponse(password, response, peer, challenge, user) ==
  <<Octet(1)>> \o AuthenticatorDigest(password, response, peer, challenge, user)

\* check_password: the first method the packet has decides.
CheckPassword(p, cleartext) ==
  IF Has(p, UserPassword)
  THEN Decrypted(p.authenticator, Get(p, UserPassword)) = cleartext
  ELSE IF Has(p, CHAPPassword)
  THEN LET password == Get(p, CHAPPassword)
       IN  Slice(password, 1, Len(password))
             = Digest("md5", <<password[1]>> \o cleartext \o Get(p, CHAPChallenge), 16)
  ELSE IF ~Has(p, MSCHAPChallenge) THEN FALSE
  ELSE IF Has(p, MSCHAPResponse)
  THEN NtResponse(Get(p, MSCHAPChallenge), cleartext)
         = Slice(Get(p, MSCHAPResponse), 26, 50)
  ELSE /\ Has(p, MSCHAP2Response)
       /\ LET response == Get(p, MSCHAP2Response)
          IN  /\ Len(response) = 50
              /\ NtResponse2(Get(p, MSCHAPChallenge), Slice(response, 2, 18),
                             Get(p, UserName), cleartext)
                   = Slice(response, 26, 50)

\* What check_password gives for MSCHAP2Success.
Success(p, cleartext) ==
  LET response == Get(p, MSCHAP2Response)
  IN  AuthenticatorResponse(cleartext, Slice(response, 26, 50), Slice(response, 2, 18),
                            Get(p, MSCHAPChallenge), Get(p, UserName))

----------------------------------------------------------------------------
(* The router, as RFC 2865, RFC 2433 and RFC 2759 have it *)

Authenticator == Digest("random", <<Octet(1)>>, 16)
Challenge == Digest("random", <<Octet(2)>>, 16)
Peer == Digest("random", <<Octet(3)>>, 16)
User == Octets(<<85>>)

\* A password filled up with zeros to blocks of 16 octets, each hidden by the
\* digest of what the one before it was hidden as.
Padded(password) ==
  password \o Nulls(16 * ((Len(password) + 15) \div 16) - Len(password))

HiddenBy(v, i) == IF i <= 16 THEN Authenticator ELSE Slice(v, Past(i) - 16, Past(i))

Hides(password, v) ==
  /\ Len(v) = Len(Padded(password))
  /\ \A i \in 1..Len(v) :
       v[i] = OctetXor(Padded(password)[i],
                       Digest("md5", Secret \o HiddenBy(v, i), 16)[Place(i)])

CONSTANTS
  Cleartexts,  \* the passwords there may be
  Hidden       \* what the router sends for each in a User-Password

\* A password is text, which has no zeros.
ASSUME CleartextAssumption ==
  \A c \in Cleartexts : /\ Len(c) \in Nat /\ DOMAIN c = 1..Len(c)
                        /\ c = [i \in 1..Len(c) |-> Octet(c[i].n)]
                        /\ \A i \in 1..Len(c) : c[i].n \in 1..255
ASSUME HiddenAssumption == \A c \in Cleartexts : Hides(c, Hidden[c])

\* A login by a method; LM responses are not looked at.
Login(method, password) ==
  {Attribute(UserName, User)} \cup
    CASE method = "pap" -> {Attribute(UserPassword, Hidden[password])}
      [] method = "chap" ->
           {Attribute(CHAPChallenge, Challenge),
            Attribute(CHAPPassword, <<Octet(5)>> \o
              Digest("md5", <<Octet(5)>> \o password \o Challenge, 16))}
      [] method = "mschap" ->
           {Attribute(MSCHAPChallenge, Slice(Challenge, 0, 8)),
            Attribute(MSCHAPResponse, Octets(<<5, 1>>) \o Nulls(24) \o
              NtResponse(Slice(Challenge, 0, 8), password))}
      [] method = "mschap2" ->
           {Attribute(MSCHAPChallenge, Challenge),
            Attribute(MSCHAP2Response, Octets(<<5, 0>>) \o Peer \o Nulls(8) \o
              NtResponse2(Challenge, Peer, User, password))}

\* The packet of it, as Packet reads it.
Asked(method, password) ==
  [authenticator |-> Authenticator, attrs |-> Login(method, password)]

----------------------------------------------------------------------------
(* Properties *)

Methods == {"pap", "chap", "mschap", "mschap2"}

OneBit == {[i \in 1..7 |-> IF i = j THEN 2^b ELSE 0] : j \in 1..7, b \in 0..7}

\* Whatever method the router asks by, a password is accepted exactly if it is
\* the one given, also when it is longer than a block, and the text of an
\* MS-CHAP2-Success is then the one that a router expects which wants to know the
\* portal (packet.py:190); no bit of a DES key is lost (des.py:23).  (The Ident
\* octet before the text is always 1, mschap.py:233, and not that of the
\* response, here 5, as RFC 2548 has it: a router may not compare it.)
PasswordsChecked ==
  /\ \A method \in Methods, given, cleartext \in Cleartexts :
       CheckPassword(Asked(method, given), cleartext) <=> given = cleartext
  /\ \A given, cleartext \in Cleartexts :
       LET response == NtResponse2(Challenge, Peer, User, given)
       IN  Slice(Success(Asked("mschap2", given), cleartext), 1, 21)
             = AuthenticatorDigest(given, response, Peer, Challenge, User)
           <=> given = cleartext
  /\ \A k, l \in OneBit : Key64(k) = Key64(l) => k = l
=============================================================================
