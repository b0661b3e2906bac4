-------------------------- MODULE SmsSender_proofs --------------------------
(***************************************************************************)
(* Theorems about SmsSender, for any number of texts, copies, gates and    *)
(* round robins and any size of the collection.                            *)
(***************************************************************************)
EXTENDS SmsSender, FiniteSetTheorems, SequenceTheorems, WellFoundedInduction,
        TLAPS

\* A non-empty set of numbers has a least one.
LEMMA MinIn ==
  ASSUME NEW S \in SUBSET Nat, S # {}
  PROVE  Min(S) \in S /\ \A y \in S : Min(S) <= y
<1> DEFINE R == {ss \in Nat \X Nat : ss[1] < ss[2]}
<1>1. IsWellFoundedOn(R, Nat)
  BY NatLessThanWellFounded DEF OpToRel
<1>2. PICK x \in S : \A y \in S : <<y, x>> \notin R
  <2> HIDE DEF R
  <2> QED
    BY <1>1, WFMin
<1>3. ASSUME NEW y \in S PROVE x <= y
  <2>1. ~(y < x)
    BY <1>2
  <2> QED
    BY <2>1
<1>4. \E x1 \in S : \A y \in S : x1 <= y
  BY <1>3
<1> QED
  BY <1>4 DEF Min

\* A non-empty set of numbers with a bound has a greatest one.
LEMMA MaxIn ==
  ASSUME NEW n \in Nat, NEW S \in SUBSET (0..n), S # {}
  PROVE  Max(S) \in S /\ \A y \in S : y <= Max(S)
<1> DEFINE T == {k \in Nat : n - k \in S}
<1>1. T \in SUBSET Nat /\ T # {}
  <2>1. PICK x \in S : TRUE
    OBVIOUS
  <2>2. n - x \in T
    BY <2>1
  <2> QED
    BY <2>2
<1>2. Min(T) \in T /\ \A y \in T : Min(T) <= y
  <2> HIDE DEF T
  <2> QED
    BY <1>1, MinIn
<1>3. n - Min(T) \in S
  BY <1>2
<1>4. ASSUME NEW y \in S PROVE y <= n - Min(T)
  <2>1. n - y \in T
    OBVIOUS
  <2>2. Min(T) \in Nat
    BY <1>2
  <2> QED
    BY <1>2, <2>1, <2>2
<1>5. \E x \in S : \A y \in S : x >= y
  BY <1>3, <1>4
<1> QED
  BY <1>5 DEF Max

\* Going on far enough a round robin comes to each of its places.
LEMMA ComesRound ==
  ASSUME NEW n \in Nat \ {0}, NEW t \in 0..(n - 1), NEW j \in 0..(n - 1)
  PROVE  \E k \in 0..(n - 1) : (t + k) % n = j
<1>1. CASE t <= j
  <2>1. j - t \in 0..(n - 1) /\ t + (j - t) = j
    BY <1>1
  <2>2. j % n = j
    OBVIOUS
  <2> QED
    BY <2>1, <2>2
<1>2. CASE j < t
  <2>1. j - t + n \in 0..(n - 1) /\ t + (j - t + n) = j + n
    BY <1>2
  <2>2. (j + n) % n = j
    OBVIOUS
  <2> QED
    BY <2>1, <2>2
<1> QED
  BY <1>1, <1>2
----------------------------------------------------------------------------
(* The invariant *)

Logged == {log[i] : i \in 1..Len(log)}

\* A round robin is at one of its places, a message in hand was inserted, and
\* nothing is taken that was not fetched.
Typed ==
  /\ TypeOK
  /\ taken <= position
  /\ \A c \in Cycles : turn[c] < Len(GatesOf[c])
  /\ pc \in {"send", "sleep"} => sms \in Logged
  /\ last \in Logged \cup {0}

\* What was there before stays behind the cursor, in whatever order texts came.
OldBehind ==
  /\ \A m \in old : m <= last
  /\ pc \in {"fetch", "send", "sleep"} => \A m \in old : m <= after
  /\ pc \in {"send", "sleep"} => after < sms

\* Inserts that are done in order make a log in order.
Increasing ==
  /\ \A i, j \in 1..Len(log) : i < j => log[i] < log[j]
  /\ \A m \in pending, i \in 1..Len(log) : log[i] < m

\* What lies before the cursor, and is not lost, is done with; what lies behind
\* it is not begun.
Cursor ==
  /\ pc \in {"fetch", "send", "sleep"} => after <= last
  /\ pc = "fetch" =>
       \A i \in 1..Len(log) :
         /\ i > taken /\ log[i] > after => log[i] > last
         /\ Rolled < i /\ i <= taken => log[i] <= last
  /\ pc \in {"send", "sleep"} =>
       /\ taken > 0 /\ sms = log[taken] /\ last < sms
       /\ \A i \in 1..(taken - 1) : Rolled < i => log[i] <= last

HasGate(m) == LET c == CycleOf[m]
              IN  c # None /\ \E g \in ToSet(GatesOf[c]) : m \in Takes[g]

\* The copies of each message that are out.
Counts ==
  /\ \A m \in Msgs : sent[m] # <<>> =>
       /\ m \in Logged
       /\ pc \in {"find", "fetch"} => m <= last
       /\ pc \in {"send", "sleep"} => m <= last \/ m = sms
  /\ \A m \in Msgs : Len(sent[m]) <= Due(m)
  /\ pc = "send" => /\ left <= Copies[sms]
                    /\ Len(sent[sms]) = IF HasGate(sms)
                                        THEN Copies[sms] - left ELSE 0
  /\ pc = "sleep" => Len(sent[sms]) = Due(sms)
  /\ \A m \in Stored \ old : m <= last => Len(sent[m]) = Due(m)

Inv == Typed /\ OldBehind /\ (inorder => Increasing /\ Cursor /\ Counts)

----------------------------------------------------------------------------
(* The operators of the model *)

LEMMA LogFacts ==
  ASSUME Typed
  PROVE  /\ Len(log) \in Nat
         /\ \A i \in 1..Len(log) : log[i] \in 1..issued
         /\ Rolled \in 0..Len(log)
         /\ Places \subseteq 1..Len(log)
         /\ Logged \subseteq 1..issued
         /\ Stored \subseteq Logged
<1>1. Len(log) \in Nat /\ \A i \in 1..Len(log) : log[i] \in 1..issued
  BY DEF Typed, TypeOK
<1>2. Rolled \in 0..Len(log)
  BY <1>1, BoundAssumption DEF Rolled
<1>3. Places \subseteq 1..Len(log)
  BY <1>1, <1>2 DEF Places
<1> QED
  BY <1>1, <1>2, <1>3 DEF Logged, Stored

\* The newest record is always there, and is the last one when they are in order.
LEMMA NewestFacts ==
  ASSUME Typed
  PROVE  /\ Newest \in Logged \cup {0}
         /\ \A m \in Stored : m <= Newest
         /\ Increasing => \A m \in Logged : m <= Newest
         /\ Stored = {} => Logged = {}
<1>1. /\ Len(log) \in Nat /\ Rolled \in 0..Len(log)
      /\ Logged \subseteq 1..issued /\ Stored \subseteq Logged
      /\ \A i \in 1..Len(log) : log[i] \in 1..issued
  BY LogFacts
<1>2. issued \in Nat
  BY BoundAssumption DEF Typed, TypeOK
<1>3. ASSUME Logged # {}
      PROVE  Len(log) >= 1 /\ log[Len(log)] \in Stored
  <2>1. Len(log) >= 1
    BY <1>1, <1>3 DEF Logged
  <2>2. Rolled < Len(log)
    BY <1>1, <2>1, BoundAssumption DEF Rolled
  <2> QED
    BY <1>1, <2>1, <2>2 DEF Stored, Places
<1>4. ASSUME Stored # {}
      PROVE  Newest \in Stored /\ \A m \in Stored : m <= Newest
  <2>1. Stored \in SUBSET (0..issued)
    BY <1>1, <1>2
  <2> QED
    BY <1>2, <1>4, <2>1, MaxIn DEF Newest
<1>5. ASSUME Increasing, NEW m \in Logged PROVE m <= Newest
  <2>1. PICK i \in 1..Len(log) : m = log[i]
    BY DEF Logged
  <2>2. m <= log[Len(log)]
    BY <1>1, <1>2, <1>5, <2>1 DEF Increasing
  <2>3. log[Len(log)] <= Newest /\ Newest \in Stored
    BY <1>3, <1>4
  <2> QED
    BY <1>1, <1>2, <2>1, <2>2, <2>3
<1> QED
  BY <1>1, <1>3, <1>4, <1>5 DEF Newest

\* The next record is the first behind the cursor that it looks for.
LEMMA NextRecord ==
  ASSUME Typed, Fetched # {}
  PROVE  /\ Min(Fetched) \in (taken + 1)..position
         /\ Min(Fetched) \in 1..Len(log)
         /\ log[Min(Fetched)] \in 1..issued
         /\ log[Min(Fetched)] > after
         /\ \A i \in (taken + 1)..(Min(Fetched) - 1) : log[i] <= after
<1>1. /\ taken \in Nat /\ position \in Nat /\ taken <= Len(log)
      /\ position <= Len(log) /\ after \in Nat /\ issued \in Nat
      /\ Len(log) \in Nat /\ \A i \in 1..Len(log) : log[i] \in 1..issued
  BY LogFacts, BoundAssumption DEF Typed, TypeOK
<1>2. Fetched \in SUBSET Nat
  BY <1>1 DEF Fetched
<1>3. Min(Fetched) \in Fetched /\ \A i \in Fetched : Min(Fetched) <= i
  BY <1>2, MinIn
<1>4. Min(Fetched) \in (taken + 1)..position /\ log[Min(Fetched)] > after
  BY <1>3 DEF Fetched, Matches
<1>5. ASSUME NEW i \in (taken + 1)..(Min(Fetched) - 1)
      PROVE  log[i] <= after
  <2>1. i \in (taken + 1)..position /\ i \in 1..Len(log) /\ ~(Min(Fetched) <= i)
    BY <1>1, <1>4
  <2>2. ~(log[i] > after)
    BY <1>3, <2>1 DEF Fetched, Matches
  <2> QED
    BY <1>1, <2>1, <2>2
<1> QED
  BY <1>1, <1>4, <1>5

\* A gate is found if one of the round robin takes the phone, and only then.
LEMMA GateFound ==
  ASSUME Typed, NEW c \in Cycles, NEW m
  PROVE  /\ Fits(c, m) = {} <=> \A g \in ToSet(GatesOf[c]) : m \notin Takes[g]
         /\ Fits(c, m) # {} => /\ Min(Fits(c, m)) \in Nat
                               /\ GateAt(c, Min(Fits(c, m))) \in Gates
         /\ \A k \in Nat : LET after1 == Advance(c, k)
                           IN  /\ after1 \in [Cycles -> Nat]
                               /\ \A d \in Cycles : after1[d] < Len(GatesOf[d])
<1> DEFINE n == Len(GatesOf[c])
           t == turn[c]
<1>1. GatesOf[c] \in Seq(Gates) /\ GatesOf[c] # <<>>
  BY GatesAssumption
<1>2. n \in Nat \ {0} /\ \A i \in 1..n : GatesOf[c][i] \in Gates
  BY <1>1
<1>3. turn \in [Cycles -> Nat] /\ \A d \in Cycles : turn[d] < Len(GatesOf[d])
  BY DEF Typed, TypeOK
<1>4. t \in 0..(n - 1)
  BY <1>2, <1>3
<1>5. Cardinality(Gates) \in Nat /\ n <= Cardinality(Gates)
  BY GatesAssumption, CyclesAssumption, FS_CardinalityType
<1>6. ToSet(GatesOf[c]) = {GatesOf[c][i] : i \in 1..n}
  BY <1>1 DEF ToSet
<1>7. \A k \in Nat : (t + k) % n \in 0..(n - 1)
  BY <1>2, <1>4
<1>8. \A k \in Nat : /\ GateAt(c, k) = GatesOf[c][((t + k) % n) + 1]
                     /\ GateAt(c, k) \in ToSet(GatesOf[c])
                     /\ GateAt(c, k) \in Gates
  <2> SUFFICES ASSUME NEW k \in Nat
               PROVE  /\ GateAt(c, k) = GatesOf[c][((t + k) % n) + 1]
                      /\ GateAt(c, k) \in ToSet(GatesOf[c])
                      /\ GateAt(c, k) \in Gates
    OBVIOUS
  <2>1. GateAt(c, k) = GatesOf[c][((t + k) % n) + 1]
    BY DEF GateAt
  <2> HIDE DEF n, t
  <2>3. (t + k) % n \in 0..(n - 1)
    BY <1>7
  <2>2. ((t + k) % n) + 1 \in 1..n
    BY <1>2, <2>3
  <2> QED
    BY <1>2, <1>6, <2>1, <2>2
<1>9. ASSUME NEW i \in 1..n
      PROVE  \E k \in Tries : GateAt(c, k) = GatesOf[c][i]
  <2> HIDE DEF n, t
  <2>4. i - 1 \in 0..(n - 1)
    BY <1>2, <1>9
  <2>1. PICK k \in 0..(n - 1) : (t + k) % n = i - 1
    <3> DEFINE j == i - 1
    <3> HIDE DEF j
    <3>1. \E k \in 0..(n - 1) : (t + k) % n = j
      BY <1>2, <1>4, <2>4, ComesRound DEF j
    <3> QED
      BY <3>1 DEF j
  <2>2. k \in Tries
    BY <1>2, <1>5, <2>1 DEF Tries
  <2>3. GateAt(c, k) = GatesOf[c][i]
    BY <1>2, <1>8, <2>1
  <2> QED
    BY <2>2, <2>3
<1>10. Tries \subseteq Nat
  BY <1>5 DEF Tries
<1>11. Fits(c, m) = {} <=> \A g \in ToSet(GatesOf[c]) : m \notin Takes[g]
  <2> HIDE DEF n, t
  <2>1. ASSUME NEW g \in ToSet(GatesOf[c]), m \in Takes[g]
        PROVE  Fits(c, m) # {}
    <3>1. PICK i \in 1..n : g = GatesOf[c][i]
      BY <1>6
    <3>2. PICK k \in Tries : GateAt(c, k) = g
      BY <1>9, <3>1
    <3> QED
      BY <2>1, <3>2 DEF Fits
  <2>2. ASSUME NEW k \in Fits(c, m)
        PROVE  \E g \in ToSet(GatesOf[c]) : m \in Takes[g]
    BY <1>8, <1>10 DEF Fits
  <2> QED
    BY <2>1, <2>2
<1>12. ASSUME Fits(c, m) # {}
       PROVE  Min(Fits(c, m)) \in Nat /\ GateAt(c, Min(Fits(c, m))) \in Gates
  <2>1. Fits(c, m) \in SUBSET Nat
    BY <1>10 DEF Fits
  <2>2. Min(Fits(c, m)) \in Nat
    BY <1>12, <2>1, MinIn
  <2> QED
    BY <1>8, <2>2
<1>13. ASSUME NEW k \in Nat
       PROVE  /\ Advance(c, k) \in [Cycles -> Nat]
              /\ \A d \in Cycles : Advance(c, k)[d] < Len(GatesOf[d])
  <2>1. Advance(c, k) = [turn EXCEPT ![c] = (t + k) % n]
    BY DEF Advance
  <2>2. (t + k) % n \in Nat /\ (t + k) % n < n
    BY <1>2, <1>7
  <2> QED
    BY <1>3, <2>1, <2>2
<1> QED
  BY <1>11, <1>12, <1>13
\* What an insert that is done changes.
LEMMA LandsFacts ==
  ASSUME Typed, NEW m \in pending, Lands(m)
  PROVE  /\ Len(log') = Len(log) + 1
         /\ \A i \in 1..Len(log) : log'[i] = log[i]
         /\ log'[Len(log) + 1] = m
         /\ log' \in Seq(1..issued)
         /\ Logged' = Logged \cup {m}
         /\ Rolled <= Rolled' /\ Rolled' \in Nat
         /\ Stored' \subseteq Stored \cup {m}
<1>1. Len(log) \in Nat /\ log \in Seq(1..issued) /\ m \in 1..issued
  <2>1. pending \subseteq 1..issued /\ log \in Seq(1..issued)
    BY DEF Typed, TypeOK
  <2> QED
    BY <2>1
<1>2. log' = Append(log, m)
  BY DEF Lands
<1>3. /\ Len(log') = Len(log) + 1 /\ log' \in Seq(1..issued)
      /\ \A i \in 1..Len(log) : log'[i] = log[i]
      /\ log'[Len(log) + 1] = m
  BY <1>1, <1>2
<1>4. Rolled \in Nat /\ Rolled <= Rolled' /\ Rolled' \in Nat
  BY <1>1, <1>3, BoundAssumption DEF Rolled
<1>5. \A i : i \in 1..Len(log') <=> (i \in 1..Len(log) \/ i = Len(log) + 1)
  BY <1>1, <1>3
<1>6. Logged' = Logged \cup {m}
  BY <1>3, <1>5 DEF Logged
<1>7. ASSUME NEW i \in (Rolled' + 1)..Len(log')
      PROVE  log'[i] \in Stored \cup {m}
  <2>1. CASE i = Len(log) + 1
    BY <1>3, <2>1
  <2>2. CASE i # Len(log) + 1
    <3>2. Len(log) \in Nat /\ Len(log') = Len(log) + 1
      BY <1>1, <1>3
    <3>3. i \in (Rolled' + 1)..(Len(log) + 1)
      BY <1>7, <3>2
    <3>4. ASSUME NEW n \in Nat, NEW a \in Nat, NEW b \in Nat, a <= b,
                 NEW k \in (b + 1)..(n + 1), k # n + 1
          PROVE  k \in (a + 1)..n /\ k \in 1..n
      BY <3>4
    <3>1. i \in (Rolled + 1)..Len(log) /\ i \in 1..Len(log)
      BY <1>4, <2>2, <3>2, <3>3, <3>4
    <3> QED
      BY <1>3, <3>1 DEF Stored, Places
  <2> QED
    BY <2>1, <2>2
<1>8. Stored' \subseteq Stored \cup {m}
  BY <1>7 DEF Stored, Places
<1> QED
  BY <1>3, <1>4, <1>6, <1>8

----------------------------------------------------------------------------
(* Types *)

LEMMA TypedInit == Init => Typed
<1> SUFFICES ASSUME Init PROVE Typed
  OBVIOUS
<1>1. \A c \in Cycles : GatesOf[c] \in Seq(Gates) /\ GatesOf[c] # <<>>
  BY GatesAssumption
<1>2. \A c \in Cycles : 0 < Len(GatesOf[c])
  BY <1>1
<1>3. TypeOK
  BY BoundAssumption DEF Init, TypeOK, Steps
<1> QED
  BY <1>2, <1>3 DEF Init, Typed

LEMMA TypedStep == Typed /\ [Next]_vars => Typed'
<1> SUFFICES ASSUME Typed, [Next]_vars PROVE Typed'
  OBVIOUS
<1> USE DEF Typed, TypeOK, Steps, Logged
<1>1. CASE Insert
  <2>1. issued \in Nat /\ 1..issued \subseteq 1..(issued + 1)
    BY BoundAssumption
  <2>2. log \in Seq(1..(issued + 1))
    BY <2>1
  <2>3. {last, after, sms} \subseteq 0..(issued + 1)
    BY <2>1
  <2>4. pending' \subseteq 1..(issued + 1) /\ old \subseteq 1..(issued + 1)
    BY <1>1, <2>1 DEF Insert
  <2>5. issued + 1 \in 0..MaxMsg
    BY <1>1, BoundAssumption DEF Insert
  <2> QED
    BY <1>1, <2>2, <2>3, <2>4, <2>5 DEF Insert, sender
<1>2. ASSUME NEW m \in pending, Lands(m) PROVE Typed'
  <2>1. /\ Len(log') = Len(log) + 1 /\ log' \in Seq(1..issued)
        /\ Logged' = Logged \cup {m}
    <3> HIDE DEF Typed, TypeOK, Steps, Logged
    <3> QED
      BY <1>2, LandsFacts
  <2>2. Len(log) \in Nat
    OBVIOUS
  <2>3. {taken, position} \subseteq 0..Len(log')
    BY <2>1, <2>2
  <2>4. TypeOK'
    BY <1>2, <2>1, <2>3 DEF Lands, sender
  <2> QED
    BY <1>2, <2>1, <2>4 DEF Lands, sender
<1>3. CASE Start
  <2>1. \A c \in Cycles : GatesOf[c] \in Seq(Gates) /\ GatesOf[c] # <<>>
    BY GatesAssumption
  <2>2. \A c \in Cycles : 0 < Len(GatesOf[c])
    BY <2>1
  <2>3. issued \in Nat /\ Len(log) \in Nat
    BY BoundAssumption
  <2> QED
    BY <1>3, <2>2, <2>3 DEF Start, store
<1>4. CASE FindLast
  <2>1. /\ Logged \subseteq 1..issued /\ Stored \subseteq Logged
        /\ Newest \in Logged \cup {0}
    <3> HIDE DEF Typed, TypeOK, Steps, Logged
    <3> QED
      BY LogFacts, NewestFacts
  <2>2. issued \in Nat
    BY BoundAssumption
  <2>3. last' \in 0..issued /\ old' \subseteq 1..issued
    BY <1>4, <2>1, <2>2 DEF FindLast
  <2> QED
    BY <1>4, <2>1, <2>3 DEF FindLast, store
<1>5. CASE OpenCursor
  <2>1. Rolled \in 0..Len(log) /\ Len(log) \in Nat
    <3> HIDE DEF Typed, TypeOK, Steps, Logged
    <3> QED
      BY LogFacts
  <2>2. {taken', position'} \subseteq 0..Len(log) /\ taken' <= position'
    BY <1>5, <2>1 DEF OpenCursor
  <2>3. pc' \in {"find", "fetch"}
    BY <1>5 DEF OpenCursor
  <2> QED
    BY <1>5, <2>2, <2>3 DEF OpenCursor, store
<1>6. CASE GetMore
  <2>1. {taken', position'} \subseteq 0..Len(log) /\ taken' <= position'
    BY <1>6 DEF GetMore
  <2>2. pc' \in {"find", "fetch"}
    BY <1>6 DEF GetMore
  <2> QED
    BY <1>6, <2>1, <2>2 DEF GetMore, store
<1>7. CASE CursorDies
  BY <1>7 DEF CursorDies, store
<1>8. CASE Take
  <2>1. /\ Min(Fetched) \in 1..Len(log) /\ log[Min(Fetched)] \in 1..issued
        /\ Min(Fetched) <= position
    <3> HIDE DEF Typed, TypeOK, Steps, Logged
    <3> QED
      BY <1>8, NextRecord DEF Take
  <2>2. issued \in Nat /\ issued <= MaxMsg
    BY BoundAssumption
  <2>3. /\ taken' \in 0..Len(log) /\ taken' <= position
        /\ sms' \in 0..issued /\ sms' \in Logged
    BY <1>8, <2>1, <2>2 DEF Take
  <2>4. left' \in Nat
    <3>1. sms' \in Msgs
      BY <1>8, <2>1, <2>2, BoundAssumption DEF Take, Msgs
    <3> QED
      BY <1>8, <3>1, CopiesAssumption DEF Take
  <2> QED
    BY <1>8, <2>3, <2>4 DEF Take, store
<1>9. CASE SendCopy
  <2> DEFINE c == CycleOf[sms]
  <2>1. left' \in Nat
    BY <1>9 DEF SendCopy, MoreCopies
  <2>2. sms \in Msgs
    <3>1. sms \in Logged /\ issued \in Nat /\ issued <= MaxMsg
      BY <1>9, BoundAssumption DEF SendCopy
    <3>2. Logged \subseteq 1..issued
      <4> HIDE DEF Typed, TypeOK, Steps, Logged
      <4> QED
        BY LogFacts
    <3> QED
      BY <3>1, <3>2, BoundAssumption DEF Msgs
  <2>3. c \in Cycles \cup {None}
    BY <2>2, GatesAssumption
  <2>4. Cardinality(Gates) + 1 \in Nat
    BY GatesAssumption, FS_CardinalityType
  <2>5. /\ turn' \in [Cycles -> Nat] /\ sent' \in [Msgs -> Seq(Gates)]
        /\ \A d \in Cycles : turn'[d] < Len(GatesOf[d])
    <3>1. CASE c = None
      BY <1>9, <3>1 DEF SendCopy
    <3>2. CASE c # None /\ Fits(c, sms) = {}
      <4>1. turn' = Advance(c, Cardinality(Gates) + 1) /\ sent' = sent
        BY <1>9, <3>2 DEF SendCopy
      <4>2. /\ turn' \in [Cycles -> Nat]
            /\ \A d \in Cycles : turn'[d] < Len(GatesOf[d])
        <5> HIDE DEF c, Typed, TypeOK, Steps, Logged
        <5> QED
          BY <2>3, <2>4, <3>2, <4>1, GateFound
      <4> QED
        BY <4>1, <4>2
    <3>3. CASE c # None /\ Fits(c, sms) # {}
      <4> DEFINE k == Min(Fits(c, sms))
      <4>1. /\ turn' = Advance(c, k + 1)
            /\ sent' = [sent EXCEPT ![sms] = Append(@, GateAt(c, k))]
        BY <1>9, <3>3 DEF SendCopy
      <4>2. k \in Nat /\ GateAt(c, k) \in Gates
        <5> HIDE DEF c, Typed, TypeOK, Steps, Logged
        <5> QED
          BY <2>3, <3>3, GateFound
      <4>3. k + 1 \in Nat
        BY <4>2
      <4>4. /\ turn' \in [Cycles -> Nat]
            /\ \A d \in Cycles : turn'[d] < Len(GatesOf[d])
        <5> HIDE DEF c, k, Typed, TypeOK, Steps, Logged
        <5> QED
          BY <2>3, <3>3, <4>1, <4>3, GateFound
      <4>5. sent' \in [Msgs -> Seq(Gates)]
        BY <2>2, <4>1, <4>2
      <4> QED
        BY <4>4, <4>5
    <3> QED
      BY <3>1, <3>2, <3>3
  <2>6. /\ UNCHANGED <<store, pc, last, after, taken, position, sms, old,
                       restarts>>
    BY <1>9 DEF SendCopy
  <2> QED
    BY <2>1, <2>5, <2>6 DEF store
<1>10. CASE CopiesDone
  BY <1>10 DEF CopiesDone, store
<1>11. CASE Slept
  BY <1>11 DEF Slept, store
<1>12. CASE Fails
  BY <1>12 DEF Fails, store
<1>13. CASE Restart
  BY <1>13, BoundAssumption DEF Restart, store
<1>14. CASE UNCHANGED vars
  BY <1>14 DEF vars, store, sender
<1> QED
  BY <1>1, <1>2, <1>3, <1>4, <1>5, <1>6, <1>7, <1>8, <1>9, <1>10, <1>11,
     <1>12, <1>13, <1>14 DEF Next, SendLoop

\* Variables keep their types, a round robin is at one of its places and a
\* message in hand is one that was inserted.
THEOREM TypeCorrect == Spec => []Typed
<1>1. Init => Typed
  BY TypedInit
<1>2. Typed /\ [Next]_vars => Typed'
  BY TypedStep
<1> QED
  BY <1>1, <1>2, PTL DEF Spec
----------------------------------------------------------------------------
(* The texts of before *)

LEMMA OldBehindStep == Typed /\ OldBehind /\ [Next]_vars => OldBehind'
<1> SUFFICES ASSUME Typed, OldBehind, [Next]_vars PROVE OldBehind'
  OBVIOUS
<1>0. /\ last \in Nat /\ after \in Nat /\ sms \in Nat /\ issued \in Nat
      /\ old \subseteq 1..issued
  BY BoundAssumption DEF Typed, TypeOK
<1> USE DEF OldBehind
<1>1. CASE Insert \/ CursorDies \/ CopiesDone \/ Fails \/ Restart \/ UNCHANGED vars
  BY <1>1 DEF Insert, CursorDies, CopiesDone, Fails, Restart, vars, sender, store
<1>2. ASSUME NEW m \in pending, Lands(m) PROVE OldBehind'
  BY <1>2 DEF Lands, sender
<1>3. CASE Start \/ OpenCursor \/ GetMore \/ SendCopy
  BY <1>3 DEF Start, OpenCursor, GetMore, SendCopy
<1>4. CASE FindLast
  BY <1>4, NewestFacts DEF FindLast
<1>5. CASE Take
  <2>1. sms' > after
    BY <1>5, NextRecord DEF Take
  <2> QED
    BY <1>0, <1>5, <2>1 DEF Take
<1>6. CASE Slept
  BY <1>0, <1>6 DEF Slept
<1> QED
  BY <1>1, <1>2, <1>3, <1>4, <1>5, <1>6 DEF Next, SendLoop

LEMMA OldInvariant == Spec => [](Typed /\ OldBehind)
<1>1. Init => Typed /\ OldBehind
  BY TypedInit DEF Init, OldBehind
<1>2. (Typed /\ OldBehind) /\ [Next]_vars => (Typed /\ OldBehind)'
  BY TypedStep, OldBehindStep
<1> QED
  BY <1>1, <1>2, PTL DEF Spec

\* Only a copy changes what was sent, and what is copied is behind `after', as
\* everything of before is not (zte.py:150-157).  Whatever the order of
\* inserts, and whatever cursors die.
THEOREM NothingOldIsSent == Spec => NothingOld
<1>1. Typed /\ OldBehind /\ [Next]_vars
        => [Running => \A m \in old : sent'[m] = sent[m]]_vars
  <2> SUFFICES ASSUME Typed, OldBehind, [Next]_vars, NEW m \in old
               PROVE  sent'[m] = sent[m]
    OBVIOUS
  <2>1. CASE SendCopy
    <3>1. after < sms /\ m <= after /\ m \in Nat /\ after \in Nat /\ sms \in Nat
      BY <2>1, BoundAssumption DEF SendCopy, Typed, TypeOK, OldBehind
    <3>2. sms # m
      BY <3>1
    <3>3. \/ sent' = sent
          \/ \E copies : sent' = [sent EXCEPT ![sms] = copies]
      BY <2>1 DEF SendCopy
    <3>4. m \in Msgs /\ sent \in [Msgs -> Seq(Gates)]
      BY BoundAssumption DEF Typed, TypeOK, Msgs
    <3> QED
      BY <3>2, <3>3, <3>4
  <2>2. CASE ~SendCopy
    BY <2>2 DEF Next, SendLoop, Insert, Lands, Start, FindLast, OpenCursor, GetMore,
         Take, CursorDies, CopiesDone, Slept, Fails, Restart, vars
  <2> QED
    BY <2>1, <2>2
<1> QED
  BY <1>1, OldInvariant, PTL DEF Spec, NothingOld

----------------------------------------------------------------------------
(* When inserts are done in order *)

LEMMA IncreasingStep ==
  Typed /\ inorder /\ Increasing /\ [Next]_vars => Increasing'
<1> SUFFICES ASSUME Typed, inorder, Increasing, [Next]_vars PROVE Increasing'
  OBVIOUS
<1>0. /\ Len(log) \in Nat /\ \A i \in 1..Len(log) : log[i] \in 1..issued
      /\ pending \subseteq 1..issued /\ issued \in Nat
  BY LogFacts, BoundAssumption DEF Typed, TypeOK
<1>1. CASE Insert
  BY <1>0, <1>1 DEF Insert, Increasing
<1>2. ASSUME NEW m \in pending, Lands(m) PROVE Increasing'
  <2>1. /\ Len(log') = Len(log) + 1 /\ log'[Len(log) + 1] = m
        /\ \A i \in 1..Len(log) : log'[i] = log[i]
    BY <1>2, LandsFacts
  <2>2. pending' = pending \ {m} /\ \A k \in pending : m <= k
    BY <1>2 DEF Lands
  <2>3. \A i \in 1..Len(log) : log[i] < m
    BY <1>2 DEF Increasing
  <2>4. \A i \in 1..(Len(log) + 1) : i \in 1..Len(log) \/ i = Len(log) + 1
    BY <1>0
  <2>5. ASSUME NEW i \in 1..Len(log'), NEW j \in 1..Len(log'), i < j
        PROVE  log'[i] < log'[j]
    <3>1. i \in 1..Len(log)
      BY <1>0, <2>1, <2>5
    <3>2. CASE j \in 1..Len(log)
      BY <2>1, <2>5, <3>1, <3>2 DEF Increasing
    <3>3. CASE j = Len(log) + 1
      BY <2>1, <2>3, <3>1, <3>3
    <3> QED
      BY <2>1, <2>4, <2>5, <3>2, <3>3
  <2>6. ASSUME NEW k \in pending', NEW i \in 1..Len(log')
        PROVE  log'[i] < k
    <3>1. k \in pending /\ m < k
      BY <1>0, <1>2, <2>2, <2>6
    <3>2. CASE i \in 1..Len(log)
      BY <2>1, <3>1, <3>2 DEF Increasing
    <3>3. CASE i = Len(log) + 1
      BY <2>1, <3>1, <3>3
    <3> QED
      BY <2>1, <2>4, <2>6, <3>2, <3>3
  <2> QED
    BY <2>5, <2>6 DEF Increasing
<1>3. ASSUME UNCHANGED <<pending, log>> PROVE Increasing'
  BY <1>3 DEF Increasing
<1> QED
  BY <1>1, <1>2, <1>3 DEF Next, SendLoop, Start, FindLast, OpenCursor, GetMore, Take,
     CursorDies, SendCopy, CopiesDone, Slept, Fails, Restart, vars, store
\* Where the cursor is stays true to what was done with.
LEMMA CursorStep ==
  Typed /\ inorder /\ Increasing /\ Cursor /\ [Next]_vars => Cursor'
<1> SUFFICES ASSUME Typed, inorder, Increasing, Cursor, [Next]_vars
             PROVE  Cursor'
  OBVIOUS
<1>0. /\ Len(log) \in Nat /\ Rolled \in 0..Len(log)
      /\ taken \in 0..Len(log) /\ position \in 0..Len(log) /\ taken <= position
      /\ \A i \in 1..Len(log) : log[i] \in Nat
      /\ last \in Nat /\ after \in Nat /\ sms \in Nat
      /\ last \in Logged \cup {0}
  <2>1. issued \in Nat
    BY BoundAssumption DEF Typed, TypeOK
  <2>2. /\ Len(log) \in Nat /\ Rolled \in 0..Len(log)
        /\ \A i \in 1..Len(log) : log[i] \in 1..issued
    BY LogFacts
  <2> QED
    BY <2>1, <2>2 DEF Typed, TypeOK
<1>1. ASSUME UNCHANGED <<log, last, after, taken, sms>>,
             pc' = pc \/ pc' \notin {"fetch", "send", "sleep"}
                \/ (pc' = "sleep" /\ pc = "send")
      PROVE  Cursor'
  <2>1. Rolled' = Rolled
    BY <1>1 DEF Rolled
  <2> QED
    BY <1>1, <2>1 DEF Cursor
<1>2. CASE Insert \/ CursorDies \/ CopiesDone \/ Fails \/ Restart \/ SendCopy
           \/ UNCHANGED vars
  BY <1>1, <1>2 DEF Insert, CursorDies, CopiesDone, Fails, Restart, SendCopy, vars,
     sender, store
<1>3. CASE Start \/ FindLast
  BY <1>3 DEF Start, FindLast, Cursor
<1>4. ASSUME NEW m \in pending, Lands(m) PROVE Cursor'
  <2>1. /\ Len(log') = Len(log) + 1 /\ log'[Len(log) + 1] = m
        /\ \A i \in 1..Len(log) : log'[i] = log[i]
        /\ Rolled <= Rolled' /\ Rolled' \in Nat
    BY <1>4, LandsFacts
  <2>2. UNCHANGED <<pc, last, after, taken, sms>>
    BY <1>4 DEF Lands, sender
  <2>3. m > last
    <3>1. \A i \in 1..Len(log) : log[i] < m
      BY <1>4 DEF Increasing
    <3>2. m \in Nat /\ m > 0
      BY <1>4 DEF Typed, TypeOK
    <3> QED
      BY <1>0, <3>1, <3>2 DEF Logged
  <2>4. \A i \in 1..(Len(log) + 1) : i \in 1..Len(log) \/ i = Len(log) + 1
    BY <1>0
  <2>5. ASSUME pc = "fetch", NEW i \in 1..Len(log')
        PROVE  /\ i > taken /\ log'[i] > after => log'[i] > last
               /\ Rolled' < i /\ i <= taken => log'[i] <= last
    <3>1. CASE i \in 1..Len(log)
      BY <1>0, <2>1, <2>5, <3>1 DEF Cursor
    <3>2. CASE i = Len(log) + 1
      <4>1. log'[i] > last /\ ~(i <= taken)
        BY <1>0, <2>1, <2>3, <3>2
      <4> QED
        BY <4>1
    <3> QED
      BY <2>1, <2>4, <2>5, <3>1, <3>2
  <2>6. ASSUME pc \in {"send", "sleep"}
        PROVE  /\ taken > 0 /\ sms = log'[taken] /\ last < sms
               /\ \A i \in 1..(taken - 1) : Rolled' < i => log'[i] <= last
    <3>1. taken > 0 /\ sms = log[taken] /\ last < sms
      BY <2>6 DEF Cursor
    <3>2. taken \in 1..Len(log) /\ \A i \in 1..(taken - 1) : i \in 1..Len(log)
      BY <1>0, <3>1
    <3>3. ASSUME NEW i \in 1..(taken - 1), Rolled' < i PROVE log'[i] <= last
      <4>1. Rolled < i /\ i \in 1..Len(log)
        BY <1>0, <2>1, <3>2, <3>3
      <4>2. log[i] <= last
        BY <2>6, <3>3, <4>1 DEF Cursor
      <4> QED
        BY <2>1, <4>1, <4>2
    <3> QED
      BY <2>1, <3>1, <3>2, <3>3
  <2> QED
    BY <2>2, <2>5, <2>6 DEF Cursor
<1>5. CASE OpenCursor
  <2>1. last' = last /\ after' = last /\ log' = log /\ Rolled' = Rolled
    BY <1>5 DEF OpenCursor, store, Rolled
  <2>2. pc' = "find" \/ (pc' = "fetch" /\ taken' = Rolled)
    BY <1>5 DEF OpenCursor
  <2> QED
    BY <1>0, <2>1, <2>2 DEF Cursor
<1>6. CASE GetMore
  <2>1. UNCHANGED <<last, after, log>> /\ Rolled' = Rolled /\ pc = "fetch"
    BY <1>6 DEF GetMore, store, Rolled
  <2>2. pc' = "find" \/ (pc' = "fetch" /\ taken' = position)
    BY <1>6 DEF GetMore
  <2>3. ASSUME NEW i \in 1..Len(log), i > taken, i <= position
        PROVE  log[i] <= after
    <3>1. i \in (taken + 1)..position
      BY <1>0, <2>3
    <3>2. i \notin Fetched
      BY <1>6 DEF GetMore
    <3> QED
      BY <1>0, <3>1, <3>2 DEF Fetched, Matches
  <2>4. after <= last
    BY <2>1 DEF Cursor
  <2>5. ASSUME NEW i \in 1..Len(log)
        PROVE  /\ i > position /\ log[i] > after => log[i] > last
               /\ Rolled < i /\ i <= position => log[i] <= last
    <3>1. CASE i <= taken
      BY <1>0, <2>1, <3>1, <2>5 DEF Cursor
    <3>2. CASE i > taken
      BY <1>0, <2>1, <2>3, <2>4, <3>2, <2>5 DEF Cursor
    <3> QED
      BY <1>0, <3>1, <3>2
  <2> QED
    BY <2>1, <2>2, <2>4, <2>5 DEF Cursor
<1>7. CASE Take
  <2> DEFINE next == Min(Fetched)
  <2>1. /\ next \in (taken + 1)..position /\ next \in 1..Len(log)
        /\ log[next] > after /\ \A i \in (taken + 1)..(next - 1) : log[i] <= after
    BY <1>7, NextRecord DEF Take
  <2> HIDE DEF next
  <2>2. /\ pc = "fetch" /\ pc' = "send" /\ taken' = next /\ sms' = log[next]
        /\ UNCHANGED <<log, last, after>> /\ Rolled' = Rolled
    BY <1>7 DEF Take, store, Rolled, next
  <2>3. after <= last /\ last < log[next] /\ next > 0
    BY <1>0, <2>1, <2>2 DEF Cursor
  <2>4. ASSUME NEW i \in 1..(next - 1), Rolled < i PROVE log[i] <= last
    <3>1. i \in 1..Len(log)
      BY <1>0, <2>1, <2>4
    <3>2. CASE i <= taken
      BY <2>2, <2>4, <3>1, <3>2 DEF Cursor
    <3>3. CASE i > taken
      <4>1. i \in (taken + 1)..(next - 1)
        BY <1>0, <2>1, <2>4, <3>3
      <4> QED
        BY <1>0, <2>1, <2>3, <3>1, <4>1
    <3> QED
      BY <1>0, <3>1, <3>2, <3>3
  <2> QED
    BY <2>2, <2>3, <2>4 DEF Cursor
<1>8. CASE Slept
  <2>1. /\ pc = "sleep" /\ pc' = "fetch" /\ last' = sms
        /\ UNCHANGED <<log, after, taken, sms>> /\ Rolled' = Rolled
    BY <1>8 DEF Slept, store, Rolled
  <2>2. after <= last /\ last < sms /\ taken > 0 /\ sms = log[taken]
    BY <2>1 DEF Cursor
  <2>3. taken \in 1..Len(log)
    BY <1>0, <2>2
  <2>4. ASSUME NEW i \in 1..Len(log)
        PROVE  /\ i > taken => log[i] > sms
               /\ i <= taken => log[i] <= sms
    <3>1. i > taken => log[i] > sms
      BY <1>0, <2>2, <2>3, <2>4 DEF Increasing
    <3>2. i < taken => log[i] <= sms
      BY <1>0, <2>2, <2>3, <2>4 DEF Increasing
    <3> QED
      BY <1>0, <2>2, <2>4, <3>1, <3>2
  <2>5. after <= sms
    BY <1>0, <2>2
  <2> QED
    BY <2>1, <2>4, <2>5 DEF Cursor
<1> QED
  BY <1>2, <1>3, <1>4, <1>5, <1>6, <1>7, <1>8 DEF Next, SendLoop
LEMMA HasGateDue ==
  ASSUME NEW m \in Msgs
  PROVE  /\ Copies[m] \in Nat
         /\ Due(m) = IF HasGate(m) THEN Copies[m] ELSE 0
BY CopiesAssumption DEF Due, HasGate

\* What a copy changes.
LEMMA SendCopyFacts ==
  ASSUME Typed, SendCopy
  PROVE  /\ sms \in Msgs /\ sms \in Logged
         /\ left' = left - 1 /\ left > 0 /\ left \in Nat
         /\ HasGate(sms) => Len(sent'[sms]) = Len(sent[sms]) + 1
         /\ ~HasGate(sms) => sent' = sent
         /\ \A m \in Msgs : m # sms => sent'[m] = sent[m]
         /\ \A m \in Msgs : Len(sent[m]) \in Nat
<1> DEFINE c == CycleOf[sms]
<1>1. sms \in Logged
  BY DEF Typed, SendCopy
<1>2. sms \in Msgs
  BY <1>1, LogFacts, BoundAssumption DEF Typed, TypeOK, Msgs
<1>3. left' = left - 1 /\ left > 0 /\ left \in Nat
  BY DEF SendCopy, MoreCopies, Typed, TypeOK
<1>4. sent \in [Msgs -> Seq(Gates)]
  BY DEF Typed, TypeOK
<1>5. c \in Cycles \cup {None}
  BY <1>2, GatesAssumption
<1>6. c # None =>
        /\ HasGate(sms) <=> Fits(c, sms) # {}
        /\ Fits(c, sms) # {} => GateAt(c, Min(Fits(c, sms))) \in Gates
  <2> HIDE DEF c
  <2> SUFFICES ASSUME c # None
               PROVE  /\ HasGate(sms) <=> Fits(c, sms) # {}
                      /\ Fits(c, sms) # {} => GateAt(c, Min(Fits(c, sms))) \in Gates
    OBVIOUS
  <2>1. c \in Cycles
    BY <1>5
  <2>2. /\ Fits(c, sms) = {} <=> \A g \in ToSet(GatesOf[c]) : sms \notin Takes[g]
        /\ Fits(c, sms) # {} => GateAt(c, Min(Fits(c, sms))) \in Gates
    BY <2>1, GateFound
  <2>3. HasGate(sms) <=> \E g \in ToSet(GatesOf[c]) : sms \in Takes[g]
    BY DEF HasGate, c
  <2> QED
    BY <2>2, <2>3
<1>7. CASE c = None
  <2>1. ~HasGate(sms) /\ sent' = sent
    BY <1>7 DEF HasGate, SendCopy
  <2> QED
    BY <1>1, <1>2, <1>3, <1>4, <2>1
<1>8. CASE c # None /\ Fits(c, sms) = {}
  <2>1. ~HasGate(sms) /\ sent' = sent
    BY <1>6, <1>8 DEF SendCopy
  <2> QED
    BY <1>1, <1>2, <1>3, <1>4, <2>1
<1>9. CASE c # None /\ Fits(c, sms) # {}
  <2> DEFINE g == GateAt(c, Min(Fits(c, sms)))
  <2>1. sent' = [sent EXCEPT ![sms] = Append(@, g)]
    BY <1>9 DEF SendCopy
  <2>2. HasGate(sms) /\ g \in Gates
    BY <1>6, <1>9
  <2> HIDE DEF g
  <2>3. sent[sms] \in Seq(Gates)
    BY <1>2, <1>4
  <2>4. sent'[sms] = Append(sent[sms], g)
    BY <1>2, <1>4, <2>1
  <2>5. Len(sent'[sms]) = Len(sent[sms]) + 1
    BY <2>2, <2>3, <2>4
  <2>6. \A m \in Msgs : m # sms => sent'[m] = sent[m]
    BY <1>4, <2>1
  <2> QED
    BY <1>1, <1>2, <1>3, <1>4, <2>2, <2>5, <2>6
<1> QED
  BY <1>7, <1>8, <1>9

LEMMA CountsStep ==
  ASSUME Typed, inorder, Increasing, Cursor, Counts, [Next]_vars
  PROVE  Counts'
<1>0. issued \in Nat /\ last \in Nat /\ sms \in Nat /\ Logged \subseteq Msgs
      /\ Stored \subseteq Logged /\ left \in Nat
      /\ \A m \in Msgs : Len(sent[m]) \in Nat
  <2>1. /\ issued \in Nat /\ issued <= MaxMsg /\ MaxMsg \in Nat
        /\ last \in Nat /\ sms \in Nat /\ left \in Nat
        /\ sent \in [Msgs -> Seq(Gates)]
    BY BoundAssumption DEF Typed, TypeOK
  <2>2. Logged \subseteq 1..issued /\ Stored \subseteq Logged
    BY LogFacts
  <2>3. Logged \subseteq Msgs
    BY <2>1, <2>2 DEF Msgs
  <2> QED
    BY <2>1, <2>2, <2>3
<1>1. ASSUME UNCHANGED <<log, last, sms, left, sent, old>>,
             \/ pc' = pc
             \/ pc' \notin {"find", "fetch", "send", "sleep"}
             \/ pc \in {"find", "fetch"} /\ pc' \in {"find", "fetch"}
      PROVE  Counts'
  <2>1. Logged' = Logged /\ Stored' = Stored
    BY <1>1 DEF Logged, Stored, Places, Rolled
  <2>2. \A m \in Msgs : Due(m)' = Due(m) /\ HasGate(m)' = HasGate(m)
    BY DEF Due, HasGate
  <2> QED
    BY <1>1, <2>1 DEF Counts, Due, HasGate
<1>2. CASE Insert \/ CursorDies \/ Fails \/ Restart \/ OpenCursor \/ GetMore
           \/ UNCHANGED vars
  BY <1>1, <1>2 DEF Insert, CursorDies, Fails, Restart, OpenCursor, GetMore, vars,
     sender, store
<1>3. ASSUME NEW m \in pending, Lands(m) PROVE Counts'
  <2>1. /\ Logged' = Logged \cup {m} /\ Stored' \subseteq Stored \cup {m}
    BY <1>3, LandsFacts
  <2>2. UNCHANGED <<pc, last, after, taken, sms, left, sent, old>>
    BY <1>3 DEF Lands, sender
  <2>3. m > last
    <3>1. \A i \in 1..Len(log) : log[i] < m
      BY <1>3 DEF Increasing
    <3>2. m \in Nat /\ m > 0 /\ last \in Logged \cup {0}
      BY <1>3, <1>0 DEF Typed, TypeOK
    <3> QED
      BY <1>0, <3>1, <3>2 DEF Logged
  <2>4. m \in Nat
    BY <1>3, <1>0 DEF Typed, TypeOK
  <2>5. ASSUME NEW k \in Stored' \ old', k <= last' PROVE k \in Stored \ old
    <3>1. k # m
      BY <1>0, <2>2, <2>3, <2>4, <2>5
    <3> QED
      BY <2>1, <2>2, <2>5, <3>1
  <2> QED
    BY <2>1, <2>2, <2>5 DEF Counts, Due, HasGate
<1>4. CASE Start
  <2>1. /\ pc' = "last" /\ UNCHANGED <<last, sent, old>>
        /\ Logged' = Logged /\ Stored' = Stored
    BY <1>4 DEF Start, store, Logged, Stored, Places, Rolled
  <2> QED
    BY <2>1 DEF Counts, Due, HasGate
<1>5. CASE FindLast
  <2>1. /\ pc' = "find" /\ last' = Newest /\ old' = Stored /\ sent' = sent
        /\ Logged' = Logged /\ Stored' = Stored
    BY <1>5 DEF FindLast, store, Logged, Stored, Places, Rolled
  <2>2. \A m \in Logged : m <= Newest
    BY NewestFacts
  <2> QED
    BY <2>1, <2>2 DEF Counts, Due, HasGate
<1>6. CASE Take
  <2> DEFINE next == Min(Fetched)
  <2>1. next \in (taken + 1)..position /\ next \in 1..Len(log) /\ log[next] > after
    BY <1>6, NextRecord DEF Take
  <2>2. taken \in Nat /\ position \in Nat
    BY DEF Typed, TypeOK
  <2>3. next > taken
    BY <2>1, <2>2
  <2> HIDE DEF next
  <2>4. /\ pc = "fetch" /\ pc' = "send" /\ sms' = log[next]
        /\ left' = Copies[sms'] /\ UNCHANGED <<last, sent, old>>
        /\ Logged' = Logged /\ Stored' = Stored
    BY <1>6 DEF Take, store, Logged, Stored, Places, Rolled, next
  <2>5. log[next] > last /\ log[next] \in Logged
    BY <2>1, <2>3, <2>4 DEF Cursor, Logged
  <2>6. sms' \in Msgs /\ Copies[sms'] \in Nat
    BY <1>0, <2>4, <2>5, HasGateDue
  <2>7. sent[sms'] = <<>>
    <3>1. sms' \in Nat /\ ~(sms' <= last)
      BY <1>0, <2>4, <2>5, <2>6 DEF Msgs
    <3> QED
      BY <2>4, <2>6, <3>1 DEF Counts
  <2>8. Len(sent'[sms']) = 0 /\ Copies[sms'] - left' = 0
    BY <2>4, <2>6, <2>7
  <2>9. \A m \in Msgs : sent[m] # <<>> => m \in Logged /\ m <= last
    BY <2>4 DEF Counts
  <2>10. /\ \A m \in Msgs : Len(sent[m]) <= Due(m)
         /\ \A m \in Stored \ old : m <= last => Len(sent[m]) = Due(m)
    BY DEF Counts
  <2>11. left' <= Copies[sms']
    BY <2>4, <2>6
  <2> QED
    BY <2>4, <2>8, <2>9, <2>10, <2>11 DEF Counts, Due, HasGate
<1>7. CASE SendCopy
  <2>1. /\ sms \in Msgs /\ sms \in Logged
        /\ left' = left - 1 /\ left > 0 /\ left \in Nat
        /\ HasGate(sms) => Len(sent'[sms]) = Len(sent[sms]) + 1
        /\ ~HasGate(sms) => sent' = sent
        /\ \A m \in Msgs : m # sms => sent'[m] = sent[m]
    BY <1>7, SendCopyFacts
  <2>2. /\ pc = "send" /\ UNCHANGED <<pc, last, sms, old>>
        /\ Logged' = Logged /\ Stored' = Stored
    BY <1>7 DEF SendCopy, store, Logged, Stored, Places, Rolled
  <2>3. /\ Copies[sms] \in Nat /\ Due(sms) = IF HasGate(sms) THEN Copies[sms] ELSE 0
    BY <2>1, HasGateDue
  <2>4. /\ left <= Copies[sms]
        /\ Len(sent[sms]) = IF HasGate(sms) THEN Copies[sms] - left ELSE 0
    BY <2>2 DEF Counts
  <2>5. /\ left' <= Copies[sms]
        /\ Len(sent'[sms]) = IF HasGate(sms) THEN Copies[sms] - left' ELSE 0
        /\ Len(sent'[sms]) <= Due(sms)
    BY <2>1, <2>3, <2>4
  <2>6. \A m \in Msgs : sent'[m] # <<>> => m \in Logged /\ (m <= last \/ m = sms)
    <3> TAKE m \in Msgs
    <3>1. CASE m = sms
      BY <2>1, <3>1
    <3>2. CASE m # sms
      BY <2>1, <2>2, <3>2 DEF Counts
    <3> QED
      BY <3>1, <3>2
  <2>7. \A m \in Msgs : Len(sent'[m]) <= Due(m)
    BY <2>1, <2>5 DEF Counts
  <2>8. ASSUME NEW m \in Stored \ old, m <= last PROVE Len(sent'[m]) = Due(m)
    <3>1. last < sms
      BY <2>2 DEF Cursor
    <3>2. m # sms /\ m \in Msgs
      BY <1>0, <2>8, <3>1
    <3> QED
      BY <2>1, <2>8, <3>2 DEF Counts
  <2> QED
    BY <2>2, <2>5, <2>6, <2>7, <2>8 DEF Counts, Due, HasGate
<1>8. CASE CopiesDone
  <2>1. /\ pc = "send" /\ pc' = "sleep" /\ UNCHANGED <<last, sms, left, sent, old>>
        /\ Logged' = Logged /\ Stored' = Stored /\ left = 0
    BY <1>0, <1>8 DEF CopiesDone, MoreCopies, store, Logged, Stored, Places, Rolled
  <2>2. sms \in Msgs
    BY <1>0, <2>1 DEF Typed
  <2>3. Len(sent[sms]) = Due(sms)
    <3>1. Len(sent[sms]) = IF HasGate(sms) THEN Copies[sms] - left ELSE 0
      BY <2>1 DEF Counts
    <3> QED
      BY <2>1, <2>2, <3>1, HasGateDue
  <2> QED
    BY <2>1, <2>3 DEF Counts, Due, HasGate
<1>9. CASE Slept
  <2>1. /\ pc = "sleep" /\ pc' = "fetch" /\ last' = sms
        /\ UNCHANGED <<sent, old>> /\ Logged' = Logged /\ Stored' = Stored
    BY <1>9 DEF Slept, store, Logged, Stored, Places, Rolled
  <2>2. /\ taken > 0 /\ sms = log[taken] /\ last < sms
        /\ \A i \in 1..(taken - 1) : Rolled < i => log[i] <= last
    BY <2>1 DEF Cursor
  <2>3. /\ taken \in 0..Len(log) /\ Len(log) \in Nat /\ Rolled \in Nat
        /\ \A i \in 1..Len(log) : log[i] \in Nat
    <3>1. /\ Len(log) \in Nat /\ Rolled \in 0..Len(log)
          /\ \A i \in 1..Len(log) : log[i] \in 1..issued
      BY LogFacts
    <3> QED
      BY <1>0, <3>1 DEF Typed, TypeOK
  <2>4. ASSUME NEW m \in Stored \ old, m <= sms PROVE Len(sent[m]) = Due(m)
    <3>1. PICK j \in Places : m = log[j]
      BY <2>4 DEF Stored
    <3>2. j \in 1..Len(log) /\ Rolled < j
      BY <2>3, <3>1 DEF Places
    <3>3. CASE j > taken
      <4>1. log[taken] < log[j]
        BY <2>2, <2>3, <3>2, <3>3 DEF Increasing
      <4> QED
        BY <1>0, <2>2, <2>3, <2>4, <3>1, <3>2, <4>1
    <3>4. CASE j = taken
      BY <2>1, <2>2, <3>1, <3>4 DEF Counts
    <3>5. CASE j < taken
      <4>1. j \in 1..(taken - 1)
        BY <2>3, <3>2, <3>5
      <4>2. m <= last
        BY <2>2, <3>1, <3>2, <4>1
      <4> QED
        BY <2>4, <4>2 DEF Counts
    <3> QED
      BY <2>3, <3>2, <3>3, <3>4, <3>5
  <2>5. ASSUME NEW m \in Msgs, sent[m] # <<>> PROVE m \in Logged /\ m <= sms
    <3>1. m \in Logged /\ (m <= last \/ m = sms)
      BY <2>1, <2>5 DEF Counts
    <3>2. m \in Nat
      BY <1>0, <2>5 DEF Msgs
    <3> QED
      BY <1>0, <2>2, <3>1, <3>2
  <2>6. \A m \in Msgs : Len(sent[m]) <= Due(m)
    BY DEF Counts
  <2> QED
    BY <2>1, <2>4, <2>5, <2>6 DEF Counts, Due, HasGate
<1> QED
  BY <1>2, <1>3, <1>4, <1>5, <1>6, <1>7, <1>8, <1>9 DEF Next, SendLoop
LEMMA Invariant == Spec => []Inv
<1>1. Init => Inv
  <2> SUFFICES ASSUME Init PROVE Inv
    OBVIOUS
  <2>1. Logged = {} /\ Stored = {} /\ \A m \in Msgs : Len(sent[m]) = 0
    BY BoundAssumption DEF Init, Logged, Stored, Places, Rolled
  <2>2. \A m \in Msgs : 0 <= Due(m)
    BY HasGateDue
  <2> QED
    BY <2>1, <2>2, TypedInit DEF Init, Inv, OldBehind, Increasing, Cursor, Counts
<1>2. Inv /\ [Next]_vars => Inv'
  <2> SUFFICES ASSUME Inv, [Next]_vars PROVE Inv'
    OBVIOUS
  <2>1. inorder' = inorder
    BY DEF Next, SendLoop, Insert, Lands, Start, FindLast, OpenCursor, GetMore, Take,
       CursorDies, SendCopy, CopiesDone, Slept, Fails, Restart, vars, store
  <2>2. Typed' /\ OldBehind'
    BY TypedStep, OldBehindStep DEF Inv
  <2>3. inorder => Increasing' /\ Cursor' /\ Counts'
    BY IncreasingStep, CursorStep, CountsStep DEF Inv
  <2> QED
    BY <2>1, <2>2, <2>3 DEF Inv
<1> QED
  BY <1>1, <1>2, PTL DEF Spec

\* A cursor that is opened again after the last message that was sent in full
\* does not find it, nor what came before it: when inserts are done in order,
\* no message goes out more often than `redudant' asks for, and none for which
\* no gate is found (zte.py:155-182, 202-212).
THEOREM NeverSentTooOften == Spec => []NeverTooMany
<1>1. Inv => NeverTooMany
  BY DEF Inv, Counts, NeverTooMany
<1> QED
  BY <1>1, Invariant, PTL

\* And none is passed over: what is behind `last', and is still there, was sent
\* in full or was there before send_loop began.
THEOREM NoneIsSkipped == Spec => []NoneSkipped
<1>1. Inv => NoneSkipped
  BY DEF Inv, Counts, NoneSkipped
<1> QED
  BY <1>1, Invariant, PTL
=============================================================================
