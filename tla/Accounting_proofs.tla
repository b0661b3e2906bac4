-------------------------- MODULE Accounting_proofs --------------------------
(***************************************************************************)
(* Proofs about Accounting, for every set of sessions and every order,     *)
(* loss and duplication of packets.                                        *)
(***************************************************************************)
EXTENDS Accounting, FiniteSetTheorems, WellFoundedInduction, TLAPS

----------------------------------------------------------------------------
(* Types *)

LEMMA CountedBound ==
  ASSUME NEW n \in Nat PROVE Counted(n) \in Nat /\ Counted(n) <= n
<1>1. CASE n < Giga
  BY <1>1, GigaAssumption DEF Counted
<1>2. CASE n >= Giga
  <2> DEFINE q == n \div Giga
  <2>1. q \in Int /\ n = Giga * q + (n % Giga) /\ 0 <= n % Giga /\ n % Giga < Giga
    BY GigaAssumption
  <2>2. q >= 0
    BY <2>1, GigaAssumption
  <2>3. q <= Giga * q
    BY <2>1, <2>2, GigaAssumption
  <2>4. q \in Nat /\ q <= n
    BY <2>1, <2>2, <2>3, GigaAssumption
  <2> QED
    BY <1>2, <2>4 DEF Counted
<1> QED
  BY <1>1, <1>2, GigaAssumption

\* A packet reports no more than its session has counted, wherever it is.
Honest(p) == p.n <= octets[p.s]

IInv ==
  /\ TypeOK
  /\ \A p \in net \cup UnderWay : Honest(p)
  /\ ChargedAsCounted

LEMMA InitInv == Init => IInv
<1> SUFFICES ASSUME Init PROVE IInv
  OBVIOUS
<1>1. 0 \in 0..MaxOctets /\ 0 \in 0..MaxRestarts /\ 0 \in 0..MaxReboots
  BY BoundAssumption
<1>2. TypeOK
  BY <1>1, FS_EmptySet DEF Init, TypeOK
<1> QED
  BY <1>2 DEF Init, IInv, UnderWay, ChargedAsCounted

LEMMA AccountTyped ==
  ASSUME NEW doc \in Document, NEW p \in Packet, p.kind # "on"
  PROVE  /\ Account(doc, p) \in Document
         /\ Account(doc, p).s = doc.s
         /\ Account(doc, p).n <= doc.n \/ Account(doc, p).n <= p.n
         /\ (doc.cause # "open" /\ Account(doc, p).cause = "open")
              => p.kind = "update"
<1>1. p.n \in Nat /\ p.n <= MaxOctets
  BY BoundAssumption DEF Packet
<1>2. Counted(p.n) \in 0..MaxOctets /\ Counted(p.n) <= p.n
  BY <1>1, CountedBound, BoundAssumption
<1>3. p.kind \in {"start", "update", "stop"}
  BY DEF Packet, Kinds
<1>4. CASE p.kind = "start"
  <2>1. Account(doc, p) = [doc EXCEPT !.nas = TRUE]
    BY <1>4 DEF Account
  <2> DEFINE new == [doc EXCEPT !.nas = TRUE]
  <2>2. new \in Document /\ new.s = doc.s /\ new.n = doc.n /\ new.cause = doc.cause
    BY DEF Document
  <2>3. doc.n \in Nat
    BY BoundAssumption DEF Document
  <2>4. new.n <= doc.n
    BY <2>2, <2>3
  <2> HIDE DEF new
  <2> QED
    BY <2>1, <2>2, <2>4 DEF new
<1>5. CASE p.kind = "update"
  BY <1>2, <1>5 DEF Account, Document, Causes
<1>6. CASE p.kind = "stop"
  BY <1>2, <1>6 DEF Account, Document, Causes
<1> QED
  BY <1>3, <1>4, <1>5, <1>6

\* Packets move from the wire to the handlers and the writes.
LEMMA PacketsMove ==
  ASSUME IInv, UNCHANGED <<nas, docs, server, stopped>>,
         overlap' \in [Sessions -> Nat],
         net' \subseteq net, jobs' \subseteq Job, IsFiniteSet(jobs'),
         \A j \in jobs' : j.packet \in net \cup UnderWay
  PROVE  IInv'
<1>1. TypeOK'
  BY DEF IInv, TypeOK, nas, server
<1>2. net' \cup UnderWay' \subseteq net \cup UnderWay
  BY DEF UnderWay
<1>3. (\A p \in net \cup UnderWay : Honest(p))'
  BY <1>2 DEF IInv, Honest, nas
<1>4. ChargedAsCounted'
  BY DEF IInv, ChargedAsCounted, nas
<1> QED
  BY <1>1, <1>3, <1>4 DEF IInv

LEMMA SendInv ==
  ASSUME IInv, NEW s \in Sessions, NEW kind \in Kinds, Send(s, kind),
         ses' \in [Sessions -> {"new", "up", "down"}]
  PROVE  IInv'
<1> DEFINE p == [kind |-> kind, s |-> s, n |-> octets[s]]
<1>1. p \in Packet /\ p.n <= octets[p.s]
  BY BoundAssumption DEF IInv, TypeOK, Packet
<1>2. net' = net \cup {p} /\ UNCHANGED <<octets, jobs, docs, server, reboots,
                                        history>>
  BY DEF Send
<1> HIDE DEF p
<1>3. TypeOK'
  BY <1>1, <1>2 DEF IInv, TypeOK, server, history
<1>4. (\A q \in net \cup UnderWay : Honest(q))'
  BY <1>1, <1>2 DEF IInv, UnderWay, Honest
<1>5. ChargedAsCounted'
  BY <1>2 DEF IInv, ChargedAsCounted
<1> QED
  BY <1>3, <1>4, <1>5 DEF IInv

LEMMA NasInv == ASSUME IInv, NEW s \in Sessions, Nas(s) PROVE IInv'
<1>1. CASE NasStart(s)
  BY <1>1, SendInv DEF NasStart, Kinds, IInv, TypeOK
<1>2. CASE NasUpdate(s)
  BY <1>2, SendInv DEF NasUpdate, Kinds, IInv, TypeOK
<1>3. CASE NasStop(s)
  BY <1>3, SendInv DEF NasStop, Kinds, IInv, TypeOK
<1>4. CASE Traffic(s)
  <2>1. /\ octets' = [octets EXCEPT ![s] = octets[s] + 1]
        /\ octets[s] < MaxOctets
        /\ octets \in [Sessions -> 0..MaxOctets]
        /\ UNCHANGED <<ses, net, jobs, docs, server, reboots, history>>
    BY <1>4 DEF Traffic, IInv, TypeOK
  <2>2. octets' \in [Sessions -> 0..MaxOctets]
    BY <2>1, BoundAssumption
  <2>3. \A t \in Sessions : /\ octets[t] \in Int /\ octets'[t] \in Int
                            /\ octets[t] <= octets'[t]
    BY <2>1, BoundAssumption
  <2>4. TypeOK'
    BY <2>1, <2>2 DEF IInv, TypeOK, server, history
  <2>5. \A p \in net \cup UnderWay : p \in Packet
    BY DEF IInv, TypeOK, UnderWay, Job
  <2>6. (\A p \in net \cup UnderWay : Honest(p))'
    <3> SUFFICES ASSUME NEW p \in net \cup UnderWay PROVE p.n <= octets'[p.s]
      BY <2>1 DEF UnderWay, Honest
    <3>1. p.n \in Int /\ p.s \in Sessions /\ p.n <= octets[p.s]
      BY <2>5, BoundAssumption DEF Packet, IInv, Honest
    <3> QED
      BY <2>3, <3>1
  <2>7. ChargedAsCounted'
    <3> SUFFICES ASSUME NEW i \in DOMAIN docs
                 PROVE  docs[i].n <= octets'[docs[i].s]
      BY <2>1 DEF ChargedAsCounted
    <3>1. docs[i] \in Document
      BY DEF IInv, TypeOK
    <3>2. docs[i].n \in Int /\ docs[i].s \in Sessions
      BY <3>1, BoundAssumption DEF Document
    <3>3. docs[i].n <= octets[docs[i].s]
      BY DEF IInv, ChargedAsCounted
    <3> QED
      BY <2>3, <3>2, <3>3
  <2> QED
    BY <2>4, <2>6, <2>7 DEF IInv
<1> QED
  BY <1>1, <1>2, <1>3, <1>4 DEF Nas

\* A write changes or adds one document, which stays honest.
LEMMA WriteInv ==
  ASSUME IInv, NEW w \in jobs, w.packet.kind # "on",
         UNCHANGED <<nas, net, server, overlap>>, jobs' = jobs \ {w},
         Note(w.packet), docs' \in Seq(Document),
         \A i \in DOMAIN docs' :
           \/ i \in DOMAIN docs /\ docs'[i] = docs[i]
           \/ docs'[i].s = w.packet.s /\ docs'[i].n <= octets[w.packet.s]
  PROVE  IInv'
<1>1. stopped' \subseteq Sessions
  BY DEF Note, IInv, TypeOK, Job, Packet
<1>2. TypeOK'
  <2>1. IsFiniteSet(jobs')
    BY FS_RemoveElement DEF IInv, TypeOK
  <2> QED
    BY <1>1, <2>1 DEF IInv, TypeOK, nas, server
<1>3. (\A p \in net \cup UnderWay : Honest(p))'
  BY DEF IInv, UnderWay, Honest, nas
<1>4. ChargedAsCounted'
  BY DEF IInv, ChargedAsCounted, nas
<1> QED
  BY <1>2, <1>3, <1>4 DEF IInv

LEMMA PacketOf ==
  ASSUME IInv, NEW w \in jobs
  PROVE  /\ w \in Job /\ w.packet \in Packet
         /\ w.packet.n \in Nat /\ octets[w.packet.s] \in Nat
         /\ w.packet.n <= octets[w.packet.s]
<1>1. w \in Job /\ w.packet \in Packet
  BY DEF IInv, TypeOK, Job
<1>2. w.packet.n \in Nat /\ octets[w.packet.s] \in Nat
  BY <1>1, BoundAssumption DEF IInv, TypeOK, Packet
<1>3. Honest(w.packet)
  BY DEF IInv, UnderWay
<1> QED
  BY <1>1, <1>2, <1>3 DEF Honest

LEMMA FirstIn == ASSUME NEW S \in SUBSET Nat, S # {} PROVE First(S) \in S
<1> DEFINE R == {p \in Nat \X Nat : p[1] < p[2]}
<1>1. IsWellFoundedOn(R, Nat)
  BY NatLessThanWellFounded, Zenon DEF OpToRel
<1> HIDE DEF R
<1>2. PICK i \in S : \A j \in S : <<j, i>> \notin R
  BY <1>1, WFMin
<1>3. ASSUME NEW j \in S, j < i PROVE FALSE
  <2>1. <<j, i>> \in Nat \X Nat /\ <<j, i>>[1] < <<j, i>>[2]
    BY <1>3
  <2>2. <<j, i>> \in R
    BY <2>1 DEF R
  <2> QED
    BY <1>2, <2>2
<1>4. \A j \in S : i <= j
  BY <1>3
<1> QED
  BY <1>4 DEF First

LEMMA DocumentAt ==
  ASSUME IInv, NEW i \in DOMAIN docs
  PROVE  /\ i \in Nat /\ docs[i] \in Document
         /\ docs[i].n \in Nat /\ docs[i].n <= octets[docs[i].s]
         /\ octets[docs[i].s] \in Nat
<1>1. docs[i] \in Document /\ i \in Nat
  BY DEF IInv, TypeOK
<1>2. docs[i].n \in Nat /\ octets[docs[i].s] \in Nat
  BY <1>1, BoundAssumption DEF Document, IInv, TypeOK
<1> QED
  BY <1>1, <1>2 DEF IInv, ChargedAsCounted

\* Changing one document of a sequence keeps a sequence of documents.
LEMMA DocumentsTyped ==
  ASSUME IInv, NEW i \in DOMAIN docs, NEW doc \in Document,
         docs' = [docs EXCEPT ![i] = doc]
  PROVE  /\ docs' \in Seq(Document) /\ DOMAIN docs' = DOMAIN docs
         /\ docs'[i] = doc
         /\ \A j \in DOMAIN docs \ {i} : docs'[j] = docs[j]
BY DEF IInv, TypeOK

LEMMA FindsStep ==
  ASSUME IInv, NEW w \in jobs, WriteFinds(w)
  PROVE  /\ IInv'
         /\ DOMAIN docs' = DOMAIN docs
         /\ \A i \in DOMAIN docs :
              (docs[i].cause # "open" /\ docs'[i].cause = "open")
                => w.packet.kind = "update" /\ w.packet.s = docs[i].s
<1> DEFINE p == w.packet
           i == First(Matches(p))
           doc == Account(docs[i], p)
<1>1. i \in Matches(p)
  <2>1. Matches(p) \in SUBSET Nat
    BY DocumentAt DEF Matches, DocsOf
  <2> QED
    BY <2>1, FirstIn DEF WriteFinds
<1>2. i \in DOMAIN docs /\ docs[i].s = p.s
  BY <1>1 DEF Matches, DocsOf
<1>3. /\ docs' = [docs EXCEPT ![i] = doc] /\ jobs' = jobs \ {w}
      /\ Note(p) /\ UNCHANGED <<nas, net, server, overlap>>
      /\ p.kind # "on"
  BY DEF WriteFinds
<1> HIDE DEF i
<1>4. /\ doc \in Document /\ doc.s = p.s
      /\ doc.n <= docs[i].n \/ doc.n <= p.n
      /\ (docs[i].cause # "open" /\ doc.cause = "open") => p.kind = "update"
  BY <1>2, <1>3, DocumentAt, PacketOf, AccountTyped
<1>5. doc.n <= octets[p.s]
  <2>1. doc.n \in Nat
    BY <1>4, BoundAssumption DEF Document
  <2> QED
    BY <1>2, <1>4, <2>1, DocumentAt, PacketOf
<1> HIDE DEF doc
<1>6. /\ docs' \in Seq(Document) /\ DOMAIN docs' = DOMAIN docs
      /\ docs'[i] = doc
      /\ \A j \in DOMAIN docs \ {i} : docs'[j] = docs[j]
  BY <1>2, <1>3, <1>4, DocumentsTyped
<1>7. \A j \in DOMAIN docs' :
        \/ j \in DOMAIN docs /\ docs'[j] = docs[j]
        \/ docs'[j].s = p.s /\ docs'[j].n <= octets[p.s]
  BY <1>4, <1>5, <1>6
<1>8. IInv'
  BY <1>3, <1>6, <1>7, WriteInv
<1> QED
  BY <1>2, <1>4, <1>6, <1>8

LEMMA InsertsStep ==
  ASSUME IInv, NEW w \in jobs, w.packet.kind # "on", WriteInserts(w)
  PROVE  IInv' /\ \A i \in DOMAIN docs : docs'[i] = docs[i]
<1> DEFINE p == w.packet
           new == [s |-> p.s, n |-> 0, cause |-> "open", nas |-> FALSE]
           doc == Account(new, p)
<1>1. p \in Packet
  BY PacketOf
<1>2. new \in Document
  BY <1>1, BoundAssumption DEF Document, Packet, Causes
<1>3. doc \in Document /\ doc.s = p.s /\ (doc.n <= 0 \/ doc.n <= p.n)
  BY <1>1, <1>2, AccountTyped
<1>4. doc.n <= octets[p.s]
  <2>1. doc.n \in Nat
    BY <1>3, BoundAssumption DEF Document
  <2> QED
    BY <1>3, <2>1, PacketOf
<1>5. /\ docs' = Append(docs, doc) /\ jobs' = jobs \ {w} /\ Note(p)
      /\ UNCHANGED <<nas, net, server, overlap>>
  BY DEF WriteInserts
<1> HIDE DEF doc
<1>6. docs \in Seq(Document)
  BY DEF IInv, TypeOK
<1>7. /\ docs' \in Seq(Document)
      /\ \A j \in DOMAIN docs : docs'[j] = docs[j]
      /\ \A j \in DOMAIN docs' : j \in DOMAIN docs \/ docs'[j] = doc
  BY <1>3, <1>5, <1>6
<1>8. \A j \in DOMAIN docs' :
        \/ j \in DOMAIN docs /\ docs'[j] = docs[j]
        \/ docs'[j].s = p.s /\ docs'[j].n <= octets[p.s]
  BY <1>3, <1>4, <1>7
<1>9. IInv'
  BY <1>5, <1>7, <1>8, WriteInv
<1> QED
  BY <1>7, <1>9

\* Closing documents changes their causes only.
LEMMA CloseInv ==
  ASSUME IInv, net' \cup UnderWay' \subseteq net \cup UnderWay,
         UNCHANGED <<octets, net>>, TypeOK',
         DOMAIN docs' = DOMAIN docs,
         \A i \in DOMAIN docs : /\ docs'[i].s = docs[i].s
                                /\ docs'[i].n = docs[i].n
  PROVE  IInv'
BY DEF IInv, Honest, ChargedAsCounted

LEMMA OnStep ==
  ASSUME IInv, NEW w \in jobs, WriteOn(w)
  PROVE  /\ IInv'
         /\ DOMAIN docs' = DOMAIN docs
         /\ \A i \in DOMAIN docs : docs'[i].cause = "open" => docs'[i] = docs[i]
<1> DEFINE S == {i \in DOMAIN docs : docs[i].nas /\ IsOpen(i)}
           i == First(S)
           doc == [docs[i] EXCEPT !.cause = "nas reboot"]
<1>1. /\ docs' = IF S = {} THEN docs ELSE [docs EXCEPT ![i].cause = "nas reboot"]
      /\ jobs' = jobs \ {w}
      /\ UNCHANGED <<nas, net, server, history>>
  BY DEF WriteOn
<1>2. /\ docs' \in Seq(Document) /\ DOMAIN docs' = DOMAIN docs
      /\ \A j \in DOMAIN docs : /\ docs'[j].s = docs[j].s
                                /\ docs'[j].n = docs[j].n
                                /\ docs'[j].cause = "open" => docs'[j] = docs[j]
  <2>1. CASE S = {}
    BY <1>1, <2>1 DEF IInv, TypeOK
  <2>2. CASE S # {}
    <3>1. i \in DOMAIN docs
      <4>1. S \in SUBSET Nat
        BY DocumentAt
      <4> QED
        BY <2>2, <4>1, FirstIn
    <3> HIDE DEF S, i
    <3>2. docs[i] \in Document
      BY <3>1, DocumentAt
    <3>3. /\ doc \in Document /\ doc.s = docs[i].s /\ doc.n = docs[i].n
          /\ doc.cause = "nas reboot"
      BY <3>2 DEF Document, Causes
    <3>4. docs' = [docs EXCEPT ![i] = doc]
      BY <1>1, <2>2
    <3> HIDE DEF doc
    <3>5. /\ docs' \in Seq(Document) /\ DOMAIN docs' = DOMAIN docs
          /\ docs'[i] = doc
          /\ \A j \in DOMAIN docs \ {i} : docs'[j] = docs[j]
      BY <3>1, <3>3, <3>4, DocumentsTyped
    <3> QED
      BY <3>3, <3>5
  <2> QED
    BY <2>1, <2>2
<1>3. net' \cup UnderWay' \subseteq net \cup UnderWay
  BY <1>1 DEF UnderWay
<1>4. TypeOK'
  <2>1. IsFiniteSet(jobs')
    BY <1>1, FS_RemoveElement DEF IInv, TypeOK
  <2> QED
    BY <1>1, <1>2, <2>1 DEF IInv, TypeOK, nas, server, history
<1> HIDE DEF S, i, doc
<1>5. IInv'
  BY <1>1, <1>2, <1>3, <1>4, CloseInv DEF nas
<1> QED
  BY <1>2, <1>5

----------------------------------------------------------------------------
(* Every step *)

LEMMA NasRebootInv == ASSUME IInv, NasReboot PROVE IInv'
<1>1. PICK s \in Sessions : net' = net \cup {[kind |-> "on", s |-> s, n |-> 0]}
  BY DEF NasReboot
<1> DEFINE p == [kind |-> "on", s |-> s, n |-> 0]
<1>2. /\ reboots < MaxReboots /\ reboots' = reboots + 1
      /\ ses' = [t \in Sessions |-> IF ses[t] = "up" THEN "down" ELSE ses[t]]
      /\ UNCHANGED <<octets, jobs, docs, server, history>>
  BY DEF NasReboot
<1>3. p \in Packet /\ p.n = 0 /\ p.s = s
  BY BoundAssumption DEF Packet, Kinds
<1>4. p.n <= octets[p.s]
  BY <1>3, BoundAssumption DEF IInv, TypeOK
<1>5. net' = net \cup {p}
  BY <1>1
<1> HIDE DEF p
<1>6. ses' \in [Sessions -> {"new", "up", "down"}]
  BY <1>2 DEF IInv, TypeOK
<1>7. reboots' \in 0..MaxReboots
  BY <1>2, BoundAssumption DEF IInv, TypeOK
<1>8. TypeOK'
  BY <1>2, <1>3, <1>5, <1>6, <1>7 DEF IInv, TypeOK, server, history
<1>9. (\A q \in net \cup UnderWay : Honest(q))'
  BY <1>2, <1>4, <1>5 DEF IInv, UnderWay, Honest
<1>10. ChargedAsCounted'
  BY <1>2 DEF IInv, ChargedAsCounted
<1> QED
  BY <1>8, <1>9, <1>10 DEF IInv

\* Writes are counted as they are started.
LEMMA Counting ==
  ASSUME IInv, CountWrites, IsFiniteSet(jobs')
  PROVE  /\ overlap' \in [Sessions -> Nat]
         /\ \A s \in Sessions : /\ overlap[s] <= overlap'[s]
                                /\ Cardinality(WritesOf(s)') <= overlap'[s]
<1>1. ASSUME NEW s \in Sessions
      PROVE  Cardinality(WritesOf(s)') \in Nat /\ overlap[s] \in Nat
  <2>1. WritesOf(s)' \in SUBSET jobs'
    BY DEF WritesOf, Writes
  <2>2. IsFiniteSet(WritesOf(s)')
    BY <2>1, FS_Subset
  <2> QED
    BY <2>2, FS_CardinalityType DEF IInv, TypeOK
<1> DEFINE n(s) == Cardinality(WritesOf(s)')
<1>2. overlap' = [s \in Sessions |-> IF n(s) > overlap[s] THEN n(s) ELSE overlap[s]]
  BY DEF CountWrites
<1>3. \A s \in Sessions : n(s) \in Nat /\ overlap[s] \in Nat
  BY <1>1
<1> HIDE DEF n
<1>4. /\ overlap' \in [Sessions -> Nat]
      /\ \A s \in Sessions : overlap[s] <= overlap'[s] /\ n(s) <= overlap'[s]
  BY <1>2, <1>3
<1> QED
  BY <1>4 DEF n

LEMMA ReceiveInv ==
  ASSUME IInv, NEW p \in net, NEW c \in 1..MaxLoad, Receive(p, c)
  PROVE  /\ IInv'
         /\ \E j : /\ jobs' = jobs \cup {j} /\ j.phase # "insert"
                   /\ j.packet = p
<1> DEFINE looks == p.s \in MacSessions \/ p.kind = "on"
           j == [packet |-> p, copy |-> c, phase |-> IF looks THEN "lookup" ELSE "find"]
<1>1. p \in Packet
  BY DEF IInv, TypeOK
<1>2. j \in Job /\ j.packet = p /\ j.phase # "insert"
  BY <1>1 DEF Job
<1>3. /\ jobs' = jobs \cup {j} /\ CountWrites /\ net' \subseteq net
      /\ UNCHANGED <<nas, docs, server, stopped>>
  BY DEF Receive
<1> HIDE DEF j
<1>4. IsFiniteSet(jobs') /\ jobs' \subseteq Job
  BY <1>2, <1>3, FS_AddElement DEF IInv, TypeOK
<1>5. overlap' \in [Sessions -> Nat]
  BY <1>3, <1>4, Counting
<1>6. \A k \in jobs' : k.packet \in net \cup UnderWay
  BY <1>2, <1>3 DEF UnderWay
<1> QED
  BY <1>2, <1>3, <1>4, <1>5, <1>6, PacketsMove

LEMMA LookedUpInv ==
  ASSUME IInv, NEW i \in jobs, LookedUp(i)
  PROVE  /\ IInv'
         /\ \E j : /\ jobs' = (jobs \ {i}) \cup {j} /\ j.phase # "insert"
                   /\ j.packet = i.packet
<1> DEFINE j == [i EXCEPT !.phase = "find"]
<1>1. j \in Job /\ j.packet = i.packet /\ j.phase # "insert"
  BY PacketOf DEF Job
<1>2. /\ jobs' = (jobs \ {i}) \cup {j} /\ CountWrites
      /\ UNCHANGED <<nas, net, docs, server, stopped>>
  BY DEF LookedUp
<1> HIDE DEF j
<1>3. IsFiniteSet(jobs') /\ jobs' \subseteq Job
  <2>1. IsFiniteSet(jobs \ {i})
    BY FS_RemoveElement DEF IInv, TypeOK
  <2> QED
    BY <1>1, <1>2, <2>1, FS_AddElement DEF IInv, TypeOK
<1>4. overlap' \in [Sessions -> Nat]
  BY <1>2, <1>3, Counting
<1>5. \A k \in jobs' : k.packet \in net \cup UnderWay
  BY <1>1, <1>2 DEF UnderWay
<1> QED
  BY <1>1, <1>2, <1>3, <1>4, <1>5, PacketsMove

LEMMA DropsInv ==
  ASSUME IInv, (\E p \in net : Lose(p)) \/ (\E j \in jobs : Cancelled(j))
  PROVE  IInv'
<1>1. /\ net' \subseteq net /\ jobs' \subseteq jobs
      /\ UNCHANGED <<nas, docs, server, stopped, overlap>>
  BY DEF Lose, Cancelled, history
<1>2. IsFiniteSet(jobs')
  BY <1>1, FS_Subset DEF IInv, TypeOK
<1> QED
  BY <1>1, <1>2, PacketsMove DEF UnderWay, IInv, TypeOK

LEMMA MissesInv ==
  ASSUME IInv, NEW w \in jobs, WriteMisses(w)
  PROVE  /\ IInv'
         /\ \E v : /\ jobs' = (jobs \ {w}) \cup {v} /\ v.packet = w.packet
                   /\ v.phase = "insert"
<1> DEFINE v == [w EXCEPT !.phase = "insert"]
<1>1. v \in Job /\ v.packet = w.packet /\ v.phase = "insert"
  BY PacketOf DEF Job
<1>2. /\ jobs' = (jobs \ {w}) \cup {v}
      /\ UNCHANGED <<nas, net, docs, server, stopped, overlap>>
  BY DEF WriteMisses, history
<1> HIDE DEF v
<1>3. IsFiniteSet(jobs') /\ jobs' \subseteq Job
  <2>1. IsFiniteSet(jobs \ {w})
    BY FS_RemoveElement DEF IInv, TypeOK
  <2> QED
    BY <1>1, <1>2, <2>1, FS_AddElement DEF IInv, TypeOK
<1>4. overlap' \in [Sessions -> Nat]
  BY <1>2 DEF IInv, TypeOK
<1>5. \A k \in jobs' : k.packet \in net \cup UnderWay
  BY <1>1, <1>2 DEF UnderWay
<1> QED
  BY <1>1, <1>2, <1>3, <1>4, <1>5, PacketsMove

LEMMA CloseSessionsInv ==
  ASSUME IInv, CloseSessions, UNCHANGED <<nas, net, jobs, restarts, history>>,
         acct' \in {"up", "down"}, auth' \in {"up", "down"}
  PROVE  /\ IInv'
         /\ DOMAIN docs' = DOMAIN docs
         /\ \A i \in DOMAIN docs : /\ docs'[i].cause # "open"
                                    /\ docs'[i].s = docs[i].s
                                    /\ docs'[i].n = docs[i].n
<1>1. docs \in Seq(Document)
  BY DEF IInv, TypeOK
<1>2. /\ DOMAIN docs' = DOMAIN docs
      /\ \A i \in DOMAIN docs :
           docs'[i] = IF IsOpen(i) THEN [docs[i] EXCEPT !.cause = "admin reboot"]
                                   ELSE docs[i]
  BY DEF CloseSessions
<1>3. ASSUME NEW i \in DOMAIN docs
      PROVE  /\ docs'[i] \in Document /\ docs'[i].s = docs[i].s
             /\ docs'[i].n = docs[i].n /\ docs'[i].cause # "open"
  BY <1>2, DocumentAt DEF Document, Causes, IsOpen
<1>4. docs' \in Seq(Document)
  <2>1. DOMAIN docs = 1..Len(docs) /\ Len(docs) \in Nat
    BY <1>1
  <2>2. docs' = [i \in 1..Len(docs) |-> docs'[i]]
    BY <2>1 DEF CloseSessions
  <2>3. docs' \in [1..Len(docs) -> Document]
    BY <1>3, <2>1, <2>2
  <2> QED
    BY <2>1, <2>3
<1>5. TypeOK'
  BY <1>4 DEF IInv, TypeOK, nas, history
<1>6. net' \cup UnderWay' \subseteq net \cup UnderWay
  BY DEF UnderWay
<1> QED
  BY <1>2, <1>3, <1>5, <1>6, CloseInv DEF nas

LEMMA RestartInv == ASSUME IInv, Restart PROVE IInv'
<1>1. restarts' \in 0..MaxRestarts
  BY BoundAssumption DEF Restart, IInv, TypeOK
<1>2. TypeOK'
  BY <1>1, FS_EmptySet DEF IInv, TypeOK, Restart, nas, history
<1>3. net' \cup UnderWay' \subseteq net \cup UnderWay
  BY DEF Restart, UnderWay
<1> QED
  BY <1>2, <1>3 DEF IInv, Honest, ChargedAsCounted, Restart, nas

\* An Accounting-On has no document to insert.
OnInserts == \A w \in jobs : w.phase = "insert" => w.packet.kind # "on"

Inv == IInv /\ OnInserts

LEMMA OnInsertsKept == Inv /\ [Next]_vars => OnInserts'
<1> SUFFICES ASSUME Inv, [Next]_vars, NEW v \in jobs', v.phase = "insert"
             PROVE  v.packet.kind # "on"
  BY DEF OnInserts
<1>1. CASE v \in jobs
  BY <1>1 DEF Inv, OnInserts
<1>2. CASE v \notin jobs
  <2>1. ASSUME NEW p \in net, NEW c \in 1..MaxLoad, Receive(p, c) PROVE FALSE
    BY <1>2, <2>1, ReceiveInv DEF Inv
  <2>2. ASSUME NEW p \in net, Lose(p) PROVE FALSE
    BY <1>2, <2>2 DEF Lose
  <2>3. ASSUME NEW j \in jobs, LookedUp(j) PROVE FALSE
    BY <1>2, <2>3, LookedUpInv DEF Inv
  <2>4. ASSUME NEW j \in jobs, Cancelled(j) PROVE FALSE
    BY <1>2, <2>4 DEF Cancelled
  <2>5. ASSUME NEW s \in Sessions, Nas(s) PROVE FALSE
    BY <1>2, <2>5 DEF Nas, NasStart, NasUpdate, NasStop, Traffic, Send
  <2>6. ASSUME NasReboot \/ AcctUp \/ AuthUp \/ Restart PROVE FALSE
    BY <1>2, <2>6 DEF NasReboot, AcctUp, AuthUp, Restart
  <2>7. ASSUME NEW w \in jobs, WriteStep(w) PROVE v.packet.kind # "on"
    <3>1. CASE WriteMisses(w)
      <4>1. PICK u : jobs' = (jobs \ {w}) \cup {u} /\ u.packet = w.packet
        BY <3>1, MissesInv DEF Inv
      <4>2. v = u
        BY <1>2, <4>1
      <4> QED
        BY <3>1, <4>1, <4>2 DEF WriteMisses
    <3> QED
      BY <1>2, <2>7, <3>1 DEF WriteStep, WriteFinds, WriteInserts, WriteOn
  <2>8. CASE UNCHANGED vars
    BY <1>2, <2>8 DEF vars
  <2> QED
    BY <2>1, <2>2, <2>3, <2>4, <2>5, <2>6, <2>7, <2>8 DEF Next, Receives
<1> QED
  BY <1>1, <1>2

LEMMA StartsInv ==
  ASSUME IInv, AcctUp \/ AuthUp
  PROVE  /\ IInv'
         /\ DOMAIN docs' = DOMAIN docs
         /\ \A i \in DOMAIN docs : /\ docs'[i].cause # "open"
                                   /\ docs'[i].s = docs[i].s
                                   /\ docs'[i].n = docs[i].n
<1>1. /\ CloseSessions
      /\ UNCHANGED <<nas, net, jobs, restarts, history>>
      /\ acct' \in {"up", "down"} /\ auth' \in {"up", "down"}
  BY DEF AcctUp, AuthUp, IInv, TypeOK
<1> QED
  BY <1>1, CloseSessionsInv

LEMMA StepInv == Inv /\ [Next]_vars => Inv'
<1> SUFFICES ASSUME Inv, [Next]_vars PROVE IInv'
  BY OnInsertsKept DEF Inv
<1> USE DEF Inv
<1>1. ASSUME NEW s \in Sessions, Nas(s) PROVE IInv'
  BY <1>1, NasInv
<1>2. CASE NasReboot
  BY <1>2, NasRebootInv
<1>3. ASSUME NEW p \in net, NEW c \in 1..MaxLoad, Receive(p, c) PROVE IInv'
  BY <1>3, ReceiveInv
<1>4. ASSUME NEW j \in jobs, LookedUp(j) PROVE IInv'
  BY <1>4, LookedUpInv
<1>5. CASE (\E p \in net : Lose(p)) \/ (\E j \in jobs : Cancelled(j))
  BY <1>5, DropsInv
<1>6. ASSUME NEW w \in jobs, WriteStep(w) PROVE IInv'
  <2>1. CASE WriteFinds(w)
    BY <2>1, FindsStep
  <2>2. CASE WriteMisses(w)
    BY <2>2, MissesInv
  <2>3. CASE WriteInserts(w)
    BY <2>3, InsertsStep DEF OnInserts, WriteInserts
  <2>4. CASE WriteOn(w)
    BY <2>4, OnStep
  <2> QED
    BY <1>6, <2>1, <2>2, <2>3, <2>4 DEF WriteStep
<1>7. CASE AcctUp \/ AuthUp
  BY <1>7, StartsInv
<1>8. CASE Restart
  BY <1>8, RestartInv
<1>9. CASE UNCHANGED vars
  <2>1. UNCHANGED <<nas, net, jobs, docs, server, stopped, overlap>>
    BY <1>9 DEF vars, nas, server
  <2> QED
    BY <2>1, PacketsMove DEF UnderWay, IInv, TypeOK
<1> QED
  BY <1>1, <1>2, <1>3, <1>4, <1>5, <1>6, <1>7, <1>8, <1>9 DEF Next, Receives

LEMMA Invariant == Spec => []Inv
<1>1. Init => Inv
  BY InitInv DEF Inv, Init, OnInserts
<1> QED
  BY <1>1, StepInv, PTL DEF Spec

\* The types of handle_acct's documents, packets and writes.
THEOREM TypeCorrect == Spec => []TypeOK
<1>1. Inv => TypeOK
  BY DEF Inv, IInv
<1> QED
  BY <1>1, Invariant, PTL

\* No document ever charges a session more than it has counted.
THEOREM NeverOvercharged == Spec => []ChargedAsCounted
<1>1. Inv => ChargedAsCounted
  BY DEF Inv, IInv
<1> QED
  BY <1>1, Invariant, PTL

----------------------------------------------------------------------------
(* Documents *)

\* Closing a document of a rebooted router leaves its session and its count.
LEMMA OnKeeps ==
  ASSUME IInv, NEW w \in jobs, WriteOn(w), NEW i \in DOMAIN docs
  PROVE  docs'[i].s = docs[i].s /\ docs'[i].n = docs[i].n
<1> DEFINE S == {j \in DOMAIN docs : docs[j].nas /\ IsOpen(j)}
           k == First(S)
           doc == [docs[k] EXCEPT !.cause = "nas reboot"]
<1>1. docs' = IF S = {} THEN docs ELSE [docs EXCEPT ![k].cause = "nas reboot"]
  BY DEF WriteOn
<1>2. CASE S = {}
  BY <1>1, <1>2
<1>3. CASE S # {}
  <2>1. S \in SUBSET Nat
    BY DocumentAt
  <2>2. k \in DOMAIN docs
    BY <1>3, <2>1, FirstIn
  <2> HIDE DEF S, k
  <2>3. docs[k] \in Document
    BY <2>2, DocumentAt
  <2>4. doc.s = docs[k].s /\ doc.n = docs[k].n
    BY <2>3 DEF Document
  <2>5. docs' = [docs EXCEPT ![k] = doc]
    BY <1>1, <1>3
  <2> HIDE DEF doc
  <2> QED
    BY <2>4, <2>5 DEF IInv, TypeOK
<1> QED
  BY <1>2, <1>3

\* A write that finds a document changes that one, as its packet says.
LEMMA FindsOne ==
  ASSUME IInv, NEW w \in jobs, WriteFinds(w)
  PROVE  \E k \in DocsOf(w.packet.s) :
           /\ DOMAIN docs' = DOMAIN docs
           /\ \A j \in DOMAIN docs \ {k} : docs'[j] = docs[j]
           /\ docs'[k].s = docs[k].s
           /\ w.packet.kind = "start" =>
                docs'[k].cause = docs[k].cause /\ docs'[k].n = docs[k].n
           /\ w.packet.kind = "stop" =>
                docs'[k].cause = "stop" /\ docs'[k].n = Counted(w.packet.n)
<1> DEFINE p == w.packet
           k == First(Matches(p))
           doc == Account(docs[k], p)
<1>1. /\ docs' = [docs EXCEPT ![k] = doc] /\ p.kind # "on"
      /\ p \in Packet
  BY PacketOf DEF WriteFinds
<1>2. k \in DocsOf(p.s)
  <2>1. Matches(p) \in SUBSET Nat
    BY DocumentAt DEF Matches, DocsOf
  <2>2. k \in Matches(p)
    BY <2>1, FirstIn DEF WriteFinds
  <2> QED
    BY <2>2 DEF Matches
<1>3. k \in DOMAIN docs
  BY <1>2 DEF DocsOf
<1> HIDE DEF k
<1>4. /\ doc \in Document /\ doc.s = docs[k].s
      /\ p.kind = "start" => doc.cause = docs[k].cause /\ doc.n = docs[k].n
      /\ p.kind = "stop" => doc.cause = "stop" /\ doc.n = Counted(p.n)
  <2>1. doc \in Document /\ doc.s = docs[k].s
    BY <1>1, <1>3, DocumentAt, AccountTyped
  <2>2. docs[k] \in Document
    BY <1>3, DocumentAt
  <2> QED
    BY <2>1, <2>2 DEF Account, Document
<1> HIDE DEF doc
<1>5. /\ DOMAIN docs' = DOMAIN docs /\ docs'[k] = doc
      /\ \A j \in DOMAIN docs \ {k} : docs'[j] = docs[j]
  BY <1>1, <1>3, <1>4, DocumentsTyped
<1> QED
  BY <1>2, <1>4, <1>5

\* A write that inserts adds one document of its session.
LEMMA InsertsOne ==
  ASSUME Inv, NEW w \in jobs, WriteInserts(w)
  PROVE  \E k : /\ k \notin DOMAIN docs /\ DOMAIN docs' = DOMAIN docs \cup {k}
                /\ \A j \in DOMAIN docs : docs'[j] = docs[j]
                /\ docs'[k].s = w.packet.s
                /\ w.packet.kind = "stop" =>
                     docs'[k].cause = "stop" /\ docs'[k].n = Counted(w.packet.n)
<1> DEFINE p == w.packet
           new == [s |-> p.s, n |-> 0, cause |-> "open", nas |-> FALSE]
           doc == Account(new, p)
<1>1. /\ docs' = Append(docs, doc) /\ p.kind # "on" /\ p \in Packet
  BY PacketOf DEF WriteInserts, Inv, OnInserts
<1>2. new \in Document
  BY <1>1, BoundAssumption DEF Document, Packet, Causes
<1>3. /\ doc \in Document /\ doc.s = p.s
      /\ p.kind = "stop" => doc.cause = "stop" /\ doc.n = Counted(p.n)
  <2>1. doc \in Document /\ doc.s = p.s
    BY <1>1, <1>2, AccountTyped
  <2> QED
    BY <1>2, <2>1 DEF Account
<1> HIDE DEF doc
<1>4. docs \in Seq(Document)
  BY DEF Inv, IInv, TypeOK
<1>5. /\ Len(docs) + 1 \notin DOMAIN docs
      /\ DOMAIN docs' = DOMAIN docs \cup {Len(docs) + 1}
      /\ docs'[Len(docs) + 1] = doc
      /\ \A j \in DOMAIN docs : docs'[j] = docs[j]
  BY <1>1, <1>3, <1>4
<1> QED
  BY <1>3, <1>5

\* Every other step leaves each document its session.
LEMMA DocsStep ==
  ASSUME Inv, [Next]_vars, ~\E w \in jobs : WriteInserts(w)
  PROVE  /\ DOMAIN docs' = DOMAIN docs
         /\ \A i \in DOMAIN docs : docs'[i].s = docs[i].s
<1> USE DEF Inv
<1>1. ASSUME UNCHANGED docs
      PROVE  DOMAIN docs' = DOMAIN docs /\ \A i \in DOMAIN docs : docs'[i].s = docs[i].s
  BY <1>1
<1>2. ASSUME NEW s \in Sessions, Nas(s) PROVE UNCHANGED docs
  BY <1>2 DEF Nas, NasStart, NasUpdate, NasStop, Traffic, Send
<1>3. ASSUME NEW p \in net, Lose(p) \/ Receives(p) PROVE UNCHANGED docs
  BY <1>3 DEF Lose, Receives, Receive
<1>4. ASSUME NEW j \in jobs, LookedUp(j) \/ Cancelled(j) \/ WriteMisses(j)
      PROVE  UNCHANGED docs
  BY <1>4 DEF LookedUp, Cancelled, WriteMisses
<1>5. ASSUME NasReboot \/ Restart \/ UNCHANGED vars PROVE UNCHANGED docs
  BY <1>5 DEF NasReboot, Restart, vars
<1>6. CASE AcctUp \/ AuthUp
  BY <1>6, StartsInv
<1>7. ASSUME NEW w \in jobs, WriteFinds(w)
      PROVE  DOMAIN docs' = DOMAIN docs /\ \A i \in DOMAIN docs : docs'[i].s = docs[i].s
  BY <1>7, FindsOne
<1>8. ASSUME NEW w \in jobs, WriteOn(w)
      PROVE  DOMAIN docs' = DOMAIN docs /\ \A i \in DOMAIN docs : docs'[i].s = docs[i].s
  BY <1>8, OnStep, OnKeeps
<1> QED
  BY <1>1, <1>2, <1>3, <1>4, <1>5, <1>6, <1>7, <1>8 DEF Next, WriteStep

----------------------------------------------------------------------------
(* A session has no more documents than writes that overlapped: one that is to *)
(* be inserted counts with them.                                               *)

Inserting(s) == {w \in WritesOf(s) : w.phase = "insert"}

Bounded ==
  \A s \in Sessions :
    /\ Cardinality(WritesOf(s)) <= overlap[s]
    /\ Cardinality(DocsOf(s)) + Cardinality(Inserting(s)) <= overlap[s]

LEMMA Finite ==
  ASSUME Inv, NEW s \in Sessions
  PROVE  /\ IsFiniteSet(WritesOf(s)) /\ Cardinality(WritesOf(s)) \in Nat
         /\ IsFiniteSet(Inserting(s)) /\ Cardinality(Inserting(s)) \in Nat
         /\ IsFiniteSet(DocsOf(s)) /\ Cardinality(DocsOf(s)) \in Nat
         /\ overlap[s] \in Nat
<1>1. /\ WritesOf(s) \in SUBSET jobs /\ Inserting(s) \in SUBSET jobs
      /\ IsFiniteSet(jobs)
  BY DEF WritesOf, Writes, Inserting, Inv, IInv, TypeOK
<1>2. IsFiniteSet(DocsOf(s))
  <2>1. DOMAIN docs = 1..Len(docs) /\ Len(docs) \in Nat
    BY DEF Inv, IInv, TypeOK
  <2>2. IsFiniteSet(1..Len(docs))
    BY <2>1, FS_Interval
  <2>3. DocsOf(s) \in SUBSET (1..Len(docs))
    BY <2>1 DEF DocsOf
  <2> QED
    BY <2>2, <2>3, FS_Subset
<1>3. IsFiniteSet(WritesOf(s)) /\ IsFiniteSet(Inserting(s))
  BY <1>1, FS_Subset
<1> QED
  BY <1>2, <1>3, FS_CardinalityType DEF Inv, IInv, TypeOK

\* No write began, and no document was inserted.
LEMMA BoundKept ==
  ASSUME Inv, Bounded, NEW s \in Sessions,
         WritesOf(s)' \subseteq WritesOf(s), Inserting(s)' \subseteq Inserting(s),
         DocsOf(s)' = DocsOf(s), overlap'[s] = overlap[s]
  PROVE  /\ Cardinality(WritesOf(s)') <= overlap'[s]
         /\ Cardinality(DocsOf(s)') + Cardinality(Inserting(s)') <= overlap'[s]
<1> DEFINE W == WritesOf(s)'
           N == Inserting(s)'
<1>1. W \in SUBSET WritesOf(s) /\ N \in SUBSET Inserting(s)
  OBVIOUS
<1> HIDE DEF W, N
<1>2. /\ Cardinality(W) <= Cardinality(WritesOf(s)) /\ Cardinality(W) \in Nat
      /\ Cardinality(N) <= Cardinality(Inserting(s)) /\ Cardinality(N) \in Nat
  BY <1>1, Finite, FS_Subset, FS_CardinalityType
<1>3. /\ Cardinality(W) <= overlap[s]
      /\ Cardinality(DocsOf(s)) + Cardinality(N) <= overlap[s]
  BY <1>2, Finite DEF Bounded
<1> QED
  BY <1>3 DEF W, N

\* A packet is received, or its user found: there may be one more write, which
\* is counted, and none that inserts.
LEMMA BoundBegins ==
  ASSUME Inv, Bounded, CountWrites, IsFiniteSet(jobs'), UNCHANGED docs,
         NEW j, jobs' \subseteq jobs \cup {j}, j.phase # "insert",
         NEW s \in Sessions
  PROVE  /\ Cardinality(WritesOf(s)') <= overlap'[s]
         /\ Cardinality(DocsOf(s)') + Cardinality(Inserting(s)') <= overlap'[s]
<1>1. /\ overlap[s] <= overlap'[s] /\ Cardinality(WritesOf(s)') <= overlap'[s]
      /\ overlap'[s] \in Nat
  BY Counting DEF Inv
<1> DEFINE N == Inserting(s)'
<1>2. N \in SUBSET Inserting(s)
  BY DEF Inserting, WritesOf, Writes
<1>3. DocsOf(s)' = DocsOf(s)
  BY DEF DocsOf
<1> HIDE DEF N
<1>4. Cardinality(N) <= Cardinality(Inserting(s)) /\ Cardinality(N) \in Nat
  BY <1>2, Finite, FS_Subset, FS_CardinalityType
<1>5. Cardinality(DocsOf(s)) + Cardinality(N) <= overlap'[s]
  BY <1>1, <1>4, Finite DEF Bounded
<1> QED
  BY <1>1, <1>3, <1>5 DEF N

\* A write that found no document is going to insert one: there is none.
LEMMA BoundMisses ==
  ASSUME Inv, Bounded, NEW w \in jobs, WriteMisses(w), NEW s \in Sessions
  PROVE  /\ Cardinality(WritesOf(s)') <= overlap'[s]
         /\ Cardinality(DocsOf(s)') + Cardinality(Inserting(s)') <= overlap'[s]
<1>1. PICK v : jobs' = (jobs \ {w}) \cup {v} /\ v.packet = w.packet /\ v.phase = "insert"
  BY MissesInv DEF Inv
<1>2. /\ w.phase = "find" /\ w.packet.kind # "on" /\ DocsOf(w.packet.s) = {}
      /\ UNCHANGED <<docs, overlap>>
  BY DEF WriteMisses, Matches, history
<1>3. DocsOf(s)' = DocsOf(s)
  BY <1>2 DEF DocsOf
<1>4. CASE w.packet.s # s
  <2>1. WritesOf(s)' \subseteq WritesOf(s) /\ Inserting(s)' \subseteq Inserting(s)
    BY <1>1, <1>4 DEF Inserting, WritesOf, Writes
  <2> QED
    BY <1>2, <1>3, <2>1, BoundKept
<1>5. CASE w.packet.s = s
  <2> DEFINE W == WritesOf(s)'
             N == Inserting(s)'
             R == WritesOf(s) \ {w}
  <2>1. w \in WritesOf(s) /\ W \in SUBSET (R \cup {v}) /\ N \in SUBSET W
    BY <1>1, <1>2, <1>5 DEF Inserting, WritesOf, Writes
  <2>2. /\ IsFiniteSet(R) /\ Cardinality(R) = Cardinality(WritesOf(s)) - 1
    BY <2>1, Finite, FS_RemoveElement
  <2> HIDE DEF W, N, R
  <2>3. IsFiniteSet(R \cup {v}) /\ Cardinality(R \cup {v}) <= Cardinality(WritesOf(s))
    <3>1. IsFiniteSet(R \cup {v}) /\ (\/ Cardinality(R \cup {v}) = Cardinality(R)
                                      \/ Cardinality(R \cup {v}) = Cardinality(R) + 1)
      BY <2>2, FS_AddElement
    <3> QED
      BY <2>2, <3>1, Finite
  <2>4. /\ IsFiniteSet(W) /\ Cardinality(W) <= Cardinality(R \cup {v})
        /\ Cardinality(N) <= Cardinality(W)
        /\ Cardinality(W) \in Nat /\ Cardinality(N) \in Nat
        /\ Cardinality(R \cup {v}) \in Nat
    BY <2>1, <2>3, FS_Subset, FS_CardinalityType
  <2>5. Cardinality(DocsOf(s)) = 0
    BY <1>2, <1>5, FS_EmptySet
  <2>6. Cardinality(W) <= overlap[s] /\ 0 + Cardinality(N) <= overlap[s]
    BY <2>3, <2>4, Finite DEF Bounded
  <2> QED
    BY <1>2, <1>3, <2>5, <2>6 DEF W, N
<1> QED
  BY <1>4, <1>5

\* The document inserted was counted before.
LEMMA BoundInserts ==
  ASSUME Inv, Bounded, NEW w \in jobs, WriteInserts(w), NEW s \in Sessions
  PROVE  /\ Cardinality(WritesOf(s)') <= overlap'[s]
         /\ Cardinality(DocsOf(s)') + Cardinality(Inserting(s)') <= overlap'[s]
<1>1. /\ w.phase = "insert" /\ w.packet.kind # "on" /\ jobs' = jobs \ {w}
      /\ UNCHANGED overlap
  BY DEF WriteInserts, Inv, OnInserts
<1>2. PICK k : /\ k \notin DOMAIN docs /\ DOMAIN docs' = DOMAIN docs \cup {k}
               /\ \A j \in DOMAIN docs : docs'[j] = docs[j]
               /\ docs'[k].s = w.packet.s
  BY InsertsOne
<1>3. CASE w.packet.s # s
  <2>1. /\ WritesOf(s)' \subseteq WritesOf(s) /\ Inserting(s)' \subseteq Inserting(s)
        /\ DocsOf(s)' = DocsOf(s)
    BY <1>1, <1>2, <1>3 DEF Inserting, WritesOf, Writes, DocsOf
  <2> QED
    BY <1>1, <2>1, BoundKept
<1>4. CASE w.packet.s = s
  <2> DEFINE W == WritesOf(s)'
  <2>1. /\ w \in Inserting(s) /\ Inserting(s)' = Inserting(s) \ {w}
        /\ W \in SUBSET WritesOf(s) /\ DocsOf(s)' = DocsOf(s) \cup {k}
        /\ k \notin DocsOf(s)
    BY <1>1, <1>2, <1>4 DEF Inserting, WritesOf, Writes, DocsOf
  <2> HIDE DEF W
  <2>2. /\ Cardinality(W) <= Cardinality(WritesOf(s)) /\ Cardinality(W) \in Nat
        /\ Cardinality(Inserting(s) \ {w}) = Cardinality(Inserting(s)) - 1
        /\ Cardinality(DocsOf(s) \cup {k}) = Cardinality(DocsOf(s)) + 1
    BY <2>1, Finite, FS_Subset, FS_CardinalityType, FS_RemoveElement, FS_AddElement
  <2>3. /\ Cardinality(W) <= overlap[s]
        /\ Cardinality(DocsOf(s) \cup {k}) + Cardinality(Inserting(s) \ {w}) <= overlap[s]
    BY <2>2, Finite DEF Bounded
  <2> QED
    BY <1>1, <2>1, <2>3 DEF W
<1> QED
  BY <1>3, <1>4

LEMMA BoundedStep == Inv /\ Bounded /\ [Next]_vars => Bounded'
<1> SUFFICES ASSUME Inv, Bounded, [Next]_vars, NEW s \in Sessions
             PROVE  /\ Cardinality(WritesOf(s)') <= overlap'[s]
                    /\ Cardinality(DocsOf(s)') + Cardinality(Inserting(s)') <= overlap'[s]
  BY DEF Bounded
<1>1. CASE \E w \in jobs : WriteInserts(w)
  BY <1>1, BoundInserts
<1>2. ASSUME NEW w \in jobs, WriteMisses(w)
      PROVE  /\ Cardinality(WritesOf(s)') <= overlap'[s]
             /\ Cardinality(DocsOf(s)') + Cardinality(Inserting(s)') <= overlap'[s]
  BY <1>2, BoundMisses
<1>3. ASSUME NEW p \in net, NEW c \in 1..MaxLoad, Receive(p, c)
      PROVE  /\ Cardinality(WritesOf(s)') <= overlap'[s]
             /\ Cardinality(DocsOf(s)') + Cardinality(Inserting(s)') <= overlap'[s]
  <2>1. PICK j : jobs' = jobs \cup {j} /\ j.phase # "insert"
    BY <1>3, ReceiveInv DEF Inv
  <2>2. CountWrites /\ UNCHANGED docs
    BY <1>3 DEF Receive
  <2>3. IsFiniteSet(jobs') /\ jobs' \subseteq jobs \cup {j}
    BY <2>1, FS_AddElement DEF Inv, IInv, TypeOK
  <2> QED
    BY <2>1, <2>2, <2>3, BoundBegins
<1>4. ASSUME NEW i \in jobs, LookedUp(i)
      PROVE  /\ Cardinality(WritesOf(s)') <= overlap'[s]
             /\ Cardinality(DocsOf(s)') + Cardinality(Inserting(s)') <= overlap'[s]
  <2>1. PICK j : jobs' = (jobs \ {i}) \cup {j} /\ j.phase # "insert"
    BY <1>4, LookedUpInv DEF Inv
  <2>2. CountWrites /\ UNCHANGED docs
    BY <1>4 DEF LookedUp
  <2>3. IsFiniteSet(jobs') /\ jobs' \subseteq jobs \cup {j}
    <3>1. IsFiniteSet(jobs \ {i})
      BY FS_RemoveElement DEF Inv, IInv, TypeOK
    <3> QED
      BY <2>1, <3>1, FS_AddElement
  <2> QED
    BY <2>1, <2>2, <2>3, BoundBegins
<1>5. ASSUME jobs' \subseteq jobs, UNCHANGED overlap,
             ~\E w \in jobs : WriteInserts(w)
      PROVE  /\ Cardinality(WritesOf(s)') <= overlap'[s]
             /\ Cardinality(DocsOf(s)') + Cardinality(Inserting(s)') <= overlap'[s]
  <2>1. DocsOf(s)' = DocsOf(s)
    BY <1>5, DocsStep DEF DocsOf
  <2>2. WritesOf(s)' \subseteq WritesOf(s) /\ Inserting(s)' \subseteq Inserting(s)
    BY <1>5 DEF Inserting, WritesOf, Writes
  <2> QED
    BY <1>5, <2>1, <2>2, BoundKept
<1>6. ASSUME NEW t \in Sessions, Nas(t) PROVE jobs' \subseteq jobs /\ UNCHANGED overlap
  BY <1>6 DEF Nas, NasStart, NasUpdate, NasStop, Traffic, Send, history
<1>7. ASSUME \/ \E p \in net : Lose(p)
             \/ \E j \in jobs : Cancelled(j) \/ WriteFinds(j) \/ WriteOn(j)
             \/ NasReboot \/ AcctUp \/ AuthUp \/ Restart \/ UNCHANGED vars
      PROVE jobs' \subseteq jobs /\ UNCHANGED overlap
  BY <1>7 DEF Lose, Cancelled, WriteFinds, WriteOn, NasReboot, AcctUp, AuthUp, Restart,
     vars, history
<1> QED
  BY <1>1, <1>2, <1>3, <1>4, <1>5, <1>6, <1>7 DEF Next, WriteStep, Receives

LEMMA BoundedHolds == Spec => [](Inv /\ Bounded)
<1>1. Init => Inv /\ Bounded
  <2> SUFFICES ASSUME Init PROVE Inv /\ Bounded
    OBVIOUS
  <2>1. Inv
    BY InitInv DEF Inv, Init, OnInserts
  <2>2. \A s \in Sessions : /\ WritesOf(s) = {} /\ Inserting(s) = {} /\ DocsOf(s) = {}
                            /\ overlap[s] = 0
    BY DEF Init, WritesOf, Writes, Inserting, DocsOf
  <2> QED
    BY <2>1, <2>2, FS_EmptySet DEF Bounded
<1> QED
  BY <1>1, StepInv, BoundedStep, PTL DEF Spec

\* A session is charged once for each of its writes that overlapped at most, and
\* once only when they came one at a time, although (auth_class, session_id) has
\* no unique index (protocol.py:223-229).
THEOREM DocumentsFew == Spec => []DocumentsBounded
<1>1. ASSUME Inv, Bounded, NEW s \in Sessions PROVE Cardinality(DocsOf(s)) <= overlap[s]
  BY <1>1, Finite DEF Bounded
<1>2. Inv /\ Bounded => DocumentsBounded
  BY <1>1 DEF DocumentsBounded
<1> QED
  BY <1>2, BoundedHolds, PTL

----------------------------------------------------------------------------
(* A Stop is the last packet of a session, with its final count, and the      *)
(* document it was written to stays closed.                                   *)

LastPacket == \A p \in net \cup UnderWay :
  p.kind = "stop" => ses[p.s] = "down" /\ p.n = octets[p.s]

Down == \A s \in stopped : ses[s] = "down"

Final == \A s \in stopped :
  \E i \in DocsOf(s) : ~IsOpen(i) /\ docs[i].n = Counted(octets[s])

FinalInv == Inv /\ LastPacket /\ Down /\ Final

\* Steps that leave closed documents alone, and packets on their way.
LEMMA FinalKept ==
  ASSUME FinalInv, net' \cup UnderWay' \subseteq net \cup UnderWay,
         UNCHANGED <<ses, octets, stopped>>,
         \A i \in DOMAIN docs :
           /\ i \in DOMAIN docs' /\ docs'[i].s = docs[i].s /\ docs'[i].n = docs[i].n
           /\ ~IsOpen(i) => docs'[i].cause # "open"
  PROVE  LastPacket' /\ Down' /\ Final'
<1>1. LastPacket' /\ Down'
  BY DEF FinalInv, LastPacket, Down
<1>2. ASSUME NEW s \in stopped
      PROVE  \E i \in DocsOf(s)' : docs'[i].cause # "open" /\ docs'[i].n = Counted(octets[s])
  <2>1. PICK i \in DocsOf(s) : ~IsOpen(i) /\ docs[i].n = Counted(octets[s])
    BY DEF FinalInv, Final
  <2>2. i \in DocsOf(s)' /\ docs'[i].cause # "open" /\ docs'[i].n = docs[i].n
    BY <2>1 DEF DocsOf
  <2> QED
    BY <2>1, <2>2
<1> QED
  BY <1>1, <1>2 DEF Final, IsOpen

LEMMA FinalNas ==
  ASSUME FinalInv, NEW s \in Sessions, Nas(s)
  PROVE  LastPacket' /\ Down' /\ Final'
<1>1. /\ ses \in [Sessions -> {"new", "up", "down"}] /\ stopped \subseteq Sessions
      /\ octets \in [Sessions -> 0..MaxOctets]
      /\ \A p \in net \cup UnderWay : p.s \in Sessions
  BY DEF FinalInv, Inv, IInv, TypeOK, UnderWay, Job, Packet
<1>2. UNCHANGED <<jobs, docs, stopped>> /\ UnderWay' = UnderWay
  BY DEF Nas, NasStart, NasUpdate, NasStop, Traffic, Send, history, UnderWay
<1>3. CASE Traffic(s)
  <2>1. /\ ses[s] = "up" /\ octets' = [octets EXCEPT ![s] = octets[s] + 1]
        /\ UNCHANGED <<ses, net>>
    BY <1>3 DEF Traffic
  <2>2. \A t \in Sessions : ses[t] = "down" => octets'[t] = octets[t]
    BY <1>1, <2>1
  <2>3. LastPacket'
    BY <1>1, <1>2, <2>1, <2>2 DEF FinalInv, LastPacket
  <2>4. Down'
    BY <1>2, <2>1 DEF FinalInv, Down
  <2>5. Final'
    BY <1>1, <1>2, <2>2 DEF FinalInv, Down, Final, DocsOf, IsOpen
  <2> QED
    BY <2>3, <2>4, <2>5
<1>4. ASSUME NEW kind \in {"start", "update", "stop"}, Send(s, kind),
             \A t \in Sessions : ses[t] = "down" => ses'[t] = "down",
             kind = "stop" => ses'[s] = "down"
      PROVE  LastPacket' /\ Down' /\ Final'
  <2> DEFINE p == [kind |-> kind, s |-> s, n |-> octets[s]]
  <2>1. p.kind = kind /\ p.s = s /\ p.n = octets[s] /\ net' = net \cup {p}
        /\ UNCHANGED octets
    BY <1>4 DEF Send
  <2> HIDE DEF p
  <2>2. LastPacket'
    BY <1>1, <1>2, <1>4, <2>1 DEF FinalInv, LastPacket
  <2>3. Down' /\ Final'
    BY <1>1, <1>2, <1>4, <2>1 DEF FinalInv, Down, Final, DocsOf, IsOpen
  <2> QED
    BY <2>2, <2>3
<1>5. CASE NasStart(s)
  <2>1. Send(s, "start") /\ ses[s] = "new" /\ ses' = [ses EXCEPT ![s] = "up"]
    BY <1>5 DEF NasStart
  <2> QED
    BY <1>1, <1>4, <2>1
<1>6. CASE NasUpdate(s)
  BY <1>4, <1>6 DEF NasUpdate
<1>7. CASE NasStop(s)
  <2>1. Send(s, "stop") /\ ses' = [ses EXCEPT ![s] = "down"]
    BY <1>7 DEF NasStop
  <2> QED
    BY <1>1, <1>4, <2>1
<1> QED
  BY <1>3, <1>5, <1>6, <1>7 DEF Nas

LEMMA FinalNasReboot == ASSUME FinalInv, NasReboot PROVE LastPacket' /\ Down' /\ Final'
<1>1. PICK t \in Sessions : net' = net \cup {[kind |-> "on", s |-> t, n |-> 0]}
  BY DEF NasReboot
<1> DEFINE p == [kind |-> "on", s |-> t, n |-> 0]
<1>2. p.kind = "on" /\ net' = net \cup {p}
  BY <1>1
<1> HIDE DEF p
<1>3. /\ UNCHANGED <<octets, jobs, docs, stopped>> /\ UnderWay' = UnderWay
      /\ ses' = [s \in Sessions |-> IF ses[s] = "up" THEN "down" ELSE ses[s]]
  BY DEF NasReboot, history, UnderWay
<1>4. \A s \in Sessions : ses[s] = "down" => ses'[s] = "down"
  BY <1>3
<1>5. /\ stopped \subseteq Sessions
      /\ \A q \in net \cup UnderWay : q.s \in Sessions
  BY DEF FinalInv, Inv, IInv, TypeOK, UnderWay, Job, Packet
<1>6. LastPacket'
  BY <1>2, <1>3, <1>4, <1>5 DEF FinalInv, LastPacket
<1>7. Down' /\ Final'
  BY <1>3, <1>4, <1>5 DEF FinalInv, Down, Final, DocsOf, IsOpen
<1> QED
  BY <1>6, <1>7

\* A write has been done, to document k of its session.
LEMMA FinalWritten ==
  ASSUME FinalInv, NEW w \in jobs, w.packet.kind # "on", jobs' = jobs \ {w},
         UNCHANGED <<ses, octets, net>>, Note(w.packet),
         NEW k \in DOMAIN docs', docs'[k].s = w.packet.s,
         \A j \in DOMAIN docs : j \in DOMAIN docs',
         \A j \in DOMAIN docs \ {k} : docs'[j] = docs[j],
         k \in DOMAIN docs =>
           /\ docs[k].s = w.packet.s
           /\ w.packet.kind = "start" =>
                docs'[k].cause = docs[k].cause /\ docs'[k].n = docs[k].n,
         w.packet.kind = "stop" =>
           docs'[k].cause = "stop" /\ docs'[k].n = Counted(w.packet.n)
  PROVE  LastPacket' /\ Down' /\ Final'
<1> DEFINE p == w.packet
<1>1. p \in UnderWay /\ UnderWay' \subseteq UnderWay
  BY DEF UnderWay
<1>2. p.kind \in {"start", "update", "stop"}
  BY PacketOf DEF FinalInv, Inv, Packet, Kinds
<1>3. /\ \A s \in stopped' : s \in stopped \/ (s = p.s /\ p.kind = "stop")
      /\ p.kind = "update" => p.s \notin stopped'
  BY <1>2 DEF Note
<1>4. p.kind = "stop" => ses[p.s] = "down" /\ p.n = octets[p.s]
  BY <1>1 DEF FinalInv, LastPacket
<1>5. LastPacket' /\ Down'
  BY <1>1, <1>3, <1>4 DEF FinalInv, LastPacket, Down
<1>6. ASSUME NEW s \in stopped'
      PROVE  \E i \in DocsOf(s)' : docs'[i].cause # "open" /\ docs'[i].n = Counted(octets[s])
  <2>1. CASE s = p.s /\ p.kind = "stop"
    <3>1. k \in DocsOf(s)' /\ docs'[k].cause = "stop" /\ docs'[k].n = Counted(octets[s])
      BY <1>4, <2>1 DEF DocsOf
    <3> QED
      BY <3>1
  <2>2. CASE ~(s = p.s /\ p.kind = "stop")
    <3>1. s \in stopped /\ (s = p.s => p.kind = "start")
      BY <1>2, <1>3, <2>2
    <3>2. PICK i \in DocsOf(s) : ~IsOpen(i) /\ docs[i].n = Counted(octets[s])
      BY <3>1 DEF FinalInv, Final
    <3>3. i \in DOMAIN docs /\ docs[i].s = s
      BY <3>2 DEF DocsOf
    <3>4. CASE i = k
      BY <3>1, <3>2, <3>3, <3>4 DEF DocsOf, IsOpen
    <3>5. CASE i # k
      <4>1. i \in DocsOf(s)' /\ docs'[i] = docs[i]
        BY <3>3, <3>5 DEF DocsOf
      <4> QED
        BY <3>2, <4>1 DEF IsOpen
    <3> QED
      BY <3>4, <3>5
  <2> QED
    BY <2>1, <2>2
<1> QED
  BY <1>5, <1>6 DEF Final, IsOpen

LEMMA FinalStep == FinalInv /\ [Next]_vars => LastPacket' /\ Down' /\ Final'
<1> SUFFICES ASSUME FinalInv, [Next]_vars PROVE LastPacket' /\ Down' /\ Final'
  OBVIOUS
<1> DEFINE Closing == \A i \in DOMAIN docs :
              /\ i \in DOMAIN docs' /\ docs'[i].s = docs[i].s /\ docs'[i].n = docs[i].n
              /\ ~IsOpen(i) => docs'[i].cause # "open"
<1>1. ASSUME NEW p \in net, NEW c \in 1..MaxLoad, Receive(p, c)
      PROVE  LastPacket' /\ Down' /\ Final'
  <2>1. PICK j : jobs' = jobs \cup {j} /\ j.packet = p
    BY <1>1, ReceiveInv DEF FinalInv, Inv
  <2>2. net' \subseteq net /\ UNCHANGED <<ses, octets, docs, stopped>>
    BY <1>1 DEF Receive, nas
  <2>3. net' \cup UnderWay' \subseteq net \cup UnderWay
    BY <2>1, <2>2 DEF UnderWay
  <2> QED
    BY <2>2, <2>3, FinalKept DEF IsOpen
<1>2. ASSUME NEW i \in jobs, LookedUp(i) PROVE LastPacket' /\ Down' /\ Final'
  <2>1. PICK j : jobs' = (jobs \ {i}) \cup {j} /\ j.packet = i.packet
    BY <1>2, LookedUpInv DEF FinalInv, Inv
  <2>2. UNCHANGED <<ses, octets, net, docs, stopped>>
    BY <1>2 DEF LookedUp, nas
  <2>3. net' \cup UnderWay' \subseteq net \cup UnderWay
    BY <2>1, <2>2 DEF UnderWay
  <2> QED
    BY <2>2, <2>3, FinalKept DEF IsOpen
<1>3. ASSUME NEW w \in jobs, WriteMisses(w) PROVE LastPacket' /\ Down' /\ Final'
  <2>1. PICK j : jobs' = (jobs \ {w}) \cup {j} /\ j.packet = w.packet
    BY <1>3, MissesInv DEF FinalInv, Inv
  <2>2. UNCHANGED <<ses, octets, net, docs, stopped>>
    BY <1>3 DEF WriteMisses, nas, history
  <2>3. net' \cup UnderWay' \subseteq net \cup UnderWay
    BY <2>1, <2>2 DEF UnderWay
  <2> QED
    BY <2>2, <2>3, FinalKept DEF IsOpen
<1>4. ASSUME net' \subseteq net, jobs' \subseteq jobs, UNCHANGED <<ses, octets, stopped>>,
             Closing
      PROVE  LastPacket' /\ Down' /\ Final'
  <2>1. net' \cup UnderWay' \subseteq net \cup UnderWay
    BY <1>4 DEF UnderWay
  <2> QED
    BY <1>4, <2>1, FinalKept
<1>5. CASE \/ \E p \in net : Lose(p)
           \/ \E j \in jobs : Cancelled(j)
           \/ Restart \/ UNCHANGED vars
  <2>1. net' \subseteq net /\ jobs' \subseteq jobs /\ UNCHANGED <<ses, octets, docs, stopped>>
    BY <1>5 DEF Lose, Cancelled, Restart, vars, nas, history
  <2>2. Closing
    BY <2>1 DEF IsOpen
  <2> QED
    BY <1>4, <2>1, <2>2
<1>6. ASSUME NEW w \in jobs, WriteOn(w) PROVE LastPacket' /\ Down' /\ Final'
  <2>1. net' \subseteq net /\ jobs' \subseteq jobs /\ UNCHANGED <<ses, octets, stopped>>
    BY <1>6 DEF WriteOn, nas, history
  <2>2. Closing
    BY <1>6, OnStep, OnKeeps DEF FinalInv, Inv, IsOpen
  <2> QED
    BY <1>4, <2>1, <2>2
<1>7. CASE AcctUp \/ AuthUp
  <2>1. net' \subseteq net /\ jobs' \subseteq jobs /\ UNCHANGED <<ses, octets, stopped>>
    BY <1>7 DEF AcctUp, AuthUp, nas, history
  <2>2. Closing
    BY <1>7, StartsInv DEF FinalInv, Inv
  <2> QED
    BY <1>4, <2>1, <2>2
<1>8. ASSUME NEW w \in jobs, WriteFinds(w) PROVE LastPacket' /\ Down' /\ Final'
  <2>1. /\ w.packet.kind # "on" /\ jobs' = jobs \ {w} /\ Note(w.packet)
        /\ UNCHANGED <<ses, octets, net>>
    BY <1>8 DEF WriteFinds, nas
  <2>2. PICK k \in DocsOf(w.packet.s) :
           /\ DOMAIN docs' = DOMAIN docs
           /\ \A j \in DOMAIN docs \ {k} : docs'[j] = docs[j]
           /\ docs'[k].s = docs[k].s
           /\ w.packet.kind = "start" =>
                docs'[k].cause = docs[k].cause /\ docs'[k].n = docs[k].n
           /\ w.packet.kind = "stop" =>
                docs'[k].cause = "stop" /\ docs'[k].n = Counted(w.packet.n)
    BY <1>8, FindsOne DEF FinalInv, Inv
  <2>3. k \in DOMAIN docs /\ docs[k].s = w.packet.s
    BY DEF DocsOf
  <2> QED
    BY <2>1, <2>2, <2>3, FinalWritten
<1>9. ASSUME NEW w \in jobs, WriteInserts(w) PROVE LastPacket' /\ Down' /\ Final'
  <2>1. /\ w.packet.kind # "on" /\ jobs' = jobs \ {w} /\ Note(w.packet)
        /\ UNCHANGED <<ses, octets, net>>
    BY <1>9 DEF WriteInserts, nas, FinalInv, Inv, OnInserts
  <2>2. PICK k : /\ k \notin DOMAIN docs /\ DOMAIN docs' = DOMAIN docs \cup {k}
                 /\ \A j \in DOMAIN docs : docs'[j] = docs[j]
                 /\ docs'[k].s = w.packet.s
                 /\ w.packet.kind = "stop" =>
                      docs'[k].cause = "stop" /\ docs'[k].n = Counted(w.packet.n)
    BY <1>9, InsertsOne DEF FinalInv
  <2> QED
    BY <2>1, <2>2, FinalWritten
<1> QED
  BY <1>1, <1>2, <1>3, <1>5, <1>6, <1>7, <1>8, <1>9, FinalNas, FinalNasReboot
  DEF Next, WriteStep, Receives

\* After a Stop is written, and until an Update is, a document of the session
\* stays closed with the final count (protocol.py:197), and there is no other
\* open one if its writes came one at a time.
THEOREM StopStays == Spec => []StopIsFinal
<1> DEFINE J == FinalInv /\ Bounded
<1>1. Init => J
  <2>1. Init => LastPacket /\ Down /\ Final
    BY DEF Init, UnderWay, LastPacket, Down, Final
  <2>2. Init => Inv /\ Bounded
    <3> SUFFICES ASSUME Init PROVE Inv /\ Bounded
      OBVIOUS
    <3>1. Inv
      BY InitInv DEF Inv, Init, OnInserts
    <3>2. \A s \in Sessions : /\ WritesOf(s) = {} /\ Inserting(s) = {} /\ DocsOf(s) = {}
                              /\ overlap[s] = 0
      BY DEF Init, WritesOf, Writes, Inserting, DocsOf
    <3> QED
      BY <3>1, <3>2, FS_EmptySet DEF Bounded
  <2> QED
    BY <2>1, <2>2 DEF FinalInv
<1>2. J /\ [Next]_vars => J'
  BY FinalStep, StepInv, BoundedStep DEF FinalInv
<1>3. J => StopIsFinal
  <2> SUFFICES ASSUME J, NEW s \in stopped
               PROVE  /\ \E i \in DocsOf(s) : ~IsOpen(i) /\ docs[i].n = Counted(octets[s])
                      /\ overlap[s] <= 1 => OpenOf(s) = {}
    BY DEF StopIsFinal
  <2>1. PICK i \in DocsOf(s) : ~IsOpen(i) /\ docs[i].n = Counted(octets[s])
    BY DEF FinalInv, Final
  <2>2. s \in Sessions
    BY DEF FinalInv, Inv, IInv, TypeOK
  <2>3. ASSUME overlap[s] <= 1 PROVE DocsOf(s) = {i}
    <3>1. /\ Cardinality(DocsOf(s)) <= 1 /\ Cardinality(DocsOf(s)) \in Nat
          /\ IsFiniteSet(DocsOf(s))
      BY <2>2, <2>3, Finite DEF FinalInv, Bounded
    <3>2. Cardinality(DocsOf(s)) # 0
      BY <2>1, <3>1, FS_EmptySet
    <3>3. Cardinality(DocsOf(s)) = 1
      BY <3>1, <3>2
    <3>4. PICK x : DocsOf(s) = {x}
      BY <3>1, <3>3, FS_Singleton
    <3> QED
      BY <2>1, <3>4
  <2> QED
    BY <2>1, <2>3 DEF OpenOf
<1> HIDE DEF J
<1> QED
  BY <1>1, <1>2, <1>3, PTL DEF Spec

----------------------------------------------------------------------------
(* What is shown as finished is shown as online again by an Update only.       *)

LEMMA ReopenStep ==
  ASSUME Inv, [Next]_vars, NEW i \in DOMAIN docs, ~IsOpen(i),
         docs'[i].cause = "open"
  PROVE  \E w \in jobs \ jobs' : w.packet.kind = "update" /\ w.packet.s = docs[i].s
<1> USE DEF Inv, IsOpen
<1>1. ASSUME UNCHANGED docs PROVE FALSE
  BY <1>1
<1>2. ASSUME NEW s \in Sessions, Nas(s) PROVE FALSE
  BY <1>1, <1>2 DEF Nas, NasStart, NasUpdate, NasStop, Traffic, Send
<1>3. ASSUME NEW p \in net, Lose(p) \/ Receives(p) PROVE FALSE
  BY <1>1, <1>3 DEF Lose, Receives, Receive
<1>4. ASSUME NEW j \in jobs, LookedUp(j) \/ Cancelled(j) PROVE FALSE
  BY <1>1, <1>4 DEF LookedUp, Cancelled
<1>5. ASSUME NasReboot \/ Restart \/ UNCHANGED vars PROVE FALSE
  BY <1>1, <1>5 DEF NasReboot, Restart, vars
<1>6. ASSUME AcctUp \/ AuthUp PROVE FALSE
  BY <1>6, StartsInv
<1>7. ASSUME NEW w \in jobs, WriteStep(w)
      PROVE  \E v \in jobs \ jobs' :
               v.packet.kind = "update" /\ v.packet.s = docs[i].s
  <2>1. CASE WriteFinds(w)
    <3>1. w.packet.kind = "update" /\ w.packet.s = docs[i].s
      BY <2>1, FindsStep
    <3>2. w \in jobs \ jobs'
      BY <2>1 DEF WriteFinds
    <3> QED
      BY <3>1, <3>2
  <2>2. CASE WriteMisses(w)
    BY <1>1, <2>2 DEF WriteMisses
  <2>3. CASE WriteInserts(w)
    <3>1. docs'[i] = docs[i]
      BY <2>3, InsertsStep DEF OnInserts, WriteInserts
    <3> QED
      BY <3>1
  <2>4. CASE WriteOn(w)
    <3>1. docs'[i] = docs[i]
      BY <2>4, OnStep
    <3> QED
      BY <3>1
  <2> QED
    BY <1>7, <2>1, <2>2, <2>3, <2>4 DEF WriteStep
<1> QED
  BY <1>2, <1>3, <1>4, <1>5, <1>6, <1>7 DEF Next

LEMMA OnlineStep ==
  ASSUME Inv, Bounded, [Next]_vars, NEW s \in Sessions,
         DocsOf(s) # {}, OpenOf(s) = {}, OpenOf(s)' # {}
  PROVE  \E w \in jobs \ jobs' :
           /\ w.packet.s = s
           /\ \/ w.packet.kind = "update"
              \/ /\ w.packet.kind = "start" /\ w.phase = "insert"
                 /\ overlap[s] > 1
<1>1. PICK i \in DOMAIN docs' : docs'[i].s = s /\ docs'[i].cause = "open"
  BY DEF OpenOf, DocsOf, IsOpen
<1>2. CASE i \in DOMAIN docs
  <2>1. docs'[i].s = docs[i].s
    <3>1. CASE \E w \in jobs : WriteInserts(w)
      BY <1>2, <3>1, InsertsOne
    <3>2. CASE ~\E w \in jobs : WriteInserts(w)
      BY <1>2, <3>2, DocsStep
    <3> QED
      BY <3>1, <3>2
  <2>2. ~IsOpen(i)
    BY <1>1, <1>2, <2>1 DEF OpenOf, DocsOf
  <2> QED
    BY <1>1, <1>2, <2>1, <2>2, ReopenStep
<1>3. CASE i \notin DOMAIN docs
  <2>1. PICK w \in jobs : WriteInserts(w)
    BY <1>1, <1>3, DocsStep
  <2>2. PICK k : /\ DOMAIN docs' = DOMAIN docs \cup {k}
                 /\ docs'[k].s = w.packet.s
                 /\ w.packet.kind = "stop" => docs'[k].cause = "stop"
    BY <2>1, InsertsOne
  <2>3. i = k
    BY <1>1, <1>3, <2>2
  <2>4. w.packet.s = s /\ w.packet.kind # "stop"
    BY <1>1, <2>2, <2>3
  <2>5. w.phase = "insert" /\ w.packet.kind # "on" /\ w \in jobs \ jobs'
    BY <2>1 DEF WriteInserts, Inv, OnInserts
  <2>6. w.packet.kind \in {"start", "update"}
    BY <2>4, <2>5, PacketOf DEF Inv, Packet, Kinds
  <2>7. overlap[s] > 1
    <3>1. w \in Inserting(s)
      BY <2>4, <2>5 DEF Inserting, WritesOf, Writes
    <3>2. Cardinality(Inserting(s)) # 0 /\ Cardinality(DocsOf(s)) # 0
      BY <3>1, Finite, FS_EmptySet
    <3>3. Cardinality(DocsOf(s)) + Cardinality(Inserting(s)) <= overlap[s]
      BY DEF Bounded
    <3> QED
      BY <3>2, <3>3, Finite
  <2> QED
    BY <2>4, <2>5, <2>6, <2>7
<1> QED
  BY <1>2, <1>3

\* Only the write of an interim update makes a closed document open again, and a
\* session that is shown as finished is shown as online again only by one, or by
\* a Start that missed the document another write was inserting.
THEOREM OpenedByUpdates == Spec => OnlyUpdateReopens
<1> DEFINE A == /\ \A i \in DOMAIN docs :
                     (~IsOpen(i) /\ docs'[i].cause = "open")
                       => \E w \in jobs \ jobs' :
                            w.packet.kind = "update" /\ w.packet.s = docs[i].s
                /\ \A s \in Sessions :
                     (DocsOf(s) # {} /\ OpenOf(s) = {} /\ OpenOf(s)' # {})
                       => \E w \in jobs \ jobs' :
                            /\ w.packet.s = s
                            /\ \/ w.packet.kind = "update"
                               \/ /\ w.packet.kind = "start" /\ w.phase = "insert"
                                  /\ overlap[s] > 1
<1>1. (Inv /\ Bounded) /\ [Next]_vars => A
  BY ReopenStep, OnlineStep
<1>2. Spec => [][A]_vars
  BY <1>1, BoundedHolds, PTL DEF Spec
<1> QED
  BY <1>2 DEF OnlyUpdateReopens
=============================================================================
