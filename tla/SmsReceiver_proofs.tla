------------------------- MODULE SmsReceiver_proofs -------------------------
(***************************************************************************)
(* Theorems about SmsReceiver, for any gates, texts and devices, a memory  *)
(* of any size, and any number of faults and kills.                        *)
(***************************************************************************)
EXTENDS SmsReceiver, TLAPS

\* Between the rounds no task is under way.
Rounds == loop # "wait" => \A g \in Gates : pc[g] = "idle"

\* A task has the messages of its own gate in hand.
OwnOnly == \A g \in Gates : /\ \A m \in todo[g] : GateOf[m] = g
                            /\ \A m \in ids[g] : GateOf[m] = g

\* What is sent lies in no inbox, and the reverse.
Boxes == \A m \in Messages : /\ place[m] = "sent" => m \notin Texts
                             /\ place[m] = "unread" => m \in Texts

\* A task has texts in hand only while it takes them, and they are unread until
\* it marks them, or after that if the modem refused to.
InHand(g) ==
  /\ pc[g] \notin {"file", "mark", "handle"} => todo[g] = {}
  /\ pc[g] = "mark" => \A m \in todo[g] : place[m] = "unread"
  /\ pc[g] = "file" => /\ \A m \in todo[g] : place[m] = "read"
                       /\ \A m \in ids[g] : place[m] = "unread"
  /\ pc[g] = "handle" => \A m \in todo[g] : place[m] \in {"unread", "read"}
  /\ pc[g] = "markall" => \A m \in ids[g] : place[m] \in {"unread", "read"}
  /\ pc[g] \in {"sent", "delete"} =>
       \A m \in ids[g] : m \in Texts => place[m] \in {"unread", "read"}

\* What is in hand, but for what is still to be marked.
Owed(m) == m \in todo[GateOf[m]] /\ pc[GateOf[m]] # "mark"

\* A text that can still be listed, or is in hand, has been handled as often as it
\* was not marked, but for the time that is to come.
Untaken(m) ==
  /\ place[m] = "away" => taken[m] = 0
  /\ place[m] = "unread" /\ ~Owed(m) => taken[m] <= refused[m]
  /\ place[m] = "unread" /\ Owed(m) => taken[m] < refused[m]
  /\ place[m] = "read" /\ Owed(m) => taken[m] <= refused[m]
  /\ taken[m] <= 1 + refused[m]

Missing(m) == /\ place[m] \in {"read", "gone"}
                 /\ taken[m] = 0 /\ m \notin todo[GateOf[m]] /\ m \notin dropped

Stages == /\ Rounds /\ OwnOnly /\ Boxes
          /\ \A g \in Gates : InHand(g)

Accounted == \A m \in Texts : Untaken(m) /\ ~Missing(m)

Inv == TypeOK /\ Stages /\ Accounted

LEMMA InvGives == Inv => TakenOnce /\ NoneForgotten
BY DEF Inv, TypeOK, Accounted, Untaken, Missing, TakenOnce, NoneForgotten

\* At the start every text is away.
LEMMA InitInv == Init => Inv /\ CheckedByText
BY GatesAssumption, BoundAssumption
   DEF Init, Inv, TypeOK, Places, Steps, Messages, Stages, Rounds, OwnOnly, Boxes,
       InHand, Accounted, Untaken, Missing, CheckedByText

\* What is taken is a text: nothing else is unread.
LEMMA TypeNext == TypeOK /\ Stages /\ [Next]_vars => TypeOK'
<1> SUFFICES ASSUME TypeOK /\ Stages, [Next]_vars PROVE TypeOK'
  OBVIOUS
<1> USE GatesAssumption, BoundAssumption DEF process, database, files, history, Messages,
        TypeOK, Places, Steps, Stages, Boxes
<1>1. ASSUME NEW m \in Texts, Comes(m) PROVE TypeOK'
  BY <1>1 DEF Comes
<1>2. ASSUME NEW m \in Replies, Sends(m) PROVE TypeOK'
  BY <1>2 DEF Sends
<1>3. ASSUME NEW d \in Devices, Visits(d) \/ Forgotten(d) PROVE TypeOK'
  BY <1>3 DEF Visits, Forgotten
<1>4. CASE Loop \/ InsertNumbers
  BY <1>4 DEF Loop, Start, Round, Waited, RoundDone, InsertNumbers
<1>5. CASE Kill
  BY <1>5 DEF Kill, Faulty
<1>6. ASSUME NEW g \in Gates, Works(g) \/ Fails(g) PROVE TypeOK'
  <2> USE DEF Runs, Goes
  <2>1. CASE Unread(g)
    BY <2>1 DEF Unread, At
  <2>2. CASE MarkRead(g)
    BY <2>2 DEF MarkRead, Marked, Faulty
  <2>3. CASE TakeFile(g)
    <3>1. PICK m \in ids[g] \ Broken :
            /\ ids' = [ids EXCEPT ![g] = @ \ {m}]
            /\ todo' = [todo EXCEPT ![g] = @ \cup {m}]
            /\ place' = [place EXCEPT ![m] = "read"]
      BY <2>3 DEF TakeFile
    <3>2. m \in Texts
      BY <2>3 DEF TakeFile, InHand
    <3> QED
      BY <2>3, <3>1, <3>2 DEF TakeFile
  <2>4. CASE NoMoreFiles(g) \/ SkipFile(g)
    BY <2>4 DEF NoMoreFiles, SkipFile, CallFaulty, Faulty
  <2>5. CASE Handle(g)
    BY <2>5 DEF Handle, Checks, Proved
  <2>6. CASE Capacity(g)
    BY <2>6 DEF Capacity
  <2>7. CASE ListReceived(g)
    BY <2>7 DEF ListReceived, At
  <2>8. CASE MarkAll(g)
    BY <2>8 DEF MarkAll, Drops, Faulty
  <2>9. CASE ListSent(g)
    BY <2>9 DEF ListSent, At
  <2>10. CASE Delete(g) \/ Deleted(g)
    BY <2>10 DEF Delete, Deleted, Drops, Faulty
  <2>11. CASE CallFails(g)
    BY <2>11 DEF CallFails, CallFaulty, Faulty, Gives
  <2>12. CASE MarkFails(g)
    BY <2>12 DEF MarkFails, CallFaulty, Faulty, Gives, Marked
  <2>13. CASE HandleFails(g)
    BY <2>13 DEF HandleFails, Faulty, Gives, Checks, Proved
  <2>14. CASE FileRaises(g)
    BY <2>14 DEF FileRaises, Gives
  <2> QED
    BY <1>6, <2>1, <2>2, <2>3, <2>4, <2>5, <2>6, <2>7, <2>8, <2>9, <2>10,
       <2>11, <2>12, <2>13, <2>14 DEF Works, Fails
<1>7. CASE UNCHANGED vars
  BY <1>7 DEF vars
<1> QED
  BY <1>1, <1>2, <1>3, <1>4, <1>5, <1>6, <1>7 DEF Next

\* No gate touches what another has in hand, and a call that fails, wherever it
\* does, leaves the task with nothing.
LEMMA StagesNext == TypeOK /\ Stages /\ [Next]_vars => Stages'
<1> SUFFICES ASSUME TypeOK /\ Stages, [Next]_vars PROVE Stages'
  OBVIOUS
<1> USE GatesAssumption, BoundAssumption DEF process, database, files, history, Messages,
        TypeOK, Stages, Rounds, OwnOnly, Boxes, InHand
<1>1. ASSUME NEW m \in Texts, Comes(m) PROVE Stages'
  BY <1>1 DEF Comes
<1>2. ASSUME NEW m \in Replies, Sends(m) PROVE Stages'
  BY <1>2 DEF Sends
<1>3. ASSUME NEW d \in Devices, Visits(d) \/ Forgotten(d) PROVE Stages'
  BY <1>3 DEF Visits, Forgotten
<1>4. CASE Loop \/ InsertNumbers
  BY <1>4 DEF Loop, Start, Round, Waited, RoundDone, InsertNumbers
<1>5. CASE Kill
  BY <1>5 DEF Kill, Faulty
<1>6. ASSUME NEW g \in Gates, Works(g) \/ Fails(g) PROVE Stages'
  <2> USE DEF Runs, Goes
  <2>1. CASE Unread(g)
    BY <2>1 DEF Unread, At
  <2>2. CASE MarkRead(g)
    BY <2>2 DEF MarkRead, Marked, Faulty
  <2>3. CASE TakeFile(g)
    BY <2>3 DEF TakeFile
  <2>4. CASE NoMoreFiles(g) \/ SkipFile(g)
    BY <2>4 DEF NoMoreFiles, SkipFile, CallFaulty, Faulty
  <2>5. CASE Handle(g)
    BY <2>5 DEF Handle, Checks, Proved
  <2>6. CASE Capacity(g)
    BY <2>6 DEF Capacity
  <2>7. CASE ListReceived(g)
    BY <2>7 DEF ListReceived, At
  <2>8. CASE MarkAll(g)
    BY <2>8 DEF MarkAll, Drops, Faulty
  <2>9. CASE ListSent(g)
    BY <2>9 DEF ListSent, At
  <2>10. CASE Delete(g) \/ Deleted(g)
    BY <2>10 DEF Delete, Deleted, Drops, Faulty
  <2>11. CASE CallFails(g)
    BY <2>11 DEF CallFails, CallFaulty, Faulty, Gives
  <2>12. CASE MarkFails(g)
    BY <2>12 DEF MarkFails, CallFaulty, Faulty, Gives, Marked
  <2>13. CASE HandleFails(g)
    BY <2>13 DEF HandleFails, Faulty, Gives, Checks, Proved
  <2>14. CASE FileRaises(g)
    BY <2>14 DEF FileRaises, Gives
  <2> QED
    BY <1>6, <2>1, <2>2, <2>3, <2>4, <2>5, <2>6, <2>7, <2>8, <2>9, <2>10,
       <2>11, <2>12, <2>13, <2>14 DEF Works, Fails
<1>7. CASE UNCHANGED vars
  BY <1>7 DEF vars
<1> QED
  BY <1>1, <1>2, <1>3, <1>4, <1>5, <1>6, <1>7 DEF Next

\* A text is handled from the hand only, from where it does not come back unless
\* the modem kept it unread.
LEMMA AccountedNext == Inv /\ [Next]_vars => Accounted'
<1> SUFFICES ASSUME Inv, [Next]_vars, NEW x \in Texts
             PROVE  Untaken(x)' /\ ~Missing(x)'
  BY DEF Accounted
<1> DEFINE h == GateOf[x]
<1>x. /\ x \in Messages /\ h \in Gates /\ place[x] \in Places
      /\ taken[x] \in Nat /\ refused[x] \in Nat
  BY GatesAssumption DEF Inv, TypeOK, Messages
<1>o. \A g \in Gates : x \in todo[g] \/ x \in ids[g] => g = h
  BY DEF Inv, Stages, OwnOnly
<1>h. InHand(h) /\ Untaken(x) /\ ~Missing(x)
  BY <1>x DEF Inv, Stages, Accounted
<1>t. /\ todo \in [Gates -> SUBSET Texts] /\ ids \in [Gates -> SUBSET Messages]
      /\ pc \in [Gates -> Steps] /\ place \in [Messages -> Places]
      /\ taken \in [Texts -> Nat] /\ refused \in [Texts -> Nat]
  BY DEF Inv, TypeOK
<1> HIDE DEF h
\* A text that stays where it is, is handled no more and in hand no less.
<1>s. ASSUME place'[x] = place[x], taken'[x] = taken[x], refused'[x] = refused[x],
             x \in todo'[h] <=> x \in todo[h],
             x \in todo[h] => (pc'[h] = "mark" <=> pc[h] = "mark"),
             x \in dropped => x \in dropped'
      PROVE  Untaken(x)' /\ ~Missing(x)'
  BY <1>h, <1>s DEF Untaken, Missing, Owed, h
\* Or that a fault takes from the hand.
<1>l. ASSUME place'[x] \in {place[x], "read"}, taken'[x] = taken[x],
             refused'[x] = refused[x], x \in todo[h],
             x \notin todo'[h], place'[x] # "unread" => x \in dropped'
      PROVE  Untaken(x)' /\ ~Missing(x)'
  BY <1>x, <1>h, <1>l DEF Untaken, Missing, Owed, InHand, h, Places
<1>1. ASSUME NEW m \in Texts, Comes(m) PROVE Untaken(x)' /\ ~Missing(x)'
  <2>1. CASE m = x
    <3>1. place[x] = "away" /\ place'[x] = "unread" /\ x \notin todo[h]
      BY <1>1, <1>x, <1>h, <1>t, <2>1 DEF Comes, InHand
    <3> QED
      BY <1>1, <1>x, <1>h, <3>1 DEF Comes, process, history, Untaken, Missing, Owed, h
  <2>2. CASE m # x
    BY <1>1, <1>s, <1>t, <2>2 DEF Comes, process, history
  <2> QED
    BY <2>1, <2>2
<1>2. ASSUME NEW m \in Replies, Sends(m) PROVE Untaken(x)' /\ ~Missing(x)'
  BY <1>2, <1>s, <1>t, GatesAssumption DEF Sends, process, history
<1>3. ASSUME NEW d \in Devices, Visits(d) \/ Forgotten(d)
      PROVE  Untaken(x)' /\ ~Missing(x)'
  BY <1>3, <1>s DEF Visits, Forgotten, process, history
<1>4. CASE Start \/ Waited \/ InsertNumbers \/ UNCHANGED vars
  BY <1>4, <1>s DEF Start, Waited, InsertNumbers, process, history, vars
<1>5. CASE Round
  <2>1. pc[h] = "idle"
    BY <1>5, <1>x DEF Round, Inv, Stages, Rounds
  <2> QED
    BY <1>5, <1>s, <1>h, <2>1 DEF Round, history, InHand
<1>6. CASE Kill
  <2>1. CASE x \in todo[h]
    BY <1>6, <1>x, <1>l, <2>1 DEF Kill
  <2>2. CASE x \notin todo[h]
    BY <1>6, <1>x, <1>s, <2>2 DEF Kill
  <2> QED
    BY <2>1, <2>2
<1>7. ASSUME NEW g \in Gates, Works(g) \/ Fails(g)
      PROVE  Untaken(x)' /\ ~Missing(x)'
  <2>g. CASE g # h
    <3>1. x \notin todo[g] /\ x \notin ids[g]
      BY <1>o, <2>g
    <3>n. x \notin At(g, {"unread"}) /\ x \notin At(g, {"unread", "read"})
          /\ x \notin At(g, {"sent"})
      BY <2>g DEF At, h
    <3>2. /\ place'[x] = place[x] /\ todo'[h] = todo[h] /\ pc'[h] = pc[h]
          /\ taken'[x] = taken[x] /\ refused'[x] = refused[x]
          /\ x \in dropped => x \in dropped'
      <4> USE <1>t, <1>x, <2>g, <3>1, <3>n DEF Goes
      <4>1. CASE Unread(g)
        BY <4>1 DEF Unread, history
      <4>2. CASE MarkRead(g)
        BY <4>2 DEF MarkRead, Marked
      <4>3. CASE TakeFile(g)
        BY <4>3 DEF TakeFile, history
      <4>4. CASE NoMoreFiles(g) \/ SkipFile(g)
        BY <4>4 DEF NoMoreFiles, SkipFile, history
      <4>5. CASE Handle(g)
        BY <4>5 DEF Handle
      <4>6. CASE Capacity(g) \/ ListReceived(g) \/ ListSent(g) \/ Deleted(g)
        BY <4>6 DEF Capacity, ListReceived, ListSent, Deleted, history
      <4>7. CASE MarkAll(g)
        BY <4>7 DEF MarkAll, Drops
      <4>8. CASE Delete(g)
        BY <4>8 DEF Delete, Drops
      <4>9. CASE CallFails(g) \/ FileRaises(g)
        BY <4>9 DEF CallFails, FileRaises, Gives
      <4>10. CASE MarkFails(g)
        BY <4>10 DEF MarkFails, Gives, Marked
      <4>11. CASE HandleFails(g)
        BY <4>11 DEF HandleFails, Gives
      <4> QED
        BY <1>7, <4>1, <4>2, <4>3, <4>4, <4>5, <4>6, <4>7, <4>8, <4>9, <4>10,
           <4>11 DEF Works, Fails
    <3> QED
      BY <1>s, <3>2
  <2>h. CASE g = h
    <3> USE <1>t, <1>x, <2>h DEF Goes
    <3>1. CASE Unread(g)
      <4>1. x \notin todo[h] /\ place' = place /\ UNCHANGED history
        BY <1>h, <3>1 DEF Unread, Runs, InHand
      <4>2. x \in todo'[h] => pc'[h] = "mark"
        BY <3>1, <4>1 DEF Unread
      <4>3. Owed(x)' => Owed(x)
        BY <4>2 DEF Owed, h
      <4>4. ~Owed(x)
        BY <4>1 DEF Owed, h
      <4> QED
        BY <1>h, <4>1, <4>3, <4>4 DEF Untaken, Missing, history, h
    <3>2. CASE MarkRead(g)
      <4>1. CASE x \in todo[h]
        <5>1. /\ place[x] = "unread" /\ ~Owed(x) /\ Owed(x)' /\ UNCHANGED <<taken, todo>>
              /\ \/ place'[x] = "read" /\ refused'[x] = refused[x]
                 \/ place'[x] = "unread" /\ refused'[x] = refused[x] + 1
          BY <1>h, <3>2, <4>1 DEF MarkRead, Marked, Runs, InHand, Owed, h
        <5> QED
          BY <1>h, <4>1, <5>1 DEF Untaken, Missing, h
      <4>2. CASE x \notin todo[h]
        BY <1>s, <3>2, <4>2 DEF MarkRead, Marked
      <4> QED
        BY <4>1, <4>2
    <3>3. CASE TakeFile(g)
      <4>0. /\ x \in ids[h] => place[x] = "unread"
            /\ x \in todo[h] => place[x] = "read"
            /\ pc[h] = "file" /\ UNCHANGED <<pc, taken, refused, dropped>>
        BY <1>h, <3>3 DEF TakeFile, Runs, InHand, history
      <4>1. PICK m \in ids[g] \ Broken :
              /\ todo' = [todo EXCEPT ![g] = @ \cup {m}]
              /\ place' = [place EXCEPT ![m] = "read"]
        BY <3>3 DEF TakeFile
      <4>2. CASE m = x
        <5>1. /\ place[x] = "unread" /\ ~Owed(x) /\ Owed(x)' /\ place'[x] = "read"
          BY <4>0, <4>1, <4>2 DEF Owed, h
        <5> QED
          BY <1>h, <4>0, <5>1 DEF Untaken, Missing, Owed
      <4>3. CASE m # x
        BY <1>s, <4>0, <4>1, <4>3
      <4> QED
        BY <4>2, <4>3
    <3>4. CASE NoMoreFiles(g) \/ SkipFile(g)
      BY <1>s, <3>4 DEF NoMoreFiles, SkipFile, Runs, history
    <3>5. CASE Handle(g)
      <4>0. pc[h] = "handle" /\ (x \in todo[h] => Owed(x))
        BY <3>5 DEF Handle, Runs, Owed, h
      <4>1. PICK m \in todo[g] : /\ taken' = [taken EXCEPT ![m] = @ + 1]
                                 /\ todo' = [todo EXCEPT ![g] = @ \ {m}]
                                 /\ pc'[h] # "mark"
        BY <3>5, <4>0 DEF Handle
      <4>2. CASE m = x
        <5>1. /\ Owed(x) /\ ~Owed(x)' /\ taken'[x] = taken[x] + 1
              /\ place' = place /\ refused' = refused
              /\ place[x] \in {"unread", "read"}
          BY <1>h, <3>5, <4>0, <4>1, <4>2 DEF Handle, Owed, h, InHand
        <5> QED
          BY <1>h, <5>1 DEF Untaken, Missing
      <4>3. CASE m # x
        BY <1>s, <3>5, <4>0, <4>1, <4>3 DEF Handle
      <4> QED
        BY <4>2, <4>3
    <3>6. CASE Capacity(g) \/ ListReceived(g) \/ ListSent(g) \/ Deleted(g)
      BY <1>s, <1>h, <3>6
         DEF Capacity, ListReceived, ListSent, Deleted, Runs, history, InHand
    <3>7. CASE MarkAll(g)
      <4>1. x \notin todo[h] /\ UNCHANGED <<todo, taken, refused>>
        BY <1>h, <3>7 DEF MarkAll, Runs, InHand
      <4>2. /\ place'[x] = place[x] \/ (place'[x] = "read" /\ x \in ids[g])
            /\ x \in dropped => x \in dropped'
            /\ x \in ids[g] => place[x] \in {"unread", "read"}
            /\ x \in ids[g] /\ place[x] = "unread" /\ place'[x] # "unread"
                 => x \in dropped'
        BY <1>h, <3>7 DEF MarkAll, Drops, Runs, InHand
      <4> QED
        BY <1>h, <4>1, <4>2 DEF Untaken, Missing, Owed, h
    <3>8. CASE Delete(g)
      <4>1. x \notin todo[h] /\ UNCHANGED <<todo, taken, refused>>
        BY <1>h, <3>8 DEF Delete, Runs, InHand
      <4>2. /\ place'[x] = place[x] \/ (place'[x] = "gone" /\ x \in ids[g])
            /\ x \in dropped => x \in dropped'
            /\ x \in ids[g] => place[x] \in {"unread", "read"}
            /\ x \in ids[g] /\ place[x] = "unread" /\ place'[x] # "unread"
                 => x \in dropped'
        BY <1>h, <3>8 DEF Delete, Drops, Runs, InHand
      <4> QED
        BY <1>h, <4>1, <4>2 DEF Untaken, Missing, Owed, h
    <3>9. CASE CallFails(g) \/ FileRaises(g) \/ MarkFails(g)
      <4>1. /\ place'[x] = place[x] \/ (place'[x] = "read" /\ x \in todo[h])
            /\ taken' = taken /\ Gives(g, todo[g])
        BY <3>9 DEF CallFails, FileRaises, MarkFails, Marked
      <4>2. /\ x \notin todo'[h] /\ pc'[h] = "idle" /\ refused' = refused
            /\ x \in dropped => x \in dropped'
            /\ x \in todo[h] /\ place'[x] # "unread" => x \in dropped'
        BY <4>1 DEF Gives
      <4>3. CASE x \in todo[h]
        BY <1>l, <4>1, <4>2, <4>3
      <4>4. CASE x \notin todo[h]
        BY <1>s, <4>1, <4>2, <4>4
      <4> QED
        BY <4>3, <4>4
    <3>10. CASE HandleFails(g)
      <4>0. pc[h] = "handle" /\ (x \in todo[h] => Owed(x)) /\ place' = place
        BY <3>10 DEF HandleFails, Runs, Owed, h
      <4>1. CASE Gives(g, todo[g]) /\ taken' = taken
        <5>1. /\ x \notin todo'[h] /\ pc'[h] = "idle" /\ refused' = refused
              /\ x \in dropped => x \in dropped'
              /\ x \in todo[h] /\ place'[x] # "unread" => x \in dropped'
          BY <4>1 DEF Gives
        <5>2. CASE x \in todo[h]
          BY <1>l, <4>0, <4>1, <5>1, <5>2
        <5>3. CASE x \notin todo[h]
          BY <1>s, <4>0, <4>1, <5>1, <5>3
        <5> QED
          BY <5>2, <5>3
      <4>2. ASSUME NEW m \in todo[g], Gives(g, todo[g] \ {m}),
                   taken' = [taken EXCEPT ![m] = @ + 1]
            PROVE  Untaken(x)' /\ ~Missing(x)'
        <5>1. /\ x \notin todo'[h] /\ pc'[h] = "idle" /\ refused' = refused
              /\ x \in dropped => x \in dropped'
              /\ x \in todo[h] /\ x # m /\ place'[x] # "unread" => x \in dropped'
          BY <4>2 DEF Gives
        <5>2. CASE x = m
          <6>1. /\ Owed(x) /\ ~Owed(x)' /\ taken'[x] = taken[x] + 1
                /\ place[x] \in {"unread", "read"}
            BY <1>h, <4>0, <4>2, <5>1, <5>2 DEF Owed, h, InHand
          <6> QED
            BY <1>h, <4>0, <5>1, <6>1 DEF Untaken, Missing
        <5>3. CASE x # m /\ x \in todo[h]
          BY <1>l, <4>0, <4>2, <5>1, <5>3
        <5>4. CASE x # m /\ x \notin todo[h]
          BY <1>s, <4>0, <4>2, <5>1, <5>4
        <5> QED
          BY <5>2, <5>3, <5>4
      <4> QED
        BY <3>10, <4>1, <4>2 DEF HandleFails
    <3> QED
      BY <1>7, <3>1, <3>2, <3>3, <3>4, <3>5, <3>6, <3>7, <3>8, <3>9, <3>10
         DEF Works, Fails
  <2> QED
    BY <2>g, <2>h
<1> QED
  BY <1>1, <1>2, <1>3, <1>4, <1>5, <1>6, <1>7 DEF Next, Loop

\* The inductive invariant: a text is unread, in hand, or done with.
THEOREM InvHolds == Spec => []Inv
<1>1. Inv /\ [Next]_vars => Inv'
  BY TypeNext, StagesNext, AccountedNext DEF Inv
<1> QED
  BY <1>1, InitInv, PTL DEF Spec

\* The tasks, the memories of the gates and the devices keep their types.
THEOREM TypeCorrect == Spec => []TypeOK
BY InvHolds, PTL DEF Inv

\* No text proves a device more often than its modem refused to mark it, and once
\* more, wherever a call fails or the process is killed.
THEOREM Once == Spec => []TakenOnce
BY InvHolds, InvGives, PTL

\* A text a driver has given away is handled, in hand, or lost to a fault, a kill
\* or the cleaning of a memory.
THEOREM Kept == Spec => []NoneForgotten
BY InvHolds, InvGives, PTL

\* What the driver takes a file in hand to say, it or another of its spool says;
\* the words of a modem's texts are their own.
Words ==
  /\ \A m \in Texts \ Garbled : says[m] = m
  /\ \A g \in Gates : \A m \in todo[g] : says[m] \in WordsOf(m)
  /\ \A g \in Gates :
       text[g] # None => text[g] \in Texts \ Garbled /\ GateOf[text[g]] = g

LEMMA WordsNext == Inv /\ Words /\ [Next]_vars => Words'
<1> SUFFICES ASSUME Inv, Words, [Next]_vars PROVE Words'
  OBVIOUS
<1>t. /\ todo \in [Gates -> SUBSET Texts] /\ text \in [Gates -> Texts \cup {None}]
      /\ says \in [Texts -> Texts] /\ None \notin Texts /\ Garbled \subseteq Texts
  BY GatesAssumption DEF Inv, TypeOK
\* What is in hand is no more, or is no file.
<1>1. ASSUME says' = says, \A g \in Gates : text'[g] \in {text[g], None},
             \A g \in Gates : \A m \in todo'[g] :
               m \in todo[g] \/ m \in Texts \ Garbled
      PROVE  Words'
  <2>1. \A m \in Texts \ Garbled : says[m] \in WordsOf(m)
    BY DEF Words, WordsOf
  <2> QED
    BY <1>1, <2>1 DEF Words, WordsOf
<1>2. ASSUME NEW g \in Gates, TakeFile(g) PROVE Words'
  <2>1. PICK m \in ids[g] \ Broken :
          LET words == IF m \in Garbled THEN text[g] ELSE m
          IN  /\ words # None
              /\ text' = [text EXCEPT ![g] = words]
              /\ says' = [says EXCEPT ![m] = words]
              /\ todo' = [todo EXCEPT ![g] = @ \cup {m}]
    BY <1>2 DEF TakeFile
  <2>2. /\ m \in Texts /\ GateOf[m] = g
        /\ \A h \in Gates : \A k \in todo[h] : k \in Texts /\ GateOf[k] = h
    <3>1. \A k \in ids[g] : place[k] = "unread" /\ k \in Messages /\ GateOf[k] = g
      BY <1>2 DEF TakeFile, Runs, Inv, TypeOK, Stages, InHand, OwnOnly
    <3> QED
      BY <1>t, <2>1, <3>1 DEF Inv, Stages, Boxes, OwnOnly
  <2>3. CASE m \in Garbled
    <3>1. /\ text[g] \in Texts \ Garbled /\ GateOf[text[g]] = g
          /\ text' = text /\ says' = [says EXCEPT ![m] = text[g]]
      BY <1>t, <2>1, <2>3 DEF Words
    <3>2. text[g] \in WordsOf(m)
      BY <2>2, <2>3, <3>1 DEF WordsOf
    <3>3. \A k \in Texts : says'[k] = IF k = m THEN text[g] ELSE says[k]
      BY <1>t, <3>1
    <3>4. \A h \in Gates : \A k \in todo'[h] : k = m \/ k \in todo[h]
      BY <1>t, <2>1
    <3>5. \A h \in Gates : \A k \in todo'[h] : says'[k] \in WordsOf(k)
      BY <2>2, <3>2, <3>3, <3>4 DEF Words
    <3> QED
      BY <2>3, <3>1, <3>3, <3>5 DEF Words, WordsOf
  <2>4. CASE m \notin Garbled
    <3>1. text' = [text EXCEPT ![g] = m] /\ says' = says /\ m \in WordsOf(m)
      BY <1>t, <2>1, <2>2, <2>4 DEF Words, WordsOf
    <3>2. \A h \in Gates : \A k \in todo'[h] : k = m \/ k \in todo[h]
      BY <1>t, <2>1
    <3>3. \A h \in Gates : \A k \in todo'[h] : says'[k] \in WordsOf(k)
      BY <2>2, <2>4, <3>1, <3>2 DEF Words
    <3>4. \A h \in Gates : text'[h] = IF h = g THEN m ELSE text[h]
      BY <1>t, <3>1
    <3> QED
      BY <2>2, <2>4, <3>1, <3>3, <3>4 DEF Words
  <2> QED
    BY <2>3, <2>4
<1>3. ASSUME NEW g \in Gates, Unread(g) PROVE Words'
  <2>1. \A m \in At(g, {"unread"}) : g \in Modems => m \in Texts \ Garbled
    BY GatesAssumption DEF At, Inv, Stages, Boxes
  <2>2. \A h \in Gates : \A m \in todo'[h] : m \in todo[h] \/ m \in Texts \ Garbled
    BY <1>t, <1>3, <2>1 DEF Unread
  <2> QED
    BY <1>1, <1>3, <2>2 DEF Unread, files
<1>4. ASSUME NEW g \in Gates, NoMoreFiles(g) \/ Handle(g) \/ Fails(g) PROVE Words'
  BY <1>1, <1>4, <1>t
     DEF NoMoreFiles, Handle, Fails, CallFails, MarkFails, HandleFails, FileRaises,
         Gives, files
<1>5. CASE Kill
  BY <1>1, <1>5, <1>t DEF Kill
<1>6. ASSUME UNCHANGED <<files, todo>> PROVE Words'
  BY <1>1, <1>6 DEF files
<1> QED
  BY <1>2, <1>3, <1>4, <1>5, <1>6
     DEF Next, Comes, Sends, Visits, Forgotten, Loop, Start, Round, Waited,
         InsertNumbers, Works, MarkRead, SkipFile, Capacity, ListReceived, MarkAll,
         ListSent, Delete, Deleted, process, vars

\* A device whose proof was read is proved by a text that was handled; with the
\* stages the text is of the gate that reads it.
LEMMA CheckedNext == Inv /\ Words /\ CheckedByText /\ [Next]_vars => CheckedByText'
<1> SUFFICES ASSUME Inv, Words, CheckedByText, [Next]_vars PROVE CheckedByText'
  OBVIOUS
<1> USE DEF Inv, TypeOK
\* The proofs there are stay.
<1>1. ASSUME checked' = checked, \A m \in Texts : taken[m] > 0 => taken'[m] > 0
      PROVE  CheckedByText'
  BY <1>1 DEF CheckedByText
<1>2. ASSUME NEW g \in Gates, NEW m \in todo[g], Checks(g, m),
             taken' = [taken EXCEPT ![m] = @ + 1]
      PROVE  CheckedByText'
  <2>1. m \in Texts /\ GateOf[m] = g
    BY DEF Stages, OwnOnly
  <2>2. taken'[m] > 0 /\ \A k \in Texts : taken[k] > 0 => taken'[k] > 0
    BY <1>2, <2>1
  <2>3. \A d \in checked' : d \in checked \/ d \in Proved(g, m)
    BY <1>2 DEF Checks
  <2>4. says[m] \in WordsOf(m)
    BY DEF Words
  <2>5. ASSUME NEW d \in Proved(g, m)
        PROVE  /\ From[m] = Phone[d]
               /\ \E t \in WordsOf(m) :
                    \/ Code[t] # None /\ Code[t] = Waits[d]
                    \/ Code[t] = None /\ GateOf[m] \in AnyText
    BY <2>1, <2>4, <2>5 DEF Proved
  <2>6. ASSUME NEW d \in checked'
        PROVE  \E k \in Texts :
                 /\ taken'[k] > 0 /\ From[k] = Phone[d]
                 /\ \E t \in WordsOf(k) :
                      \/ Code[t] # None /\ Code[t] = Waits[d]
                      \/ Code[t] = None /\ GateOf[k] \in AnyText
    <3>1. CASE d \in checked
      BY <2>2, <3>1 DEF CheckedByText
    <3>2. CASE d \in Proved(g, m)
      BY <2>1, <2>2, <2>5, <3>2
    <3> QED
      BY <2>3, <3>1, <3>2
  <2> QED
    BY <2>6 DEF CheckedByText
<1>3. ASSUME NEW g \in Gates, Handle(g) \/ HandleFails(g) PROVE CheckedByText'
  BY <1>1, <1>2, <1>3 DEF Handle, HandleFails
<1>4. CASE UNCHANGED vars
  BY <1>1, <1>4 DEF vars, database, history
<1> QED
  BY <1>1, <1>3, <1>4
     DEF Next, Comes, Sends, Visits, Forgotten, Loop, Start, Round, Waited,
         InsertNumbers, Works, Fails, Kill, Unread, MarkRead, TakeFile, SkipFile,
         NoMoreFiles, Capacity, ListReceived, MarkAll, ListSent, Delete, Deleted,
         CallFails, MarkFails, FileRaises, Gives, database, process, history

\* A checked device was proved by a text of its own phone, whatever files the
\* driver could not read.
THEOREM Checked == Spec => []CheckedByText
<1>1. Init => Words
  BY GatesAssumption DEF Init, Words, WordsOf
<1> QED
  BY <1>1, InitInv, InvHolds, WordsNext, CheckedNext, PTL DEF Spec

----------------------------------------------------------------------------
(* The refinement of Intake *)

\* What is lost was marked, is in no hand and was not handled.
LostIsGone == \A m \in dropped : /\ place[m] \in {"read", "gone"}
                                 /\ m \notin todo[GateOf[m]]

Done == {m \in Texts : taken[m] > 0}
Back == {m \in Texts : refused[m] > 0}
held == <<HeldTexts, Done, dropped, Back>>

\* A step that settles D and L, which were held, and leaves the rest as it was.
LEMMA Settles ==
  ASSUME NEW D \in SUBSET HeldTexts, NEW L \in SUBSET HeldTexts, D \cap L = {},
         NEW B \in SUBSET Back, Done' = Done \cup D, dropped' = dropped \cup L,
         HeldTexts' = HeldTexts \ ((D \cup L) \ B), Back' = Back
  PROVE  Inbox!Next
BY DEF Inbox!Next, Inbox!Settle, Done, Back

\* A step in which a modem keeps what it gave away.
LEMMA Keeps ==
  ASSUME NEW S \in SUBSET Texts, S \subseteq HeldTexts, Back' = Back \cup S,
         UNCHANGED <<HeldTexts, Done, dropped>>
  PROVE  Inbox!Next
BY DEF Inbox!Next, Inbox!Keep, Done, Back

LEMMA LostInit == Init => LostIsGone
BY DEF Init, LostIsGone

LEMMA LostNext == Inv /\ LostIsGone /\ [Next]_vars => LostIsGone'
<1> SUFFICES ASSUME Inv, LostIsGone, [Next]_vars PROVE LostIsGone'
  OBVIOUS
<1> USE GatesAssumption DEF process, database, files, history, Messages, Inv, TypeOK, Stages, Rounds,
        OwnOnly, Boxes, InHand, LostIsGone
<1>1. ASSUME NEW m \in Texts, Comes(m) PROVE LostIsGone'
  BY <1>1 DEF Comes
<1>2. ASSUME NEW m \in Replies, Sends(m) PROVE LostIsGone'
  BY <1>2 DEF Sends
<1>3. ASSUME NEW d \in Devices, Visits(d) \/ Forgotten(d) PROVE LostIsGone'
  BY <1>3 DEF Visits, Forgotten
<1>4. CASE Loop \/ InsertNumbers
  BY <1>4 DEF Loop, Start, Round, Waited, RoundDone, InsertNumbers
<1>5. CASE Kill
  BY <1>5 DEF Kill, Faulty
<1>6. ASSUME NEW g \in Gates, Works(g) \/ Fails(g) PROVE LostIsGone'
  <2> USE DEF Runs, Goes
  <2>1. CASE Unread(g)
    BY <2>1 DEF Unread, At
  <2>2. CASE MarkRead(g)
    BY <2>2 DEF MarkRead, Marked, Faulty
  <2>3. CASE TakeFile(g)
    BY <2>3 DEF TakeFile
  <2>4. CASE NoMoreFiles(g) \/ SkipFile(g)
    BY <2>4 DEF NoMoreFiles, SkipFile, CallFaulty, Faulty
  <2>5. CASE Handle(g)
    BY <2>5 DEF Handle, Checks, Proved
  <2>6. CASE Capacity(g)
    BY <2>6 DEF Capacity
  <2>7. CASE ListReceived(g)
    BY <2>7 DEF ListReceived, At
  <2>8. CASE MarkAll(g)
    BY <2>8 DEF MarkAll, Drops, Faulty
  <2>9. CASE ListSent(g)
    BY <2>9 DEF ListSent, At
  <2>10. CASE Delete(g) \/ Deleted(g)
    BY <2>10 DEF Delete, Deleted, Drops, Faulty
  <2>11. CASE CallFails(g)
    BY <2>11 DEF CallFails, CallFaulty, Faulty, Gives, Yields
  <2>12. CASE MarkFails(g)
    BY <2>12 DEF MarkFails, CallFaulty, Faulty, Gives, Marked
  <2>13. CASE HandleFails(g)
    BY <2>13 DEF HandleFails, Faulty, Gives, Checks, Proved
  <2>14. CASE FileRaises(g)
    BY <2>14 DEF FileRaises, Gives
  <2> QED
    BY <1>6, <2>1, <2>2, <2>3, <2>4, <2>5, <2>6, <2>7, <2>8, <2>9, <2>10,
       <2>11, <2>12, <2>13, <2>14 DEF Works, Fails
<1>7. CASE UNCHANGED vars
  BY <1>7 DEF vars
<1> QED
  BY <1>1, <1>2, <1>3, <1>4, <1>5, <1>6, <1>7 DEF Next

\* A text that is handed to the handler is settled, and so are those that a fault
\* takes from a hand or clean from the memory; all else moves texts about.
LEMMA NextRefines == Inv /\ LostIsGone /\ [Next]_vars => [Inbox!Next]_held
<1> SUFFICES ASSUME Inv, LostIsGone, [Next]_vars PROVE [Inbox!Next]_held
  OBVIOUS
<1>t. /\ todo \in [Gates -> SUBSET Texts] /\ ids \in [Gates -> SUBSET Messages]
      /\ place \in [Messages -> Places] /\ Texts \subseteq Messages
      /\ taken \in [Texts -> Nat] /\ refused \in [Texts -> Nat]
      /\ \A m \in Texts : GateOf[m] \in Gates
  BY GatesAssumption DEF Inv, TypeOK, Messages
<1>o. \A g \in Gates : /\ InHand(g)
                       /\ \A m \in todo[g] : m \in Texts /\ GateOf[m] = g
                       /\ todo[g] \in SUBSET HeldTexts
                       /\ \A m \in ids[g] : GateOf[m] = g
  BY <1>t DEF Inv, Stages, OwnOnly, HeldTexts
<1>u. \A m \in Messages : place[m] = "unread" => m \in Texts
  BY DEF Inv, Stages, Boxes
<1>a. ASSUME HeldTexts' = HeldTexts, UNCHANGED history
      PROVE  [Inbox!Next]_held
  BY <1>a DEF held, Done, Back, history
<1>b. ASSUME NEW L \in SUBSET HeldTexts, dropped' = dropped \cup L,
             HeldTexts' = HeldTexts \ L, UNCHANGED <<taken, refused>>
      PROVE  [Inbox!Next]_held
  <2>1. /\ Done' = Done \cup {} /\ {} \cap L = {} /\ {} \in SUBSET HeldTexts
        /\ HeldTexts' = HeldTexts \ (({} \cup L) \ {}) /\ Back' = Back
        /\ {} \in SUBSET Back
    BY <1>b DEF Done, Back
  <2> QED
    BY <1>b, <2>1, Settles
\* One text is handled, and L forgotten; it is held still if it is unread.
<1>c. ASSUME NEW g \in Gates, pc[g] = "handle", NEW m \in todo[g],
             NEW L \in SUBSET (HeldTexts \ {m}),
             taken' = [taken EXCEPT ![m] = @ + 1], dropped' = dropped \cup L,
             HeldTexts' = HeldTexts \ (L \cup {k \in {m} : place[m] # "unread"}),
             refused' = refused
      PROVE  [Inbox!Next]_held
  <2>1. Done' = Done \cup {m} /\ Back' = Back /\ m \in HeldTexts
    BY <1>c, <1>t, <1>o DEF Done, Back
  <2>2. place[m] = "unread" => m \in Back
    <3>1. Untaken(m) /\ Owed(m) /\ m \in Texts
      BY <1>c, <1>o DEF Inv, Accounted, Owed
    <3> QED
      BY <1>t, <3>1 DEF Untaken, Back
  <2>3. CASE place[m] = "unread"
    <3>1. HeldTexts' = HeldTexts \ (({m} \cup L) \ {m}) /\ {m} \in SUBSET Back
      BY <1>c, <2>2, <2>3
    <3> QED
      BY <1>c, <2>1, <3>1, Settles
  <2>4. CASE place[m] # "unread"
    <3>1. HeldTexts' = HeldTexts \ (({m} \cup L) \ {}) /\ {} \in SUBSET Back
      BY <1>c, <2>4
    <3> QED
      BY <1>c, <2>1, <3>1, Settles
  <2> QED
    BY <2>3, <2>4
\* A fault takes what was in hand, and all of it that is not unread is lost.
<1>d. ASSUME NEW g \in Gates, Gives(g, todo[g]), taken' = taken,
             \/ place' = place
             \/ place' = Marked(g)
      PROVE  [Inbox!Next]_held
  <2> DEFINE L == {m \in todo[g] : place'[m] # "unread"}
  <2>1. L \in SUBSET HeldTexts
    BY <1>o
  <2>2. \A m \in Texts : m \in todo'[GateOf[m]] <=> m \in todo[GateOf[m]] /\ m \notin todo[g]
    BY <1>d, <1>t, <1>o DEF Gives
  <2>3. \A m \in Texts : place'[m] = place[m] \/ (m \in todo[g] /\ place'[m] = "read")
    BY <1>d, <1>t DEF Marked
  <2>4. HeldTexts' = HeldTexts \ L
    BY <2>2, <2>3 DEF HeldTexts
  <2> QED
    BY <1>b, <1>d, <2>1, <2>4 DEF Gives
<1>1. ASSUME NEW m \in Texts, Comes(m) PROVE [Inbox!Next]_held
  <2>0. m \notin todo[GateOf[m]]
    BY <1>1, <1>t, <1>o DEF Comes, InHand, Inv, TypeOK, Steps
  <2>1. HeldTexts' = HeldTexts \cup {m}
    BY <1>1, <1>t DEF Comes, HeldTexts, process
  <2>2. m \notin HeldTexts /\ m \notin Done /\ m \notin dropped
    BY <1>1, <1>t, <2>0
       DEF Comes, HeldTexts, Done, Inv, Accounted, Untaken, LostIsGone
  <2>3. Inbox!Receive({m})
    BY <1>1, <2>1, <2>2 DEF Comes, Inbox!Receive, Done, history
  <2> QED
    BY <2>3 DEF Inbox!Next
<1>2. ASSUME NEW m \in Replies, Sends(m) PROVE [Inbox!Next]_held
  <2>1. HeldTexts' = HeldTexts
    BY <1>2, <1>t, GatesAssumption DEF Sends, HeldTexts, process
  <2> QED
    BY <1>a, <1>2, <2>1 DEF Sends
<1>3. ASSUME NEW d \in Devices, Visits(d) \/ Forgotten(d) PROVE [Inbox!Next]_held
  BY <1>a, <1>3 DEF Visits, Forgotten, HeldTexts, process
<1>4. CASE Loop \/ InsertNumbers
  BY <1>a, <1>4 DEF Loop, Start, Round, Waited, RoundDone, InsertNumbers, HeldTexts,
                    process
<1>5. CASE Kill
  <2> DEFINE L == {m \in UNION {todo[g] : g \in Gates} : place[m] # "unread"}
  <2>1. L \in SUBSET HeldTexts
    BY <1>o
  <2>2. HeldTexts' = HeldTexts \ L
    BY <1>5, <1>t DEF Kill, HeldTexts
  <2> QED
    BY <1>b, <1>5, <2>1, <2>2 DEF Kill
<1>6. ASSUME NEW g \in Gates, Works(g) \/ Fails(g) PROVE [Inbox!Next]_held
  <2> USE DEF Runs, Goes
  <2>1. CASE Unread(g)
    <3>1. todo[g] = {} /\ place' = place
      BY <1>o, <2>1 DEF Unread, InHand
    <3>2. todo' = [todo EXCEPT ![g] = At(g, {"unread"})] \/ todo' = todo
      BY <2>1 DEF Unread
    <3>3. HeldTexts' = HeldTexts
      BY <1>t, <3>1, <3>2 DEF At, HeldTexts
    <3> QED
      BY <1>a, <2>1, <3>3 DEF Unread
  <2>2. CASE MarkRead(g)
    <3>1. \A m \in Texts : place'[m] = place[m] \/ m \in todo[g]
      BY <1>t, <2>2 DEF MarkRead, Marked
    <3>2. HeldTexts' = HeldTexts
      BY <1>o, <2>2, <3>1 DEF MarkRead, HeldTexts
    <3>3. CASE refused' = refused
      BY <1>a, <2>2, <3>2, <3>3 DEF MarkRead, history
    <3>4. CASE refused' = [m \in Texts |-> refused[m] + IF m \in todo[g] THEN 1 ELSE 0]
      <4>1. Back' = Back \cup todo[g]
        BY <1>t, <1>o, <3>4 DEF Back
      <4>2. todo[g] \subseteq HeldTexts /\ UNCHANGED <<HeldTexts, Done, dropped>>
        BY <1>o, <2>2, <3>2 DEF MarkRead, Done
      <4>3. todo[g] \in SUBSET Texts
        BY <1>t
      <4>4. Inbox!Next
        BY <4>1, <4>2, <4>3, Keeps
      <4> QED
        BY <4>4
    <3> QED
      BY <2>2, <3>3, <3>4 DEF MarkRead
  <2>3. CASE TakeFile(g)
    <3>1. PICK m \in ids[g] \ Broken :
            /\ todo' = [todo EXCEPT ![g] = @ \cup {m}]
            /\ place' = [place EXCEPT ![m] = "read"]
      BY <2>3 DEF TakeFile
    <3>2. place[m] = "unread" /\ GateOf[m] = g /\ m \in Texts
      BY <1>t, <1>o, <1>u, <2>3 DEF TakeFile, InHand
    <3>3. HeldTexts' = HeldTexts
      BY <1>t, <3>1, <3>2 DEF HeldTexts
    <3> QED
      BY <1>a, <2>3, <3>3 DEF TakeFile
  <2>4. CASE NoMoreFiles(g) \/ SkipFile(g)
    BY <1>a, <2>4 DEF NoMoreFiles, SkipFile, HeldTexts
  <2>5. CASE Handle(g)
    <3>1. PICK m \in todo[g] : /\ taken' = [taken EXCEPT ![m] = @ + 1]
                               /\ todo' = [todo EXCEPT ![g] = @ \ {m}]
      BY <2>5 DEF Handle
    <3>2. /\ dropped' = dropped \cup {} /\ {} \in SUBSET (HeldTexts \ {m})
          /\ pc[g] = "handle" /\ refused' = refused /\ place' = place
      BY <2>5 DEF Handle
    <3>3. HeldTexts' = HeldTexts \ ({} \cup {k \in {m} : place[m] # "unread"})
      BY <1>t, <1>o, <3>1, <3>2 DEF HeldTexts
    <3> QED
      BY <1>c, <3>1, <3>2, <3>3
  <2>6. CASE Capacity(g)
    BY <1>a, <2>6 DEF Capacity, HeldTexts
  <2>7. CASE ListReceived(g)
    BY <1>a, <2>7 DEF ListReceived, At, HeldTexts
  <2>8. CASE MarkAll(g)
    <3> DEFINE L == {m \in ids[g] : place[m] = "unread" /\ place'[m] # "unread"}
    <3>1. L \in SUBSET HeldTexts
      BY <1>t, <1>u DEF HeldTexts
    <3>2. todo[g] = {} /\ todo' = todo
      BY <1>o, <2>8 DEF MarkAll, InHand
    <3>3. \A m \in Texts : m \in ids[g] => m \notin todo[GateOf[m]]
      BY <1>t, <1>o, <3>2
    <3>4. \A m \in Texts : /\ place'[m] = place[m] \/ m \in ids[g]
                           /\ place[m] # "unread" => place'[m] # "unread"
      BY <1>t, <2>8 DEF MarkAll
    <3>5. HeldTexts' = HeldTexts \ L
      BY <3>2, <3>3, <3>4 DEF HeldTexts
    <3> QED
      BY <1>b, <2>8, <3>1, <3>5 DEF MarkAll, Drops
  <2>9. CASE ListSent(g)
    BY <1>a, <2>9 DEF ListSent, At, HeldTexts
  <2>10. CASE Deleted(g)
    BY <1>a, <2>10 DEF Deleted, HeldTexts
  <2>11. CASE Delete(g)
    <3>1. PICK part \in SUBSET ids[g] :
            /\ \/ place' = [m \in Messages |-> IF m \in part THEN "gone" ELSE place[m]]
               \/ place' = place
            /\ Drops(part)
      BY <2>11 DEF Delete
    <3> DEFINE L == {m \in part : place[m] = "unread" /\ place'[m] # "unread"}
    <3>2. L \in SUBSET HeldTexts
      BY <1>t, <1>u DEF HeldTexts
    <3>3. todo[g] = {} /\ todo' = todo
      BY <1>o, <2>11 DEF Delete, InHand
    <3>4. \A m \in Texts : m \in part => m \notin todo[GateOf[m]]
      BY <1>t, <1>o, <3>3
    <3>5. \A m \in Texts : /\ place'[m] = place[m] \/ m \in part
                           /\ place[m] # "unread" => place'[m] # "unread"
      BY <1>t, <3>1
    <3>6. HeldTexts' = HeldTexts \ L
      BY <3>3, <3>4, <3>5 DEF HeldTexts
    <3> QED
      BY <1>b, <2>11, <3>1, <3>2, <3>6 DEF Delete, Drops
  <2>12. CASE CallFails(g) \/ FileRaises(g) \/ MarkFails(g)
    BY <1>d, <2>12 DEF CallFails, FileRaises, MarkFails
  <2>13. CASE HandleFails(g)
    <3>1. pc[g] = "handle" /\ place' = place
      BY <2>13 DEF HandleFails
    <3>2. CASE Gives(g, todo[g]) /\ taken' = taken
      BY <1>d, <3>1, <3>2
    <3>3. ASSUME NEW m \in todo[g], Gives(g, todo[g] \ {m}),
                 taken' = [taken EXCEPT ![m] = @ + 1]
          PROVE  [Inbox!Next]_held
      <4> DEFINE L == {k \in todo[g] \ {m} : place[k] # "unread"}
      <4>1. /\ dropped' = dropped \cup L /\ refused' = refused
            /\ L \in SUBSET (HeldTexts \ {m})
        BY <1>o, <3>1, <3>3 DEF Gives
      <4>2. \A k \in Texts : k \in todo'[GateOf[k]] <=>
                               k \in todo[GateOf[k]] /\ k \notin todo[g]
        BY <1>t, <1>o, <3>3 DEF Gives
      <4>3. HeldTexts' = HeldTexts \ (L \cup {k \in {m} : place[m] # "unread"})
        BY <1>t, <1>o, <3>1, <4>2 DEF HeldTexts
      <4> QED
        BY <1>c, <3>1, <3>3, <4>1, <4>3
    <3> QED
      BY <2>13, <3>2, <3>3 DEF HandleFails
  <2> QED
    BY <1>6, <2>1, <2>2, <2>3, <2>4, <2>5, <2>6, <2>7, <2>8, <2>9, <2>10,
       <2>11, <2>12, <2>13 DEF Works, Fails
<1>7. CASE UNCHANGED vars
  BY <1>a, <1>7 DEF vars, HeldTexts, process
<1> QED
  BY <1>1, <1>2, <1>3, <1>4, <1>5, <1>6, <1>7 DEF Next

\* The receiver implements Intake: a text that came in is held until it is handled
\* or lost, once unless its modem refused to mark it, for any modems and spools and
\* whatever fails or is killed.
THEOREM Refinement == Spec => InboxSpec
<1>1. Init => Inbox!Init
  BY GatesAssumption DEF Init, Inbox!Init, HeldTexts, Messages
<1>2. Inv /\ LostIsGone /\ [Next]_vars => [Inbox!Next]_held
  BY NextRefines
<1> QED
  BY <1>1, <1>2, InvHolds, LostInit, LostNext, PTL
     DEF Spec, InboxSpec, Inbox!Spec, held, Done, Back
=============================================================================
