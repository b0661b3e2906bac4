------------------------- MODULE Modem_proofs -------------------------
(***************************************************************************)
(* Theorems about Modem, for any threads, messages, memories and places,   *)
(* any number of calls and any number of faults.                           *)
(***************************************************************************)
EXTENDS Modem, SequenceTheorems, WellFoundedInduction, TLAPS

----------------------------------------------------------------------------
(* The invariant: types *)

Steps == {"idle", "start", "report", "session"} \cup Ready
Kinds == {"ok", "error", "busy", "data", "prompt", "cmgs", "cusd", "cmti", "spoilt"}
Nobody == Threads \cup {None}

Thread == [pc : Steps, memory : Memories \cup {None}, index : Slots \cup {None},
           todo : SUBSET Slots, got : SUBSET Messages, round : {None, "read", "unread"}]

\* A thread that works on a place knows it, and has in hand what it has read.
Knows(r) == /\ r.pc \in {"memory", "read", "delete"} => r.index \in Slots
            /\ r.pc = "memory" => r.memory \in Memories
            /\ r.pc # "delete" => r.todo = {} /\ r.got = {}

\* Those of the application take no announcements, and one that handles a message
\* was told where it is.
Employed(t) == /\ t = "cusd" => thread[t].pc \in {"idle", "start"}
               /\ t \in Apps => thread[t].pc \notin {"start", "memory", "read"}
               /\ t \in Messages /\ thread[t].pc = "start" =>
                    thread[t].index \in Slots /\ thread[t].memory \in Memories

ReplyLine == [kind : Kinds, of : Nobody,
              data : SUBSET (Messages \cup (Slots \X Messages) \cup (Memories \X Slots))]

\* An announcement tells a place.
Tells(l) == l.kind = "cmti" =>
  l.of \in Messages /\ \E k \in Memories, i \in Slots : l.data = {<<k, i>>}

Command == [of : Nobody, op : Ready, index : Slots \cup {None},
            round : {None, "read", "unread"}, memory : Memories \cup {None}]

Names(c) == c.op = "memory" => c.memory \in Memories

Types ==
  /\ thread \in [Threads -> Thread]
  /\ \A t \in Threads : Knows(thread[t]) /\ Employed(t)
  /\ lock \in Nobody /\ event \in {"none", "waiting", "set"}
  /\ memory \in Memories /\ using \in Memories
  /\ store \in [Memories -> [Slots -> Messages \cup {None}]]
  /\ arrived \subseteq Messages /\ delivered \subseteq Messages
  /\ failed \subseteq Messages /\ readers \in [Messages -> Nat]
  /\ response \in Seq(ReplyLine) /\ notification \in Seq(ReplyLine)
  /\ lines \in Seq(ReplyLine) /\ commands \in Seq(Command)
  /\ \A i \in DOMAIN notification : Tells(notification[i])
  /\ \A i \in DOMAIN lines : Tells(lines[i])
  /\ \A i \in DOMAIN commands : Names(commands[i])

----------------------------------------------------------------------------
(* The invariant: the line *)

\* Kinds of lines that belong to no answer.
Stray == Announces \cup {"spoilt"}

\* Line l answers thread t.
For(l, t) == t # None /\ l.of = t /\ l.kind \notin Stray

\* It is the last one of its answer.
Ending(l) == Terminal(l) \/ l.kind = "prompt"

OwnLines == {i \in DOMAIN lines : For(lines[i], lock)}
OwnRead == {i \in DOMAIN response : For(response[i], lock)}
Answered == OwnLines # {} \/ OwnRead # {}

\* One thread waits; what is on the line is for it, or for nobody; its command is
\* the last one, and is gone when its answer is there, which ends with one line.
Waits ==
  /\ lock = None <=> event = "none"
  /\ lock # None => thread[lock].pc \in Ready
  /\ \A i \in DOMAIN commands : commands[i].of # None =>
       /\ i = Len(commands) /\ lock # None /\ commands[i].of = lock
       /\ commands[i].op = thread[lock].pc /\ commands[i].index = Place(lock)
  /\ \A i \in DOMAIN lines :
       lines[i].kind \notin Stray => lines[i].of \in {None, lock}
  /\ lock # None => \A i \in DOMAIN response :
       response[i].kind \notin Stray => response[i].of \in {None, lock}
  /\ Answered => commands = <<>>
  /\ \A i, j \in OwnLines : i < j => ~Ending(lines[i])

\* An answer that has come is all there is of it, or it is not the thread's own.
Ended ==
  event = "set" =>
    /\ response # <<>> /\ Ending(response[Len(response)])
    /\ ~Mixed => OwnLines = {} /\ \A i \in DOMAIN commands : commands[i].of = None

----------------------------------------------------------------------------
(* The invariant: the places *)

\* What line l says to a thread in state r is so of the memory s.
Says(l, r, s) ==
  l.kind = "data" =>
    /\ r.pc = "read" => /\ Understood(r.index) \in Slots
                        /\ l.data = {s[Understood(r.index)]} /\ s[Understood(r.index)] # None
    /\ r.pc = "list" => \A e \in l.data : e \in Slots \X Messages /\ s[e[1]] = e[2]

\* What an answer says is so until its thread has it.
Truthful == /\ \A i \in OwnLines : Says(lines[i], thread[lock], store[using])
            /\ \A i \in OwnRead : Says(response[i], thread[lock], store[using])

Asks == \E i \in DOMAIN commands : commands[i].of = lock
Declined == \/ \E i \in OwnLines : lines[i].kind = "busy"
            \/ \E i \in OwnRead : response[i].kind = "busy"

\* What thread t has to delete: the place it is at, until its command is done,
\* and those after it; and the places that the modem will take them for.
Pending(t) == IF thread[t].pc # "delete" THEN {}
              ELSE (thread[t].todo \ {thread[t].index})
                \cup (IF lock # t \/ Asks \/ Declined THEN {thread[t].index} ELSE {})
ToDo(t) == {Understood(i) : i \in Pending(t)} \ {None}

\* They hold what it has read.
Untouched == \A t \in Threads : \A i \in ToDo(t) : store[using][i] \in thread[t].got

Deletions == {i \in DOMAIN commands : commands[i].op = "delete" /\ commands[i].index # None}

\* A deletion that nobody waits for is of a message that is on record as read
\* by a thread that raised.
Orphans ==
  /\ \A i \in Deletions : commands[i].of = None => store[using][commands[i].index] \in failed
  /\ \A i, j \in Deletions : commands[i].index = commands[j].index => i = j

Hands == UNION {thread[t].got : t \in Threads}

\* A message that was read once is in one hand.
Held ==
  /\ \A t, u \in Threads : t # u => thread[t].got \cap thread[u].got = {}
  /\ Hands \cap (failed \cup delivered) = {}
  /\ \A m \in Hands \cup failed \cup delivered : readers[m] > 0

Kept == arrived \subseteq Stored \cup delivered \cup Hands \cup failed

Excused == mixed \/ switched \/ misplaced \/ \E m \in Messages : readers[m] > 1

Core == Waits /\ Ended /\ Truthful /\ Untouched /\ Orphans /\ Held /\ Kept

Inv == Types /\ (Excused \/ Core)

----------------------------------------------------------------------------
(* Types *)

LEMMA ThreadFacts ==
  /\ None \notin Threads
  /\ Apps \cap Messages = {} /\ "cusd" \notin Apps /\ "cusd" \notin Messages
  /\ Messages \subseteq Threads /\ Apps \subseteq Threads /\ "cusd" \in Threads
  /\ Threads = Apps \cup Messages \cup {"cusd"}
BY ThreadsAssumption DEF Threads, Handlers

LEMMA IdleTyped == Idle \in Thread /\ Knows(Idle) /\ Idle.got = {} /\ Idle.todo = {}
                   /\ Idle.pc = "idle"
BY DEF Idle, Thread, Knows, Steps

LEMMA InitTypes == Init => Types
<1> SUFFICES ASSUME Init PROVE Types
  OBVIOUS
<1>1. thread \in [Threads -> Thread] /\ \A t \in Threads : thread[t] = Idle
  BY IdleTyped DEF Init
<1>2. \A t \in Threads : Knows(thread[t]) /\ Employed(t)
  BY <1>1, IdleTyped DEF Employed
<1>3. lock \in Nobody
  BY DEF Init, Nobody
<1>4. store \in [Memories -> [Slots -> Messages \cup {None}]]
  BY DEF Init
<1> QED
  BY <1>1, <1>2, <1>3, <1>4 DEF Init, Types

\* A place is taken for one place at most, and no two for the same.
LEMMA Taken ==
  ASSUME NEW i
  PROVE  Understood(i) \in Slots \cup {None}
BY DEF Understood

LEMMA TakenForOne ==
  ASSUME NEW i \in Slots, NEW j \in Slots, Understood(i) = Understood(j), Understood(i) # None
  PROVE  i = j
<1>1. i \in 0..255 /\ j \in 0..255
  BY SlotsAssumption
<1>2. /\ i % 16 < 10 /\ j % 16 < 10
      /\ (10 * (i \div 16)) + (i % 16) = (10 * (j \div 16)) + (j % 16)
  BY DEF Understood
<1> QED
  BY <1>1, <1>2

\* A thread goes on.
Turns(t, r) == thread' = [thread EXCEPT ![t] = r]
Able(t, r) == /\ r \in Thread /\ Knows(r)
              /\ t = "cusd" => r.pc \in {"idle", "start"}
              /\ t \in Apps => r.pc \notin {"start", "memory", "read"}
              /\ t \in Messages /\ r.pc = "start" =>
                   r.index \in Slots /\ r.memory \in Memories

LEMMA Turned ==
  ASSUME Types, NEW t \in Threads, NEW r, Turns(t, r), Able(t, r)
  PROVE  /\ thread' \in [Threads -> Thread]
         /\ \A u \in Threads : Knows(thread'[u]) /\ Employed(u)'
         /\ thread'[t] = r /\ \A u \in Threads \ {t} : thread'[u] = thread[u]
<1>1. thread \in [Threads -> Thread]
  BY DEF Types
<1>2. /\ thread' \in [Threads -> Thread]
      /\ thread'[t] = r /\ \A u \in Threads \ {t} : thread'[u] = thread[u]
  BY <1>1 DEF Turns, Able
<1>3. \A u \in Threads : Knows(thread'[u]) /\ Employed(u)'
  BY <1>2 DEF Types, Able, Employed
<1> QED
  BY <1>2, <1>3

----------------------------------------------------------------------------
(* What the steps of the modem do *)

LEMMA LineTyped ==
  ASSUME NEW kind \in Kinds, NEW t \in Nobody,
         NEW d \in SUBSET (Messages \cup (Slots \X Messages) \cup (Memories \X Slots))
  PROVE  /\ Line(kind, t, d) \in ReplyLine
         /\ Line(kind, t, d).kind = kind /\ Line(kind, t, d).of = t
         /\ Line(kind, t, d).data = d
BY DEF Line, ReplyLine

Written == Messages \cup (Slots \X Messages) \cup (Memories \X Slots)

\* The answers that a modem gives to one command.
Replies == {<<>>, <<"ok">>, <<"error">>, <<"busy">>, <<"data", "ok">>, <<"prompt">>,
            <<"cmgs", "ok">>, <<"cusd", "ok">>, <<"ok", "cusd">>}

LEMMA RepliesAre ==
  ASSUME NEW kinds \in Replies
  PROVE  /\ kinds \in Seq(Kinds \ {"cmti", "spoilt"})
         /\ \A i, j \in DOMAIN kinds :
              (i < j /\ kinds[i] \notin Announces /\ kinds[j] \notin Announces) =>
                kinds[i] \notin {"ok", "error", "busy", "prompt"}
<1> DEFINE P(k) == /\ k \in Seq(Kinds \ {"cmti", "spoilt"})
                   /\ \A i, j \in DOMAIN k :
                        (i < j /\ k[i] \notin Announces /\ k[j] \notin Announces) =>
                          k[i] \notin {"ok", "error", "busy", "prompt"}
<1>0. \A x \in {"ok", "error", "busy", "prompt", "data", "cmgs", "cusd"} :
        x \in Kinds \ {"cmti", "spoilt"}
  BY DEF Kinds
<1>1. P(<<>>)
  OBVIOUS
<1>2. \A x \in {"ok", "error", "busy", "prompt"} : P(<<x>>)
  BY <1>0
<1>3. P(<<"data", "ok">>) /\ P(<<"cmgs", "ok">>)
  BY <1>0
<1>4. P(<<"cusd", "ok">>) /\ P(<<"ok", "cusd">>)
  BY <1>0 DEF Announces
<1> HIDE DEF P
<1>5. P(kinds)
  BY <1>1, <1>2, <1>3, <1>4 DEF Replies
<1> QED
  BY <1>5 DEF P

\* A command is answered by lines of these kinds, for the thread it is of.
Answers(kinds, d) ==
  /\ Len(lines') = Len(lines) + Len(kinds)
  /\ \A i \in 1..Len(lines) : lines'[i] = lines[i]
  /\ \A i \in 1..Len(kinds) :
       lines'[Len(lines) + i] = Line(kinds[i], Head1.of, IF kinds[i] = "data" THEN d ELSE {})

LEMMA CommandFacts ==
  ASSUME Types, commands # <<>>
  PROVE  /\ Len(commands) \in Nat /\ Len(commands) > 0
         /\ Head1 = commands[1] /\ Head1 \in Command /\ Names(Head1)
         /\ Tail(commands) \in Seq(Command)
         /\ Len(Tail(commands)) = Len(commands) - 1
         /\ \A i \in 1..(Len(commands) - 1) : Tail(commands)[i] = commands[i + 1]
<1>1. commands \in Seq(Command) /\ \A i \in DOMAIN commands : Names(commands[i])
  BY DEF Types
<1>2. Len(commands) \in Nat /\ Len(commands) > 0 /\ DOMAIN commands = 1..Len(commands)
  BY <1>1
<1>3. Head1 = commands[1]
  BY <1>1 DEF Head1
<1> QED
  BY <1>1, <1>2, <1>3

LEMMA LinesFacts ==
  ASSUME Types
  PROVE  /\ Len(lines) \in Nat /\ DOMAIN lines = 1..Len(lines)
         /\ \A i \in 1..Len(lines) : lines[i] \in ReplyLine /\ Tells(lines[i])
         /\ Len(response) \in Nat /\ DOMAIN response = 1..Len(response)
         /\ \A i \in 1..Len(response) : response[i] \in ReplyLine
         /\ Len(notification) \in Nat /\ DOMAIN notification = 1..Len(notification)
         /\ \A i \in 1..Len(notification) : notification[i] \in ReplyLine
                                            /\ Tells(notification[i])
         /\ Len(commands) \in Nat /\ DOMAIN commands = 1..Len(commands)
         /\ \A i \in 1..Len(commands) : commands[i] \in Command /\ Names(commands[i])
<1>1. lines \in Seq(ReplyLine) /\ response \in Seq(ReplyLine)
      /\ notification \in Seq(ReplyLine) /\ commands \in Seq(Command)
  BY DEF Types
<1> QED
  BY <1>1 DEF Types

LEMMA ReplyAnswers ==
  ASSUME Types, commands # <<>>, NEW kinds \in Replies, NEW d \in SUBSET Written,
         Reply(kinds, d)
  PROVE  /\ lines' \in Seq(ReplyLine) /\ Answers(kinds, d)
         /\ \A i \in DOMAIN lines' : Tells(lines'[i])
<1> DEFINE more == [i \in DOMAIN kinds |->
                      Line(kinds[i], Head1.of, IF kinds[i] = "data" THEN d ELSE {})]
<1>1. kinds \in Seq(Kinds \ {"cmti", "spoilt"})
  BY RepliesAre
<1>2. Len(kinds) \in Nat /\ DOMAIN kinds = 1..Len(kinds)
      /\ \A i \in 1..Len(kinds) : kinds[i] \in Kinds /\ kinds[i] # "cmti"
  BY <1>1
<1>3. Head1.of \in Nobody
  BY CommandFacts DEF Command
<1>4. \A i \in 1..Len(kinds) : more[i] \in ReplyLine /\ more[i].kind = kinds[i]
  BY <1>2, <1>3, LineTyped DEF Written
<1>5. more \in Seq(ReplyLine) /\ Len(more) = Len(kinds)
  <2>1. more \in [1..Len(kinds) -> ReplyLine]
    BY <1>2, <1>4
  <2> QED
    BY <1>2, <2>1
<1>6. lines \in Seq(ReplyLine) /\ lines' = lines \o more
  BY DEF Types, Reply
<1>7. \A i \in 1..Len(kinds) :
        more[i] = Line(kinds[i], Head1.of, IF kinds[i] = "data" THEN d ELSE {})
  BY <1>2
<1> HIDE DEF more
<1>8. /\ lines' \in Seq(ReplyLine) /\ Len(lines') = Len(lines) + Len(kinds)
      /\ \A i \in 1..Len(lines) : lines'[i] = lines[i]
      /\ \A i \in 1..Len(kinds) : lines'[Len(lines) + i] = more[i]
  <2>1. Len(lines) \in Nat
    BY LinesFacts
  <2>2. /\ lines' \in Seq(ReplyLine) /\ Len(lines') = Len(lines) + Len(more)
        /\ \A i \in 1..(Len(lines) + Len(more)) :
             lines'[i] = IF i <= Len(lines) THEN lines[i] ELSE more[i - Len(lines)]
    BY <1>5, <1>6, ConcatProperties
  <2>3. \A i \in 1..Len(kinds) : lines'[Len(lines) + i] = more[i]
    <3> TAKE i \in 1..Len(kinds)
    <3>1. /\ Len(lines) + i \in 1..(Len(lines) + Len(more))
          /\ ~(Len(lines) + i <= Len(lines)) /\ (Len(lines) + i) - Len(lines) = i
      BY <1>2, <1>5, <2>1
    <3> QED
      BY <2>2, <3>1
  <2> QED
    BY <1>2, <1>5, <2>1, <2>2, <2>3
<1>9. ASSUME NEW i \in DOMAIN lines' PROVE Tells(lines'[i])
  <2>1. i \in 1..(Len(lines) + Len(kinds)) /\ Len(lines) \in Nat
    BY <1>8, LinesFacts
  <2>2. CASE i \in 1..Len(lines)
    BY <2>2, <1>8, LinesFacts
  <2>3. CASE i - Len(lines) \in 1..Len(kinds)
    <3>1. lines'[i] = more[i - Len(lines)]
      BY <2>1, <2>3, <1>8
    <3> QED
      BY <3>1, <2>3, <1>2, <1>4 DEF Tells
  <2> QED
    BY <2>1, <2>2, <2>3, <1>2
<1> QED
  BY <1>7, <1>8, <1>9 DEF Answers

\* What a reading or a list says.
Told(d) ==
  /\ Head1.op = "read" => /\ Head1.index \in Slots /\ d = {store[using][Head1.index]}
                          /\ store[using][Head1.index] # None
  /\ Head1.op = "list" => \A e \in d : e \in Slots \X Messages /\ store[using][e[1]] = e[2]
  /\ Head1.op \in {"read", "list"}

Chooses(kinds) == /\ Head1.op = "memory" /\ kinds = <<"ok">>
                  /\ using' = Head1.memory /\ store' = store
                  /\ switched' = (switched \/ (using' # using /\ DeletionDue))
Clears(kinds) == /\ Head1.op = "delete" /\ Head1.index # None /\ kinds = <<"ok">>
                 /\ store' = [store EXCEPT ![using][Head1.index] = None]
                 /\ using' = using /\ switched' = switched
Talks(kinds, d) == /\ UNCHANGED <<store, using, switched>>
                   /\ (\E i \in DOMAIN kinds : kinds[i] = "data") => Told(d)

\* Every step of the modem takes a command and answers it or not.
ModemStep(kinds, d) ==
  /\ commands # <<>> /\ commands' = Tail(commands)
  /\ Answers(kinds, d)
  /\ Chooses(kinds) \/ Clears(kinds) \/ Talks(kinds, d)
  /\ UNCHANGED <<host, arrived, delivered, readers, failed, mixed, misplaced>>

LEMMA ModemSteps ==
  ASSUME Types, Execute \/ Declines \/ StaysSilent
  PROVE  /\ \E kinds \in Replies, d \in SUBSET Written : ModemStep(kinds, d)
         /\ lines' \in Seq(ReplyLine)
         /\ \A i \in DOMAIN lines' : Tells(lines'[i])
<1> DEFINE Goal == /\ \E kinds \in Replies, d \in SUBSET Written : ModemStep(kinds, d)
                   /\ lines' \in Seq(ReplyLine)
                   /\ \A i \in DOMAIN lines' : Tells(lines'[i])
<1>1. /\ commands # <<>> /\ commands' = Tail(commands)
      /\ UNCHANGED <<host, arrived, delivered, readers, failed, mixed, misplaced>>
  BY DEF Execute, Declines, StaysSilent, ghosts, host
<1>2. ASSUME NEW kinds \in Replies, NEW d \in SUBSET Written, Reply(kinds, d),
             Chooses(kinds) \/ Clears(kinds) \/ Talks(kinds, d)
      PROVE  Goal
  <2>1. lines' \in Seq(ReplyLine) /\ Answers(kinds, d)
        /\ \A i \in DOMAIN lines' : Tells(lines'[i])
    BY <1>1, <1>2, ReplyAnswers
  <2> QED
    BY <1>1, <1>2, <2>1 DEF ModemStep
<1>3. ASSUME lines' = lines, UNCHANGED <<store, using, switched>> PROVE Goal
  <2>1. lines' \in Seq(ReplyLine) /\ \A i \in DOMAIN lines' : Tells(lines'[i])
    BY <1>3 DEF Types
  <2>2. Answers(<<>>, {}) /\ Talks(<<>>, {})
    BY <1>3, LinesFacts DEF Answers, Talks
  <2>3. <<>> \in Replies /\ {} \in SUBSET Written
    BY DEF Replies
  <2> QED
    BY <1>1, <2>1, <2>2, <2>3 DEF ModemStep
<1>4. {} \in SUBSET Written
  OBVIOUS
<1>5. ASSUME NEW kinds \in {<<"ok">>, <<"error">>, <<"busy">>, <<"prompt">>,
                            <<"cmgs", "ok">>, <<"cusd", "ok">>, <<"ok", "cusd">>},
             Reply(kinds, {}), UNCHANGED <<store, using, switched>>
      PROVE  Goal
  <2>1. kinds \in Replies /\ \A i \in DOMAIN kinds : kinds[i] # "data"
    BY DEF Replies
  <2>2. Talks(kinds, {})
    BY <1>5, <2>1 DEF Talks
  <2> QED
    BY <1>2, <1>4, <1>5, <2>1, <2>2
<1> HIDE DEF Goal
<1>6. CASE Selects
  <2>1. Chooses(<<"ok">>) /\ Reply(<<"ok">>, {})
    BY <1>6 DEF Selects, Chooses
  <2>2. <<"ok">> \in Replies
    BY DEF Replies
  <2> QED
    BY <1>2, <1>4, <2>1, <2>2 DEF Goal
<1>7. CASE Reads /\ Execute
  <2> DEFINE m == IF Head1.index = None THEN None ELSE store[using][Head1.index]
  <2>1. CASE m = None
    <3>1. Reply(<<"error">>, {}) /\ UNCHANGED <<store, using, switched>>
      BY <1>7, <2>1 DEF Reads
    <3> QED
      BY <3>1, <1>5 DEF Goal
  <2>2. CASE m # None
    <3> DEFINE d == {store[using][Head1.index]}
    <3>1. Head1.op = "read" /\ Head1.index \in Slots /\ m = store[using][Head1.index]
      BY <1>1, <1>7, <2>2, CommandFacts DEF Reads, Command
    <3>2. store[using][Head1.index] \in Messages
      BY <2>2, <3>1 DEF Types
    <3>3. d \in SUBSET Written /\ Told(d)
      BY <2>2, <3>1, <3>2 DEF Written, Told
    <3>4. Reply(<<"data", "ok">>, d) /\ Talks(<<"data", "ok">>, d)
      BY <1>7, <2>2, <3>1, <3>3 DEF Reads, Talks
    <3>5. <<"data", "ok">> \in Replies
      BY DEF Replies
    <3> HIDE DEF d
    <3> QED
      BY <3>3, <3>4, <3>5, <1>2 DEF Goal
  <2> QED
    BY <2>1, <2>2
<1>8. CASE Lists
  <2> DEFINE found == Listed(Head1.round)
             d == {<<i, store[using][i]>> : i \in found}
             kinds == IF found = {} THEN <<"ok">> ELSE <<"data", "ok">>
  <2>1. found \subseteq Slots /\ \A i \in found : store[using][i] \in Messages
    BY DEF Listed, Types
  <2>2. Head1.op = "list" /\ Reply(kinds, d) /\ UNCHANGED <<store, using, switched>>
    BY <1>8 DEF Lists
  <2>3. d \in SUBSET Written /\ Told(d)
    BY <2>1, <2>2 DEF Written, Told
  <2>4. kinds \in Replies
    BY DEF Replies
  <2> HIDE DEF d, kinds
  <2>5. Talks(kinds, d)
    BY <2>2, <2>3 DEF Talks
  <2> QED
    BY <2>2, <2>3, <2>4, <2>5, <1>2 DEF Goal
<1>9. CASE Deletes
  <2>1. CASE Head1.index = None
    <3>1. Reply(<<"error">>, {}) /\ UNCHANGED <<store, using, switched>>
      BY <1>9, <2>1 DEF Deletes
    <3> QED
      BY <3>1, <1>5 DEF Goal
  <2>2. CASE Head1.index # None
    <3>1. Clears(<<"ok">>) /\ Reply(<<"ok">>, {})
      BY <1>9, <2>2 DEF Deletes, Clears
    <3>2. <<"ok">> \in Replies
      BY DEF Replies
    <3> QED
      BY <1>2, <1>4, <3>1, <3>2 DEF Goal
  <2> QED
    BY <2>1, <2>2
<1>10. CASE Prompts \/ TakesText \/ AsksNetwork
  <2>1. UNCHANGED <<store, using, switched>>
    BY <1>10 DEF Prompts, TakesText, AsksNetwork
  <2>2. \E kinds \in {<<"ok">>, <<"error">>, <<"busy">>, <<"prompt">>,
                      <<"cmgs", "ok">>, <<"cusd", "ok">>, <<"ok", "cusd">>} :
          Reply(kinds, {})
    BY <1>10 DEF Prompts, TakesText, AsksNetwork
  <2> QED
    BY <1>5, <2>1, <2>2 DEF Goal
<1>11. CASE Absorbs
  BY <1>3, <1>11 DEF Absorbs, Goal
<1>12. CASE Declines
  <2>1. /\ \E kind \in {"busy", "error"} : Reply(<<kind>>, {})
        /\ UNCHANGED <<store, using, switched>>
    BY <1>12 DEF Declines, ghosts
  <2> QED
    BY <1>5, <2>1 DEF Goal
<1>13. CASE StaysSilent
  BY <1>3, <1>13 DEF StaysSilent, ghosts, Goal
<1> QED
  BY <1>6, <1>7, <1>8, <1>9, <1>10, <1>11, <1>12, <1>13 DEF Execute, Goal

----------------------------------------------------------------------------
(* What the reading thread does *)

LEMMA MinIn ==
  ASSUME NEW S \in SUBSET Nat, S # {} PROVE Min(S) \in S
<1> DEFINE R == {ss \in Nat \X Nat : ss[1] < ss[2]}
<1>1. IsWellFoundedOn(R, Nat)
  BY NatLessThanWellFounded DEF OpToRel
<1>2. PICK x \in S : \A y \in S : <<y, x>> \notin R
  <2> HIDE DEF R
  <2> QED
    BY <1>1, WFMin
<1>3. \A y \in S : ~(y < x)
  BY <1>2
<1>4. x \in S /\ \A y \in S : x <= y
  BY <1>3
<1> QED
  BY <1>4 DEF Min

\* A thread that did nothing begins with what was announced, or none does.
Begins == \E t \in Threads : \E r :
            /\ thread[t].pc = "idle" /\ r.pc = "start"
            /\ Turns(t, r) /\ Able(t, r)

LEMMA StartedBegins ==
  ASSUME Types, NEW said \in Seq(ReplyLine), \A i \in DOMAIN said : Tells(said[i]),
         thread' = Started(said)
  PROVE  thread' = thread \/ Begins
<1> DEFINE known == {i \in DOMAIN said : said[i].kind \in Announces}
           first == said[Min(known)]
           t == IF first.kind = "cusd" THEN "cusd" ELSE first.of
<1>1. SUFFICES ASSUME known # {}, thread[t].pc = "idle" PROVE Begins
  BY DEF Started
<1>2. known \subseteq Nat
  OBVIOUS
<1>3. Min(known) \in known
  <2> HIDE DEF known
  <2> QED
    BY <1>1, <1>2, MinIn
<1>4. first.kind \in Announces /\ Tells(first)
  BY <1>3
<1>5. CASE first.kind = "cusd"
  <2> DEFINE r == [Idle EXCEPT !.pc = "start"]
  <2>1. thread' = [thread EXCEPT !["cusd"] = r]
    BY <1>1, <1>5 DEF Started
  <2>2. r \in Thread /\ Knows(r) /\ r.pc = "start"
    BY DEF Idle, Thread, Knows, Steps
  <2>3. "cusd" \in Threads /\ "cusd" \notin Apps /\ "cusd" \notin Messages
    BY ThreadFacts
  <2> HIDE DEF r
  <2>4. Turns("cusd", r) /\ Able("cusd", r)
    BY <2>1, <2>2, <2>3 DEF Turns, Able
  <2> QED
    BY <1>1, <1>5, <2>2, <2>3, <2>4 DEF Begins
<1>6. CASE first.kind = "cmti"
  <2>1. PICK k \in Memories, i \in Slots : first.data = {<<k, i>>}
    BY <1>4, <1>6 DEF Tells
  <2>2. (CHOOSE at \in first.data : TRUE) = <<k, i>>
    BY <2>1
  <2> DEFINE r == [Idle EXCEPT !.pc = "start", !.memory = k, !.index = i]
  <2>3. t \in Messages /\ t = first.of
    BY <1>4, <1>6 DEF Tells
  <2>4. t # "cusd"
    BY <2>3, ThreadFacts
  <2>5. thread' = [thread EXCEPT ![t] = r]
    <3> DEFINE at == CHOOSE at \in first.data : TRUE
    <3>0. at = <<k, i>>
      BY <2>2
    <3>1. at[1] = k /\ at[2] = i
      <4> HIDE DEF at
      <4> QED
        BY <3>0
    <3>2. thread' = [thread EXCEPT ![t] =
                       [Idle EXCEPT !.pc = "start", !.memory = at[1], !.index = at[2]]]
      BY <1>1, <2>4 DEF Started
    <3> HIDE DEF at
    <3> QED
      BY <3>1, <3>2
  <2>6. r \in Thread /\ Knows(r) /\ r.pc = "start" /\ r.index = i /\ r.memory = k
    BY DEF Idle, Thread, Knows, Steps
  <2>7. t \in Threads /\ t \notin Apps
    BY <2>3, ThreadFacts
  <2> HIDE DEF r, t
  <2>8. Turns(t, r) /\ Able(t, r)
    BY <2>4, <2>5, <2>6, <2>7 DEF Turns, Able
  <2> QED
    BY <1>1, <2>6, <2>7, <2>8 DEF Begins
<1> QED
  BY <1>4, <1>5, <1>6 DEF Announces

Hears(l) == /\ event = "waiting" /\ thread' = thread
            /\ response' = Append(response, l)
            /\ event' = IF Ending(l) THEN "set" ELSE event
Ignores == UNCHANGED <<event, response>> /\ (thread' = thread \/ Begins)

Reading(l) ==
  /\ lines # <<>> /\ lines' = Tail(lines)
  /\ l \in ReplyLine /\ l.of = lines[1].of /\ l.data = lines[1].data
  /\ l.kind \in {lines[1].kind, "spoilt"}
  /\ Hears(l) \/ Ignores
  /\ UNCHANGED <<lock, memory, commands, store, using, arrived, delivered, readers, failed,
                 mixed, switched, misplaced>>

LEMMA TailFacts ==
  ASSUME Types, lines # <<>>
  PROVE  /\ Len(lines) > 0 /\ Head(lines) = lines[1]
         /\ Tail(lines) \in Seq(ReplyLine) /\ Len(Tail(lines)) = Len(lines) - 1
         /\ \A i \in 1..(Len(lines) - 1) : Tail(lines)[i] = lines[i + 1]
<1>1. lines \in Seq(ReplyLine)
  BY DEF Types
<1> QED
  BY <1>1

LEMMA ReadingStep ==
  ASSUME Types, ReadLine
  PROVE  /\ \E l : Reading(l)
         /\ response' \in Seq(ReplyLine) /\ notification' \in Seq(ReplyLine)
         /\ \A i \in DOMAIN notification' : Tells(notification'[i])
<1> DEFINE head == Head(lines)
           l == IF prefix THEN [head EXCEPT !.kind = "spoilt"] ELSE head
           said == Append(notification, l)
<1>1. lines # <<>> /\ lines' = Tail(lines)
  BY DEF ReadLine
<1>2. head = lines[1] /\ head \in ReplyLine /\ Tells(head)
  BY <1>1, TailFacts, LinesFacts
<1>3. /\ l \in ReplyLine /\ l.of = lines[1].of /\ l.data = lines[1].data
      /\ l.kind \in {lines[1].kind, "spoilt"} /\ Tells(l)
  BY <1>2 DEF ReplyLine, Kinds, Tells
<1>4. UNCHANGED <<lock, memory, commands, store, using, arrived, delivered, readers, failed,
                  mixed, switched, misplaced>>
  BY DEF ReadLine, ghosts
<1>5. response \in Seq(ReplyLine) /\ notification \in Seq(ReplyLine)
      /\ \A i \in DOMAIN notification : Tells(notification[i])
  BY DEF Types
<1>6. CASE l.kind = "prompt" /\ ~expect
  <2>1. UNCHANGED <<thread, event, response, notification>>
    BY <1>6 DEF ReadLine
  <2> QED
    BY <1>1, <1>3, <1>4, <1>5, <2>1 DEF Reading, Ignores
<1>7. CASE ~(l.kind = "prompt" /\ ~expect) /\ event = "waiting"
  <2>1. /\ response' = Append(response, l)
        /\ event' = IF Terminal(l) \/ l.kind = "prompt" THEN "set" ELSE event
        /\ UNCHANGED <<thread, notification>>
    BY <1>7 DEF ReadLine
  <2>2. Hears(l)
    BY <1>7, <2>1 DEF Hears, Ending
  <2> HIDE DEF l
  <2> QED
    BY <1>1, <1>3, <1>4, <1>5, <2>1, <2>2 DEF Reading
<1>8. CASE ~(l.kind = "prompt" /\ ~expect) /\ event # "waiting"
  <2>1. /\ notification' = IF Tail(lines) = <<>> THEN <<>> ELSE said
        /\ thread' = IF Tail(lines) = <<>> THEN Started(said) ELSE thread
        /\ UNCHANGED <<event, response>>
    BY <1>8 DEF ReadLine
  <2> HIDE DEF l
  <2>2. said \in Seq(ReplyLine) /\ \A i \in DOMAIN said : Tells(said[i])
    <3>1. Len(notification) \in Nat /\ DOMAIN notification = 1..Len(notification)
      BY LinesFacts
    <3>2. /\ Len(said) = Len(notification) + 1 /\ said[Len(notification) + 1] = l
          /\ \A i \in 1..Len(notification) : said[i] = notification[i]
      BY <1>3, <1>5
    <3>3. said \in Seq(ReplyLine) /\ DOMAIN said = 1..(Len(notification) + 1)
      BY <1>3, <1>5, <3>2
    <3> HIDE DEF said
    <3>4. \A i \in DOMAIN said : i \in 1..Len(notification) \/ i = Len(notification) + 1
      BY <3>1, <3>3
    <3> QED
      BY <1>3, <1>5, <3>1, <3>2, <3>3, <3>4
  <2>3. /\ notification' \in Seq(ReplyLine)
        /\ \A i \in DOMAIN notification' : Tells(notification'[i])
    BY <2>1, <2>2
  <2> HIDE DEF said
  <2>4. thread' = thread \/ Begins
    BY <2>1, <2>2, StartedBegins
  <2> QED
    BY <1>1, <1>3, <1>4, <1>5, <2>1, <2>3, <2>4 DEF Reading, Ignores
<1> QED
  BY <1>6, <1>7, <1>8

----------------------------------------------------------------------------
(* What a thread makes of an answer *)

\* What thread t had in hand is on record as lost, or given away.
Gives(t) == /\ readers' = readers
            /\ \/ failed' = failed \cup thread[t].got /\ delivered' = delivered
               \/ delivered' = delivered \cup thread[t].got /\ failed' = failed
HandsStay == UNCHANGED <<readers, failed, delivered>>

Again(t, r) == /\ r = thread[t] /\ response[Len(response)].kind = "busy"
               /\ HandsStay
Leaves(t, r) == r.pc # "delete" /\ Gives(t)
ReadsOne(t, r) == /\ thread[t].pc = "read" /\ r.pc = "delete" /\ r.todo = {}
                  /\ r.index = thread[t].index
                  /\ \E m \in Data \cap Messages : r.got = {m}
                  /\ HasRead(t, r.got) /\ UNCHANGED <<failed, delivered>>
ReadsAll(t, r) == /\ thread[t].pc = "list" /\ r.pc = "delete"
                  /\ r.index \in r.todo /\ r.got = {e[2] : e \in Decoded}
                  /\ \/ misplaced'
                     \/ \A i \in r.todo : Understood(i) \in {None} \cup {e[1] : e \in Decoded}
                  /\ HasRead(t, r.got) /\ UNCHANGED <<failed, delivered>>
Proceeds(t, r) == /\ thread[t].pc = "delete" /\ r.pc = "delete"
                  /\ r.todo \cup {r.index} \subseteq thread[t].todo \ {thread[t].index}
                  /\ r.got = thread[t].got /\ HandsStay

Result(t, r) == /\ Turns(t, r) /\ Able(t, r)
                /\ \/ Again(t, r) \/ Leaves(t, r) \/ ReadsOne(t, r) \/ ReadsAll(t, r)
                   \/ Proceeds(t, r)

Return(t, r) ==
  /\ lock = t /\ event = "set" /\ lock' = None /\ event' = "none"
  /\ mixed' = (mixed \/ Mixed) /\ (misplaced => misplaced')
  /\ Result(t, r)
  /\ UNCHANGED <<response, notification, commands, lines, store, using, arrived, switched>>

LEMMA ThreadTyped ==
  ASSUME Types, NEW t \in Threads
  PROVE  /\ thread[t] \in Thread /\ Knows(thread[t]) /\ Able(t, thread[t])
         /\ thread \in [Threads -> Thread]
         /\ thread[t].pc # "delete" => thread[t].got = {} /\ thread[t].todo = {}
BY DEF Types, Able, Employed, Knows

LEMMA GoesTurns ==
  ASSUME Types, NEW t \in Threads, NEW pc \in Steps, Goes(t, pc)
  PROVE  /\ Turns(t, [thread[t] EXCEPT !.pc = pc])
         /\ [thread[t] EXCEPT !.pc = pc] \in Thread
         /\ [thread[t] EXCEPT !.pc = pc].pc = pc
         /\ [thread[t] EXCEPT !.pc = pc].index = thread[t].index
         /\ [thread[t] EXCEPT !.pc = pc].memory = thread[t].memory
         /\ [thread[t] EXCEPT !.pc = pc].todo = thread[t].todo
         /\ [thread[t] EXCEPT !.pc = pc].got = thread[t].got
<1>1. thread[t] \in Thread /\ thread \in [Threads -> Thread]
  BY ThreadTyped
<1> QED
  BY <1>1 DEF Goes, Turns, Thread

\* A thread between calls is idle or goes on without anything in hand.
LEMMA PlainAble ==
  ASSUME Types, NEW t \in Threads, NEW pc \in Steps, Goes(t, pc), thread[t].pc # "delete",
         pc \notin {"start", "memory", "read", "delete"}, t # "cusd"
  PROVE  \E r : /\ Turns(t, r) /\ Able(t, r) /\ r.pc = pc /\ r.got = {}
<1> DEFINE r == [thread[t] EXCEPT !.pc = pc]
<1>1. /\ Turns(t, r) /\ r \in Thread /\ r.pc = pc
      /\ r.todo = thread[t].todo /\ r.got = thread[t].got
  BY GoesTurns
<1>2. thread[t].got = {} /\ thread[t].todo = {}
  BY ThreadTyped
<1> HIDE DEF r
<1>3. Able(t, r)
  BY <1>1, <1>2 DEF Able, Knows
<1> QED
  BY <1>1, <1>2, <1>3

LEMMA EndsTurns ==
  ASSUME Types, NEW t \in Threads, Ends(t)
  PROVE  Turns(t, Idle) /\ Able(t, Idle) /\ Idle.pc = "idle" /\ Idle.got = {}
BY IdleTyped DEF Ends, Turns, Able

LEMMA RaiseLeaves ==
  ASSUME Types, NEW t \in Threads, Raise(t)
  PROVE  Result(t, Idle) /\ memory' = memory
<1>1. Turns(t, Idle) /\ Able(t, Idle) /\ Idle.pc = "idle"
  BY EndsTurns DEF Raise
<1>2. Gives(t)
  BY DEF Raise, Gives
<1> QED
  BY <1>1, <1>2 DEF Result, Leaves, Raise

\* With nothing in hand, nothing need be given.
LEMMA NothingGiven ==
  ASSUME Types, NEW t \in Threads, thread[t].pc # "delete", HandsStay
  PROVE  Gives(t)
<1>1. thread[t].got = {}
  BY ThreadTyped
<1> QED
  BY <1>1 DEF Gives, HandsStay

LEMMA ReadNone ==
  ASSUME Types, NEW t \in Threads, HasRead(t, {})
  PROVE  readers' = readers
BY DEF Types, HasRead

\* The next of several places to delete, or none.
LEMMA ProcessesTurns ==
  ASSUME Types, NEW t \in Threads, NEW todo \in SUBSET Slots, NEW got \in SUBSET Messages,
         Processes(t, todo, got), thread[t].pc \in Ready
  PROVE  \E r : /\ Turns(t, r) /\ Able(t, r)
                /\ todo # {} => /\ r.pc = "delete" /\ r.todo = todo /\ r.index \in todo
                                /\ r.got = got /\ delivered' = delivered
                /\ todo = {} => r.pc # "delete" /\ delivered' = delivered \cup got
<1>1. thread[t] \in Thread /\ t # "cusd" /\ thread \in [Threads -> Thread]
  BY ThreadTyped DEF Types, Employed, Ready
<1>2. ASSUME NEW i \in todo,
             thread' = [thread EXCEPT ![t].pc = "delete", ![t].todo = todo, ![t].index = i,
                                      ![t].got = got],
             delivered' = delivered
      PROVE  \E r : /\ Turns(t, r) /\ Able(t, r)
                    /\ r.pc = "delete" /\ r.todo = todo /\ r.index \in todo /\ r.got = got
  <2> DEFINE r == [thread[t] EXCEPT !.pc = "delete", !.todo = todo, !.index = i, !.got = got]
  <2>1. Turns(t, r)
    BY <1>1, <1>2 DEF Turns
  <2>2. r \in Thread /\ r.pc = "delete" /\ r.todo = todo /\ r.index = i /\ r.got = got
    BY <1>1 DEF Thread, Steps, Ready
  <2> HIDE DEF r
  <2>3. Able(t, r)
    BY <1>1, <2>2 DEF Able, Knows
  <2> QED
    BY <2>1, <2>2, <2>3
<1>3. ASSUME NEW round, thread' = [thread EXCEPT ![t] = Following(round)]
      PROVE  \E r : Turns(t, r) /\ Able(t, r) /\ r.pc # "delete"
  <2> DEFINE r == Following(round)
  <2>1. Turns(t, r)
    BY <1>3 DEF Turns
  <2>2. r \in {Idle, [Idle EXCEPT !.pc = "list", !.round = "unread"]}
    BY DEF Following
  <2> HIDE DEF r
  <2>3. r \in Thread /\ Knows(r) /\ r.pc \in {"idle", "list"}
    <3>1. CASE r = Idle
      BY <3>1, IdleTyped
    <3>2. CASE r = [Idle EXCEPT !.pc = "list", !.round = "unread"]
      BY <3>2 DEF Idle, Thread, Knows, Steps, Ready
    <3> QED
      BY <2>2, <3>1, <3>2
  <2>4. Able(t, r)
    BY <1>1, <2>3 DEF Able
  <2> QED
    BY <2>1, <2>3, <2>4
<1>4. CASE todo = {}
  <2>1. thread' = [thread EXCEPT ![t] = Following(thread[t].round)]
        /\ delivered' = delivered \cup got
    BY <1>4 DEF Processes
  <2> QED
    BY <1>3, <1>4, <2>1
<1>5. CASE todo # {}
  <2>1. PICK i \in todo :
          /\ thread' = [thread EXCEPT ![t].pc = "delete", ![t].todo = todo, ![t].index = i,
                                      ![t].got = got]
          /\ delivered' = delivered
    BY <1>5 DEF Processes
  <2> QED
    BY <1>2, <1>5, <2>1
<1> QED
  BY <1>4, <1>5

\* The places that go with what is listed are places.
LEMMA ToDeleteTyped ==
  /\ Decoded \subseteq Slots \X Messages
  /\ ToDelete \subseteq Slots
  /\ Decoded # {} <=> ToDelete # {}
<1>1. Entries \subseteq Slots \X Messages /\ Decoded \subseteq Entries
  BY DEF Entries, Decoded
<1>2. ASSUME NEW e \in Decoded PROVE PlaceOf(e, Entries) \in Slots
  <2> DEFINE before == {f[1] : f \in {f \in Entries :
               /\ f[1] <= e[1]
               /\ \A g \in Entries : f[1] <= g[1] /\ g[1] < e[1] => g[2] \in Undecodable}}
  <2>1. \A f \in Entries : f[1] \in 0..255 /\ f[1] \in Slots
    BY <1>1, SlotsAssumption
  <2>2. e \in Entries
    BY <1>1
  <2>3. e[1] \in before
    <3>0. e[1] \in 0..255
      BY <2>1, <2>2
    <3>1. e[1] <= e[1] /\ \A g \in Entries : ~(e[1] <= g[1] /\ g[1] < e[1])
      <4>1. \A x, y \in 0..255 : x <= x /\ ~(x <= y /\ y < x)
        OBVIOUS
      <4> QED
        BY <2>1, <3>0, <4>1
    <3> QED
      BY <2>2, <3>1
  <2>4. before \subseteq Slots /\ before \in SUBSET Nat
    BY <2>1
  <2>5. PlaceOf(e, Entries) = Min(before)
    BY DEF PlaceOf
  <2> HIDE DEF before
  <2> QED
    BY <2>3, <2>4, <2>5, MinIn
<1> QED
  BY <1>1, <1>2 DEF ToDelete

LEMMA ReturnSteps ==
  ASSUME Types, NEW t \in Threads, Returned(t)
  PROVE  (\E r : Return(t, r)) /\ memory' \in Memories
<1>1. /\ lock = t /\ event = "set" /\ lock' = None /\ event' = "none"
      /\ mixed' = (mixed \/ Mixed) /\ (misplaced => misplaced')
      /\ UNCHANGED <<response, notification, commands, lines, store, using, arrived, switched>>
  BY DEF Returned, Unlocked, modem
<1> DEFINE Goal == (\E r : Result(t, r)) /\ memory' \in Memories
<1>2. SUFFICES Goal
  BY <1>1 DEF Return
<1>3. thread[t] \in Thread /\ Knows(thread[t]) /\ Employed(t)
      /\ thread \in [Threads -> Thread] /\ memory \in Memories
  BY ThreadTyped DEF Types
<1>4. CASE Retries(t)
  <2>1. Again(t, thread[t]) /\ memory' = memory
    BY <1>4 DEF Retries, Again, HandsStay, Status, Last
  <2>2. Turns(t, thread[t])
    BY <1>3, <1>4 DEF Retries, Turns
  <2> QED
    BY <1>3, <2>1, <2>2, ThreadTyped DEF Result
<1>5. CASE Raise(t)
  BY <1>5, <1>3, RaiseLeaves
<1>6. CASE MemorySet(t)
  <2> DEFINE r == [thread[t] EXCEPT !.pc = "read"]
  <2>1. /\ thread[t].pc = "memory" /\ memory' = thread[t].memory /\ Goes(t, "read")
        /\ HandsStay
    BY <1>6 DEF MemorySet, HandsStay
  <2>2. /\ Turns(t, r) /\ r \in Thread /\ r.pc = "read" /\ r.index = thread[t].index
        /\ r.todo = thread[t].todo /\ r.got = thread[t].got
    BY <2>1, GoesTurns DEF Steps, Ready
  <2> HIDE DEF r
  <2>3. thread[t].got = {} /\ thread[t].todo = {} /\ t # "cusd" /\ t \notin Apps
    BY <1>3, <2>1, ThreadTyped DEF Employed
  <2>4. Able(t, r)
    BY <1>3, <2>1, <2>2, <2>3 DEF Able, Knows
  <2>5. Leaves(t, r)
    BY <2>1, <2>2, NothingGiven DEF Leaves
  <2> QED
    BY <1>3, <2>1, <2>2, <2>4, <2>5 DEF Result, Knows
<1>7. CASE Read(t)
  <2>0. FirstRead \subseteq Data \cap Messages
    BY DEF FirstRead, Data
  <2>1. PICK m \in Data \cap Messages :
          /\ thread' = [thread EXCEPT ![t].pc = "delete", ![t].got = {m}]
          /\ HasRead(t, {m})
    BY <1>7, <2>0 DEF Read
  <2> DEFINE r == [thread[t] EXCEPT !.pc = "delete", !.got = {m}]
  <2>2. thread[t].pc = "read" /\ UNCHANGED <<memory, failed, delivered>>
    BY <1>7 DEF Read
  <2>3. Turns(t, r)
    BY <1>3, <2>1 DEF Turns
  <2>4. /\ r \in Thread /\ r.pc = "delete" /\ r.index = thread[t].index
        /\ r.todo = thread[t].todo /\ r.got = {m}
    BY <1>3 DEF Thread, Steps, Ready
  <2> HIDE DEF r
  <2>5. thread[t].todo = {} /\ thread[t].index \in Slots /\ t # "cusd" /\ t \notin Apps
    BY <1>3, <2>2 DEF Employed, Knows
  <2>6. Able(t, r)
    BY <2>4, <2>5 DEF Able, Knows
  <2>7. ReadsOne(t, r)
    BY <2>1, <2>2, <2>4, <2>5 DEF ReadsOne
  <2> QED
    BY <1>3, <2>2, <2>3, <2>6, <2>7 DEF Result
<1>8. CASE Deleted(t)
  <2>1. Turns(t, Idle) /\ Able(t, Idle) /\ Idle.pc = "idle"
    BY <1>8, EndsTurns DEF Deleted
  <2>2. Leaves(t, Idle) /\ memory' = memory
    BY <1>8, <2>1 DEF Deleted, Leaves, Gives
  <2> QED
    BY <1>3, <2>1, <2>2 DEF Result
<1>9. CASE ListStored(t) /\ Status \notin {"busy", "error"}
  <2> DEFINE got == {e[2] : e \in Decoded}
  <2>1. /\ thread[t].pc = "list" /\ HasRead(t, got) /\ Processes(t, ToDelete, got)
        /\ UNCHANGED <<memory, failed>>
    BY <1>9 DEF ListStored
  <2>2. ToDelete \in SUBSET Slots /\ got \in SUBSET Messages
    BY ToDeleteTyped
  <2>3. ToDelete = {} => got = {}
    BY ToDeleteTyped
  <2>4. misplaced' \/ \A i \in ToDelete : Understood(i) \in {None} \cup {e[1] : e \in Decoded}
    <3>1. misplaced' = (misplaced \/ Misplaces)
      BY <1>9, <2>1 DEF Returned
    <3>2. ~Misplaces => \A i \in ToDelete : Understood(i) \in {None} \cup {e[1] : e \in Decoded}
      BY DEF Misplaces, ToDelete
    <3> QED
      BY <3>1, <3>2
  <2> HIDE DEF got
  <2>5. PICK r : /\ Turns(t, r) /\ Able(t, r)
                 /\ ToDelete # {} => /\ r.pc = "delete" /\ r.todo = ToDelete
                                     /\ r.index \in ToDelete /\ r.got = got
                                     /\ delivered' = delivered
                 /\ ToDelete = {} => r.pc # "delete" /\ delivered' = delivered \cup got
    BY <2>1, <2>2, ProcessesTurns DEF Ready
  <2>6. CASE ToDelete # {}
    <3>1. ReadsAll(t, r)
      BY <2>1, <2>4, <2>5, <2>6 DEF ReadsAll, got
    <3> QED
      BY <1>3, <2>1, <2>5, <3>1 DEF Result
  <2>7. CASE ToDelete = {}
    <3>1. HandsStay
      BY <2>1, <2>3, <2>5, <2>7, ReadNone DEF HandsStay
    <3>2. Leaves(t, r)
      BY <2>1, <2>5, <2>7, <3>1, NothingGiven DEF Leaves
    <3> QED
      BY <1>3, <2>1, <2>5, <3>2 DEF Result
  <2> QED
    BY <2>6, <2>7
<1>10. CASE DeletedListed(t)
  <2> DEFINE got == thread[t].got
             todo == thread[t].todo \ {thread[t].index}
  <2>1. /\ thread[t].pc = "delete" /\ Processes(t, todo, got)
        /\ UNCHANGED <<memory, failed, readers>>
    BY <1>10 DEF DeletedListed
  <2>2. todo \in SUBSET Slots /\ got \in SUBSET Messages
    BY <1>3 DEF Thread
  <2> HIDE DEF got, todo
  <2>3. PICK r : /\ Turns(t, r) /\ Able(t, r)
                 /\ todo # {} => /\ r.pc = "delete" /\ r.todo = todo /\ r.index \in todo
                                 /\ r.got = got /\ delivered' = delivered
                 /\ todo = {} => r.pc # "delete" /\ delivered' = delivered \cup got
    BY <2>1, <2>2, ProcessesTurns DEF Ready
  <2>4. CASE todo # {}
    <3>1. Proceeds(t, r)
      BY <2>1, <2>3, <2>4 DEF Proceeds, HandsStay, got, todo
    <3> QED
      BY <1>3, <2>1, <2>3, <3>1 DEF Result
  <2>5. CASE todo = {}
    <3>1. Leaves(t, r)
      BY <2>1, <2>3, <2>5 DEF Leaves, Gives, got
    <3> QED
      BY <1>3, <2>1, <2>3, <3>1 DEF Result
  <2> QED
    BY <2>4, <2>5
<1>11. ASSUME NEW pc \in {"text", "report", "session"}, Goes(t, pc), HandsStay,
              thread[t].pc \in {"prompt", "text", "ussd"}, memory' = memory
       PROVE  Goal
  <2>1. pc \in Steps /\ t # "cusd"
    BY <1>3, <1>11 DEF Steps, Ready, Employed
  <2>2. PICK r : Turns(t, r) /\ Able(t, r) /\ r.pc = pc
    BY <1>11, <2>1, PlainAble
  <2>3. Leaves(t, r)
    BY <1>11, <2>2, NothingGiven DEF Leaves
  <2> QED
    BY <1>3, <1>11, <2>2, <2>3 DEF Result
<1>12. ASSUME Ends(t), HandsStay, thread[t].pc \in {"text", "ussd"}, memory' = memory
       PROVE  Goal
  <2>1. Turns(t, Idle) /\ Able(t, Idle) /\ Idle.pc = "idle"
    BY <1>12, EndsTurns
  <2>2. Leaves(t, Idle)
    BY <1>12, <2>1, NothingGiven DEF Leaves
  <2> QED
    BY <1>3, <1>12, <2>1, <2>2 DEF Result
<1> HIDE DEF Goal
<1>13. CASE Prompted(t)
  BY <1>11, <1>13 DEF Prompted, HandsStay
<1>14. CASE Sent(t)
  BY <1>11, <1>12, <1>14 DEF Sent, HandsStay
<1>15. CASE Asked(t)
  BY <1>11, <1>12, <1>15 DEF Asked, HandsStay
<1>16. \/ Retries(t) \/ Raise(t) \/ MemorySet(t) \/ Read(t) \/ Deleted(t)
       \/ ListStored(t) /\ Status \notin {"busy", "error"}
       \/ DeletedListed(t) \/ Prompted(t) \/ Sent(t) \/ Asked(t)
  BY DEF Returned, Errs, ReadNothing, DeletedOther, NotSent
<1> QED
  BY <1>4, <1>5, <1>6, <1>7, <1>8, <1>9, <1>10, <1>13, <1>14, <1>15, <1>16 DEF Goal

----------------------------------------------------------------------------
(* What happens away from the line *)

Calm(t, r) ==
  /\ thread[t].pc \notin Ready /\ r.pc # "delete"
  /\ Turns(t, r) /\ Able(t, r)
  /\ UNCHANGED <<lock, event, response, notification, memory, modem, ghosts>>

LEMMA CalmSteps ==
  ASSUME Types,
         \/ HandleUssd
         \/ \E t \in Threads : BeginRead(t) \/ EndsSession(t) \/ EndsReport(t)
         \/ \E t \in Apps, call \in Calls : Call(t, call)
  PROVE  \E t \in Threads : \E r : Calm(t, r)
<1>1. CASE HandleUssd
  <2>1. "cusd" \in Threads
    BY ThreadFacts
  <2>2. Turns("cusd", Idle) /\ Able("cusd", Idle) /\ Idle.pc = "idle"
    BY <1>1, <2>1, EndsTurns DEF HandleUssd
  <2>3. Calm("cusd", Idle)
    BY <1>1, <2>2 DEF HandleUssd, Calm, Ready
  <2> QED
    BY <2>1, <2>3
<1>2. ASSUME NEW t \in Threads, EndsSession(t) \/ EndsReport(t) PROVE Calm(t, Idle)
  <2>1. Turns(t, Idle) /\ Able(t, Idle) /\ Idle.pc = "idle"
    BY <1>2, EndsTurns DEF EndsSession, EndsReport
  <2> QED
    BY <1>2, <2>1 DEF EndsSession, EndsReport, Calm, Ready
<1>3. ASSUME NEW t \in Threads, BeginRead(t) PROVE \E r : Calm(t, r)
  <2> DEFINE pc == IF memory # thread[t].memory THEN "memory" ELSE "read"
             r == [thread[t] EXCEPT !.pc = pc]
  <2>1. t \in Messages /\ thread[t].pc = "start" /\ Goes(t, pc)
    BY <1>3 DEF BeginRead
  <2>2. /\ Turns(t, r) /\ r \in Thread /\ r.pc = pc /\ r.index = thread[t].index
        /\ r.memory = thread[t].memory
        /\ r.todo = thread[t].todo /\ r.got = thread[t].got
    <3>1. pc \in Steps
      BY DEF Steps, Ready
    <3> HIDE DEF pc
    <3> QED
      BY <2>1, <3>1, GoesTurns
  <2>3. pc \in {"memory", "read"}
    OBVIOUS
  <2> HIDE DEF r, pc
  <2>4. /\ thread[t].index \in Slots /\ thread[t].memory \in Memories
        /\ thread[t].got = {} /\ thread[t].todo = {} /\ t # "cusd" /\ t \notin Apps
    BY <2>1, ThreadTyped, ThreadFacts DEF Types, Employed
  <2>5. Able(t, r)
    BY <2>2, <2>3, <2>4 DEF Able, Knows
  <2>6. Calm(t, r)
    BY <1>3, <2>1, <2>2, <2>3, <2>5 DEF BeginRead, Calm, Ready
  <2> QED
    BY <2>6
<1>4. ASSUME NEW t \in Apps, NEW call \in Calls, Call(t, call) PROVE \E r : Calm(t, r)
  <2> DEFINE r == [thread[t] EXCEPT !.pc = First[call],
                                    !.round = IF call = "process" THEN "read" ELSE None]
  <2>1. t \in Threads /\ t # "cusd" /\ t \notin Messages
    BY ThreadFacts
  <2>2. First[call] \in {"prompt", "ussd", "list"}
    BY CallsAssumption DEF First
  <2>3. thread[t].pc = "idle" /\ Turns(t, r)
    BY <1>4, <2>1, ThreadTyped DEF Call, Turns
  <2>4. /\ r \in Thread /\ r.pc = First[call]
        /\ r.todo = thread[t].todo /\ r.got = thread[t].got
    BY <2>1, <2>2, ThreadTyped DEF Thread, Steps, Ready
  <2> HIDE DEF r
  <2>5. thread[t].got = {} /\ thread[t].todo = {}
    BY <2>1, <2>3, ThreadTyped
  <2>6. Able(t, r)
    BY <2>1, <2>2, <2>4, <2>5 DEF Able, Knows
  <2>7. Calm(t, r)
    BY <1>4, <2>2, <2>3, <2>4, <2>6 DEF Call, Calm, Ready
  <2> QED
    BY <2>7
<1> QED
  BY <1>1, <1>2, <1>3, <1>4, ThreadFacts

----------------------------------------------------------------------------
(* Types are kept *)

Writing(t) ==
  /\ thread[t].pc \in Ready /\ lock = None
  /\ lock' = t /\ event' = "waiting" /\ response' = <<>>
  /\ commands' = Append(commands,
       [of |-> t, op |-> thread[t].pc, index |-> Place(t),
        round |-> thread[t].round, memory |-> thread[t].memory])
  /\ UNCHANGED <<thread, notification, memory, lines, store, using, ghosts>>

LEMMA WritingStep ==
  ASSUME Types, NEW t \in Threads, Write(t)
  PROVE  Writing(t) /\ commands' \in Seq(Command)
         /\ \A i \in DOMAIN commands' : Names(commands'[i])
<1> DEFINE c == [of |-> t, op |-> thread[t].pc, index |-> Place(t),
                 round |-> thread[t].round, memory |-> thread[t].memory]
<1>1. Writing(t)
  BY DEF Write, Writing, LockFree
<1>2. commands \in Seq(Command) /\ thread[t] \in Thread /\ Knows(thread[t])
  BY DEF Types
<1>0. Place(t) \in Slots \cup {None}
  BY Taken DEF Place
<1>3. c \in Command /\ Names(c)
  BY <1>0, <1>1, <1>2 DEF Writing, Command, Nobody, Thread, Names, Knows
<1>4. commands' = Append(commands, c)
  BY <1>1 DEF Writing
<1> HIDE DEF c
<1>5. /\ commands' \in Seq(Command) /\ DOMAIN commands' = 1..(Len(commands) + 1)
      /\ Len(commands) \in Nat
      /\ commands'[Len(commands) + 1] = c
      /\ \A i \in 1..Len(commands) : commands'[i] = commands[i]
  BY <1>2, <1>3, <1>4
<1>6. \A i \in 1..Len(commands) : Names(commands[i])
  BY LinesFacts
<1>7. \A i \in DOMAIN commands' : i \in 1..Len(commands) \/ i = Len(commands) + 1
  BY <1>5
<1> QED
  BY <1>1, <1>3, <1>5, <1>6, <1>7

\* A thread gives up.
Leaving(t) ==
  /\ lock = t /\ event = "waiting" /\ lock' = None /\ event' = "none"
  /\ Turns(t, Idle) /\ failed' = failed \cup thread[t].got
  /\ Abandons(t)
  /\ UNCHANGED <<response, notification, memory, store, using, arrived, delivered, readers,
                 mixed, switched, misplaced>>

LEMMA LeavingStep ==
  ASSUME Types, NEW t \in Threads, TimedOut(t)
  PROVE  /\ Leaving(t)
         /\ Len(commands') = Len(commands)
         /\ \A i \in 1..Len(commands) : commands'[i] = Abandoned(commands[i], t)
         /\ Len(lines') = Len(lines)
         /\ \A i \in 1..Len(lines) :
              lines'[i] = IF lines[i].kind \in Announces THEN lines[i]
                          ELSE Abandoned(lines[i], t)
         /\ lines' \in Seq(ReplyLine) /\ commands' \in Seq(Command)
         /\ \A i \in DOMAIN lines' : Tells(lines'[i])
         /\ \A i \in DOMAIN commands' : Names(commands'[i])
<1>1. Leaving(t)
  BY DEF TimedOut, Leaving, Unlocked, Raise, Ends, Turns
<1>2. \A l \in ReplyLine : Abandoned(l, t) \in ReplyLine /\ Abandoned(l, t).kind = l.kind
  BY DEF Abandoned, ReplyLine, Nobody
<1>3. \A c \in Command : Abandoned(c, t) \in Command /\ Abandoned(c, t).op = c.op
                         /\ Abandoned(c, t).index = c.index
                         /\ Abandoned(c, t).memory = c.memory
  BY DEF Abandoned, Command, Nobody
<1>4. /\ commands' = [i \in 1..Len(commands) |-> Abandoned(commands[i], t)]
      /\ lines' = [i \in 1..Len(lines) |->
                     IF lines[i].kind \in Announces THEN lines[i] ELSE Abandoned(lines[i], t)]
  BY <1>1, LinesFacts DEF Leaving, Abandons
<1>5. /\ commands' \in [1..Len(commands) -> Command] /\ Len(commands) \in Nat
      /\ lines' \in [1..Len(lines) -> ReplyLine] /\ Len(lines) \in Nat
  BY <1>2, <1>3, <1>4, LinesFacts
<1>6. /\ commands' \in Seq(Command) /\ Len(commands') = Len(commands)
      /\ lines' \in Seq(ReplyLine) /\ Len(lines') = Len(lines)
      /\ DOMAIN lines' = 1..Len(lines) /\ DOMAIN commands' = 1..Len(commands)
  BY <1>5
<1>7. /\ \A i \in 1..Len(commands) : commands'[i] = Abandoned(commands[i], t)
      /\ \A i \in 1..Len(lines) : lines'[i] = IF lines[i].kind \in Announces THEN lines[i]
                                              ELSE Abandoned(lines[i], t)
  BY <1>4
<1>8. ASSUME NEW i \in DOMAIN lines' PROVE Tells(lines'[i])
  <2>1. i \in 1..Len(lines) /\ lines[i] \in ReplyLine /\ Tells(lines[i])
    BY <1>6, LinesFacts
  <2> QED
    BY <2>1, <1>2, <1>7 DEF Tells, Announces
<1>9. ASSUME NEW i \in DOMAIN commands' PROVE Names(commands'[i])
  <2>1. i \in 1..Len(commands) /\ commands[i] \in Command /\ Names(commands[i])
    BY <1>6, LinesFacts
  <2> QED
    BY <2>1, <1>3, <1>7 DEF Names
<1> QED
  BY <1>1, <1>6, <1>7, <1>8, <1>9

Comes(m, k, i) ==
  /\ m \notin arrived /\ store[k][i] = None
  /\ arrived' = arrived \cup {m} /\ store' = [store EXCEPT ![k][i] = m]
  /\ Len(lines') = Len(lines) + 1
  /\ \A j \in 1..Len(lines) : lines'[j] = lines[j]
  /\ lines'[Len(lines) + 1].kind = "cmti"
  /\ UNCHANGED <<host, commands, using, delivered, failed, readers, mixed, switched, misplaced>>

LEMMA ComesStep ==
  ASSUME Types, NEW m \in Messages, NEW k \in Memories, NEW i \in Slots, Arrive(m, k, i)
  PROVE  /\ Comes(m, k, i) /\ lines' \in Seq(ReplyLine)
         /\ \A j \in DOMAIN lines' : Tells(lines'[j])
<1> DEFINE l == Line("cmti", m, {<<k, i>>})
<1>1. l \in ReplyLine /\ l.kind = "cmti" /\ Tells(l)
  <2>1. "cmti" \in Kinds /\ m \in Nobody
    BY ThreadFacts DEF Kinds, Nobody
  <2>2. {<<k, i>>} \in SUBSET (Messages \cup (Slots \X Messages) \cup (Memories \X Slots))
    OBVIOUS
  <2>3. l \in ReplyLine /\ l.kind = "cmti" /\ l.of = m /\ l.data = {<<k, i>>}
    BY <2>1, <2>2, LineTyped
  <2> QED
    BY <2>3 DEF Tells
<1>2. lines \in Seq(ReplyLine) /\ lines' = Append(lines, l)
  BY DEF Types, Arrive
<1> HIDE DEF l
<1>3. /\ lines' \in Seq(ReplyLine) /\ Len(lines') = Len(lines) + 1 /\ Len(lines) \in Nat
      /\ lines'[Len(lines) + 1] = l /\ \A j \in 1..Len(lines) : lines'[j] = lines[j]
      /\ DOMAIN lines' = 1..(Len(lines) + 1)
  BY <1>1, <1>2
<1>4. \A j \in DOMAIN lines' : Tells(lines'[j])
  <2>1. \A j \in DOMAIN lines' : j \in 1..Len(lines) \/ j = Len(lines) + 1
    BY <1>3
  <2> QED
    BY <1>1, <1>3, <2>1, LinesFacts
<1> QED
  BY <1>1, <1>3, <1>4 DEF Arrive, Comes

LEMMA HandsTyped ==
  ASSUME Types, NEW t \in Threads, NEW r, Result(t, r)
  PROVE  /\ delivered' \subseteq Messages /\ failed' \subseteq Messages
         /\ readers' \in [Messages -> Nat]
         /\ \A m \in Messages : readers'[m] >= readers[m]
<1>1. /\ delivered \subseteq Messages /\ failed \subseteq Messages
      /\ readers \in [Messages -> Nat] /\ thread[t].got \subseteq Messages
  BY ThreadTyped DEF Types, Thread
<1>2. CASE Again(t, r) \/ Leaves(t, r) \/ Proceeds(t, r)
  BY <1>1, <1>2 DEF Again, Leaves, Proceeds, Gives, HandsStay
<1>3. CASE ReadsOne(t, r) \/ ReadsAll(t, r)
  <2>1. HasRead(t, r.got) /\ delivered' = delivered /\ failed' = failed
    BY <1>3 DEF ReadsOne, ReadsAll
  <2> QED
    BY <1>1, <2>1 DEF HasRead
<1> QED
  BY <1>2, <1>3 DEF Result

\* What can happen.
LEMMA StepForms ==
  ASSUME Types, Next
  PROVE  \/ \E m \in Messages, k \in Memories, i \in Slots : Arrive(m, k, i)
         \/ Execute \/ Declines \/ StaysSilent
         \/ ReadLine
         \/ \E t \in Threads : Write(t) \/ Returned(t) \/ TimedOut(t)
         \/ \E t \in Threads : \E r : Calm(t, r)
BY CalmSteps DEF Next, Works

LEMMA TypesNext ==
  ASSUME Types, [Next]_vars
  PROVE  Types'
<1>1. CASE UNCHANGED vars
  BY <1>1 DEF Types, vars, host, modem, ghosts, Knows, Employed, Tells, Names
<1>2. ASSUME NEW m \in Messages, NEW k \in Memories, NEW i \in Slots, Arrive(m, k, i)
      PROVE  Types'
  <2>1. /\ lines' \in Seq(ReplyLine) /\ \A j \in DOMAIN lines' : Tells(lines'[j])
        /\ Comes(m, k, i)
    BY <1>2, ComesStep
  <2>2. store' \in [Memories -> [Slots -> Messages \cup {None}]]
    BY <2>1 DEF Types, Comes
  <2> QED
    BY <2>1, <2>2 DEF Types, Comes, host, Employed
<1>3. CASE Execute \/ Declines \/ StaysSilent
  <2>1. PICK kinds \in Replies, d \in SUBSET Written : ModemStep(kinds, d)
    BY <1>3, ModemSteps
  <2>2. lines' \in Seq(ReplyLine) /\ \A i \in DOMAIN lines' : Tells(lines'[i])
    BY <1>3, ModemSteps
  <2>3. /\ commands # <<>> /\ commands' = Tail(commands)
        /\ UNCHANGED <<host, arrived, delivered, readers, failed, mixed>>
    BY <2>1 DEF ModemStep
  <2>4. commands' \in Seq(Command) /\ \A i \in DOMAIN commands' : Names(commands'[i])
    <3>1. /\ Len(commands) \in Nat /\ Len(commands) > 0 /\ commands' \in Seq(Command)
          /\ Len(commands') = Len(commands) - 1
          /\ \A i \in 1..(Len(commands) - 1) : commands'[i] = commands[i + 1]
      BY <2>3, CommandFacts
    <3>2. ASSUME NEW i \in DOMAIN commands' PROVE Names(commands'[i])
      <4>1. i \in 1..(Len(commands) - 1) /\ i + 1 \in 1..Len(commands)
        BY <3>1
      <4> QED
        BY <3>1, <4>1, LinesFacts
    <3> QED
      BY <3>1, <3>2
  <2>5. store' \in [Memories -> [Slots -> Messages \cup {None}]] /\ using' \in Memories
    <3>1. Names(Head1) /\ store \in [Memories -> [Slots -> Messages \cup {None}]]
          /\ using \in Memories
      BY <2>3, CommandFacts DEF Types
    <3> QED
      BY <2>1, <3>1 DEF ModemStep, Chooses, Clears, Talks, Names
  <2> QED
    BY <2>2, <2>3, <2>4, <2>5 DEF Types, host, Employed
<1>4. CASE ReadLine
  <2>1. /\ response' \in Seq(ReplyLine) /\ notification' \in Seq(ReplyLine)
        /\ \A i \in DOMAIN notification' : Tells(notification'[i])
    BY <1>4, ReadingStep
  <2>2. PICK l : Reading(l)
    BY <1>4, ReadingStep
  <2>3. /\ lines' \in Seq(ReplyLine) /\ \A i \in DOMAIN lines' : Tells(lines'[i])
    <3>1. /\ Len(lines) \in Nat /\ Len(lines) > 0 /\ lines' \in Seq(ReplyLine)
          /\ Len(lines') = Len(lines) - 1
          /\ \A i \in 1..(Len(lines) - 1) : lines'[i] = lines[i + 1]
      BY <2>2, TailFacts, LinesFacts DEF Reading
    <3>2. ASSUME NEW i \in DOMAIN lines' PROVE Tells(lines'[i])
      <4>1. i \in 1..(Len(lines) - 1) /\ i + 1 \in 1..Len(lines)
        BY <3>1
      <4> QED
        BY <3>1, <4>1, LinesFacts
    <3> QED
      BY <3>1, <3>2
  <2>4. /\ thread' \in [Threads -> Thread]
        /\ \A u \in Threads : Knows(thread'[u]) /\ Employed(u)'
    <3>1. CASE thread' = thread
      BY <3>1 DEF Types, Employed
    <3>2. CASE Begins
      BY <3>2, Turned DEF Begins
    <3> QED
      BY <2>2, <3>1, <3>2 DEF Reading, Hears, Ignores
  <2>5. event' \in {"none", "waiting", "set"}
    BY <2>2 DEF Reading, Hears, Ignores, Types
  <2> QED
    BY <2>1, <2>2, <2>3, <2>4, <2>5 DEF Types, Reading
<1>5. ASSUME NEW t \in Threads, Write(t) PROVE Types'
  <2>1. /\ Writing(t) /\ commands' \in Seq(Command)
        /\ \A i \in DOMAIN commands' : Names(commands'[i])
    BY <1>5, WritingStep
  <2>2. lock' \in Nobody /\ response' \in Seq(ReplyLine)
    BY <2>1 DEF Writing, Nobody
  <2> QED
    BY <2>1, <2>2 DEF Types, Writing, ghosts, Employed
<1>6. ASSUME NEW t \in Threads, Returned(t) PROVE Types'
  <2>1. PICK r : Return(t, r)
    BY <1>6, ReturnSteps
  <2>2. /\ thread' \in [Threads -> Thread]
        /\ \A u \in Threads : Knows(thread'[u]) /\ Employed(u)'
    BY <2>1, Turned DEF Return, Result
  <2>3. /\ delivered' \subseteq Messages /\ failed' \subseteq Messages
        /\ readers' \in [Messages -> Nat]
    BY <2>1, HandsTyped DEF Return
  <2>4. memory' \in Memories /\ lock' \in Nobody
    BY <1>6, <2>1, ReturnSteps DEF Return, Nobody
  <2> QED
    BY <2>1, <2>2, <2>3, <2>4 DEF Types, Return
<1>7. ASSUME NEW t \in Threads, TimedOut(t) PROVE Types'
  <2>1. /\ Leaving(t)
        /\ lines' \in Seq(ReplyLine) /\ commands' \in Seq(Command)
        /\ \A i \in DOMAIN lines' : Tells(lines'[i])
        /\ \A i \in DOMAIN commands' : Names(commands'[i])
    BY <1>7, LeavingStep
  <2>2. Able(t, Idle)
    BY IdleTyped DEF Able
  <2>3. /\ thread' \in [Threads -> Thread]
        /\ \A u \in Threads : Knows(thread'[u]) /\ Employed(u)'
    BY <2>1, <2>2, Turned DEF Leaving
  <2>4. failed' \subseteq Messages /\ lock' \in Nobody
    BY <2>1, ThreadTyped DEF Leaving, Types, Thread, Nobody
  <2> QED
    BY <2>1, <2>3, <2>4 DEF Types, Leaving
<1>8. ASSUME NEW t \in Threads, NEW r, Calm(t, r) PROVE Types'
  <2>1. /\ thread' \in [Threads -> Thread]
        /\ \A u \in Threads : Knows(thread'[u]) /\ Employed(u)'
    BY <1>8, Turned DEF Calm
  <2> QED
    BY <1>8, <2>1 DEF Types, Calm, modem, ghosts
<1> QED
  BY <1>1, <1>2, <1>3, <1>4, <1>5, <1>6, <1>7, <1>8, StepForms

----------------------------------------------------------------------------
(* A message comes *)

LEMMA OwnFacts ==
  ASSUME Types
  PROVE  /\ \A i : i \in OwnLines <=> i \in 1..Len(lines) /\ For(lines[i], lock)
         /\ \A i : i \in OwnRead <=> i \in 1..Len(response) /\ For(response[i], lock)
         /\ \A i : i \in Deletions <=> /\ i \in 1..Len(commands) /\ commands[i].op = "delete"
                                       /\ commands[i].index # None
BY LinesFacts DEF OwnLines, OwnRead, Deletions

\* A place that is in use holds a message.
LEMMA PlaceFacts ==
  ASSUME Types, Core
  PROVE  /\ \A t \in Threads : \A i \in ToDo(t) : i \in Slots /\ store[using][i] # None
         /\ \A i \in Deletions : commands[i].index \in Slots
         /\ \A i \in Deletions : commands[i].of = None =>
                                   store[using][commands[i].index] # None
<1>1. None \notin Messages
  BY ThreadsAssumption
<1>2. \A t \in Threads : thread[t].got \subseteq Messages /\ ToDo(t) \subseteq Slots
  BY ThreadTyped, Taken DEF Thread, ToDo, Pending
<1>3. failed \subseteq Messages
  BY DEF Types
<1>4. \A i \in Deletions : commands[i].index \in Slots
  BY LinesFacts, OwnFacts DEF Command
<1> QED
  BY <1>1, <1>2, <1>3, <1>4 DEF Core, Untouched, Orphans

LEMMA CoreComes ==
  ASSUME Types, Types', Core, NEW m \in Messages, NEW k \in Memories, NEW i \in Slots,
         Comes(m, k, i)
  PROVE  Core'
<1> DEFINE n == Len(lines)
<1>1. /\ UNCHANGED <<thread, lock, event, response, commands, using>>
      /\ UNCHANGED <<delivered, failed, readers>>
  BY DEF Comes, host
<1>3. /\ n \in Nat /\ Len(lines') = n + 1
      /\ lines'[n + 1].kind \in Announces
      /\ \A j \in 1..n : lines'[j] = lines[j]
  BY LinesFacts DEF Comes, Announces
<1>2. DOMAIN lines' = 1..(n + 1)
  BY <1>3, Types' DEF Types
<1> HIDE DEF n
<1>4. OwnLines' = OwnLines /\ OwnRead' = OwnRead
  <2>1. ~For(lines'[n + 1], lock)
    BY <1>3 DEF For, Stray
  <2>2. \A j : j \in OwnLines' <=> j \in 1..(n + 1) /\ For(lines'[j], lock)
    BY <1>1, <1>2 DEF OwnLines
  <2>3. \A j : j \in OwnLines' <=> j \in OwnLines
    BY <2>1, <2>2, <1>3, OwnFacts DEF n
  <2> QED
    BY <2>3, <1>1 DEF OwnRead
<1>5. \A j \in OwnLines : lines'[j] = lines[j]
  BY <1>3, OwnFacts DEF n
<1>6. Waits'
  <2>1. \A j \in DOMAIN lines' : lines'[j].kind \notin Stray => lines'[j].of \in {None, lock}
    <3>1. \A j \in DOMAIN lines' : j \in 1..n \/ j = n + 1
      BY <1>2, <1>3
    <3>2. \A j \in 1..n : lines'[j].kind \notin Stray => lines'[j].of \in {None, lock}
      BY <1>3, LinesFacts DEF Core, Waits, n
    <3> QED
      BY <1>3, <3>1, <3>2 DEF Stray
  <2>2. Answered' = Answered
    BY <1>4 DEF Answered
  <2>3. \A j \in OwnLines : Ending(lines'[j]) = Ending(lines[j])
    BY <1>5
  <2> QED
    BY <1>1, <1>4, <2>1, <2>2, <2>3 DEF Core, Waits, Place, Ending, Terminal
<1>7. Ended'
  BY <1>1, <1>4 DEF Core, Ended, Mixed, Ending, Terminal
<1>8. \A q \in Memories, j \in Slots : store[q][j] # None => store'[q][j] = store[q][j]
  BY DEF Comes, Types
<1>9. using \in Memories /\ lock \in Nobody
  BY DEF Types
<1>10. Truthful'
  <2>1. ASSUME NEW l, Says(l, thread[lock], store[using]), lock # None
        PROVE  Says(l, thread[lock], store'[using])
    <3> QED
      BY <1>8, <1>9, <2>1, ThreadsAssumption DEF Says
  <2>2. (OwnLines # {} \/ OwnRead # {}) => lock # None
    BY DEF OwnLines, OwnRead, For
  <2>3. \A j \in OwnLines : Says(lines[j], thread[lock], store'[using])
    BY <2>1, <2>2 DEF Core, Truthful
  <2>4. \A j \in OwnRead : Says(response[j], thread[lock], store'[using])
    BY <2>1, <2>2 DEF Core, Truthful
  <2> QED
    BY <1>1, <1>4, <1>5, <2>3, <2>4 DEF Truthful
<1>11. Untouched'
  <2>1. \A t : ToDo(t)' = ToDo(t)
    BY <1>1, <1>4, <1>5 DEF ToDo, Pending, Asks, Declined
  <2> QED
    BY <1>1, <1>8, <1>9, <2>1, PlaceFacts DEF Core, Untouched
<1>12. Orphans'
  BY <1>1, <1>8, <1>9, PlaceFacts DEF Core, Orphans, Deletions
<1>13. Held'
  BY <1>1 DEF Core, Held, Hands
<1>14. Kept'
  <2>1. Hands' = Hands
    BY <1>1 DEF Hands
  <2>2. Stored \subseteq Stored' \cup {None}
    <3>1. \A x \in Stored : \E q \in Memories, j \in Slots : x = store[q][j]
      BY DEF Stored
    <3>2. \A q \in Memories, j \in Slots : store'[q][j] \in Stored'
      BY DEF Stored
    <3> QED
      BY <1>8, <3>1, <3>2
  <2>3. m \in Stored'
    <3>1. store'[k][i] = m
      BY DEF Comes, Types
    <3> QED
      BY <3>1 DEF Stored
  <2>4. arrived' = arrived \cup {m} /\ None \notin arrived
    BY ThreadsAssumption DEF Comes, Types
  <2> QED
    BY <1>1, <2>1, <2>2, <2>3, <2>4 DEF Core, Kept
<1> QED
  BY <1>6, <1>7, <1>10, <1>11, <1>12, <1>13, <1>14 DEF Core

----------------------------------------------------------------------------
(* Away from the line, and a command *)

LEMMA HandsIn ==
  ASSUME Types
  PROVE  /\ \A t \in Threads : thread[t].got \subseteq Hands
         /\ \A m \in Hands : \E t \in Threads : m \in thread[t].got
         /\ Hands \subseteq Messages
BY ThreadTyped DEF Hands, Thread

\* A thread with nothing in hand goes on with nothing in hand.
LEMMA EmptyTurn ==
  ASSUME Types, NEW t \in Threads, NEW r, Turns(t, r), Able(t, r),
         thread[t].pc # "delete", r.pc # "delete"
  PROVE  /\ thread'[t] = r /\ \A u \in Threads \ {t} : thread'[u] = thread[u]
         /\ \A u \in Threads : thread'[u].got = thread[u].got
         /\ Hands' = Hands
<1>1. thread'[t] = r /\ \A u \in Threads \ {t} : thread'[u] = thread[u]
  BY Turned
<1>2. thread[t].got = {} /\ r.got = {}
  BY ThreadTyped DEF Able, Knows
<1>3. \A u \in Threads : thread'[u].got = thread[u].got
  BY <1>1, <1>2
<1> QED
  BY <1>1, <1>3 DEF Hands

\* The thread that holds the line has no more to delete than before.
LessToDo ==
  \A u \in Threads : u = lock /\ thread[u].pc = "delete" => ToDo(u)' \subseteq ToDo(u)

\* While it does not hold the line, what it has to delete stays.
LEMMA TurnStays ==
  ASSUME Types, Core, NEW t \in Threads, NEW r, Turns(t, r), Able(t, r), t # lock,
         thread[t].pc # "delete", r.pc # "delete",
         UNCHANGED <<lock, commands, store, using, arrived, delivered, failed, readers>>
  PROVE  /\ lock # None => thread'[lock] = thread[lock]
         /\ LessToDo => Untouched'
         /\ Orphans' /\ Held' /\ Kept'
<1>1. /\ thread'[t] = r /\ \A u \in Threads \ {t} : thread'[u] = thread[u]
      /\ \A u \in Threads : thread'[u].got = thread[u].got
      /\ Hands' = Hands
  BY EmptyTurn
<1>2. lock # None => lock \in Threads
  BY DEF Types, Nobody
<1>3. lock # None => thread'[lock] = thread[lock]
  BY <1>1, <1>2
<1>4. ASSUME LessToDo
      PROVE  Untouched'
  <2>1. \A u \in Threads : ToDo(u)' \subseteq ToDo(u)
    <3> TAKE u \in Threads
    <3>1. CASE u = t
      BY <1>1, <3>1 DEF ToDo, Pending
    <3>2. CASE u # t /\ u # lock
      BY <1>1, <3>2 DEF ToDo, Pending
    <3>3. CASE u = lock /\ thread[u].pc # "delete"
      BY <1>1, <3>3 DEF ToDo, Pending
    <3> QED
      BY <1>4, <3>1, <3>2, <3>3 DEF LessToDo
  <2> QED
    BY <1>1, <2>1 DEF Core, Untouched
<1>5. Orphans'
  BY DEF Core, Orphans, Deletions
<1>6. Held' /\ Kept'
  BY <1>1 DEF Core, Held, Kept, Stored
<1> QED
  BY <1>3, <1>4, <1>5, <1>6

LEMMA CoreCalm ==
  ASSUME Types, Types', Core, NEW t \in Threads, NEW r, Calm(t, r)
  PROVE  Core'
<1>1. /\ Turns(t, r) /\ Able(t, r) /\ thread[t].pc \notin Ready /\ r.pc # "delete"
      /\ UNCHANGED <<lock, event, response, commands, lines, store, using>>
      /\ UNCHANGED <<arrived, delivered, failed, readers>>
  BY DEF Calm, modem, ghosts
<1>2. t # lock /\ thread[t].pc # "delete"
  BY <1>1, ThreadFacts DEF Core, Waits, Ready
<1>3. /\ lock # None => thread'[lock] = thread[lock]
      /\ LessToDo => Untouched'
      /\ Orphans' /\ Held' /\ Kept'
  BY <1>1, <1>2, TurnStays
<1>4. OwnLines' = OwnLines /\ OwnRead' = OwnRead
  BY <1>1 DEF OwnLines, OwnRead
<1>5. Waits' /\ Ended'
  BY <1>1, <1>3, <1>4 DEF Core, Waits, Place, Ended, Answered, Mixed, Ending, Terminal
<1>6. Truthful'
  <2>1. OwnLines # {} \/ OwnRead # {} => thread'[lock] = thread[lock]
    BY <1>3 DEF OwnLines, OwnRead, For
  <2> QED
    BY <1>1, <1>4, <2>1 DEF Core, Truthful
<1>7. Untouched'
  <2>1. ASSUME NEW u \in Threads, u = lock PROVE ToDo(u)' = ToDo(u)
    <3>1. thread'[u] = thread[u]
      BY <1>3, <2>1, ThreadFacts
    <3> QED
      BY <1>1, <1>4, <3>1 DEF ToDo, Pending, Asks, Declined
  <2> QED
    BY <1>3, <2>1 DEF LessToDo
<1> QED
  BY <1>3, <1>5, <1>6, <1>7 DEF Core

LEMMA CoreWrite ==
  ASSUME Types, Types', Core, NEW t \in Threads, Writing(t)
  PROVE  Core'
<1> DEFINE n == Len(commands)
           c == [of |-> t, op |-> thread[t].pc, index |-> Place(t),
                 round |-> thread[t].round, memory |-> thread[t].memory]
<1>1. /\ lock = None /\ lock' = t /\ event' = "waiting" /\ response' = <<>>
      /\ thread[t].pc \in Ready /\ t # None
      /\ UNCHANGED <<thread, lines, store, using>>
      /\ UNCHANGED <<arrived, delivered, readers, failed>>
  BY ThreadFacts DEF Writing, ghosts
<1>2. /\ n \in Nat /\ DOMAIN commands = 1..n /\ DOMAIN commands' = 1..(n + 1)
      /\ Len(commands') = n + 1
      /\ commands'[n + 1] = c /\ \A i \in 1..n : commands'[i] = commands[i]
  <2>1. commands \in Seq(Command) /\ commands' = Append(commands, c)
    BY DEF Types, Writing
  <2>2. commands' \in Seq(Command)
    BY DEF Types
  <2> HIDE DEF c
  <2> QED
    BY <2>1, <2>2
<1>3. /\ c.of = t /\ c.op = thread[t].pc /\ c.index = Place(t)
  OBVIOUS
<1> HIDE DEF c, n
<1>4. \A i \in 1..n : commands[i].of = None
  BY <1>1, <1>2 DEF Core, Waits
<1>5. \A i \in DOMAIN lines : lines[i].kind \notin Stray => lines[i].of = None
  BY <1>1 DEF Core, Waits
<1>6. OwnLines' = {} /\ OwnRead' = {}
  BY <1>1, <1>5 DEF OwnLines, OwnRead, For
<1>7. \A i \in DOMAIN commands' : i \in 1..n \/ i = n + 1
  BY <1>2
<1>8. Waits'
  <2>1. \A i \in DOMAIN commands' : commands'[i].of # None =>
          /\ i = Len(commands') /\ lock' # None /\ commands'[i].of = lock'
          /\ commands'[i].op = thread'[lock'].pc /\ commands'[i].index = Place(lock)'
    BY <1>1, <1>2, <1>3, <1>4, <1>7 DEF Place
  <2>2. ~Answered'
    BY <1>6 DEF Answered
  <2>3. \A i \in DOMAIN lines' : lines'[i].kind \notin Stray => lines'[i].of \in {None, lock'}
    BY <1>1, <1>5
  <2>4. \A i \in DOMAIN response' : FALSE
    BY <1>1
  <2> QED
    BY <1>1, <1>6, <2>1, <2>2, <2>3, <2>4 DEF Waits
<1>9. Ended' /\ Truthful'
  BY <1>1, <1>6 DEF Ended, Truthful
<1>10. Untouched'
  <2>1. Asks'
    <3>1. n + 1 \in DOMAIN commands' /\ commands'[n + 1].of = lock'
      BY <1>1, <1>2, <1>3
    <3> QED
      BY <3>1 DEF Asks
  <2>2. \A u \in Threads : lock # u
    BY <1>1, ThreadFacts
  <2>3. \A u \in Threads : ToDo(u)' = ToDo(u)
    BY <1>1, <2>1, <2>2 DEF ToDo, Pending
  <2> QED
    BY <1>1, <2>3 DEF Core, Untouched
<1>11. Orphans'
  <2> DEFINE deletes == thread[t].pc = "delete" /\ Place(t) # None
  <2>1. Deletions' = Deletions \cup (IF deletes THEN {n + 1} ELSE {})
    <3>1. \A i : i \in Deletions' <=> /\ i \in 1..(n + 1) /\ commands'[i].op = "delete"
                                     /\ commands'[i].index # None
      BY <1>2 DEF Deletions
    <3>2. \A i : i \in Deletions <=> /\ i \in 1..n /\ commands[i].op = "delete"
                                    /\ commands[i].index # None
      BY <1>2 DEF Deletions
    <3>3. \A i \in 1..(n + 1) : i \in 1..n \/ i = n + 1
      BY <1>2
    <3>4. \A i \in 1..n : i \in 1..(n + 1)
      BY <1>2
    <3>5. n + 1 \in 1..(n + 1)
      BY <1>2
    <3>6. \A i : i \in Deletions' <=> i \in Deletions \/ (i = n + 1 /\ deletes)
      BY <1>2, <1>3, <3>1, <3>2, <3>3, <3>4, <3>5
    <3> HIDE DEF deletes
    <3> QED
      BY <3>6
  <2>2. \A i \in Deletions : i \in 1..n /\ commands'[i] = commands[i]
                             /\ commands[i].of = None
                             /\ store[using][commands[i].index] \in failed
    BY <1>2, <1>4 DEF Deletions, Core, Orphans
  <2>3. deletes => store[using][Place(t)] \notin failed
    <3>1. SUFFICES ASSUME deletes PROVE store[using][Place(t)] \in Hands
      BY DEF Core, Held
    <3>2. Place(t) \in ToDo(t)
      BY <1>1, <3>1 DEF ToDo, Pending, Place
    <3> QED
      BY <3>2, HandsIn DEF Core, Untouched
  <2>4. \A i \in Deletions' :
          commands'[i].of = None => store'[using'][commands'[i].index] \in failed'
    BY <1>1, <1>2, <1>3, <2>1, <2>2
  <2>5. ASSUME NEW i \in Deletions', NEW j \in Deletions',
               commands'[i].index = commands'[j].index
        PROVE  i = j
    <3>1. CASE i \in Deletions /\ j \in Deletions
      BY <2>2, <2>5, <3>1 DEF Core, Orphans
    <3>2. CASE i \in Deletions /\ j \notin Deletions
      BY <1>2, <1>3, <2>1, <2>2, <2>3, <2>5, <3>2
    <3>3. CASE i \notin Deletions /\ j \in Deletions
      BY <1>2, <1>3, <2>1, <2>2, <2>3, <2>5, <3>3
    <3>4. CASE i \notin Deletions /\ j \notin Deletions
      BY <2>1, <3>4
    <3> QED
      BY <3>1, <3>2, <3>3, <3>4
  <2> QED
    BY <2>4, <2>5 DEF Orphans
<1>12. Held' /\ Kept'
  BY <1>1 DEF Core, Held, Kept, Hands, Stored
<1> QED
  BY <1>8, <1>9, <1>10, <1>11, <1>12 DEF Core

----------------------------------------------------------------------------
(* A thread gives up *)

LEMMA CoreLeaving ==
  ASSUME Types, Types', Core, NEW t \in Threads, TimedOut(t)
  PROVE  Core'
<1> DEFINE n == Len(commands)
           got == thread[t].got
<1>1. /\ lock = t /\ lock' = None /\ event' = "none" /\ t # None
      /\ Turns(t, Idle) /\ failed' = failed \cup got
      /\ UNCHANGED <<response, store, using, arrived, delivered, readers>>
  BY LeavingStep, ThreadFacts DEF Leaving
<1>2. /\ n \in Nat /\ Len(commands') = n /\ DOMAIN commands = 1..n /\ DOMAIN commands' = 1..n
      /\ \A i \in 1..n : commands'[i] = Abandoned(commands[i], t)
  BY LeavingStep, LinesFacts
<1>3. DOMAIN lines' = DOMAIN lines
      /\ \A i \in DOMAIN lines : lines'[i] = IF lines[i].kind \in Announces THEN lines[i]
                                             ELSE Abandoned(lines[i], t)
  BY LeavingStep, LinesFacts
<1>4. \A i \in 1..n : commands'[i].of = None /\ commands'[i].op = commands[i].op
                      /\ commands'[i].index = commands[i].index
  <2>1. \A i \in 1..n : commands[i] \in Command /\ commands[i].of \in {None, t}
    BY <1>1, <1>2, LinesFacts DEF Core, Waits
  <2>2. \A d \in Command : d.of \in {None, t} =>
          /\ Abandoned(d, t).of = None /\ Abandoned(d, t).op = d.op
          /\ Abandoned(d, t).index = d.index
    BY DEF Abandoned, Command
  <2> QED
    BY <1>2, <2>1, <2>2
<1>5. \A i \in DOMAIN lines' : lines'[i].kind \notin Stray => lines'[i].of = None
  <2>1. \A i \in DOMAIN lines : lines[i] \in ReplyLine
                                /\ (lines[i].kind \notin Stray => lines[i].of \in {None, t})
    BY <1>1, LinesFacts DEF Core, Waits
  <2>2. \A l \in ReplyLine : l.of \in {None, t} => Abandoned(l, t).of = None
    BY DEF Abandoned, ReplyLine
  <2>3. \A i \in DOMAIN lines : lines'[i].kind = lines[i].kind
    <3>1. \A l \in ReplyLine : Abandoned(l, t).kind = l.kind
      BY DEF Abandoned, ReplyLine
    <3> QED
      BY <1>3, <2>1, <3>1
  <2> QED
    BY <1>3, <2>1, <2>2, <2>3 DEF Stray
<1>6. OwnLines' = {} /\ OwnRead' = {}
  BY <1>1 DEF OwnLines, OwnRead, For
<1>7. /\ thread'[t] = Idle /\ \A u \in Threads \ {t} : thread'[u] = thread[u]
      /\ Idle.got = {} /\ Idle.pc = "idle"
  BY <1>1, Turned, IdleTyped DEF Able
<1> HIDE DEF n, got
<1>8. Waits'
  BY <1>1, <1>2, <1>4, <1>5, <1>6 DEF Waits, Answered
<1>9. Ended' /\ Truthful'
  BY <1>1, <1>6 DEF Ended, Truthful
<1>10. Untouched'
  <2>1. \A u \in Threads \ {t} : lock # u /\ lock' # u
    BY <1>1, ThreadFacts
  <2>2. \A u \in Threads \ {t} : ToDo(u)' = ToDo(u)
    BY <1>7, <2>1 DEF ToDo, Pending
  <2>3. ToDo(t)' = {}
    BY <1>7 DEF ToDo, Pending
  <2> QED
    BY <1>1, <1>7, <2>2, <2>3 DEF Core, Untouched
<1>11. Orphans'
  <2>1. Deletions' = Deletions /\ Deletions \subseteq 1..n
    BY <1>2, <1>4 DEF Deletions
  <2>2. ASSUME NEW i \in Deletions PROVE store[using][commands[i].index] \in failed'
    <3>1. CASE commands[i].of = None
      BY <1>1, <3>1 DEF Core, Orphans
    <3>2. CASE commands[i].of # None
      <4>1. /\ commands[i].of = lock /\ thread[t].pc = "delete"
            /\ commands[i].index = Place(t) /\ i \in DOMAIN commands
            /\ Place(t) # None
        BY <1>1, <1>2, <2>1, <3>2 DEF Core, Waits, Deletions
      <4>2. Place(t) \in ToDo(t)
        BY <4>1 DEF ToDo, Pending, Asks, Place
      <4> QED
        BY <1>1, <4>1, <4>2 DEF Core, Untouched, got
    <3> QED
      BY <3>1, <3>2
  <2> QED
    BY <1>1, <1>4, <2>1, <2>2 DEF Core, Orphans
<1>12. /\ \A m : m \in Hands => m \in Hands' \/ m \in got
       /\ \A m \in Hands' : \E u \in Threads \ {t} : m \in thread[u].got
       /\ got \subseteq Hands /\ Hands' \subseteq Hands
  <2>1. \A m \in Hands' : \E u \in Threads : m \in thread'[u].got
    BY DEF Hands
  <2>2. \A m \in Hands' : \E u \in Threads \ {t} : m \in thread[u].got
    BY <1>7, <2>1
  <2>3. \A u \in Threads : thread'[u].got \subseteq Hands'
    BY DEF Hands
  <2>4. \A u \in Threads \ {t} : thread[u].got \subseteq Hands'
    BY <1>7, <2>3
  <2> QED
    BY <2>2, <2>4, HandsIn DEF got
<1>13. Held'
  <2>1. \A u, v \in Threads : u # v => thread'[u].got \cap thread'[v].got = {}
    BY <1>7 DEF Core, Held
  <2>2. Hands' \cap (failed' \cup delivered') = {}
    <3>1. Hands \cap failed = {} /\ Hands \cap delivered = {}
      BY DEF Core, Held
    <3>2. \A m \in Hands' : m \notin got
      BY <1>12 DEF Core, Held, got
    <3> QED
      BY <1>1, <1>12, <3>1, <3>2
  <2>3. \A m \in Hands' \cup failed' \cup delivered' : readers'[m] > 0
    <3>1. \A m \in Hands' \cup failed' \cup delivered' : m \in Hands \cup failed \cup delivered
      BY <1>1, <1>12
    <3> QED
      BY <1>1, <3>1 DEF Core, Held
  <2> QED
    BY <2>1, <2>2, <2>3 DEF Held
<1>14. Kept'
  <2>1. Stored' = Stored
    BY <1>1 DEF Stored
  <2> QED
    BY <1>1, <1>12, <2>1 DEF Core, Kept
<1> QED
  BY <1>8, <1>9, <1>10, <1>11, <1>13, <1>14 DEF Core

----------------------------------------------------------------------------
(* The modem takes a command *)

\* The command is the waiting thread's, which then has no answer yet, or nobody's.
LEMMA HeadFacts ==
  ASSUME Types, Core, commands # <<>>
  PROVE  /\ OwnLines = {} /\ OwnRead = {}
         /\ 1 \in DOMAIN commands /\ Head1 = commands[1]
         /\ Head1.of # None =>
              /\ Len(commands) = 1 /\ lock # None /\ Head1.of = lock /\ lock \in Threads
              /\ Head1.op = thread[lock].pc /\ Head1.index = Place(lock)
              /\ Head1.op = "delete" /\ Head1.index # None => Head1.index \in ToDo(lock)
<1>1. OwnLines = {} /\ OwnRead = {}
  BY DEF Core, Waits, Answered
<1>2. 1 \in DOMAIN commands /\ Head1 = commands[1]
  BY CommandFacts, LinesFacts
<1>3. ASSUME Head1.of # None
      PROVE  /\ Len(commands) = 1 /\ lock # None /\ Head1.of = lock /\ lock \in Threads
             /\ Head1.op = thread[lock].pc /\ Head1.index = Place(lock)
  BY <1>2, <1>3 DEF Core, Waits, Types, Nobody
<1>4. Head1.of # None /\ Head1.op = "delete" /\ Head1.index # None => Head1.index \in ToDo(lock)
  BY <1>2, <1>3 DEF ToDo, Pending, Asks, Place
<1> QED
  BY <1>1, <1>2, <1>3, <1>4

\* The answer's lines.
LEMMA AnswerFacts ==
  ASSUME Types, Types', Core, NEW kinds \in Replies, NEW d \in SUBSET Written,
         ModemStep(kinds, d)
  PROVE  /\ OwnRead' = {}
         /\ Head1.of = None => OwnLines' = {}
         /\ \A i \in OwnLines' :
              \E j \in DOMAIN kinds :
                /\ i = Len(lines) + j /\ lines'[i].kind = kinds[j]
                /\ lines'[i].data = IF kinds[j] = "data" THEN d ELSE {}
         /\ \A i, j \in OwnLines' : i < j => ~Ending(lines'[i])
         /\ \A i \in DOMAIN lines' :
              lines'[i].kind \notin Stray => lines'[i].of \in {None, lock}
<1> DEFINE n == Len(lines)
<1>1. commands # <<>> /\ Answers(kinds, d) /\ UNCHANGED <<lock, response, thread>>
  BY DEF ModemStep, host
<1>2. OwnLines = {} /\ OwnRead = {} /\ Head1.of \in {None, lock}
  BY <1>1, HeadFacts
<1>3. /\ kinds \in Seq(Kinds \ {"cmti", "spoilt"})
      /\ \A i, j \in DOMAIN kinds :
           (i < j /\ kinds[i] \notin Announces /\ kinds[j] \notin Announces) =>
             kinds[i] \notin {"ok", "error", "busy", "prompt"}
  BY RepliesAre
<1>4. n \in Nat /\ Len(kinds) \in Nat /\ DOMAIN kinds = 1..Len(kinds)
  BY <1>3, LinesFacts
<1>5. /\ DOMAIN lines' = 1..(n + Len(kinds))
      /\ \A i \in 1..n : lines'[i] = lines[i]
      /\ \A i \in 1..Len(kinds) :
           /\ lines'[n + i].kind = kinds[i] /\ lines'[n + i].of = Head1.of
           /\ lines'[n + i].data = IF kinds[i] = "data" THEN d ELSE {}
  <2>1. Len(lines') = n + Len(kinds) /\ DOMAIN lines' = 1..Len(lines')
    BY <1>1 DEF Answers, Types
  <2>2. /\ \A i \in 1..n : lines'[i] = lines[i]
        /\ \A i \in 1..Len(kinds) :
             lines'[n + i] = Line(kinds[i], Head1.of, IF kinds[i] = "data" THEN d ELSE {})
    BY <1>1 DEF Answers
  <2>3. \A kind, t, data : /\ Line(kind, t, data).kind = kind
                            /\ Line(kind, t, data).of = t
                            /\ Line(kind, t, data).data = data
    BY DEF Line
  <2> QED
    BY <2>1, <2>2, <2>3
<1> HIDE DEF n
<1>6. \A i \in DOMAIN lines' : i \in 1..n \/ (i - n \in 1..Len(kinds) /\ i = n + (i - n))
  BY <1>4, <1>5
<1>7. OwnRead' = {}
  BY <1>1, <1>2 DEF OwnRead
<1>8. ASSUME NEW i \in OwnLines'
      PROVE  /\ i - n \in DOMAIN kinds /\ i = n + (i - n)
             /\ lines'[i].kind = kinds[i - n] /\ lines'[i].of = Head1.of
             /\ lines'[i].data = IF kinds[i - n] = "data" THEN d ELSE {}
             /\ For(lines'[i], lock)
  <2>1. i \in DOMAIN lines' /\ For(lines'[i], lock)
    BY <1>1 DEF OwnLines
  <2>2. i \notin 1..n
    <3>1. \A j \in 1..n : ~For(lines[j], lock)
      BY <1>2, OwnFacts DEF n
    <3> QED
      BY <1>5, <2>1, <3>1
  <2>3. i - n \in 1..Len(kinds) /\ i = n + (i - n)
    BY <1>6, <2>1, <2>2
  <2> QED
    BY <1>4, <1>5, <2>1, <2>3
<1>9. Head1.of = None => OwnLines' = {}
  BY <1>8 DEF For
<1>10. ASSUME NEW i \in OwnLines', NEW j \in OwnLines', i < j PROVE ~Ending(lines'[i])
  <2>1. i - n < j - n /\ i - n \in DOMAIN kinds /\ j - n \in DOMAIN kinds
    BY <1>4, <1>5, <1>8, <1>10 DEF OwnLines
  <2>2. kinds[i - n] \notin Announces /\ kinds[j - n] \notin Announces
    BY <1>8 DEF For, Stray
  <2>3. kinds[i - n] \notin {"ok", "error", "busy", "prompt"}
    BY <1>3, <2>1, <2>2
  <2> QED
    BY <1>8, <2>3 DEF Ending, Terminal
<1>11. ASSUME NEW i \in DOMAIN lines', lines'[i].kind \notin Stray
       PROVE  lines'[i].of \in {None, lock}
  <2>1. CASE i \in 1..n
    BY <1>5, <1>11, <2>1, LinesFacts DEF Core, Waits, n
  <2>2. CASE i - n \in 1..Len(kinds) /\ i = n + (i - n)
    BY <1>2, <1>5, <2>2
  <2> QED
    BY <1>6, <2>1, <2>2
<1> QED
  BY <1>7, <1>8, <1>9, <1>10, <1>11 DEF n

LEMMA CoreModem ==
  ASSUME Types, Types', Core, NEW kinds \in Replies, NEW d \in SUBSET Written,
         ModemStep(kinds, d), ~switched'
  PROVE  Core'
<1> DEFINE n == Len(commands)
<1>1. /\ commands # <<>>
      /\ Chooses(kinds) \/ Clears(kinds) \/ Talks(kinds, d)
      /\ UNCHANGED <<thread, lock, event, response>>
      /\ UNCHANGED <<arrived, delivered, readers, failed>>
  BY DEF ModemStep, host
<1>2. /\ OwnLines = {} /\ OwnRead = {} /\ 1 \in DOMAIN commands /\ Head1 = commands[1]
      /\ Head1.of # None =>
           /\ n = 1 /\ lock # None /\ Head1.of = lock /\ lock \in Threads
           /\ Head1.op = thread[lock].pc /\ Head1.index = Place(lock)
           /\ Head1.op = "delete" /\ Head1.index # None => Head1.index \in ToDo(lock)
  BY <1>1, HeadFacts
<1>3. /\ OwnRead' = {}
      /\ Head1.of = None => OwnLines' = {}
      /\ \A i \in OwnLines' :
           \E j \in DOMAIN kinds :
             /\ i = Len(lines) + j /\ lines'[i].kind = kinds[j]
             /\ lines'[i].data = IF kinds[j] = "data" THEN d ELSE {}
  <2>1. /\ OwnRead' = {}
        /\ Head1.of = None => OwnLines' = {}
        /\ \A i \in OwnLines' :
             \E j \in DOMAIN kinds :
               /\ i = Len(lines) + j /\ lines'[i].kind = kinds[j]
               /\ lines'[i].data = IF kinds[j] = "data" THEN d ELSE {}
    BY AnswerFacts
  <2> QED
    BY <2>1
<1>4. /\ \A i, j \in OwnLines' : i < j => ~Ending(lines'[i])
      /\ \A i \in DOMAIN lines' :
           lines'[i].kind \notin Stray => lines'[i].of \in {None, lock}
  BY AnswerFacts
<1>5. /\ n \in Nat /\ n > 0 /\ DOMAIN commands = 1..n
      /\ Len(commands') = n - 1 /\ DOMAIN commands' = 1..(n - 1)
      /\ \A i \in 1..(n - 1) : i + 1 \in 1..n /\ commands'[i] = commands[i + 1]
  <2>1. /\ n \in Nat /\ n > 0 /\ commands' \in Seq(Command) /\ Len(commands') = n - 1
        /\ \A i \in 1..(n - 1) : commands'[i] = commands[i + 1]
    BY CommandFacts DEF ModemStep
  <2> QED
    BY <2>1, LinesFacts
<1>6. Head1.index \in Slots \cup {None}
  BY <1>1, CommandFacts DEF Command
<1> HIDE DEF n
<1>7. Waits'
  <2>1. ASSUME NEW i \in DOMAIN commands', commands'[i].of # None
        PROVE  /\ i = Len(commands') /\ lock # None /\ commands'[i].of = lock
               /\ commands'[i].op = thread[lock].pc /\ commands'[i].index = Place(lock)
    <3>1. i \in 1..(n - 1) /\ i + 1 \in DOMAIN commands /\ commands'[i] = commands[i + 1]
      BY <1>5
    <3>2. i + 1 = n
      BY <2>1, <3>1 DEF Core, Waits, n
    <3>3. i = n - 1
      BY <1>5, <3>1, <3>2
    <3> QED
      BY <1>5, <2>1, <3>1, <3>3 DEF Core, Waits
  <2>2. Answered' => commands' = <<>>
    <3>1. SUFFICES ASSUME Answered' PROVE commands' = <<>>
      OBVIOUS
    <3>2. Head1.of # None
      BY <1>3, <3>1 DEF Answered
    <3>3. Len(commands') = 0 /\ commands' \in Seq(Command)
      BY <1>2, <1>5, <3>2 DEF Types
    <3> QED
      BY <3>3
  <2> QED
    BY <1>1, <1>4, <2>1, <2>2 DEF Core, Waits, Place
<1>8. Ended'
  <2>1. SUFFICES ASSUME event = "set", ~Mixed
                 PROVE  OwnLines' = {} /\ \A i \in DOMAIN commands' : commands'[i].of = None
    BY <1>1 DEF Core, Ended, Mixed, Ending, Terminal
  <2>2. \A i \in DOMAIN commands : commands[i].of = None
    BY <2>1 DEF Core, Ended
  <2> QED
    BY <1>2, <1>3, <1>5, <2>2
<1>9. Truthful'
  <2>1. SUFFICES ASSUME NEW i \in OwnLines'
                 PROVE  Says(lines'[i], thread[lock], store'[using'])
    BY <1>1, <1>3 DEF Truthful
  <2>2. PICK j \in DOMAIN kinds : /\ lines'[i].kind = kinds[j]
                                  /\ lines'[i].data = IF kinds[j] = "data" THEN d ELSE {}
    BY <1>3
  <2>3. SUFFICES ASSUME kinds[j] = "data" PROVE Says(lines'[i], thread[lock], store'[using'])
    BY <2>2 DEF Says
  <2>4. ~Chooses(kinds) /\ ~Clears(kinds)
    BY <2>3 DEF Chooses, Clears
  <2>5. Told(d) /\ UNCHANGED <<store, using>>
    BY <1>1, <2>3, <2>4 DEF Talks
  <2>6. Head1.op = thread[lock].pc /\ Head1.index = Place(lock)
    BY <1>2, <1>3
  <2> QED
    BY <2>2, <2>3, <2>5, <2>6 DEF Told, Says, Place
<1>10. \A t \in Threads : ToDo(t)' \subseteq ToDo(t)
  <2>1. Asks' \/ Declined' => Asks
    <3>1. Asks' => Asks
      BY <1>1, <1>5 DEF Asks
    <3>2. Declined' => Head1.of # None
      BY <1>3 DEF Declined
    <3>3. Head1.of # None => Asks
      BY <1>2 DEF Asks
    <3> QED
      BY <3>1, <3>2, <3>3
  <2> QED
    BY <1>1, <2>1 DEF ToDo, Pending
<1>11. \A t \in Threads : /\ ToDo(t) \subseteq Slots
                          /\ \A i \in ToDo(t) : store[using][i] \in thread[t].got
  BY PlaceFacts DEF Core, Untouched
<1>12. using \in Memories /\ store \in [Memories -> [Slots -> Messages \cup {None}]]
  BY DEF Types
<1>13. \A i \in Deletions' : i + 1 \in Deletions /\ commands'[i] = commands[i + 1] /\ i + 1 # 1
  BY <1>5 DEF Deletions
<1>14. \A i \in Deletions : commands[i].index \in Slots
  BY PlaceFacts
<1>15. ASSUME Clears(kinds)
       PROVE  /\ using' = using /\ 1 \in Deletions /\ Head1.op = "delete"
              /\ Head1.index # None
              /\ \A i \in Slots \ {Head1.index} : store'[using][i] = store[using][i]
              /\ \A q \in Memories, i \in Slots :
                   store'[q][i] = store[q][i] \/ (q = using /\ i = Head1.index)
              /\ store[using][Head1.index] \in Hands \cup failed
              /\ \A t \in Threads : Head1.index \notin ToDo(t)'
  <2>1. /\ using' = using /\ 1 \in Deletions /\ Head1.op = "delete" /\ Head1.index # None
        /\ store' = [store EXCEPT ![using][Head1.index] = None]
        /\ kinds = <<"ok">>
    BY <1>2, <1>15 DEF Clears, Deletions
  <2>2. /\ \A i \in Slots \ {Head1.index} : store'[using][i] = store[using][i]
        /\ \A q \in Memories, i \in Slots :
                   store'[q][i] = store[q][i] \/ (q = using /\ i = Head1.index)
    BY <1>12, <2>1
  <2>3. CASE Head1.of = None
    <3>1. store[using][Head1.index] \in failed
      BY <1>2, <2>1, <2>3 DEF Core, Orphans
    <3>2. store[using][Head1.index] \notin Hands
      BY <3>1 DEF Core, Held
    <3>3. \A t \in Threads : Head1.index \notin ToDo(t)
      BY <1>11, <3>2, HandsIn
    <3>4. \A t \in Threads : Head1.index \notin ToDo(t)'
      BY <1>10, <3>3
    <3> QED
      BY <2>1, <2>2, <3>1, <3>4
  <2>4. CASE Head1.of # None
    <3>1. store[using][Head1.index] \in thread[lock].got /\ lock \in Threads
      BY <1>2, <1>11, <2>1, <2>4
    <3>2. \A t \in Threads \ {lock} : Head1.index \notin ToDo(t)
      BY <1>11, <3>1 DEF Core, Held
    <3>3. \A t \in Threads : t = lock => Head1.index \notin ToDo(t)'
      <4>1. ~Asks'
        BY <1>2, <1>5, <2>4 DEF Asks
      <4>2. ~Declined'
        <5>1. \A i \in OwnLines' : lines'[i].kind # "busy"
          BY <1>3, <2>1
        <5> QED
          BY <1>3, <5>1 DEF Declined
      <4>3. /\ thread[lock] \in Thread /\ Knows(thread[lock]) /\ thread[lock].pc = "delete"
            /\ Head1.index = Understood(thread[lock].index)
        BY <1>2, <2>1, <2>4, <3>1, ThreadTyped DEF Place
      <4>4. \A i \in thread[lock].todo \ {thread[lock].index} : Understood(i) # Head1.index
        BY <2>1, <4>3, TakenForOne DEF Knows, Thread
      <4>5. \A t \in Threads : t = lock =>
              Pending(t)' = thread[lock].todo \ {thread[lock].index}
        BY <1>1, <1>2, <2>4, <4>1, <4>2, <4>3 DEF Pending
      <4> QED
        BY <4>4, <4>5 DEF ToDo
    <3>4. \A t \in Threads : Head1.index \notin ToDo(t)'
      BY <1>10, <3>2, <3>3
    <3> QED
      BY <2>1, <2>2, <3>1, <3>4, HandsIn
  <2> QED
    BY <2>3, <2>4
<1>16. ASSUME Chooses(kinds), using' # using
       PROVE  Deletions = {} /\ \A t \in Threads : ToDo(t) = {}
  <2>1. ~DeletionDue
    BY <1>16 DEF Chooses
  <2> QED
    BY <2>1 DEF DeletionDue, Deletions, ToDo, Pending
<1>17. CASE Clears(kinds)
  <2>1. Untouched'
    BY <1>1, <1>10, <1>11, <1>15, <1>17 DEF Untouched
  <2>2. Orphans'
    <3>1. ASSUME NEW i \in Deletions', commands'[i].of = None
          PROVE  store'[using'][commands'[i].index] \in failed'
      <4>1. i + 1 \in Deletions /\ commands'[i] = commands[i + 1] /\ i + 1 # 1
        BY <1>13
      <4>2. commands[i + 1].index # Head1.index /\ commands[i + 1].index \in Slots
        BY <1>2, <1>14, <1>15, <1>17, <4>1 DEF Core, Orphans
      <4> QED
        BY <1>1, <1>15, <1>17, <3>1, <4>1, <4>2 DEF Core, Orphans
    <3>2. ASSUME NEW i \in Deletions', NEW j \in Deletions',
                 commands'[i].index = commands'[j].index
          PROVE  i = j
      <4>1. i + 1 = j + 1
        BY <1>13, <3>2 DEF Core, Orphans
      <4>2. i \in 1..(n - 1) /\ j \in 1..(n - 1)
        BY <1>5 DEF Deletions
      <4> QED
        BY <1>5, <4>1, <4>2
    <3> QED
      BY <3>1, <3>2 DEF Orphans
  <2>3. Kept'
    <3>1. Stored \subseteq Stored' \cup Hands \cup failed
      <4>1. \A x \in Stored : \E q \in Memories, j \in Slots : x = store[q][j]
        BY DEF Stored
      <4>2. \A q \in Memories, j \in Slots : store'[q][j] \in Stored'
        BY DEF Stored
      <4> QED
        BY <1>15, <1>17, <4>1, <4>2
    <3>2. Hands' = Hands
      BY <1>1 DEF Hands
    <3> QED
      BY <1>1, <3>1, <3>2 DEF Core, Kept
  <2>4. Held'
    BY <1>1 DEF Core, Held, Hands
  <2> QED
    BY <1>7, <1>8, <1>9, <2>1, <2>2, <2>3, <2>4 DEF Core
<1>18. CASE ~Clears(kinds)
  <2>1. store' = store
    BY <1>1, <1>18 DEF Chooses, Talks
  <2>2. using' = using \/ (Deletions = {} /\ \A t \in Threads : ToDo(t) = {})
    BY <1>1, <1>16, <1>18 DEF Talks
  <2>3. Untouched'
    BY <1>1, <1>10, <1>11, <2>1, <2>2 DEF Untouched
  <2>4. Orphans'
    <3>1. \A i \in Deletions' : commands'[i].of = None =>
            store'[using'][commands'[i].index] \in failed'
      BY <1>1, <1>13, <2>1, <2>2 DEF Core, Orphans
    <3>2. ASSUME NEW i \in Deletions', NEW j \in Deletions',
                 commands'[i].index = commands'[j].index
          PROVE  i = j
      <4>1. i + 1 = j + 1
        BY <1>13, <3>2 DEF Core, Orphans
      <4>2. i \in 1..(n - 1) /\ j \in 1..(n - 1)
        BY <1>5 DEF Deletions
      <4> QED
        BY <1>5, <4>1, <4>2
    <3> QED
      BY <3>1, <3>2 DEF Orphans
  <2>5. Held' /\ Kept'
    BY <1>1, <2>1 DEF Core, Held, Kept, Hands, Stored
  <2> QED
    BY <1>7, <1>8, <1>9, <2>3, <2>4, <2>5 DEF Core
<1> QED
  BY <1>17, <1>18

----------------------------------------------------------------------------
(* A line is read *)

\* Which lines and which of those read are the waiting thread's.
LEMMA ReadFacts ==
  ASSUME Types, Types', Core, NEW l, Reading(l)
  PROVE  /\ lines # <<>> /\ 1 \in DOMAIN lines
         /\ \A i \in DOMAIN lines' : /\ i + 1 \in DOMAIN lines /\ i + 1 > 1
                                     /\ lines'[i] = lines[i + 1]
         /\ \A i \in OwnLines' : i + 1 \in OwnLines /\ lines'[i] = lines[i + 1]
         /\ For(l, lock) => 1 \in OwnLines /\ l = lines[1]
         /\ l.kind \notin Stray => l.of \in {None, lock}
         /\ \A i \in DOMAIN response' : \/ i \in DOMAIN response /\ response'[i] = response[i]
                                        \/ Hears(l) /\ response'[i] = l
         /\ \A i \in OwnRead' : \/ i \in OwnRead /\ response'[i] = response[i]
                                \/ 1 \in OwnLines /\ response'[i] = lines[1]
<1> DEFINE n == Len(lines)
           k == Len(response)
<1>1. /\ lines # <<>> /\ lines' = Tail(lines) /\ lock' = lock
      /\ l \in ReplyLine /\ l.of = lines[1].of /\ l.data = lines[1].data
      /\ l.kind \in {lines[1].kind, "spoilt"}
      /\ Hears(l) \/ Ignores
  BY DEF Reading
<1>2. /\ n \in Nat /\ n > 0 /\ DOMAIN lines = 1..n
      /\ DOMAIN lines' = 1..(n - 1) /\ \A i \in 1..(n - 1) : lines'[i] = lines[i + 1]
  BY <1>1, TailFacts, LinesFacts
<1>3. k \in Nat /\ DOMAIN response = 1..k
  BY LinesFacts
<1> HIDE DEF n, k
<1>4. \A i \in DOMAIN lines' : /\ i + 1 \in DOMAIN lines /\ i + 1 > 1
                               /\ lines'[i] = lines[i + 1]
  BY <1>2
<1>5. \A i \in OwnLines' : i + 1 \in OwnLines /\ lines'[i] = lines[i + 1]
  BY <1>1, <1>4 DEF OwnLines
<1>6. 1 \in DOMAIN lines /\ lines[1] \in ReplyLine
  BY <1>2, LinesFacts
<1>7. l.kind # "spoilt" => l = lines[1]
  BY <1>1, <1>6 DEF ReplyLine
<1>8. For(l, lock) => 1 \in OwnLines /\ l = lines[1]
  BY <1>6, <1>7 DEF For, OwnLines, Stray
<1>9. l.kind \notin Stray => l.of \in {None, lock}
  BY <1>6, <1>7 DEF Core, Waits, Stray
<1>10. \A i \in DOMAIN response' : \/ i \in DOMAIN response /\ response'[i] = response[i]
                                   \/ Hears(l) /\ response'[i] = l
  <2>1. CASE Ignores
    BY <2>1 DEF Ignores
  <2>2. CASE Hears(l)
    <3>1. response \in Seq(ReplyLine) /\ response' = Append(response, l)
      BY <2>2 DEF Types, Hears
    <3>2. /\ DOMAIN response' = 1..(k + 1) /\ response'[k + 1] = l
          /\ \A i \in 1..k : response'[i] = response[i]
      BY <1>1, <3>1 DEF k
    <3>3. \A i \in DOMAIN response' : i \in 1..k \/ i = k + 1
      BY <1>3, <3>2
    <3> QED
      BY <1>3, <2>2, <3>2, <3>3
  <2> QED
    BY <1>1, <2>1, <2>2
<1>11. \A i \in OwnRead' : \/ i \in OwnRead /\ response'[i] = response[i]
                           \/ 1 \in OwnLines /\ response'[i] = lines[1]
  BY <1>1, <1>8, <1>10 DEF OwnRead
<1> QED
  BY <1>1, <1>4, <1>5, <1>6, <1>8, <1>9, <1>10, <1>11

LEMMA CoreRead ==
  ASSUME Types, Types', Core, NEW l, Reading(l)
  PROVE  Core'
<1>1. /\ UNCHANGED <<lock, commands, store, using>>
      /\ UNCHANGED <<arrived, delivered, readers, failed>>
      /\ Hears(l) \/ Ignores
  BY DEF Reading
<1>2. /\ \A i \in DOMAIN lines' : /\ i + 1 \in DOMAIN lines /\ i + 1 > 1
                                  /\ lines'[i] = lines[i + 1]
      /\ \A i \in OwnLines' : i + 1 \in OwnLines /\ lines'[i] = lines[i + 1]
      /\ For(l, lock) => 1 \in OwnLines /\ l = lines[1]
      /\ l.kind \notin Stray => l.of \in {None, lock}
  BY ReadFacts
<1>3. /\ \A i \in DOMAIN response' : \/ i \in DOMAIN response /\ response'[i] = response[i]
                                     \/ Hears(l) /\ response'[i] = l
      /\ \A i \in OwnRead' : \/ i \in OwnRead /\ response'[i] = response[i]
                             \/ 1 \in OwnLines /\ response'[i] = lines[1]
  BY ReadFacts
<1>4. /\ lock # None => thread'[lock] = thread[lock]
      /\ LessToDo => Untouched'
      /\ Orphans' /\ Held' /\ Kept'
  <2>1. CASE thread' = thread
    <3>1. lock # None => thread'[lock] = thread[lock]
      BY <2>1
    <3>2. ASSUME LessToDo
          PROVE  Untouched'
      <4>1. \A u \in Threads : u # lock \/ thread[u].pc # "delete" => ToDo(u)' = ToDo(u)
        BY <1>1, <2>1 DEF ToDo, Pending
      <4>2. \A u \in Threads : ToDo(u)' \subseteq ToDo(u)
        BY <3>2, <4>1 DEF LessToDo
      <4> QED
        BY <1>1, <2>1, <4>2 DEF Core, Untouched
    <3>3. Orphans' /\ Held' /\ Kept'
      BY <1>1, <2>1 DEF Core, Orphans, Deletions, Held, Kept, Hands, Stored
    <3> QED
      BY <3>1, <3>2, <3>3
  <2>2. CASE Begins
    <3>0. PICK t \in Threads : \E r : /\ thread[t].pc = "idle" /\ r.pc = "start"
                                      /\ Turns(t, r) /\ Able(t, r)
      BY <2>2 DEF Begins
    <3>1. PICK r : /\ thread[t].pc = "idle" /\ r.pc = "start"
                   /\ Turns(t, r) /\ Able(t, r)
      BY <3>0
    <3>2. t # lock
      BY <3>1, ThreadFacts DEF Core, Waits, Ready
    <3> QED
      BY <1>1, <3>1, <3>2, TurnStays
  <2> QED
    BY <1>1, <2>1, <2>2 DEF Hears, Ignores
<1>5. lock # None <=> event # "none"
  BY DEF Core, Waits
<1>6. Waits'
  <2>1. lock = None <=> event' = "none"
    BY <1>1, <1>5 DEF Hears, Ignores
  <2>2. \A i \in DOMAIN commands : commands[i].of # None =>
          /\ i = Len(commands) /\ lock # None /\ commands[i].of = lock
          /\ commands[i].op = thread'[lock].pc /\ commands[i].index = Place(lock)'
    BY <1>1, <1>4 DEF Core, Waits, Place
  <2>3. \A i \in DOMAIN lines' : lines'[i].kind \notin Stray => lines'[i].of \in {None, lock}
    BY <1>2 DEF Core, Waits
  <2>4. lock # None => \A i \in DOMAIN response' :
          response'[i].kind \notin Stray => response'[i].of \in {None, lock}
    BY <1>2, <1>3 DEF Core, Waits
  <2>5. Answered' => commands = <<>>
    BY <1>2, <1>3 DEF Answered, Core, Waits
  <2>6. ASSUME NEW i \in OwnLines', NEW j \in OwnLines', i < j PROVE ~Ending(lines'[i])
    <3>1. i + 1 \in OwnLines /\ j + 1 \in OwnLines /\ lines'[i] = lines[i + 1]
      BY <1>2
    <3>2. i + 1 < j + 1
      BY <2>6 DEF OwnLines, Types
    <3> QED
      BY <3>1, <3>2 DEF Core, Waits
  <2>7. lock # None => thread'[lock].pc \in Ready
    BY <1>4 DEF Core, Waits
  <2> QED
    BY <1>1, <2>1, <2>2, <2>3, <2>4, <2>5, <2>6, <2>7 DEF Waits
<1>7. Ended'
  <2>1. SUFFICES ASSUME event' = "set"
                 PROVE  /\ response' # <<>> /\ Ending(response'[Len(response')])
                        /\ ~Mixed' => /\ OwnLines' = {}
                                      /\ \A i \in DOMAIN commands : commands[i].of = None
    BY <1>1 DEF Ended, Ending, Terminal
  <2>2. CASE Ignores
    <3>1. response' = response /\ event = "set"
      BY <2>1, <2>2 DEF Ignores
    <3>2. Mixed' = Mixed
      BY <3>1 DEF Mixed
    <3>3. OwnLines = {} => OwnLines' = {}
      BY <1>2
    <3> QED
      BY <3>1, <3>2, <3>3 DEF Core, Ended
  <2>3. CASE Hears(l)
    <3>1. Ending(l) /\ event = "waiting"
      BY <2>1, <2>3 DEF Hears
    <3>2. /\ Len(response') > 0 /\ response' # <<>> /\ response'[Len(response')] = l
          /\ Len(response') \in DOMAIN response'
      <4>1. response \in Seq(ReplyLine) /\ response' = Append(response, l) /\ l \in ReplyLine
        BY <2>3 DEF Types, Hears, Reading
      <4> QED
        BY <4>1
    <3>3. ASSUME ~Mixed'
          PROVE  OwnLines' = {} /\ \A i \in DOMAIN commands : commands[i].of = None
      <4>1. l.kind \notin Stray
        BY <3>1 DEF Ending, Terminal, Announces, Stray
      <4>2. l.of # None
        BY <3>2, <3>3, <4>1 DEF Mixed, Stray
      <4>3. For(l, lock)
        BY <1>2, <4>1, <4>2 DEF For
      <4>4. 1 \in OwnLines /\ Ending(lines[1])
        BY <1>2, <3>1, <4>3
      <4>5. \A i \in OwnLines' : i + 1 \in OwnLines /\ 1 < i + 1
        BY <1>1, <1>2 DEF OwnLines
      <4>6. OwnLines' = {}
        BY <4>4, <4>5 DEF Core, Waits
      <4>7. commands = <<>>
        BY <4>4 DEF Core, Waits, Answered
      <4> QED
        BY <4>6, <4>7
    <3> QED
      BY <3>1, <3>2, <3>3
  <2> QED
    BY <1>1, <2>2, <2>3
<1>8. Truthful'
  <2>1. \A i \in OwnLines' : Says(lines'[i], thread[lock], store[using])
    BY <1>2 DEF Core, Truthful
  <2>2. \A i \in OwnRead' : Says(response'[i], thread[lock], store[using])
    <3> TAKE i \in OwnRead'
    <3>1. CASE i \in OwnRead /\ response'[i] = response[i]
      BY <3>1 DEF Core, Truthful
    <3>2. CASE 1 \in OwnLines /\ response'[i] = lines[1]
      BY <3>2 DEF Core, Truthful
    <3> QED
      BY <1>3, <3>1, <3>2
  <2>3. OwnLines' # {} \/ OwnRead' # {} => lock # None
    BY <1>1 DEF OwnLines, OwnRead, For
  <2> QED
    BY <1>1, <1>4, <2>1, <2>2, <2>3 DEF Truthful
<1>9. Untouched'
  <2>1. Declined' => Declined
    <3>1. \A i \in OwnLines' : lines'[i].kind = "busy" => Declined
      BY <1>2 DEF Declined
    <3>2. \A i \in OwnRead' : response'[i].kind = "busy" => Declined
      BY <1>3 DEF Declined
    <3> QED
      BY <3>1, <3>2 DEF Declined
  <2>2. Asks' => Asks
    BY <1>1 DEF Asks
  <2>3. ASSUME NEW u \in Threads, u = lock PROVE ToDo(u)' \subseteq ToDo(u)
    <3>1. thread'[u] = thread[u]
      BY <1>4, <2>3, ThreadFacts
    <3> QED
      BY <1>1, <2>1, <2>2, <3>1 DEF ToDo, Pending
  <2> QED
    BY <1>4, <2>3 DEF LessToDo
<1> QED
  BY <1>4, <1>6, <1>7, <1>8, <1>9 DEF Core

----------------------------------------------------------------------------
(* A thread has its answer *)

\* An answer that is not mixed is the thread's own.
LEMMA OwnAnswer ==
  ASSUME Types, Core, event = "set", ~Mixed
  PROVE  /\ lock # None /\ lock \in Threads
         /\ Len(response) \in OwnRead /\ OwnLines = {}
         /\ \A i \in DOMAIN commands : commands[i].of = None
         /\ \A i \in DOMAIN response :
              response[i].kind \notin Stray => i \in OwnRead
<1>1. /\ response # <<>> /\ Ending(response[Len(response)]) /\ OwnLines = {}
      /\ \A i \in DOMAIN commands : commands[i].of = None
  BY DEF Core, Ended
<1>2. lock # None /\ lock \in Threads
  BY DEF Core, Waits, Types, Nobody
<1>3. ASSUME NEW i \in DOMAIN response, response[i].kind \notin Stray
      PROVE  i \in OwnRead
  <2>1. response[i].of \in {None, lock} /\ response[i].of # None
    BY <1>2, <1>3 DEF Core, Waits, Mixed, Stray
  <2> QED
    BY <1>2, <1>3, <2>1 DEF OwnRead, For
<1>4. Len(response) \in DOMAIN response
  <2>1. response \in Seq(ReplyLine)
    BY DEF Types
  <2> QED
    BY <1>1, <2>1
<1>5. response[Len(response)].kind \notin Stray
  BY <1>1 DEF Ending, Terminal, Announces, Stray
<1> QED
  BY <1>1, <1>2, <1>3, <1>4, <1>5

\* What it says is so.
LEMMA OwnData ==
  ASSUME Types, Core, event = "set", ~Mixed
  PROVE  /\ thread[lock].pc = "read" =>
              \A m \in Data \cap Messages : store[using][Understood(thread[lock].index)] = m
         /\ thread[lock].pc = "list" =>
              \A e \in Entries : e \in Slots \X Messages /\ store[using][e[1]] = e[2]
<1>1. \A x \in Data : \E i \in OwnRead : response[i].kind = "data" /\ x \in response[i].data
  <2>1. \A x \in Data : \E i \in DOMAIN response : response[i].kind = "data"
                                                   /\ x \in response[i].data
    BY DEF Data
  <2>2. \A i \in DOMAIN response : response[i].kind = "data" => i \in OwnRead
    BY OwnAnswer DEF Announces, Stray
  <2> QED
    BY <2>1, <2>2
<1>2. \A i \in OwnRead : Says(response[i], thread[lock], store[using])
  BY DEF Core, Truthful
<1>3. ASSUME thread[lock].pc = "read", NEW m \in Data \cap Messages
      PROVE  store[using][Understood(thread[lock].index)] = m
  BY <1>1, <1>2, <1>3 DEF Says
<1>4. ASSUME thread[lock].pc = "list", NEW e \in Entries
      PROVE  e \in Slots \X Messages /\ store[using][e[1]] = e[2]
  <2>1. e \in Data /\ e \in Slots \X Messages
    BY DEF Entries
  <2> QED
    BY <1>1, <1>2, <1>4, <2>1 DEF Says
<1> QED
  BY <1>3, <1>4

\* The places that a thread goes on to delete hold what it has read.
LEMMA GoesOn ==
  ASSUME Types, Core, NEW t \in Threads, NEW r, Return(t, r), ~Mixed, ~misplaced',
         r.pc = "delete"
  PROVE  \A i \in r.todo \cup {r.index} :
           Understood(i) # None => store[using][Understood(i)] \in r.got
<1>1. lock = t /\ event = "set" /\ Result(t, r)
  BY DEF Return
<1>2. \A i \in ToDo(t) : store[using][i] \in thread[t].got
  BY DEF Core, Untouched
<1>3. CASE Again(t, r)
  <2>1. Len(response) \in OwnRead /\ response[Len(response)].kind = "busy" /\ r = thread[t]
    BY <1>1, <1>3, OwnAnswer DEF Again
  <2>2. Declined
    BY <2>1 DEF Declined
  <2>3. r.todo \cup {r.index} \subseteq Pending(t)
    BY <2>1, <2>2 DEF Pending
  <2> QED
    BY <1>2, <2>1, <2>3 DEF ToDo
<1>4. CASE ReadsOne(t, r)
  <2>1. PICK m \in Data \cap Messages : r.got = {m}
    BY <1>4 DEF ReadsOne
  <2>2. store[using][Understood(r.index)] = m /\ r.todo = {}
    BY <1>1, <1>4, OwnData DEF ReadsOne
  <2> QED
    BY <2>1, <2>2
<1>5. CASE ReadsAll(t, r)
  <2>1. /\ r.index \in r.todo /\ r.got = {e[2] : e \in Decoded}
        /\ \A i \in r.todo : Understood(i) \in {None} \cup {e[1] : e \in Decoded}
    BY <1>5 DEF ReadsAll
  <2>2. \A e \in Decoded : store[using][e[1]] = e[2]
    BY <1>1, <1>5, OwnData DEF ReadsAll, Decoded
  <2>3. ASSUME NEW i \in r.todo, Understood(i) # None
        PROVE  store[using][Understood(i)] \in r.got
    <3>1. PICK e \in Decoded : Understood(i) = e[1]
      BY <2>1, <2>3
    <3> QED
      BY <2>1, <2>2, <3>1
  <2> QED
    BY <2>1, <2>3
<1>6. CASE Proceeds(t, r)
  <2>1. r.todo \cup {r.index} \subseteq Pending(t) /\ r.got = thread[t].got
    BY <1>6 DEF Proceeds, Pending
  <2> QED
    BY <1>2, <2>1 DEF ToDo
<1> QED
  BY <1>1, <1>3, <1>4, <1>5, <1>6 DEF Result, Leaves

\* A message that a thread takes in hand was in none.
LEMMA HandsReturn ==
  ASSUME Types, Types', Core, NEW t \in Threads, NEW r, Result(t, r), lock = t,
         \A m \in Messages : ~(readers'[m] > 1),
         UNCHANGED <<store, arrived>>
  PROVE  Held' /\ Kept' /\ failed \subseteq failed'
<1>1. thread'[t] = r /\ \A u \in Threads \ {t} : thread'[u] = thread[u]
  BY Turned DEF Result
<1>2. Stored' = Stored
  BY DEF Stored
<1>3. /\ \A u, v \in Threads : u # v => thread[u].got \cap thread[v].got = {}
      /\ Hands \cap failed = {} /\ Hands \cap delivered = {}
      /\ \A m \in Hands \cup failed \cup delivered : readers[m] > 0
  BY DEF Core, Held
<1>4. /\ \A u \in Threads : thread'[u].got \subseteq Hands'
      /\ \A m \in Hands' : \E u \in Threads : m \in thread'[u].got
  BY DEF Hands
<1>5. readers \in [Messages -> Nat] /\ readers' \in [Messages -> Nat]
  BY DEF Types
<1>6. CASE Again(t, r) \/ Proceeds(t, r)
  <2>1. HandsStay /\ r.got = thread[t].got
    BY <1>6 DEF Again, Proceeds
  <2>2. \A u \in Threads : thread'[u].got = thread[u].got
    BY <1>1, <2>1
  <2>3. Hands' = Hands
    BY <2>2 DEF Hands
  <2> QED
    BY <1>2, <2>1, <2>2, <2>3 DEF Core, Held, Kept, HandsStay
<1>7. CASE Leaves(t, r)
  <2> DEFINE got == thread[t].got
  <2>1. r.got = {} /\ readers' = readers
    BY <1>7 DEF Leaves, Gives, Result, Able, Knows
  <2>2. \/ failed' = failed \cup got /\ delivered' = delivered
        \/ delivered' = delivered \cup got /\ failed' = failed
    BY <1>7 DEF Leaves, Gives
  <2>3. \A m \in Hands' : \E u \in Threads \ {t} : m \in thread[u].got
    BY <1>1, <1>4, <2>1
  <2>4. \A m \in Hands' : m \in Hands /\ m \notin got
    BY <1>3, <2>3, HandsIn
  <2>5. \A m \in Hands : m \in Hands' \/ m \in got
    <3>1. \A u \in Threads \ {t} : thread[u].got \subseteq Hands'
      BY <1>1, <1>4
    <3> QED
      BY <3>1, HandsIn
  <2>6. got \subseteq Hands
    BY HandsIn
  <2> HIDE DEF got
  <2>7. Held'
    <3>1. \A u, v \in Threads : u # v => thread'[u].got \cap thread'[v].got = {}
      BY <1>1, <1>3, <2>1
    <3>2. Hands' \cap (failed' \cup delivered') = {}
      BY <1>3, <2>2, <2>4
    <3>3. \A m \in Hands' \cup failed' \cup delivered' : m \in Hands \cup failed \cup delivered
      BY <2>2, <2>4, <2>6
    <3> QED
      BY <1>3, <2>1, <3>1, <3>2, <3>3 DEF Held
  <2>8. Kept'
    BY <1>2, <2>2, <2>5 DEF Core, Kept
  <2> QED
    BY <2>2, <2>7, <2>8
<1>8. CASE ReadsOne(t, r) \/ ReadsAll(t, r)
  <2>1. /\ thread[t].pc # "delete" /\ HasRead(t, r.got)
        /\ failed' = failed /\ delivered' = delivered
    BY <1>8 DEF ReadsOne, ReadsAll
  <2>2. thread[t].got = {} /\ r.got \subseteq Messages
    BY <2>1, ThreadTyped DEF Result, Able, Thread
  <2>3. \A m \in Messages : readers'[m] = IF m \in r.got THEN readers[m] + 1 ELSE readers[m]
    BY <2>1, <1>5 DEF HasRead
  <2>4. \A m \in r.got : readers'[m] > 0 /\ m \notin Hands \cup failed \cup delivered
    BY <1>3, <1>5, <2>2, <2>3
  <2>5. \A m \in Hands' : m \in Hands \/ m \in r.got
    <3>1. \A u \in Threads : thread'[u].got \subseteq Hands \cup r.got
      BY <1>1, HandsIn
    <3> QED
      BY <1>4, <3>1
  <2>6. \A m \in Hands : m \in Hands'
    <3>1. \A u \in Threads : thread[u].got \subseteq Hands'
      BY <1>1, <1>4, <2>2
    <3> QED
      BY <3>1, HandsIn
  <2>7. Held'
    <3>1. \A u, v \in Threads : u # v => thread'[u].got \cap thread'[v].got = {}
      <4> TAKE u, v \in Threads
      <4>1. SUFFICES ASSUME u # v PROVE thread'[u].got \cap thread'[v].got = {}
        OBVIOUS
      <4>2. CASE u # t /\ v # t
        BY <1>1, <1>3, <4>1, <4>2
      <4>3. CASE u = t
        BY <1>1, <2>4, <4>1, <4>3, HandsIn
      <4>4. CASE v = t
        BY <1>1, <2>4, <4>1, <4>4, HandsIn
      <4> QED
        BY <4>2, <4>3, <4>4
    <3>2. Hands' \cap (failed' \cup delivered') = {}
      BY <1>3, <2>1, <2>4, <2>5
    <3>3. \A m \in Hands' \cup failed' \cup delivered' : readers'[m] > 0
      <4> TAKE m \in Hands' \cup failed' \cup delivered'
      <4>1. CASE m \in r.got
        BY <2>4, <4>1
      <4>2. CASE m \notin r.got
        <5>1. m \in Hands \cup failed \cup delivered
          BY <2>1, <2>5, <4>2
        <5>2. m \in Messages
          BY <5>1, HandsIn DEF Types
        <5> QED
          BY <1>3, <2>3, <4>2, <5>1, <5>2
      <4> QED
        BY <4>1, <4>2
    <3> QED
      BY <3>1, <3>2, <3>3 DEF Held
  <2>8. Kept'
    BY <1>2, <2>1, <2>6 DEF Core, Kept
  <2> QED
    BY <2>1, <2>7, <2>8
<1> QED
  BY <1>6, <1>7, <1>8 DEF Result

LEMMA CoreReturn ==
  ASSUME Types, Types', Core, NEW t \in Threads, NEW r, Return(t, r), ~Excused'
  PROVE  Core'
<1>1. /\ lock = t /\ event = "set" /\ lock' = None /\ event' = "none"
      /\ mixed' = (mixed \/ Mixed) /\ Result(t, r)
      /\ UNCHANGED <<response, commands, lines, store, using, arrived>>
  BY DEF Return
<1>2. ~Mixed /\ ~misplaced' /\ \A m \in Messages : ~(readers'[m] > 1)
  BY <1>1 DEF Excused
<1>3. OwnLines = {} /\ \A i \in DOMAIN commands : commands[i].of = None
  BY <1>1, <1>2, OwnAnswer
<1>4. OwnLines' = {} /\ OwnRead' = {}
  BY <1>1 DEF OwnLines, OwnRead, For
<1>5. thread'[t] = r /\ \A u \in Threads \ {t} : thread'[u] = thread[u]
  BY <1>1, Turned DEF Result
<1>6. Held' /\ Kept' /\ failed \subseteq failed'
  BY <1>1, <1>2, HandsReturn
<1>7. Waits'
  <2>1. \A i \in DOMAIN lines :
          lines[i].kind \notin Stray => lines[i].of = None
    BY <1>1, <1>3, ThreadFacts DEF Core, Waits, OwnLines, For
  <2> QED
    BY <1>1, <1>3, <1>4, <2>1 DEF Waits, Answered
<1>8. Ended' /\ Truthful'
  BY <1>1, <1>4 DEF Ended, Truthful
<1>9. Untouched'
  <2>1. \A u \in Threads \ {t} : lock # u /\ lock' # u
    BY <1>1, ThreadFacts
  <2>2. \A u \in Threads \ {t} : ToDo(u)' = ToDo(u)
    BY <1>5, <2>1 DEF ToDo, Pending
  <2>3. ASSUME NEW i \in ToDo(t)' PROVE store[using][i] \in r.got
    <3>1. /\ r.pc = "delete" /\ i # None
          /\ \E j \in r.todo \cup {r.index} : i = Understood(j)
      BY <1>5 DEF ToDo, Pending
    <3> QED
      BY <1>2, <3>1, GoesOn
  <2> QED
    BY <1>1, <1>5, <2>2, <2>3 DEF Core, Untouched
<1>10. Orphans'
  BY <1>1, <1>6 DEF Core, Orphans, Deletions
<1> QED
  BY <1>6, <1>7, <1>8, <1>9, <1>10 DEF Core

----------------------------------------------------------------------------
(* No message is lost *)

\* What excuses a loss lasts.
LEMMA ExcusedStays ==
  ASSUME Types, [Next]_vars, Excused
  PROVE  Excused'
<1>1. SUFFICES /\ mixed => mixed'
               /\ switched => switched'
               /\ misplaced => misplaced'
               /\ \A m \in Messages : readers'[m] >= readers[m]
  <2>1. readers \in [Messages -> Nat] /\ readers' \in [Messages -> Nat]
    BY TypesNext DEF Types
  <2> QED
    BY <2>1 DEF Excused
<1> DEFINE Goal == /\ mixed => mixed'
                   /\ switched => switched'
                   /\ misplaced => misplaced'
                   /\ \A m \in Messages : readers'[m] >= readers[m]
<1>2. ASSUME UNCHANGED <<mixed, switched, misplaced, readers>> PROVE Goal
  BY <1>2 DEF Types
<1>3. ASSUME UNCHANGED vars PROVE Goal
  BY <1>2, <1>3 DEF vars, ghosts
<1>4. ASSUME NEW m \in Messages, NEW k \in Memories, NEW i \in Slots, Arrive(m, k, i)
      PROVE  Goal
  BY <1>2, <1>4 DEF Arrive
<1>5. ASSUME Execute \/ Declines \/ StaysSilent PROVE Goal
  <2>1. PICK kinds \in Replies, d \in SUBSET Written : ModemStep(kinds, d)
    BY <1>5, ModemSteps
  <2>2. mixed' = mixed /\ misplaced' = misplaced /\ readers' = readers
    BY <2>1 DEF ModemStep
  <2>3. Chooses(kinds) \/ Clears(kinds) \/ Talks(kinds, d)
    BY <2>1 DEF ModemStep
  <2>4. switched => switched'
    BY <2>3, Zenon DEF Chooses, Clears, Talks
  <2> QED
    BY <2>2, <2>4 DEF Types
<1>6. ASSUME ReadLine PROVE Goal
  BY <1>2, <1>6 DEF ReadLine, ghosts
<1>7. ASSUME NEW t \in Threads, Write(t) PROVE Goal
  BY <1>2, <1>7 DEF Write, ghosts
<1>8. ASSUME NEW t \in Threads, Returned(t) PROVE Goal
  <2>1. PICK r : Return(t, r)
    BY <1>8, ReturnSteps
  <2> QED
    BY <2>1, HandsTyped DEF Return
<1>9. ASSUME NEW t \in Threads, TimedOut(t) PROVE Goal
  BY <1>2, <1>9, LeavingStep DEF Leaving
<1>10. ASSUME NEW t \in Threads, NEW r, Calm(t, r) PROVE Goal
  BY <1>2, <1>10 DEF Calm, ghosts
<1> HIDE DEF Goal
<1>11. Goal
  BY <1>3, <1>4, <1>5, <1>6, <1>7, <1>8, <1>9, <1>10, StepForms
<1> QED
  BY <1>11 DEF Goal

LEMMA CoreNext ==
  ASSUME Types, Core, [Next]_vars, ~Excused'
  PROVE  Core'
<1>1. Types'
  BY TypesNext
<1>2. ASSUME UNCHANGED vars PROVE Core'
  <2>1. /\ UNCHANGED <<thread, lock, event, response, commands, lines, store, using>>
        /\ UNCHANGED <<arrived, delivered, readers, failed>>
    BY <1>2 DEF vars, host, modem, ghosts
  <2>2. OwnLines' = OwnLines /\ OwnRead' = OwnRead
    BY <2>1 DEF OwnLines, OwnRead
  <2>3. Waits' /\ Ended' /\ Truthful'
    BY <2>1, <2>2 DEF Core, Waits, Place, Ended, Truthful, Answered, Mixed, Ending, Terminal
  <2>4. \A t \in Threads : ToDo(t)' = ToDo(t)
    BY <2>1, <2>2 DEF ToDo, Pending, Asks, Declined
  <2>5. Untouched' /\ Orphans' /\ Held' /\ Kept'
    BY <2>1, <2>4 DEF Core, Untouched, Orphans, Deletions, Held, Kept, Hands, Stored
  <2> QED
    BY <2>3, <2>5 DEF Core
<1>3. ASSUME NEW m \in Messages, NEW k \in Memories, NEW i \in Slots, Arrive(m, k, i)
      PROVE  Core'
  BY <1>1, <1>3, ComesStep, CoreComes
<1>4. ASSUME Execute \/ Declines \/ StaysSilent PROVE Core'
  <2>1. PICK kinds \in Replies, d \in SUBSET Written : ModemStep(kinds, d)
    BY <1>4, ModemSteps
  <2>2. ~switched'
    BY DEF Excused
  <2> QED
    BY <1>1, <2>1, <2>2, CoreModem
<1>5. ASSUME ReadLine PROVE Core'
  <2>1. PICK l : Reading(l)
    BY <1>5, ReadingStep
  <2> QED
    BY <1>1, <2>1, CoreRead
<1>6. ASSUME NEW t \in Threads, Write(t) PROVE Core'
  BY <1>1, <1>6, WritingStep, CoreWrite
<1>7. ASSUME NEW t \in Threads, Returned(t) PROVE Core'
  <2>1. PICK r : Return(t, r)
    BY <1>7, ReturnSteps
  <2> QED
    BY <1>1, <2>1, CoreReturn
<1>8. ASSUME NEW t \in Threads, TimedOut(t) PROVE Core'
  BY <1>1, <1>8, CoreLeaving
<1>9. ASSUME NEW t \in Threads, NEW r, Calm(t, r) PROVE Core'
  BY <1>1, <1>9, CoreCalm
<1> QED
  BY <1>2, <1>3, <1>4, <1>5, <1>6, <1>7, <1>8, <1>9, StepForms

LEMMA InitCore == Init => Core
<1> SUFFICES ASSUME Init PROVE Core
  OBVIOUS
<1>1. /\ lock = None /\ event = "none" /\ response = <<>> /\ commands = <<>> /\ lines = <<>>
      /\ arrived = {} /\ delivered = {} /\ failed = {}
      /\ \A t \in Threads : thread[t] = Idle
  BY DEF Init
<1>2. OwnLines = {} /\ OwnRead = {} /\ Deletions = {}
  BY <1>1 DEF OwnLines, OwnRead, Deletions
<1>3. Waits
  BY <1>1, <1>2 DEF Waits, Answered
<1>4. Ended /\ Truthful /\ Orphans
  BY <1>1, <1>2 DEF Ended, Truthful, Orphans
<1>5. \A t \in Threads : thread[t].got = {} /\ ToDo(t) = {}
  BY <1>1, IdleTyped DEF ToDo, Pending
<1>6. Hands = {}
  BY <1>5 DEF Hands
<1>7. Untouched /\ Held /\ Kept
  BY <1>1, <1>5, <1>6 DEF Untouched, Held, Kept
<1> QED
  BY <1>3, <1>4, <1>7 DEF Core

\* The variables hold what they are meant to: a thread that goes on to a place of
\* the modem knows the place, the reading thread was told it by an announcement
\* (modem.py:995, 1015), and only a thread that deletes has read something.
THEOREM TypesHold == Spec => []Types
<1>1. Types /\ [Next]_vars => Types'
  BY TypesNext
<1> QED
  BY <1>1, InitTypes, PTL DEF Spec

LEMMA InvHolds == Spec => []Inv
<1>1. Init => Inv
  BY InitTypes, InitCore DEF Inv
<1>2. Inv /\ [Next]_vars => Inv'
  <2> SUFFICES ASSUME Inv, [Next]_vars PROVE Inv'
    OBVIOUS
  <2>1. Types'
    BY TypesNext DEF Inv
  <2>2. CASE Excused
    BY <2>1, <2>2, ExcusedStays DEF Inv
  <2>3. CASE Core
    BY <2>1, <2>3, CoreNext DEF Inv
  <2> QED
    BY <2>2, <2>3 DEF Inv
<1> QED
  BY <1>1, <1>2, PTL DEF Spec

\* No message is lost, for any threads, places, messages and faults: without a mixed
\* answer, a memory switched between a read and a deletion, a place taken for another
\* one and a second reader, what is to be deleted has been read, and it is given away
\* or the call raised (modem.py:842, 1009, 1020, 1104).
THEOREM NoMessageLost == Spec => []NoneLost
<1>1. Inv => NoneLost
  <2>1. Kept => NoneLost
    <3>1. Kept => arrived \subseteq Stored \cup delivered \cup failed
                                     \cup UNION {thread[t].got : t \in Threads}
      BY DEF Kept, Hands
    <3> QED
      BY <3>1, Zenon DEF NoneLost
  <2>2. Excused => NoneLost
    BY DEF Excused, NoneLost
  <2> QED
    BY <2>1, <2>2 DEF Inv, Core
<1> QED
  BY <1>1, InvHolds, PTL

\* Places that are written with one digit, of messages that can all be decoded, are
\* never taken for others (modem.py:842, 1104).
THEOREM NothingMisplaced ==
  ASSUME Slots \subseteq 0..9, Undecodable = {}
  PROVE  Spec => []~misplaced
<1>1. \A i \in Slots : Understood(i) \in {i, None}
  <2>1. \A i \in 0..9 : (10 * (i \div 16)) + (i % 16) = i
    OBVIOUS
  <2> QED
    BY <2>1 DEF Understood
<1>2. ~Misplaces
  <2>1. Entries \subseteq Slots \X Messages /\ Decoded = Entries
    BY DEF Entries, Decoded
  <2>2. ASSUME NEW e \in Decoded PROVE PlaceOf(e, Entries) = e[1]
    <3> DEFINE before == {f[1] : f \in {f \in Entries :
                 /\ f[1] <= e[1]
                 /\ \A g \in Entries : f[1] <= g[1] /\ g[1] < e[1] => g[2] \in Undecodable}}
    <3>1. \A f \in Entries : f[1] \in 0..9
      BY <2>1
    <3>2. \A x, y \in 0..9 : x <= x /\ ~(x <= y /\ y < x) /\ (x <= y /\ ~(x < y) => x = y)
      OBVIOUS
    <3>3. before = {e[1]}
      BY <2>1, <3>1, <3>2
    <3>4. PlaceOf(e, Entries) = Min(before)
      BY DEF PlaceOf
    <3> HIDE DEF before
    <3>5. e[1] \in Nat
      BY <2>1, <3>1
    <3> QED
      BY <3>3, <3>4, <3>5, MinIn
  <2>3. \A e \in Decoded : e[1] \in Slots
    BY <2>1
  <2> QED
    BY <1>1, <2>2, <2>3 DEF Misplaces
<1>3. Init => ~misplaced
  BY DEF Init
<1>4. ~misplaced /\ [Next]_vars => ~misplaced'
  <2> SUFFICES ASSUME ~misplaced, [Next]_vars PROVE ~misplaced'
    OBVIOUS
  <2>1. CASE \E t \in Threads : Returned(t)
    BY <1>2, <2>1 DEF Returned
  <2>2. CASE \E t \in Threads : TimedOut(t)
    BY <2>2 DEF TimedOut
  <2>3. CASE UNCHANGED ghosts
    BY <2>3 DEF ghosts
  <2>4. CASE Execute \/ \E m \in Messages, k \in Memories, i \in Slots : Arrive(m, k, i)
    BY <2>4 DEF Execute, Arrive
  <2>5. CASE Declines \/ StaysSilent \/ ReadLine \/ HandleUssd
    BY <2>3, <2>5 DEF Declines, StaysSilent, ReadLine, HandleUssd
  <2>6. CASE \E t \in Threads : Write(t) \/ BeginRead(t) \/ EndsSession(t) \/ EndsReport(t)
    BY <2>3, <2>6 DEF Write, BeginRead, EndsSession, EndsReport
  <2>7. CASE \E t \in Apps, call \in Calls : Call(t, call)
    BY <2>3, <2>7 DEF Call
  <2>8. CASE UNCHANGED vars
    BY <2>3, <2>8 DEF vars
  <2> QED
    BY <2>1, <2>2, <2>4, <2>5, <2>6, <2>7, <2>8 DEF Next, Works
<1> QED
  BY <1>3, <1>4, PTL DEF Spec

\* As long as nothing excuses a loss: an answer is taken for that of its own
\* command, what it tells of the memory is so when it is acted on, a deletion
\* clears a place whose message was read and never one that came later, and a
\* message is in one hand.
THEOREM DeletesWhatWasRead ==
  Spec => [](~Excused => Waits /\ Truthful /\ Untouched /\ Orphans /\ Held)
<1>1. Inv => (~Excused => Waits /\ Truthful /\ Untouched /\ Orphans /\ Held)
  BY DEF Inv, Core
<1> QED
  BY <1>1, InvHolds, PTL
=============================================================================
