---------------------------- MODULE SmsReceiver ----------------------------
(***************************************************************************)
(* Incoming SMS (zte.py worker, recieve_loop, handle; the drivers          *)
(* sms/zte.py and sms/smstools.py): every INTERVAL the process smser       *)
(* starts a task for every gate that receives, waits for all of them and   *)
(* begins again.  A task takes the unread texts, which the driver marks as *)
(* read (or moves to the readbox) before the task sees them, checks the    *)
(* device each of them proves, and empties a modem that is nearly full.    *)
(*                                                                         *)
(* The drivers block: from one wait for the database to the next a task    *)
(* lets no other run.  The mobile network and a kill do not wait for that. *)
(*                                                                         *)
(* Left out: the collection sms_received, which only statistics read, and  *)
(* the order of the texts, which tells none from another.                  *)
(***************************************************************************)
EXTENDS Integers, FiniteSets

CONSTANTS
  Modems,        \* gates of the driver zte: texts lie in a bounded memory
  Spools,        \* gates of the driver smstools: texts are files
  AnyText,       \* the gates that take any text as a proof
  Flaky,         \* the gates whose calls may fail for ever
  Texts,         \* texts of users
  Replies,       \* texts the modems send, which lie in their memory too
  GateOf,        \* the gate a text comes to, or goes out by
  Broken,        \* files the driver raises on
  Garbled,       \* files of which it gets no bytes
  Devices,
  Phone, From,   \* the phone of a device, of a text
  Waits,         \* sms_waited of a device
  Code,          \* the code in a text, None without one
  None,
  Cap,           \* messages a modem holds
  Drafts,        \* drafts among them, which nobody deletes
  OnSim, SimCap, \* messages on the SIM of a modem, and how many it holds
  Chunk,         \* messages deleted by one call, 50
  MaxFaults      \* bound: kills and failures, those of Flaky aside

Gates == Modems \cup Spools
Messages == Texts \cup Replies

ASSUME GatesAssumption ==
  /\ IsFiniteSet(Messages) /\ IsFiniteSet(Gates)
  /\ Modems \cap Spools = {} /\ Texts \cap Replies = {}
  /\ AnyText \subseteq Gates /\ Flaky \subseteq Gates
  /\ GateOf \in [Messages -> Gates]
  /\ \A m \in Replies : GateOf[m] \in Modems
  /\ Broken \subseteq Texts /\ Garbled \subseteq Texts /\ None \notin Texts
  /\ \A m \in Broken \cup Garbled : GateOf[m] \in Spools
ASSUME BoundAssumption ==
  /\ Cap \in Nat \ {0} /\ Chunk \in Nat \ {0} /\ MaxFaults \in Nat
  /\ Drafts \in 0..(Cap - 1) /\ SimCap \in Nat /\ OnSim \in 0..SimCap
ASSUME DevicesAssumption == DOMAIN From = Texts /\ DOMAIN Code = Texts

VARIABLES
  place,     \* where a message is
  loop,      \* recieve_loop
  numbers,   \* the numbers to text in collection numbers, and get_numbers
  pc,        \* worker, by gate
  todo,      \* what unread gave it and is not handled yet
  ids,       \* files to look at; or messages clean has listed
  text,      \* the file whose words the local `text` of smstools.unread has
  says,      \* the text whose words the driver took for those of a text
  seen,      \* devices seen within the time of anytext
  checked,   \* devices that are checked
  taken,     \* history: how often a text was handled
  refused,   \* history: how often a modem refused to mark a text as read
  dropped,   \* history: texts lost to a fault, a kill or clean
  faults

files == <<text, says>>
process == <<loop, pc, todo, ids, files>>
database == <<seen, checked>>
history == <<taken, refused, dropped>>
vars == <<place, numbers, process, database, history, faults>>

Places == {"away", "unread", "read", "sent", "gone"}
Steps == {"idle", "unread", "file", "mark", "handle", "capacity", "clean",
          "markall", "sent", "delete"}

TypeOK ==
  /\ place \in [Messages -> Places]
  /\ loop \in {"down", "wait", "sleep"}
  /\ numbers \in {"old", "none", "set"}
  /\ pc \in [Gates -> Steps]
  /\ todo \in [Gates -> SUBSET Texts]
  /\ ids \in [Gates -> SUBSET Messages]
  /\ text \in [Gates -> Texts \cup {None}] /\ says \in [Texts -> Texts]
  /\ seen \subseteq Devices /\ checked \subseteq Devices
  /\ taken \in [Texts -> Nat] /\ refused \in [Texts -> Nat]
  /\ dropped \subseteq Texts
  /\ faults \in 0..MaxFaults

Init ==
  /\ place = [m \in Messages |-> "away"]
  /\ loop = "down" /\ numbers = "old"
  /\ pc = [g \in Gates |-> "idle"]
  /\ todo = [g \in Gates |-> {}]
  /\ ids = [g \in Gates |-> {}]
  /\ text = [g \in Gates |-> None] /\ says = [m \in Texts |-> m]
  /\ seen = {} /\ checked = {}
  /\ taken = [m \in Texts |-> 0] /\ refused = [m \in Texts |-> 0]
  /\ dropped = {} /\ faults = 0

At(g, p) == {m \in Messages : GateOf[m] = g /\ place[m] \in p}

Stored(g) == Cardinality(At(g, {"unread", "read", "sent"})) + Drafts

\* What capacity counts, in both memories, and the larger of them.
Total(g) == Stored(g) + OnSim
MostHeld == IF SimCap > Cap THEN SimCap ELSE Cap

----------------------------------------------------------------------------
(* Phones, the mobile network, the portal *)

HasRoom(g) == g \in Spools \/ Stored(g) < Cap

\* A text comes in; the network keeps it while the modem is full.
Comes(m) ==
  /\ place[m] = "away" /\ HasRoom(GateOf[m])
  /\ place' = [place EXCEPT ![m] = "unread"]
  /\ UNCHANGED <<numbers, process, database, history, faults>>

\* send_loop hands a text to the modem, which keeps it.
Sends(m) ==
  /\ place[m] = "away" /\ HasRoom(GateOf[m]) /\ loop # "down"
  /\ place' = [place EXCEPT ![m] = "sent"]
  /\ UNCHANGED <<numbers, process, database, history, faults>>

\* A device is at the portal, or has not been for the time of anytext.
Visits(d) ==
  /\ d \notin seen /\ seen' = seen \cup {d}
  /\ UNCHANGED <<place, numbers, process, checked, history, faults>>

Forgotten(d) ==
  /\ d \in seen /\ d \notin checked /\ seen' = seen \ {d}
  /\ UNCHANGED <<place, numbers, process, checked, history, faults>>

----------------------------------------------------------------------------
(* recieve_loop and get_numbers *)

\* setup_loop: the tasks are made; get_numbers deletes the numbers first.
Start ==
  /\ loop = "down" /\ loop' = "sleep" /\ numbers' = "none"
  /\ UNCHANGED <<place, pc, todo, ids, files, database, history, faults>>

InsertNumbers ==
  /\ loop # "down" /\ numbers = "none" /\ numbers' = "set"
  /\ UNCHANGED <<place, process, database, history, faults>>

\* A task for every gate.
Round ==
  /\ loop = "sleep" /\ loop' = "wait"
  /\ pc' = [g \in Gates |-> "unread"]
  /\ UNCHANGED <<place, numbers, todo, ids, files, database, history, faults>>

\* mutant: until the gates have nothing left
RoundDoneEmpty == \A g \in Gates : pc[g] = "idle" /\ At(g, {"unread"}) = {}
RoundDone == \A g \in Gates : pc[g] = "idle"

\* asyncio.wait is over, the loop sleeps.
Waited ==
  /\ loop = "wait" /\ RoundDone /\ loop' = "sleep"
  /\ UNCHANGED <<place, numbers, pc, todo, ids, files, database, history, faults>>

----------------------------------------------------------------------------
(* worker *)

Faulty == faults < MaxFaults /\ faults' = faults + 1
CallFaulty(g) == IF g \in Flaky THEN UNCHANGED faults ELSE Faulty

\* The steps before which a task gives way to the others.
Yields == {"idle", "unread", "handle"}
Runs(g, step) ==
  /\ loop # "down" /\ pc[g] = step
  /\ \A o \in Gates \ {g} : pc[o] \in Yields

Goes(g, step) == pc' = [pc EXCEPT ![g] = step]

\* sms/zte.py messages(tags=1), sms/smstools.py unread: what there is to read.
Unread(g) ==
  LET new == At(g, {"unread"})
  IN  /\ Runs(g, "unread")
      /\ IF g \in Modems
         THEN /\ todo' = [todo EXCEPT ![g] = new]
              /\ Goes(g, IF new = {} THEN "capacity" ELSE "mark")
              /\ UNCHANGED ids
         ELSE /\ ids' = [ids EXCEPT ![g] = new]
              /\ Goes(g, "file")
              /\ UNCHANGED todo
      /\ UNCHANGED <<place, numbers, loop, files, database, history, faults>>

MarkedNone(g) == place                              \* mutant: not marked
\* mutant: whatever is unread by now
MarkedNew(g) ==
  [m \in Messages |-> IF m \in At(g, {"unread"}) THEN "read" ELSE place[m]]
Marked(g) == [m \in Messages |-> IF m \in todo[g] THEN "read" ELSE place[m]]

\* sms/zte.py mark_read: the texts are read before anybody has looked at them.
\* A modem that answers, and refuses, leaves them unread: messages does not look
\* at the answer and gives them to the worker all the same.
MarkRead(g) ==
  /\ Runs(g, "mark") /\ Goes(g, "handle")
  /\ \/ place' = Marked(g) /\ UNCHANGED <<refused, faults>>
     \/ /\ Faulty /\ UNCHANGED place
        /\ refused' = [m \in Texts |->
                         refused[m] + IF m \in todo[g] THEN 1 ELSE 0]
  /\ UNCHANGED <<numbers, loop, todo, ids, files, database, taken, dropped>>

\* One file of the spool, parsed and then moved to the readbox.  The payload of
\* a garbled one is no bytes: `text` is still that of the file before it.
TakeFile(g) ==
  /\ Runs(g, "file")
  /\ \E m \in ids[g] \ Broken :
       LET words == IF m \in Garbled THEN text[g] ELSE m
       IN  /\ words # None
           /\ text' = [text EXCEPT ![g] = words]
           /\ says' = [says EXCEPT ![m] = words]
           /\ ids' = [ids EXCEPT ![g] = @ \ {m}]
           /\ todo' = [todo EXCEPT ![g] = @ \cup {m}]
           /\ place' = [place EXCEPT ![m] = "read"]
  /\ UNCHANGED <<numbers, loop, pc, database, history, faults>>

\* A file that could not be parsed stays, and the others are taken.
SkipFile(g) ==
  /\ Runs(g, "file") /\ CallFaulty(g)
  /\ \E m \in ids[g] : ids' = [ids EXCEPT ![g] = @ \ {m}]
  /\ UNCHANGED <<place, numbers, loop, pc, todo, files, database, history>>

NoMoreFiles(g) ==
  /\ Runs(g, "file") /\ ids[g] = {}
  /\ Goes(g, IF todo[g] = {} THEN "capacity" ELSE "handle")
  /\ text' = [text EXCEPT ![g] = None]
  /\ UNCHANGED <<place, numbers, loop, todo, ids, says, database, history, faults>>

ProvedByAny(g, m) == {d \in Devices : Phone[d] = From[m]}
                                          \* mutant: neither code nor time
\* The devices a text proves: of its phone, waiting for the code it says; or, at
\* a gate that takes any text, seen of late.
Proved(g, m) ==
  {d \in Devices :
     /\ Phone[d] = From[m]
     /\ LET said == Code[says[m]]
        IN  \/ said # None /\ Waits[d] = said
            \/ said = None /\ g \in AnyText /\ d \in seen}

\* find_one_and_update: one of them is checked, which is not necessarily one
\* that was not.
Checks(g, m) ==
  IF Proved(g, m) = {} THEN UNCHANGED checked
  ELSE \E d \in Proved(g, m) : checked' = checked \cup {d}

\* After the last text the task goes on at once.
Handle(g) ==
  /\ Runs(g, "handle")
  /\ \E m \in todo[g] :
       /\ Checks(g, m)
       /\ taken' = [taken EXCEPT ![m] = @ + 1]
       /\ todo' = [todo EXCEPT ![g] = @ \ {m}]
       /\ IF todo[g] = {m} THEN Goes(g, "capacity") ELSE UNCHANGED pc
  /\ UNCHANGED <<place, numbers, loop, ids, files, seen, refused, dropped, faults>>

----------------------------------------------------------------------------
(* capacity and clean *)

\* mutant: the factor 0.8 is lost
NearlyFullPast(g) == Total(g) > MostHeld
\* total > capacity * 0.8
NearlyFull(g) == 5 * Total(g) > 4 * MostHeld

\* The spool holds 65256 files, which is not reached, and is never cleaned.
Capacity(g) ==
  /\ Runs(g, "capacity")
  /\ Goes(g, IF g \in Modems /\ NearlyFull(g) THEN "clean" ELSE "idle")
  /\ UNCHANGED <<place, numbers, loop, todo, ids, files, database, history, faults>>

\* messages(tags=10): what the modem itself (mem_store=1) has received, read or
\* not.
ListReceived(g) ==
  LET received_ == At(g, {"unread", "read"})
  IN  /\ Runs(g, "clean")
      /\ ids' = [ids EXCEPT ![g] = received_]
      /\ Goes(g, IF received_ = {} THEN "sent" ELSE "markall")
      /\ UNCHANGED <<place, numbers, loop, todo, files, database, history, faults>>

\* What was unread and is so no more is lost without having been looked at.
Drops(S) == dropped' = dropped \cup
                         {m \in S : place[m] = "unread" /\ place'[m] # "unread"}

\* messages marks everything it lists; what came since unread is among it.
MarkAll(g) ==
  /\ Runs(g, "markall") /\ Goes(g, "sent")
  /\ \/ /\ place' = [m \in Messages |-> IF m \in ids[g] THEN "read" ELSE place[m]]
        /\ UNCHANGED faults
     \/ Faulty /\ UNCHANGED place                    \* refused
  /\ Drops(ids[g])
  /\ UNCHANGED <<numbers, loop, todo, ids, files, database, taken, refused>>

\* messages(tags=2); marking what was sent changes nothing.
ListSent(g) ==
  /\ Runs(g, "sent") /\ Goes(g, "delete")
  /\ ids' = [ids EXCEPT ![g] = @ \cup At(g, {"sent"})]
  /\ UNCHANGED <<place, numbers, loop, todo, files, database, history, faults>>

\* delete, by Chunk messages; here too the answer is not looked at.
Delete(g) ==
  /\ Runs(g, "delete") /\ ids[g] # {}
  /\ \E part \in SUBSET ids[g] :
       /\ \/ part = ids[g] /\ Cardinality(part) <= Chunk
          \/ Cardinality(part) = Chunk
       /\ ids' = [ids EXCEPT ![g] = @ \ part]
       /\ \/ /\ place' = [m \in Messages |-> IF m \in part THEN "gone"
                                             ELSE place[m]]
             /\ UNCHANGED faults
          \/ Faulty /\ UNCHANGED place               \* refused
       /\ Drops(part)
  /\ UNCHANGED <<numbers, loop, pc, todo, files, database, taken, refused>>

Deleted(g) ==
  /\ Runs(g, "delete") /\ ids[g] = {} /\ Goes(g, "idle")
  /\ UNCHANGED <<place, numbers, loop, todo, ids, files, database, history, faults>>

----------------------------------------------------------------------------
(* Faults *)

\* worker catches everything: what the task had in hand is forgotten, and lost
\* if it is not unread any more; the others go on.
Gives(g, inhand) ==
  /\ Goes(g, "idle")
  /\ todo' = [todo EXCEPT ![g] = {}]
  /\ ids' = [ids EXCEPT ![g] = {}]
  /\ text' = [text EXCEPT ![g] = None]
  /\ dropped' = dropped \cup {m \in inhand : place'[m] # "unread"}
  /\ UNCHANGED <<numbers, loop, says, seen, refused>>

\* A call fails and has done nothing.
CallFails(g) ==
  /\ CallFaulty(g) /\ pc[g] \notin Yields \ {"unread"} /\ Runs(g, pc[g])
  /\ UNCHANGED <<place, checked, taken>>
  /\ Gives(g, todo[g])

\* The modem has marked the texts, its answer was late.
MarkFails(g) ==
  /\ CallFaulty(g) /\ Runs(g, "mark")
  /\ place' = Marked(g)
  /\ Gives(g, todo[g])
  /\ UNCHANGED <<checked, taken>>

\* The database fails, with the device checked or not.
HandleFails(g) ==
  /\ Faulty /\ Runs(g, "handle") /\ UNCHANGED place
  /\ \E m \in todo[g] :
       \/ /\ Gives(g, todo[g])
          /\ UNCHANGED <<checked, taken>>
       \/ /\ Gives(g, todo[g] \ {m})
          /\ Checks(g, m)
          /\ taken' = [taken EXCEPT ![m] = @ + 1]

\* The driver raises on a file, or on the first of a call if it has no words of
\* its own: the file stays where it is, and the texts of those that were moved
\* before it are forgotten.
FileRaises(g) ==
  /\ Runs(g, "file")
  /\ \E m \in ids[g] : m \in Broken \/ (m \in Garbled /\ text[g] = None)
  /\ UNCHANGED <<place, checked, taken, faults>>
  /\ Gives(g, todo[g])

Kill ==
  /\ loop # "down" /\ Faulty /\ loop' = "down"
  /\ pc' = [g \in Gates |-> "idle"]
  /\ todo' = [g \in Gates |-> {}]
  /\ ids' = [g \in Gates |-> {}]
  /\ text' = [g \in Gates |-> None]
  /\ dropped' = dropped \cup
                  {m \in UNION {todo[g] : g \in Gates} : place[m] # "unread"}
  /\ UNCHANGED <<place, numbers, says, database, taken, refused>>

----------------------------------------------------------------------------

Fails(g) == CallFails(g) \/ MarkFails(g) \/ HandleFails(g) \/ FileRaises(g)

Works(g) == \/ Unread(g) \/ MarkRead(g) \/ TakeFile(g) \/ SkipFile(g)
            \/ NoMoreFiles(g) \/ Handle(g) \/ Capacity(g) \/ ListReceived(g) \/ MarkAll(g)
            \/ ListSent(g) \/ Delete(g) \/ Deleted(g)

Loop == Start \/ Round \/ Waited

Next ==
  \/ \E m \in Texts : Comes(m)
  \/ \E m \in Replies : Sends(m)
  \/ \E d \in Devices : Visits(d) \/ Forgotten(d)
  \/ Loop \/ InsertNumbers
  \/ \E g \in Gates : Works(g) \/ Fails(g)
  \/ Kill

Spec == Init /\ [][Next]_vars

\* The event loop runs what is ready, a call ends with an answer or a failure
\* (urlopen has a timeout), and the network tries again.
FairSpec ==
  /\ Spec
  /\ WF_vars(Loop)
  /\ \A g \in Gates : WF_vars(Works(g) \/ Fails(g))
  /\ \A m \in {t \in Texts : GateOf[t] \in Modems} : SF_vars(Comes(m))

----------------------------------------------------------------------------
(* Properties *)

\* No text proves twice, whatever fails or is killed at whatever step, but for the
\* times its modem refused to mark it: a driver that is not refused gives a text
\* away only once it cannot be listed again (sms/zte.py:238, sms/smstools.py:91).
\* Otherwise the proof of a phone that was given away, or whose code was used
\* again, would be given anew.
TakenOnce == \A m \in Texts : taken[m] <= 1 + refused[m]

\* A text that is no longer unread is handled, in hand, or lost to a fault, a
\* kill or clean; a round without them loses none.
NoneForgotten ==
  \A m \in Texts : place[m] \in {"read", "gone"} =>
    \/ taken[m] > 0
    \/ m \in todo[GateOf[m]]
    \/ m \in dropped

\* The receiver is an intake of texts: one that came in is held, listed or in
\* hand, until it is handled or lost to a fault, a kill or clean; but for those
\* a modem refused to mark, it is never both, is never held again, and none goes
\* missing.
HeldTexts == {m \in Texts : place[m] = "unread" \/ m \in todo[GateOf[m]]}
Inbox == INSTANCE Intake WITH Item <- Texts, held <- HeldTexts,
                              done <- {m \in Texts : taken[m] > 0}, lost <- dropped,
                              back <- {m \in Texts : refused[m] > 0}
InboxSpec == Inbox!Spec

\* The words m is taken to say are its own, or, of a garbled file, those of
\* another of the same spool.
WordsOf(m) ==
  IF m \in Garbled THEN {t \in Texts \ Garbled : GateOf[t] = GateOf[m]} ELSE {m}

\* A checked device has been proved: by a text of its own phone that was handled
\* and says its code, or came to a gate that takes any text; what a garbled file
\* says, another file of the spool said.
CheckedByText ==
  \A d \in checked : \E m \in Texts :
    /\ taken[m] > 0 /\ From[m] = Phone[d]
    /\ \E t \in WordsOf(m) :
         \/ Code[t] # None /\ Code[t] = Waits[d]
         \/ Code[t] = None /\ GateOf[m] \in AnyText

\* The texts at gates that work.
WorkingTexts == {m \in Texts : GateOf[m] \notin Flaky}

\* A gate that is dead, or a spool stuck at a file, holds up no other: a text at
\* a gate that works is handled in the end, or lost to clean, a kill or the
\* database.
HandledInTheEnd ==
  \A m \in {t \in WorkingTexts :
             GateOf[t] \in Spools => Broken \cup Garbled = {}} :
    (place[m] = "unread") ~> (taken[m] > 0 \/ m \in dropped)

\* A modem that works and that is full takes texts again, clean makes room, if
\* the modem when full is nearly full by the count of both its memories.
FullIsSeen == 5 * (Cap + OnSim) > 4 * MostHeld
RoomInTheEnd ==
  FullIsSeen =>
    \A m \in WorkingTexts : (place[m] = "away") ~> (place[m] # "away")
=============================================================================
