------------------------------ MODULE SmsSender ------------------------------
(***************************************************************************)
(* Outgoing SMS (zte.py send_loop, get_gate): the web processes insert     *)
(* into the capped collection `sms_sent', the process smser follows it     *)
(* with a tailable cursor and hands every message to a gate, `redudant'    *)
(* times.  The cursor dies when the collection rolls over its position,    *)
(* and is opened again after the last message that was sent.               *)
(*                                                                         *)
(* A message is named by its _id, which the inserting process gives it     *)
(* before the insert is under way.                                         *)
(***************************************************************************)
EXTENDS Integers, Sequences, FiniteSets, FiniteSetsExt, SequencesExt

CONSTANTS
  MaxMsg,        \* bound: messages queued
  Copies,        \* sms["redudant"], by message
  Gates,         \* clients with `sender'
  Cycles,        \* the round robins: of a callee with gates, a general one
  GatesOf,       \* the gates of each, in their order
  CycleOf,       \* the round robin of a message's callee, None without one
  Takes,         \* the messages whose phone a gate's filter matches
  None,
  Capacity,      \* messages the capped collection holds
  Orders,        \* whether inserts reach it in the order of their _id
  Faults,        \* the database may be out of reach
  MaxRestarts    \* bound: restarts of the process

Msgs == 1..MaxMsg

ASSUME BoundAssumption == /\ MaxMsg \in Nat /\ MaxRestarts \in Nat
                          /\ Capacity \in Nat \ {0}
ASSUME CopiesAssumption == Copies \in [Msgs -> Nat \ {0}]
ASSUME FlagAssumption == Orders \subseteq BOOLEAN /\ Faults \in BOOLEAN
ASSUME GatesAssumption ==
  /\ IsFiniteSet(Gates) /\ None \notin Cycles
  /\ GatesOf \in [Cycles -> Seq(Gates) \ {<<>>}]
  /\ CycleOf \in [Msgs -> Cycles \cup {None}]
  /\ Takes \in [Gates -> SUBSET Msgs]
\* A gate is in a round robin once.
ASSUME CyclesAssumption ==
  \A c \in Cycles : Len(GatesOf[c]) <= Cardinality(Gates)

VARIABLES
  inorder,   \* the member of Orders this behaviour has
  issued,    \* the last _id given
  pending,   \* inserts under way
  log,       \* what was inserted into sms_sent, in natural order
  pc,        \* send_loop
  last,      \* its local: the last message done with, 0 at first
  after,     \* the $gt of the cursor's query
  taken,     \* how far send_loop is in what the cursor has fetched
  position,  \* records of the log the cursor has passed
  sms, left, \* the message being sent and its copies to go
  turn,      \* where each round robin is
  sent,      \* history: the gates a message was handed to
  old,       \* history: what was in the collection when send_loop began
  restarts

store == <<inorder, issued, pending, log>>
sender == <<pc, last, after, taken, position, sms, left, turn>>
vars == <<store, sender, sent, old, restarts>>

Steps == {"down", "last", "find", "fetch", "send", "sleep", "ended"}

TypeOK ==
  /\ inorder \in Orders
  /\ issued \in 0..MaxMsg
  /\ pending \subseteq 1..issued
  /\ log \in Seq(1..issued)
  /\ pc \in Steps
  /\ {last, after, sms} \subseteq 0..issued
  /\ {taken, position} \subseteq 0..Len(log)
  /\ left \in Nat
  /\ turn \in [Cycles -> Nat]
  /\ sent \in [Msgs -> Seq(Gates)]
  /\ old \subseteq 1..issued
  /\ restarts \in 0..MaxRestarts

Init ==
  /\ inorder \in Orders
  /\ issued = 0 /\ pending = {} /\ log = <<>>
  /\ pc = "down" /\ last = 0 /\ after = 0 /\ taken = 0 /\ position = 0
  /\ sms = 0 /\ left = 0 /\ turn = [c \in Cycles |-> 0]
  /\ sent = [m \in Msgs |-> <<>>]
  /\ old = {} /\ restarts = 0

----------------------------------------------------------------------------
(* phone_handler *)

\* insert_one is started.
Insert ==
  /\ issued < MaxMsg
  /\ issued' = issued + 1
  /\ pending' = pending \cup {issued + 1}
  /\ UNCHANGED <<inorder, log, sender, sent, old, restarts>>

\* It is done.
Lands(m) ==
  /\ inorder => \A k \in pending : m <= k
  /\ pending' = pending \ {m}
  /\ log' = Append(log, m)
  /\ UNCHANGED <<inorder, issued, sender, sent, old, restarts>>

\* A capped collection makes room by dropping its first record.
Rolled == IF Len(log) > Capacity THEN Len(log) - Capacity ELSE 0

\* Collection sms_sent: the places of the log it still holds, and its messages.
Places == (Rolled + 1)..Len(log)
Stored == {log[i] : i \in Places}

----------------------------------------------------------------------------
(* send_loop *)

NewestNone == 0                                   \* mutant: no `last' at first
Newest == IF Stored = {} THEN 0 ELSE Max(Stored)

Start ==
  /\ pc = "down" /\ pc' = "last"
  /\ taken' = 0 /\ position' = 0
  /\ sms' = 0 /\ left' = 0 /\ turn' = [c \in Cycles |-> 0]
  /\ UNCHANGED <<store, last, after, sent, old, restarts>>

\* find().sort(_id, -1): what is there already is not sent.
FindLast ==
  /\ pc = "last" /\ pc' = "find"
  /\ last' = Newest
  /\ old' = Stored
  /\ UNCHANGED <<store, after, taken, position, sms, left, turn, sent,
                 restarts>>

MatchesOrAt(m) == m >= after                      \* mutant: $gte
MatchesNext(m) == m > after + 1                   \* mutant: one too far
Matches(m) == m > after

\* The places of what the cursor has fetched and send_loop has not taken yet.
Fetched == {i \in (taken + 1)..position : Matches(log[i])}

\* find(): the records after `last' in natural order; the cursor of an empty
\* collection is dead, and is opened again at once.
OpenCursor ==
  /\ pc = "find"
  /\ after' = last
  /\ IF Stored = {} THEN UNCHANGED <<pc, taken, position>>
     ELSE pc' = "fetch" /\ taken' = Rolled /\ position' = Len(log)
  /\ UNCHANGED <<store, last, sms, left, turn, sent, old, restarts>>

\* The cursor goes on at its position; if the record there has rolled out of
\* the collection it is dead (CappedPositionLost).
GetMore ==
  /\ pc = "fetch" /\ Fetched = {}
  /\ IF position <= Rolled
     THEN pc' = "find" /\ UNCHANGED <<taken, position>>
     ELSE taken' = position /\ position' = Len(log) /\ UNCHANGED pc
  /\ UNCHANGED <<store, last, after, sms, left, turn, sent, old, restarts>>

\* The server has closed the cursor: `alive' is False.
CursorDies ==
  /\ pc = "fetch" /\ Fetched = {} /\ pc' = "find"
  /\ UNCHANGED <<store, last, after, taken, position, sms, left, turn, sent,
                 old, restarts>>

\* The next record, which may have rolled out of the collection since.
Take ==
  /\ pc = "fetch" /\ Fetched # {}
  /\ taken' = Min(Fetched)
  /\ sms' = log[taken'] /\ left' = Copies[sms']
  /\ pc' = "send"
  /\ UNCHANGED <<store, last, after, position, turn, sent, old, restarts>>

GateAt(c, k) == GatesOf[c][((turn[c] + k) % Len(GatesOf[c])) + 1]

\* get_gate goes on while count > 0: len(clients) + 1 gates are looked at.
TriesOne == {0}                                   \* mutant: no recursion
Tries == 0..Cardinality(Gates)

Fits(c, m) == {k \in Tries : m \in Takes[GateAt(c, k)]}

\* next() of the round robin, from where it was left.
Advance(c, k) == [turn EXCEPT ![c] = (@ + k) % Len(GatesOf[c])]

MoreCopies == left > 0

\* One copy goes to a gate, which takes it or raises.
SendCopy ==
  LET c == CycleOf[sms]
  IN  /\ pc = "send" /\ MoreCopies
      /\ left' = left - 1
      /\ IF c = None THEN UNCHANGED <<turn, sent>>
         ELSE IF Fits(c, sms) = {}
         THEN turn' = Advance(c, Cardinality(Gates) + 1) /\ UNCHANGED sent
         ELSE LET k == Min(Fits(c, sms))
              IN  /\ sent' = [sent EXCEPT ![sms] = Append(@, GateAt(c, k))]
                  /\ turn' = Advance(c, k + 1)
      /\ UNCHANGED <<store, pc, last, after, taken, position, sms, old,
                     restarts>>

CopiesDone ==
  /\ pc = "send" /\ ~MoreCopies /\ pc' = "sleep"
  /\ UNCHANGED <<store, last, after, taken, position, sms, left, turn, sent,
                 old, restarts>>

\* sleep(INTERVAL) is over.
Slept ==
  /\ pc = "sleep" /\ pc' = "fetch"
  /\ last' = sms
  /\ UNCHANGED <<store, after, taken, position, sms, left, turn, sent, old,
                 restarts>>

\* The database is out of reach: nothing catches it and the task ends.
Fails ==
  /\ Faults
  /\ pc \in {"last", "find"} \/ (pc = "fetch" /\ Fetched = {})
  /\ pc' = "ended"
  /\ UNCHANGED <<store, last, after, taken, position, sms, left, turn, sent,
                 old, restarts>>

Restart ==
  /\ restarts < MaxRestarts
  /\ restarts' = restarts + 1
  /\ pc' = "down"
  /\ UNCHANGED <<store, last, after, taken, position, sms, left, turn, sent,
                 old>>

SendLoop == \/ Start \/ FindLast \/ OpenCursor \/ GetMore \/ Take \/ SendCopy
            \/ CopiesDone \/ Slept

Next == \/ Insert \/ (\E m \in pending : Lands(m))
        \/ SendLoop \/ CursorDies \/ Fails \/ Restart

Spec == Init /\ [][Next]_vars

\* The database answers and the modems do, with success or not.
FairSpec == Spec /\ WF_vars(SendLoop) /\ WF_vars(\E m \in pending : Lands(m))

----------------------------------------------------------------------------
(* Properties *)

Running == pc \notin {"down", "last"}
Following == Running /\ pc # "ended"

\* The copies of m that can be handed over: none if no gate takes its phone.
Due(m) == LET c == CycleOf[m]
          IN  IF c # None /\ \E g \in ToSet(GatesOf[c]) : m \in Takes[g]
              THEN Copies[m] ELSE 0

\* When messages are inserted in the order of their _id, none is sent more
\* often than was asked, whatever cursors die and processes restart.
\* (Otherwise a cursor opened again after a message with a smaller _id,
\* zte.py:157 and 174, finds the larger ones a second time.)
NeverTooMany == inorder => \A m \in Msgs : Len(sent[m]) <= Due(m)

\* When messages are inserted in order, every message up to `last' that came
\* after send_loop began was sent in full, unless it rolled out of the
\* collection: a cursor that dies skips nothing.
NoneSkipped ==
  (inorder /\ Running) =>
    \A m \in Stored \ old : m <= last => Len(sent[m]) = Due(m)

\* A message that was in the collection when send_loop began is never sent:
\* an old code would surprise its owner (zte.py:150-157).
NothingOld == [][Running => \A m \in old : sent'[m] = sent[m]]_vars

\* Every message that comes while send_loop runs is sent in full in the end,
\* unless the task ends, the process is started again or the collection rolls
\* over it: dead cursors and gates that do not match hold up none of the rest.
SentInTheEnd ==
  \A m \in Msgs :
    (inorder /\ m \in pending /\ Following)
      ~> \/ Len(sent[m]) = Due(m)
         \/ ~Following
         \/ m \notin pending \cup Stored
=============================================================================
