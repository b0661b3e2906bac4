------------------------------ MODULE Netflow ------------------------------
(***************************************************************************)
(* The NetFlow v5 collector (netflow.py): datagram_received appends flows  *)
(* to a list, the task store() takes the list when it has grown over       *)
(* FLUSHLEVEL or after FLUSHINTERVAL and inserts it into `collector'.      *)
(* Flows are numbered in the order they arrive, so a list of flows is the  *)
(* set of its numbers.                                                     *)
(***************************************************************************)
EXTENDS Integers, FiniteSets

CONSTANTS
  MaxFlow,       \* bound: flows received in a behaviour
  MaxCount,      \* largest flow count in the header of a datagram
  FlushLevel,    \* FLUSHLEVEL
  Faults,        \* whether insert_many may fail
  Stops          \* ways the process may end: "kill", "interrupt"

ASSUME BoundAssumption == MaxFlow \in Nat /\ MaxCount \in Nat
ASSUME LevelAssumption == FlushLevel \in Nat
ASSUME FaultAssumption == Faults \in BOOLEAN /\ Stops \subseteq {"kill", "interrupt"}

VARIABLES
  arrived,   \* flows received so far
  flows,     \* self.flows
  batch,     \* the list the task store() is inserting
  final,     \* the list run5() is inserting on its way out
  stored,    \* the collection `collector'
  lost,      \* history: flows that were received and will not be stored
  waiter,    \* self._waiter
  store,     \* where the task store() is: "wait" or "insert"
  main       \* run5(): "run", "closing", "closed" or "dead"

vars == <<arrived, flows, batch, final, stored, lost, waiter, store, main>>

Numbers == 1..MaxFlow

TypeOK ==
  /\ arrived \in 0..MaxFlow
  /\ flows \subseteq Numbers
  /\ batch \subseteq Numbers
  /\ final \subseteq Numbers
  /\ stored \subseteq Numbers
  /\ lost \subseteq Numbers
  /\ waiter \in BOOLEAN
  /\ store \in {"wait", "insert"}
  /\ main \in {"run", "closing", "closed", "dead"}

Init ==
  /\ arrived = 0
  /\ flows = {} /\ batch = {} /\ final = {}
  /\ stored = {} /\ lost = {}
  /\ waiter = FALSE
  /\ store = "wait"
  /\ main = "run"

LoopRuns == main \in {"run", "closing"}

NewFromOne(k) == (arrived + 2)..(arrived + k)     \* mutant: range(1, count)
New(k) == (arrived + 1)..(arrived + k)

\* nf5: the header announces n flows and k of them are there.  With k < n
\* unpack_from raises inside extend(), after the first k were appended and
\* before the level is looked at.
Datagram(n, k) ==
  /\ LoopRuns
  /\ arrived + k <= MaxFlow
  /\ arrived' = arrived + k
  /\ flows' = flows \cup New(k)
  /\ waiter' = (waiter \/ (k = n /\ Cardinality(flows') > FlushLevel))
  /\ UNCHANGED <<batch, final, stored, lost, store, main>>

TakenLast == {x \in flows : \A y \in flows : y <= x}  \* mutant: flows.pop()
Taken == flows
FreshShared == flows                              \* mutant: no new list
Fresh == flows \ Taken

\* store_once up to its await; with nothing to insert, on to _waiter.clear().
StoreOnce ==
  /\ LoopRuns /\ store = "wait"
  /\ batch' = Taken
  /\ flows' = Fresh
  /\ IF flows = {} THEN waiter' = FALSE /\ UNCHANGED store
                   ELSE store' = "insert" /\ UNCHANGED waiter
  /\ UNCHANGED <<arrived, final, stored, lost, main>>

WakeByEvent == waiter /\ StoreOnce

WaitsForever == WakeByEvent                       \* mutant: no timeout

\* wait_for gives up after FLUSHINTERVAL.
WakeByTimeout == StoreOnce

\* insert_many is ordered: when it fails it has inserted the first ones.
Prefixes(S) == {{x \in S : x <= k} : k \in 0..MaxFlow}

Outcomes(S) == IF Faults THEN Prefixes(S) \cup {S} ELSE {S}

\* The insert of store() ends; whatever set the event meanwhile is forgotten.
InsertEnds ==
  /\ LoopRuns /\ store = "insert"
  /\ \E S \in Outcomes(batch) :
       /\ stored' = stored \cup S
       /\ lost' = lost \cup (batch \ S)
  /\ batch' = {}
  /\ waiter' = FALSE
  /\ store' = "wait"
  /\ UNCHANGED <<arrived, flows, final, main>>

\* KeyboardInterrupt, where the process has not inherited the handlers of
\* server.py: the `finally' of run5 runs store_once on the same loop.
Interrupt ==
  /\ "interrupt" \in Stops
  /\ main = "run"
  /\ main' = "closing"
  /\ final' = Taken
  /\ flows' = Fresh
  /\ UNCHANGED <<arrived, batch, stored, lost, waiter, store>>

FinalEnds ==
  /\ main = "closing"
  /\ \E S \in Outcomes(final) :
       /\ stored' = stored \cup S
       /\ lost' = lost \cup (final \ S)
  /\ final' = {}
  /\ main' = "closed"
  /\ UNCHANGED <<arrived, flows, batch, waiter, store>>

\* The process ends; of inserts under way the database may have had a part.
Die ==
  /\ \E S \in Prefixes(batch) \cup {batch}, F \in Prefixes(final) \cup {final} :
       /\ stored' = stored \cup S \cup F
       /\ lost' = lost \cup flows \cup (batch \ S) \cup (final \ F)
  /\ flows' = {} /\ batch' = {} /\ final' = {}
  /\ waiter' = FALSE
  /\ store' = "wait"
  /\ main' = "dead"
  /\ UNCHANGED arrived

\* loop.close(): the tasks and the list are gone.
Exit == main = "closed" /\ Die

\* SIGTERM, which kill() of server.py sends to every process.
Kill == "kill" \in Stops /\ LoopRuns /\ Die

\* The supervisor starts the process again.
Start ==
  /\ main = "dead"
  /\ main' = "run"
  /\ UNCHANGED <<arrived, flows, batch, final, stored, lost, waiter, store>>

Next == \/ \E n \in 0..MaxCount : \E k \in 0..n : Datagram(n, k)
        \/ WakeByEvent \/ WakeByTimeout \/ InsertEnds
        \/ Interrupt \/ FinalEnds \/ Exit \/ Kill \/ Start

Spec == Init /\ [][Next]_vars

\* The loop's timer fires, the database answers, and a process that is
\* ending ends.
Fairness == /\ WF_vars(WakeByTimeout) /\ WF_vars(InsertEnds)
            /\ WF_vars(FinalEnds) /\ WF_vars(Exit) /\ WF_vars(Start)

FairSpec == Spec /\ Fairness

----------------------------------------------------------------------------
(* Properties *)

Held == flows \cup batch \cup final

\* A flow is in one place: the list is handed over whole while datagrams keep
\* coming, so none is inserted by two store_once calls, by store() and the
\* last one of run5(), or both inserted and given up (netflow.py:133-142).
OnePlace ==
  /\ flows \cap batch = {} /\ flows \cap final = {} /\ batch \cap final = {}
  /\ Held \cap stored = {} /\ Held \cap lost = {} /\ stored \cap lost = {}

\* Every flow received is accounted for.
Conserved == Held \cup stored \cup lost = 1..arrived

\* While the collector runs, what is stored arrived before what still waits:
\* a slow insert is not overtaken by the next one.
OldestFirst ==
  main = "run" => \A x \in stored, y \in Held : x < y

\* With a database that takes every insert and a process that is not stopped,
\* nothing is lost: neither a truncated datagram nor an event that is set
\* while an insert is awaited (netflow.py:155) loses a flow.
NothingLost == (~Faults /\ Stops = {}) => lost = {}

\* Every flow is settled in the end, also when the event was set during an
\* insert and cleared after it: the timeout makes up for the lost wake-up.
Settled == \A n \in Numbers : n \in flows ~> n \in stored \cup lost

\* What makes OnePlace, Conserved and OldestFirst inductive: no list is
\* overwritten, and the list being inserted is older than the one being filled.
NoOverwrite == /\ store = "wait" => batch = {}
               /\ main # "closing" => final = {}
               /\ main = "dead" => Held = {}
BatchFirst == main = "run" => \A x \in batch, y \in flows : x < y

IInv == /\ TypeOK /\ OnePlace /\ Conserved
        /\ OldestFirst /\ NoOverwrite /\ BatchFirst

\* The collector implements what it promises.
Log == INSTANCE Intake WITH Item <- Numbers, held <- Held, done <- stored,
                            back <- {}
LogSpec == Log!Spec
=============================================================================
