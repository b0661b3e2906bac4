--------------------------- MODULE Records_proofs ---------------------------
(***************************************************************************)
(* Theorems about the two components that write down what has passed, the  *)
(* collector of flows (Netflow) and the export of sessions and devices     *)
(* (Exporter): for every bound, level and choice of faults, and for any    *)
(* sessions and devices, any step and any length of time.                  *)
(***************************************************************************)
EXTENDS Netflow, Exporter, TLAPS

----------------------------------------------------------------------------
(* The collector of flows: types, every flow in one place and accounted    *)
(* for, the order of storing, and the refinement of Intake.                *)

USE DEF New, Taken, Fresh

\* Every variable keeps its type.
THEOREM TypeCorrect == Spec => []TypeOK
<1> USE BoundAssumption, LevelAssumption, FaultAssumption
<1>1. Init => TypeOK
  <2>1. 0 \in 0..MaxFlow
    OBVIOUS
  <2> QED BY <2>1 DEF Init, TypeOK
<1>2. TypeOK /\ [Next]_vars => TypeOK'
  <2> SUFFICES ASSUME TypeOK, [Next]_vars PROVE TypeOK'
    OBVIOUS
  <2> USE DEF TypeOK, Numbers
  <2>1. ASSUME NEW n \in 0..MaxCount, NEW k \in 0..n, Datagram(n, k)
        PROVE TypeOK'
    BY <2>1 DEF Datagram, LoopRuns
  <2>2. CASE StoreOnce
    BY <2>2 DEF StoreOnce, LoopRuns
  <2>3. CASE InsertEnds
    <3>1. PICK S \in Outcomes(batch) : stored' = stored \cup S
                                       /\ lost' = lost \cup (batch \ S)
      BY <2>3 DEF InsertEnds
    <3>2. S \subseteq batch
      BY <3>1 DEF Outcomes, Prefixes
    <3> QED BY <2>3, <3>1, <3>2 DEF InsertEnds
  <2>4. CASE Interrupt
    BY <2>4 DEF Interrupt
  <2>5. CASE FinalEnds
    <3>1. PICK S \in Outcomes(final) : stored' = stored \cup S
                                       /\ lost' = lost \cup (final \ S)
      BY <2>5 DEF FinalEnds
    <3>2. S \subseteq final
      BY <3>1 DEF Outcomes, Prefixes
    <3> QED BY <2>5, <3>1, <3>2 DEF FinalEnds
  <2>6. CASE Die
    <3>1. PICK S \in Prefixes(batch) \cup {batch},
               F \in Prefixes(final) \cup {final} :
            /\ stored' = stored \cup S \cup F
            /\ lost' = lost \cup flows \cup (batch \ S) \cup (final \ F)
      BY <2>6 DEF Die
    <3>2. S \subseteq batch /\ F \subseteq final
      BY <3>1 DEF Prefixes
    <3> QED BY <2>6, <3>1, <3>2 DEF Die
  <2>7. CASE Start
    BY <2>7 DEF Start
  <2>8. CASE UNCHANGED vars
    BY <2>8 DEF vars
  <2> QED BY <2>1, <2>2, <2>3, <2>4, <2>5, <2>6, <2>7, <2>8
          DEF Next, WakeByEvent, WakeByTimeout, Exit, Kill
<1> QED BY <1>1, <1>2, PTL DEF Spec

----------------------------------------------------------------------------
(* Lists are handed over whole *)

LEMMA PrefixSubset ==
  ASSUME NEW S, NEW T \in Prefixes(S) \cup {S} PROVE T \subseteq S
BY DEF Prefixes

LEMMA OutcomeSubset ==
  ASSUME NEW S, NEW T \in Outcomes(S) PROVE T \subseteq S
BY DEF Outcomes, Prefixes

LEMMA InitInv == Init => IInv
<1>1. 0 \in 0..MaxFlow
  BY BoundAssumption
<1>2. ASSUME Init PROVE Conserved
  BY <1>2 DEF Init, Conserved, Held
<1> QED BY <1>1, <1>2 DEF Init, IInv, TypeOK, OnePlace, OldestFirst, NoOverwrite,
                          BatchFirst, Held

LEMMA DatagramInv ==
  ASSUME IInv, TypeOK', NEW n \in 0..MaxCount, NEW k \in 0..n, Datagram(n, k)
  PROVE  IInv'
<1> DEFINE Come == (arrived + 1)..(arrived + k)
<1> USE BoundAssumption DEF IInv
<1>1. /\ flows' = flows \cup Come /\ arrived' = arrived + k
      /\ UNCHANGED <<batch, final, stored, lost, store, main>>
      /\ main # "dead" /\ arrived \in Nat /\ k \in Nat
  BY DEF Datagram, LoopRuns, TypeOK
<1>2. Held' = Held \cup Come
  BY <1>1 DEF Held
<1>3. \A x \in Held \cup stored \cup lost : x \in 1..arrived /\ x \notin Come
  <2>1. \A x \in 1..arrived : x \notin Come
    BY <1>1
  <2> QED BY <2>1 DEF Conserved
<1>4. OnePlace'
  <2> HIDE DEF Come
  <2> QED BY <1>1, <1>2, <1>3 DEF OnePlace, Held
<1>5. Conserved'
  <2>1. 1..(arrived + k) = (1..arrived) \cup Come
    BY <1>1
  <2> HIDE DEF Come
  <2> QED BY <1>1, <1>2, <2>1 DEF Conserved
<1>6. \A x \in 1..arrived, y \in Come : x < y
  BY <1>1
<1>7. OldestFirst' /\ BatchFirst'
  <2> HIDE DEF Come
  <2>1. \A x \in stored \cup batch : x \in 1..arrived
    BY <1>3 DEF Held
  <2> QED BY <1>1, <1>2, <1>6, <2>1 DEF OldestFirst, BatchFirst
<1>8. NoOverwrite'
  BY <1>1 DEF NoOverwrite
<1> QED BY <1>4, <1>5, <1>7, <1>8

LEMMA StoreOnceInv == ASSUME IInv, TypeOK', StoreOnce PROVE IInv'
<1>1. batch = {} /\ batch' = flows /\ flows' = {}
      /\ UNCHANGED <<arrived, final, stored, lost, main>>
      /\ (flows = {} \/ store' = "insert") /\ main # "dead"
  BY DEF IInv, NoOverwrite, StoreOnce, LoopRuns
<1>2. Held' = Held
  BY <1>1 DEF Held
<1>3. OnePlace' /\ Conserved' /\ OldestFirst'
  BY <1>1, <1>2 DEF IInv, OnePlace, Conserved, OldestFirst
<1>4. NoOverwrite' /\ BatchFirst'
  BY <1>1, <1>2 DEF IInv, NoOverwrite, BatchFirst
<1> QED BY <1>3, <1>4 DEF IInv

LEMMA InsertEndsInv == ASSUME IInv, TypeOK', InsertEnds PROVE IInv'
<1>1. PICK S \in Outcomes(batch) : /\ stored' = stored \cup S
                                   /\ lost' = lost \cup (batch \ S)
  BY DEF InsertEnds
<1>2. S \subseteq batch
  BY <1>1, OutcomeSubset
<1>3. batch' = {} /\ UNCHANGED <<arrived, flows, final, main>> /\ main # "dead"
  BY DEF InsertEnds, LoopRuns
<1>4. Held' \cup stored' \cup lost' = Held \cup stored \cup lost
  BY <1>1, <1>2, <1>3 DEF Held
<1>5. OnePlace'
  BY <1>1, <1>2, <1>3 DEF IInv, OnePlace, Held
<1>6. Conserved'
  BY <1>3, <1>4 DEF IInv, Conserved
<1>7. OldestFirst' /\ BatchFirst' /\ NoOverwrite'
  BY <1>1, <1>2, <1>3 DEF IInv, OldestFirst, BatchFirst, NoOverwrite, Held
<1> QED BY <1>5, <1>6, <1>7 DEF IInv

LEMMA FinalEndsInv == ASSUME IInv, TypeOK', FinalEnds PROVE IInv'
<1>1. PICK S \in Outcomes(final) : /\ stored' = stored \cup S
                                   /\ lost' = lost \cup (final \ S)
  BY DEF FinalEnds
<1>2. S \subseteq final
  BY <1>1, OutcomeSubset
<1>3. final' = {} /\ main' = "closed" /\ UNCHANGED <<arrived, flows, batch, store>>
  BY DEF FinalEnds
<1>4. Held' \cup stored' \cup lost' = Held \cup stored \cup lost
  BY <1>1, <1>2, <1>3 DEF Held
<1>5. OnePlace'
  BY <1>1, <1>2, <1>3 DEF IInv, OnePlace, Held
<1>6. Conserved' /\ OldestFirst' /\ BatchFirst' /\ NoOverwrite'
  BY <1>3, <1>4 DEF IInv, Conserved, OldestFirst, BatchFirst, NoOverwrite, Held
<1> QED BY <1>5, <1>6 DEF IInv

LEMMA DieInv == ASSUME IInv, TypeOK', Die PROVE IInv'
<1>1. PICK S \in Prefixes(batch) \cup {batch},
           F \in Prefixes(final) \cup {final} :
        /\ stored' = stored \cup S \cup F
        /\ lost' = lost \cup flows \cup (batch \ S) \cup (final \ F)
  BY DEF Die
<1>2. S \subseteq batch /\ F \subseteq final
  BY <1>1, PrefixSubset
<1>3. /\ flows' = {} /\ batch' = {} /\ final' = {} /\ arrived' = arrived
      /\ main' = "dead"
  BY DEF Die
<1>4. stored' \cup lost' = Held \cup stored \cup lost
  BY <1>1, <1>2 DEF Held
<1>5. OnePlace'
  BY <1>1, <1>2, <1>3 DEF IInv, OnePlace, Held
<1>6. Conserved' /\ OldestFirst' /\ BatchFirst' /\ NoOverwrite'
  BY <1>3, <1>4 DEF IInv, Conserved, OldestFirst, BatchFirst, NoOverwrite, Held
<1> QED BY <1>5, <1>6 DEF IInv

LEMMA NextInv == IInv /\ TypeOK' /\ [Next]_vars => IInv'
<1> SUFFICES ASSUME IInv, TypeOK', [Next]_vars PROVE IInv'
  OBVIOUS
<1>1. ASSUME NEW n \in 0..MaxCount, NEW k \in 0..n, Datagram(n, k) PROVE IInv'
  BY <1>1, DatagramInv
<1>2. CASE StoreOnce
  BY <1>2, StoreOnceInv
<1>3. CASE InsertEnds
  BY <1>3, InsertEndsInv
<1>4. CASE Interrupt
  <2>1. /\ main = "run" /\ main' = "closing" /\ final' = flows /\ flows' = {}
        /\ UNCHANGED <<arrived, batch, stored, lost, waiter, store>>
    BY <1>4 DEF Interrupt
  <2>2. final = {} /\ Held' = Held
    BY <2>1 DEF IInv, NoOverwrite, Held
  <2> QED BY <2>1, <2>2 DEF IInv, OnePlace, Conserved, OldestFirst, NoOverwrite,
                            BatchFirst
<1>5. CASE FinalEnds
  BY <1>5, FinalEndsInv
<1>6. CASE Die
  BY <1>6, DieInv
<1>7. CASE Start
  <2>1. Held = {} /\ Held' = Held /\ main = "dead" /\ main' = "run"
    BY <1>7 DEF Start, IInv, NoOverwrite, Held
  <2> QED BY <1>7, <2>1 DEF Start, IInv, OnePlace, Conserved, OldestFirst,
                            NoOverwrite, BatchFirst, Held
<1>8. CASE UNCHANGED vars
  BY <1>8 DEF vars, IInv, OnePlace, Conserved, OldestFirst, NoOverwrite,
              BatchFirst, Held
<1> QED BY <1>1, <1>2, <1>3, <1>4, <1>5, <1>6, <1>7, <1>8
        DEF Next, WakeByEvent, WakeByTimeout, Exit, Kill

\* IInv holds in every reachable state; the theorems below are read off it.
THEOREM Invariant == Spec => []IInv
<1>1. IInv => TypeOK
  BY DEF IInv
<1> QED BY <1>1, InitInv, NextInv, TypeCorrect, PTL DEF Spec

\* No flow is ever in two lists, inserted twice, or inserted and given up
\* (netflow.py:133-142), however inserts, datagrams and stops interleave.
THEOREM FlowsInOnePlace == Spec => []OnePlace
<1>1. IInv => OnePlace
  BY DEF IInv
<1> QED BY <1>1, Invariant, PTL

\* No flow disappears unaccounted for.
THEOREM FlowsConserved == Spec => []Conserved
<1>1. IInv => Conserved
  BY DEF IInv
<1> QED BY <1>1, Invariant, PTL

\* The running collector stores flows in the order they came.
THEOREM OldestStoredFirst == Spec => []OldestFirst
<1>1. IInv => OldestFirst
  BY DEF IInv
<1> QED BY <1>1, Invariant, PTL

----------------------------------------------------------------------------
(* The refinement of Intake *)

\* A step that only moves flows between lists is a stutter of the promise.
LEMMA MoveRefines ==
  ASSUME IInv, StoreOnce \/ Interrupt \/ Start \/ UNCHANGED vars
  PROVE  UNCHANGED <<Held, stored, lost>>
<1>1. CASE StoreOnce
  BY <1>1 DEF StoreOnce, IInv, NoOverwrite, Held
<1>2. CASE Interrupt
  BY <1>2 DEF Interrupt, IInv, NoOverwrite, Held
<1>3. CASE Start
  BY <1>3 DEF Start, Held
<1>4. CASE UNCHANGED vars
  BY <1>4 DEF vars, Held
<1> QED BY <1>1, <1>2, <1>3, <1>4

\* Lists that lose S to the collection and L to a fault settle them.
LEMMA SettleRefines ==
  ASSUME OnePlace, NEW S, NEW L, S \subseteq Held, L \subseteq Held, S \cap L = {},
         Held' = Held \ (S \cup L),
         stored' = stored \cup S, lost' = lost \cup L
  PROVE  Log!Next
<1>1. Held' = Held \ ((S \cup L) \ {}) /\ {} \in SUBSET {}
  OBVIOUS
<1> QED
  BY <1>1 DEF Log!Next, Log!Settle

LEMMA NextRefines ==
  ASSUME IInv, TypeOK', [Next]_vars
  PROVE  [Log!Next]_<<Held, stored, lost, {}>>
<1> USE DEF IInv
<1>1. ASSUME NEW n \in 0..MaxCount, NEW k \in 0..n, Datagram(n, k)
      PROVE  Log!Next
  <2> DEFINE Come == (arrived + 1)..(arrived + k)
  <2>1. /\ flows' = flows \cup Come /\ arrived + k <= MaxFlow
        /\ UNCHANGED <<batch, final, stored, lost>>
        /\ arrived \in Nat /\ k \in Nat
    BY <1>1 DEF Datagram, TypeOK
  <2>2. Come \in SUBSET Numbers /\ \A x \in 1..arrived : x \notin Come
    BY <2>1, BoundAssumption DEF Numbers
  <2> HIDE DEF Come
  <2>3. Come \cap (Held \cup stored \cup lost) = {}
    BY <2>2 DEF Conserved
  <2>4. Held' = Held \cup Come
    BY <2>1 DEF Held
  <2>5. Log!Receive(Come)
    BY <2>1, <2>3, <2>4 DEF Log!Receive
  <2> QED BY <2>2, <2>5 DEF Log!Next
<1>2. CASE StoreOnce \/ Interrupt \/ Start \/ UNCHANGED vars
  BY <1>2, MoveRefines
<1>3. CASE InsertEnds
  <2>1. PICK S \in Outcomes(batch) : /\ stored' = stored \cup S
                                     /\ lost' = lost \cup (batch \ S)
    BY <1>3 DEF InsertEnds
  <2>2. S \subseteq batch
    BY <2>1, OutcomeSubset
  <2>3. Held' = Held \ (S \cup (batch \ S))
    BY <1>3, <2>2 DEF InsertEnds, Held, OnePlace
  <2> QED BY <2>1, <2>2, <2>3, SettleRefines DEF Held
<1>4. CASE FinalEnds
  <2>1. PICK S \in Outcomes(final) : /\ stored' = stored \cup S
                                     /\ lost' = lost \cup (final \ S)
    BY <1>4 DEF FinalEnds
  <2>2. S \subseteq final
    BY <2>1, OutcomeSubset
  <2>3. Held' = Held \ (S \cup (final \ S))
    BY <1>4, <2>2 DEF FinalEnds, Held, OnePlace
  <2> QED BY <2>1, <2>2, <2>3, SettleRefines DEF Held
<1>5. CASE Die
  <2>1. PICK S \in Prefixes(batch) \cup {batch},
             F \in Prefixes(final) \cup {final} :
          /\ stored' = stored \cup S \cup F
          /\ lost' = lost \cup flows \cup (batch \ S) \cup (final \ F)
    BY <1>5 DEF Die
  <2>2. S \subseteq batch /\ F \subseteq final
    BY <2>1, PrefixSubset
  <2> DEFINE Gone == flows \cup (batch \ S) \cup (final \ F)
  <2>3. /\ stored' = stored \cup (S \cup F) /\ lost' = lost \cup Gone
        /\ S \cup F \subseteq Held /\ Gone \subseteq Held
        /\ (S \cup F) \cap Gone = {}
    BY <2>1, <2>2 DEF Held, OnePlace
  <2>4. Held' = Held \ ((S \cup F) \cup Gone)
    BY <1>5, <2>2 DEF Die, Held
  <2> HIDE DEF Gone
  <2> QED BY <2>3, <2>4, SettleRefines
<1> QED BY <1>1, <1>2, <1>3, <1>4, <1>5
        DEF Next, WakeByEvent, WakeByTimeout, Exit, Kill

\* The collector implements Intake: each flow received is settled at most
\* once, and what is settled stays settled.
THEOREM Refinement == Spec => LogSpec
<1>1. Init => Log!Init
  BY DEF Init, Log!Init, Held
<1>2. IInv /\ IInv' /\ [Next]_vars => [Log!Next]_<<Held, stored, lost, {}>>
  BY NextRefines DEF IInv
<1> QED BY <1>1, <1>2, Invariant, PTL DEF Spec, LogSpec, Log!Spec

\* With a sound database and no stop the process stays in its loop, so that no
\* step but the end of an insert touches `lost', and that one stores it all.
LEMMA SoundNext ==
  ASSUME ~Faults, Stops = {}, lost = {}, main = "run", [Next]_vars
  PROVE  lost' = {} /\ main' = "run"
<1>1. \A S : Outcomes(S) = {S}
  BY DEF Outcomes
<1>2. CASE InsertEnds
  BY <1>1, <1>2 DEF InsertEnds
<1>3. CASE UNCHANGED vars
  BY <1>3 DEF vars
<1>4. CASE \E n \in 0..MaxCount : \E k \in 0..n : Datagram(n, k)
  BY <1>4 DEF Datagram
<1>5. CASE StoreOnce
  BY <1>5 DEF StoreOnce
<1> QED BY <1>2, <1>3, <1>4, <1>5
        DEF Next, WakeByEvent, WakeByTimeout, Interrupt, FinalEnds, Exit,
            Kill, Start

\* Neither a truncated datagram nor a wake-up lost during an insert loses a
\* flow, for every level, header count and number of flows.
THEOREM NoFlowLost == Spec => []NothingLost
<1> DEFINE Sound == (~Faults /\ Stops = {}) => (lost = {} /\ main = "run")
<1>1. Init => Sound
  BY DEF Init
<1>2. Sound /\ [Next]_vars => Sound'
  BY SoundNext
<1>3. Sound => NothingLost
  BY DEF NothingLost
<1> QED BY <1>1, <1>2, <1>3, PTL DEF Spec

----------------------------------------------------------------------------
(* The export of sessions and devices *)

\* The times of a record, and what an update has that has not landed.
Ordered ==
  \A r \in Records : /\ first[r] = 0 <=> latest[r] = 0
                     /\ first[r] <= latest[r]
                     /\ pending[r] # 0 => latest[r] <= pending[r]

\* What has never landed is not owed.
OwedLanded == \A r \in Records : latest[r] = 0 => owed[r] # "owed"

\* What is owed is in the window that is being written, or in the next one.
OwedIsRead == \A r \in Records : owed[r] = "owed" => ToRead(r)

Inv == ExportTypeOK /\ Ordered /\ OwedLanded /\ OwedIsRead

\* At the start nothing is stored and nothing owed.
LEMMA ExportInitInv == ExportInit => Inv
BY ExportAssumption DEF ExportInit, Inv, ExportTypeOK, Ordered, OwedLanded, OwedIsRead,
   Times, Steps

\* Types, and the order of times, which the export leaves alone.
LEMMA TypeStep == ExportTypeOK /\ [ExportNext]_exporter => ExportTypeOK'
<1> SUFFICES ASSUME ExportTypeOK, [ExportNext]_exporter PROVE ExportTypeOK'
  OBVIOUS
<1> USE ExportAssumption DEF ExportTypeOK, Times, Steps
<1>1. CASE Tick
  BY <1>1 DEF Tick, records, config, task
<1>2. ASSUME NEW r \in Records, Stamp(r) PROVE ExportTypeOK'
  BY <1>2 DEF Stamp, config, task
<1>3. ASSUME NEW r \in Records, Lands(r) PROVE ExportTypeOK'
  <2>1. /\ pending' = [pending EXCEPT ![r] = 0]
        /\ latest' = [latest EXCEPT ![r] = pending[r]]
        /\ first' \in {first, [first EXCEPT ![r] = pending[r]]}
        /\ UNCHANGED <<clock, enabled, date, page, pc, now, then>>
    BY <1>3 DEF Lands, config, task
  <2>2. {first, latest, pending}' \subseteq [Records -> (0..clock)']
    BY <2>1
  <2>3. owed' \in [Records -> {"filed", "owed", "lost"}]
    <3>1. PICK w \in {"owed", "lost"} : owed' = [owed EXCEPT ![r] = w]
      BY <1>3 DEF Lands
    <3> QED BY <3>1
  <2> QED BY <2>1, <2>2, <2>3
<1>4. CASE LoadPage
  BY <1>4 DEF LoadPage, records, config, task
<1>5. CASE Save
  <2>1. owed' \in [Records -> {"filed", "owed", "lost"}]
    BY <1>5 DEF Save, PassedOver
  <2> QED BY <1>5, <2>1 DEF Save, records, task
<1>6. CASE Begin \/ ReadConfig \/ CallLater \/ Wakes \/ Started
  BY <1>6 DEF Begin, ReadConfig, CallLater, Wakes, Started, records, config
<1>7. CASE MoveDate
  BY <1>7 DEF MoveDate, Then, records
<1>8. CASE WriteSessions \/ WriteDevices
  BY <1>8 DEF WriteSessions, WriteDevices, Files, records, config
<1>9. CASE Raises \/ Killed
  <2>1. owed' \in [Records -> {"filed", "owed", "lost"}]
    BY <1>9 DEF Raises, Killed, PassedOver
  <2> QED BY <1>9, <2>1 DEF Raises, Killed, records, config
<1>10. CASE UNCHANGED exporter
  BY <1>10 DEF exporter, records, config, task
<1> QED
  BY <1>1, <1>2, <1>3, <1>4, <1>5, <1>6, <1>7, <1>8, <1>9, <1>10
  DEF ExportNext, World, Task

\* The dates of a record and of the export only come out of the clock.
LEMMA OrderedStep == ExportTypeOK /\ Ordered /\ [ExportNext]_exporter => Ordered'
<1> SUFFICES ASSUME ExportTypeOK, Ordered, [ExportNext]_exporter PROVE Ordered'
  OBVIOUS
<1>1. ASSUME NEW r \in Records, Stamp(r) PROVE Ordered'
  BY <1>1 DEF Stamp, ExportTypeOK, Times, Ordered
<1>2. ASSUME NEW r \in Records, Lands(r) PROVE Ordered'
  <2> SUFFICES ASSUME NEW s \in Records
               PROVE (/\ first[s] = 0 <=> latest[s] = 0
                      /\ first[s] <= latest[s]
                      /\ pending[s] # 0 => latest[s] <= pending[s])'
    BY DEF Ordered
  <2>1. CASE s = r
    BY <1>2, <2>1 DEF Lands, ExportTypeOK, Times, Ordered
  <2>2. CASE s # r
    BY <1>2, <2>2 DEF Lands, ExportTypeOK, Times, Ordered
  <2> QED BY <2>1, <2>2
<1>3. CASE UNCHANGED records
  BY <1>3 DEF records, Ordered
<1> QED
  BY <1>1, <1>2, <1>3 DEF ExportNext, World, Task, Tick, LoadPage, Save, Begin, ReadConfig,
     CallLater, MoveDate, WriteSessions, WriteDevices, Wakes, Raises, Killed, Started, exporter

\* A record is owed only when it is stored.
LEMMA OwedStep == ExportTypeOK /\ OwedLanded /\ [ExportNext]_exporter => OwedLanded'
<1> SUFFICES ASSUME ExportTypeOK, OwedLanded, [ExportNext]_exporter PROVE OwedLanded'
  OBVIOUS
<1>1. ASSUME NEW r \in Records, Lands(r) PROVE OwedLanded'
  <2>1. PICK w : owed' = [owed EXCEPT ![r] = w]
    BY <1>1 DEF Lands
  <2>2. pending[r] # 0 /\ latest' = [latest EXCEPT ![r] = pending[r]]
    BY <1>1 DEF Lands
  <2> QED BY <2>1, <2>2 DEF ExportTypeOK, OwedLanded
<1>2. ASSUME latest' = latest,
             \A r \in Records : owed'[r] = "owed" => owed[r] = "owed"
      PROVE OwedLanded'
  BY <1>2 DEF OwedLanded
<1>3. CASE MoveDate
  BY <1>2, <1>3 DEF MoveDate, records
<1>4. CASE WriteSessions \/ WriteDevices
  BY <1>2, <1>4 DEF WriteSessions, WriteDevices, Files, records
<1>5. CASE Raises \/ Killed \/ Save
  BY <1>2, <1>5 DEF Raises, Killed, Save, PassedOver, records
<1> QED
  BY <1>1, <1>2, <1>3, <1>4, <1>5 DEF ExportNext, World, Task, Tick, Stamp, LoadPage, Begin,
     ReadConfig, CallLater, Wakes, Started, exporter, records, config, task

\* The step of the export: the next window begins where this one ends, what a
\* file is written of is in it, and what is passed over is lost.
LEMMA ReadStep == Inv /\ [ExportNext]_exporter => OwedIsRead'
<1> SUFFICES ASSUME Inv, [ExportNext]_exporter, NEW r \in Records, owed'[r] = "owed"
             PROVE  ToRead(r)'
  BY DEF OwedIsRead
<1>t. /\ latest[r] \in Int /\ first[r] \in Int /\ date \in Int /\ now \in Int
      /\ then \in Int /\ clock \in Int /\ pending[r] \in Int
      /\ owed \in [Records -> {"filed", "owed", "lost"}]
  BY DEF Inv, ExportTypeOK, Times
<1>i. owed[r] = "owed" => ToRead(r)
  BY DEF Inv, OwedIsRead
<1>1. ASSUME NEW s \in Records, Lands(s) PROVE ToRead(r)'
  <2>1. CASE s = r
    BY <1>1, <1>t, <2>1 DEF Lands
  <2>2. CASE s # r
    <3>1. /\ latest'[r] = latest[r] /\ first'[r] = first[r] /\ owed'[r] = owed[r]
          /\ UNCHANGED <<date, pc, now, then>>
      BY <1>1, <1>t, <2>2 DEF Lands, Inv, ExportTypeOK, config, task
    <3> QED BY <1>i, <3>1 DEF ToRead, BeingWritten, InWindow
  <2> QED BY <2>1, <2>2
<1>2. CASE MoveDate
  <2>1. /\ pc = "stamp" /\ pc' = "sessions" /\ UNCHANGED <<first, latest, now>>
        /\ then' = Then /\ date' = now
    BY <1>2 DEF MoveDate, records
  <2>2. /\ owed[r] = "owed" /\ latest[r] >= date /\ latest[r] >= then'
    <3>1. owed[r] = "owed" /\ (date = 0 => latest[r] >= now - Step)
      BY <1>2, <1>t, ExportAssumption DEF MoveDate
    <3>2. latest[r] >= date
      BY <1>i, <2>1, <3>1 DEF ToRead, BeingWritten
    <3> QED BY <2>1, <3>1, <3>2 DEF Then
  <2>3. first[r] # 0 /\ first[r] <= latest[r]
    BY <2>2 DEF Inv, Ordered, OwedLanded
  <2>4. CASE latest[r] >= now
    BY <2>1, <2>4 DEF ToRead
  <2>5. CASE latest[r] < now
    <3>1. (first[r] <= now)' /\ (latest[r] >= then)' /\ (first[r] # 0)'
      BY <1>t, <2>1, <2>2, <2>3, <2>5
    <3> QED BY <2>1, <3>1 DEF ToRead, BeingWritten, InWindow
  <2> QED BY <1>t, <2>4, <2>5
<1>3. CASE WriteSessions \/ WriteDevices
  <2>1. /\ pc = "sessions" /\ pc' = "devices" /\ owed'[r] = owed[r]
           /\ ~(r \in Sessions /\ InWindow(r))
        \/ /\ pc = "devices" /\ pc' = "sleep" /\ owed'[r] = owed[r]
           /\ ~(r \in Devices /\ InWindow(r))
    BY <1>3, <1>t, ExportAssumption
       DEF WriteSessions, WriteDevices, Files, Kind, Records
  <2>2. UNCHANGED <<first, latest, date, now, then>>
    BY <1>3 DEF WriteSessions, WriteDevices, records, config
  <2>3. ToRead(r) /\ (InWindow(r)' <=> InWindow(r))
    BY <1>i, <2>1, <2>2 DEF InWindow
  <2> QED BY <2>1, <2>2, <2>3 DEF ToRead, BeingWritten, Records
<1>4. CASE Save \/ Raises \/ Killed
  BY <1>4, <1>i, <1>t DEF Save, Raises, Killed, PassedOver
<1>5. ASSUME UNCHANGED <<first, latest, owed, date, now, then>>,
             pc' = pc \/ {pc, pc'} \cap {"sessions", "devices"} = {}
      PROVE ToRead(r)'
  BY <1>5, <1>i DEF ToRead, BeingWritten, InWindow
<1>6. CASE ReadConfig
  BY <1>6, <1>i DEF ReadConfig, ToRead, BeingWritten, records, config
<1> QED
  BY <1>1, <1>2, <1>3, <1>4, <1>5, <1>6 DEF ExportNext, World, Task, Tick, Stamp, LoadPage,
     Begin, CallLater, Wakes, Started, exporter, records, config, task

\* The inductive invariant: what is owed is in a window that is still to be
\* written.
THEOREM InvHolds == ExportSpec => []Inv
<1>1. Inv /\ [ExportNext]_exporter => Inv'
  BY TypeStep, OrderedStep, OwedStep, ReadStep DEF Inv
<1> QED BY <1>1, ExportInitInv, PTL DEF ExportSpec

\* The documents, the clock and the task keep their types.
THEOREM ExportTypeCorrect == ExportSpec => []ExportTypeOK
BY InvHolds, PTL DEF Inv

\* Each window begins where the last one ended, so that what is older than the
\* date of the last export is in a file (exporter.py:71-124), whatever date the
\* administrator's page saves; but for what landed too late, was in a window that
\* broke off, was passed over by a saved date, or was older than a step before a
\* first export without a date.
THEOREM NoneMissed == ExportSpec => []NothingMissed
<1>1. Inv => NothingMissed
  BY DEF Inv, ExportTypeOK, OwedIsRead, NothingMissed, ToRead, BeingWritten, Times
<1> QED BY <1>1, InvHolds, PTL
=============================================================================
