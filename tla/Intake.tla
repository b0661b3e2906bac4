------------------------------- MODULE Intake -------------------------------
(***************************************************************************)
(* What a part of the server promises that takes things in and has to deal *)
(* with each of them: the flow collector (netflow.py, class Netflow5) and  *)
(* the receiver of SMS (zte.py, worker).  A thing that was received is     *)
(* held until it is done or lost, is dealt with once, and what is done or  *)
(* lost stays so; but what its source did not let go of is held still, and *)
(* dealt with again.                                                       *)
(***************************************************************************)
CONSTANT Item  \* the things there may be

VARIABLES
  held,        \* received and not dealt with yet
  done,        \* in the collection; given to the handler
  lost,        \* gone with a fault, a kill or a cleaning
  back         \* what the source kept at least once when it was taken

Init == held = {} /\ done = {} /\ lost = {} /\ back = {}

Receive(S) ==
  /\ S \cap (held \cup done \cup lost) = {}
  /\ held' = held \cup S
  /\ UNCHANGED <<done, lost, back>>

\* The source keeps some of what is held.
Keep(S) ==
  /\ S \subseteq held /\ back' = back \cup S
  /\ UNCHANGED <<held, done, lost>>

\* Some of what is held is settled, each in one way, and is held no longer unless
\* the source kept it.
Settle(D, L) ==
  /\ D \subseteq held /\ L \subseteq held /\ D \cap L = {}
  /\ \E B \in SUBSET back : held' = held \ ((D \cup L) \ B)
  /\ done' = done \cup D
  /\ lost' = lost \cup L
  /\ UNCHANGED back

Next == \/ \E S \in SUBSET Item : Receive(S) \/ Keep(S)
        \/ \E D, L \in SUBSET held : Settle(D, L)

Spec == Init /\ [][Next]_<<held, done, lost, back>>
=============================================================================
