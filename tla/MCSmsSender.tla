----------------------------- MODULE MCSmsSender -----------------------------
(***************************************************************************)
(* Instances of SmsSender for TLC: three gates, one of them the callee's   *)
(* own and in its round robin only (zte.py:133-138), and filters that      *)
(* leave some phones to some gates.                                        *)
(***************************************************************************)
EXTENDS SmsSender

CONSTANTS g1, g2, g3

ThreeGates == {g1, g2, g3}
TwoCycles == {"general", "own"}
GatesOfCycles == [c \in TwoCycles |-> IF c = "own" THEN <<g3>> ELSE <<g1, g2>>]

\* Message 2 has a callee with its own gate, whose filter does not match.
TwoThenOwn == [m \in Msgs |-> IF m = 2 THEN "own" ELSE "general"]
AllGeneral == [m \in Msgs |-> "general"]

\* g2 takes two phones only, and g3 one.
Filters == [g \in ThreeGates |->
              CASE g = g1 -> Msgs [] g = g2 -> {1, 4} [] OTHER -> {1}]

TwoCopies == [m \in Msgs |-> IF m = 1 THEN 3 ELSE 2]
OneCopy == [m \in Msgs |-> 1]
=============================================================================
