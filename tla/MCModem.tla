------------------------------ MODULE MCModem ------------------------------
(***************************************************************************)
(* An instance of Modem for TLC: two memories of two places, of which 3 is *)
(* sent as it is, 16 as 10 and 10 as none, a text, and a report that       *)
(* cannot be decoded.                                                      *)
(***************************************************************************)
EXTENDS Modem

CONSTANTS a1, m1, m2

AllCalls == {"send", "ussd", "process"}
TwoMemories == {"SM", "SR"}
PlacesOfMemories == [SM |-> {3, 16}, SR |-> {10, 16}]
=============================================================================
