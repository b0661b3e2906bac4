--------------------------- MODULE MCSmsReceiver ---------------------------
(***************************************************************************)
(* An instance of SmsReceiver for TLC: a modem with room for two messages  *)
(* beside a draft, and a SIM with one, to which two texts come and one     *)
(* reply goes, and a spool that takes any text and whose calls may fail    *)
(* for ever, with a file that says another phone's code, a garbled one and *)
(* one the driver raises on.                                               *)
(***************************************************************************)
EXTENDS SmsReceiver

CONSTANTS modem, spool, t1, t2, f1, f2, f3, r1, d1, pA, pB, code

GateOfMessage ==
  [m \in Messages |-> IF m \in {t1, t2, r1} THEN modem ELSE spool]
PhoneOfDevice == [d \in Devices |-> pA]
PhoneOfText == [m \in Texts |-> IF m = f1 THEN pB ELSE pA]
CodeOfDevice == [d \in Devices |-> code]
CodeOfText == [m \in Texts |-> IF m \in {t1, f1} THEN code ELSE None]
=============================================================================
