--------------------------- MODULE MCRegistration ---------------------------
(***************************************************************************)
(* Instances of Registration for TLC: the portal settings of each run.     *)
(***************************************************************************)
EXTENDS Registration, TLC

Portal == [id |-> "p", nosms |-> FALSE, callrecieve |-> FALSE,
           smsrecieve |-> FALSE, smssend |-> TRUE, sms_limit |-> -1,
           sms_timeout |-> 1, devmax |-> 4, rereg |-> 2]

\* SMS sent to the visitor, resent after one tick.
SmsPortal == {Portal}

\* Everyone is let in.
OpenPortal == {[Portal EXCEPT !.nosms = TRUE, !.rereg = 1]}

\* Every way of proving a phone number at once.
MixedPortal == {[Portal EXCEPT !.callrecieve = TRUE, !.smsrecieve = TRUE]}

\* Phones and Macs are not interchangeable: SomeDevice is one of them.
Interchangeable == Permutations(Codes) \cup Permutations(Reqs)
=============================================================================
