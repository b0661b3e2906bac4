----------------------------- MODULE Admission -----------------------------
(***************************************************************************)
(* Whom the portal lets in and whom it tells the password, which is what   *)
(* phone.py, device.py, zte.py and ami.py have to agree on although each   *)
(* works on documents it may have read long before.  A device is let in    *)
(* by an event that entitles it, stays in, and gets the password of its    *)
(* account only when it is in.                                             *)
(***************************************************************************)
CONSTANTS
  Device, Code,
  PhoneOf,     \* the telephone of each device
  Open         \* whether some portal lets everyone in

VARIABLES
  texted,      \* <<device, code>>: codes sent by SMS
  returned,    \* <<device, code>>: codes that came back and let it in
  called,      \* telephones that called or texted in
  checked,     \* devices that are in
  granted      \* devices whose page was given a password

vars == <<texted, returned, called, checked, granted>>

Init == /\ texted = {} /\ returned = {} /\ called = {}
        /\ checked = {} /\ granted = {}

Text(d, c) ==
  /\ texted' = texted \cup {<<d, c>>}
  /\ UNCHANGED <<returned, called, checked, granted>>

\* The telephone calls or texts in: one device of it is let in.
Contact(d) ==
  /\ called' = called \cup {PhoneOf[d]}
  /\ checked' = checked \cup {d}
  /\ UNCHANGED <<texted, returned, granted>>

Enters(d) == /\ checked' = checked \cup {d}
             /\ granted' = granted \cup {d}
             /\ UNCHANGED <<texted, called>>

\* A code comes back from the device it was sent to.
Return(d, c) == /\ <<d, c>> \in texted
                /\ returned' = returned \cup {<<d, c>>}
                /\ Enters(d)

\* The portal asks for no proof.
Enter(d) == Open /\ Enters(d) /\ UNCHANGED returned

\* The page of a device that is in asks again.
Grant(d) == d \in checked /\ Enters(d) /\ UNCHANGED returned

Next == \E d \in Device :
          \/ \E c \in Code : Text(d, c) \/ Return(d, c)
          \/ Contact(d) \/ Enter(d) \/ Grant(d)

Spec == Init /\ [][Next]_vars
=============================================================================
