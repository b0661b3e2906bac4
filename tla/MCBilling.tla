----------------------------- MODULE MCBilling -----------------------------
(***************************************************************************)
(* Instances of Billing for TLC.                                           *)
(***************************************************************************)
EXTENDS Billing, TLC

CONSTANTS v1, v2

Free == [duration |-> 1, limit |-> [time |-> 1]]

\* A tariff without an end; the other one has been removed.
Cards == [v \in Vouchers |-> IF v = v1
                            THEN [duration |-> 0, limit |-> [rate |-> 0]]
                            ELSE None]
Expiry == [v \in Vouchers |-> 3]
KeySet == {"time", "ports", "rate"}

Interchangeable == Permutations(Users) \cup Permutations(Calls)
                   \cup Permutations(Redeems)
=============================================================================
