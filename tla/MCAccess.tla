------------------------------ MODULE MCAccess ------------------------------
(***************************************************************************)
(* Instances of Access and Billing for TLC, and RadiusPacket beside them.  *)
(***************************************************************************)
EXTENDS Access, RadiusPacket, TLC

CONSTANTS u1, m1, v1

OneUser == [m \in Macs |-> u1]

\* The portal: a tick of access, slowly.
Portal1 == [time |-> 1, rate |-> 1]
Callee == [rate |-> 0, ports |-> 1]

\* Its tariff: two ticks of use within three, at another rate.
Day == [duration |-> 3, limit |-> [time |-> 2, rate |-> 2]]
\* A voucher: two ticks within one.
Card == [v \in Vouchers |-> [duration |-> 1, limit |-> [time |-> 2, rate |-> 3]]]
Expiry == [v \in Vouchers |-> 3]

Invoice(t, n, v) == [user |-> u1, start |-> n, stop |-> Stop(t, n),
                     voucher |-> v, limit |-> t.limit]

\* Billing writes the invoices; this run begins with what it may write.
Paid(v) == {<<Invoice(Day, 1, None)>>, <<Invoice(Day, 2, None)>>,
            <<Invoice(Card[v], 1, v), Invoice(Day, 2, None)>>}

PaidInit == /\ \E v \in Vouchers : invoices \in Paid(v)
            /\ spent = [v \in Vouchers |->
                          IF \E i \in DOMAIN invoices : invoices[i].voucher = v
                          THEN u1 ELSE None]
            /\ now = 1 /\ torn = {}
            /\ call = [c \in Calls |-> NoCall]
            /\ redeem = [r \in Redeems |-> NoRedeem]
            /\ AccessInit

PaidSpec == PaidInit /\ [][Next]_vars

\* In the first states: requests and replies are read as they were meant, limits
\* beyond 32 bits included (packet.py:118, protocol.py:375).
RepliesUnderstood == now = 1 => PacketsUnderstood

Interchangeable == Permutations(Slots)
KeySet == {"time", "ports", "rate"}
=============================================================================
