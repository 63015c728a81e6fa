---- MODULE CheckoutContract ----
(* What placing an order under one idempotency key promises, without any of *)
(* its mechanism: at most one Razorpay order is ever opened, for one of the *)
(* requests and over a total that request agreed to; at most one order is   *)
(* placed, and one that is paid online only for the request the Razorpay    *)
(* order was opened for.  Neither is ever taken back or changed.            *)
EXTENDS Naturals, Sequences

CONSTANTS
    Envelopes,   \* request fingerprints sent under the key
    FullCod,     \* the envelopes that pay everything on delivery
    Expected,    \* the total an envelope was shown, or 0
    Amounts      \* what the cart may cost

VARIABLES
    opened,   \* the Razorpay orders opened for the key: none, or one
    placed    \* the orders placed under the key: none, or one

Agreed(e, a) == Expected[e] \in {0, a}

Init == opened = <<>> /\ placed = <<>>

Open(e, a) ==
    /\ opened = <<>>
    /\ Agreed(e, a)
    /\ opened' = <<[envelope |-> e, amount |-> a]>>
    /\ UNCHANGED placed

Place(e, a) ==
    /\ placed = <<>>
    /\ Agreed(e, a)
    /\ e \in FullCod \/ (opened # <<>> /\ opened[1].envelope = e)
    /\ placed' = <<[envelope |-> e, amount |-> a]>>
    /\ UNCHANGED opened

Next == \E e \in Envelopes, a \in Amounts : Open(e, a) \/ Place(e, a)

Spec == Init /\ [][Next]_<<opened, placed>>
====
