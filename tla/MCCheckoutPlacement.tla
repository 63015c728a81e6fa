---- MODULE MCCheckoutPlacement ----
(* A small instance of CheckoutPlacement for TLC. *)
EXTENDS CheckoutPlacement

CONSTANTS w1, w2, shown, advance, cod

\* One prepaid checkout with the total it was shown, one of a client that
\* sends none (or pays an advance, which no total fixes), one on delivery.
ShownOnly == [e \in Envelopes |-> IF e = shown THEN 1 ELSE 0]

(* add.js: the advance order uses the Razorpay pipeline "just for           *)
(* advanceAmount": the Razorpay order a placed order hangs on is over what  *)
(* the order has to pay online.                                             *)
LinkedAmountsAgree ==
    order.placed /\ order.envelope \notin FullCod => gateway[order.provider] = order.amount

(* providerBackedHttp.integration.test.js: the attempt of a placed order    *)
(* ends up linked.                                                          *)
PlacedIsLinked ==
    order.placed /\ order.envelope \notin FullCod => attempt.status = "linked"

(* add.js: "retry this same checkout shortly".                              *)
OpenedIsPlacedDespiteCrash == gateway # <<>> ~> order.placed \/ ~TotalStands
====
