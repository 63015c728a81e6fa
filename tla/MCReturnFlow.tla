---- MODULE MCReturnFlow ----
(* Small instances of ReturnFlow for TLC.  Symmetry is sound: nothing reads *)
(* the return of a refund that Razorpay does not have.                      *)
EXTENDS ReturnFlow, TLC

CONSTANTS r1, r2, w1, w2

Symmetric == Permutations(Returns) \cup Permutations(Workers)

\* All but the order whose refund is at Razorpay with no answer noted: it is
\* found through the same steps as the two that are explored with an amount,
\* and with none after a failure.
Explored ==
    UNION {Unrefunded,
           Cancelled("refunded", "processed", GrandTotal, {"processed"}),
           Cancelled("refund_pending", "processing", GrandTotal, {"pending"}),
           Cancelled("refund_pending", "processing", 0, {"none"}),
           Cancelled("refund_failed", "failed", 0, {"none", "pending"})}

\* One order, whose cancellation could not refund it: the answer was lost.
AnswerLost == Cancelled("refund_failed", "failed", 0, {"pending"})

(* RETURN_MODULE.md:48: "The sum of reserved/processed refunds cannot       *)
(* exceed the original order total", said of what was really given back.    *)
(* The code breaks it: an inspection does not count the order's own refund  *)
(* while it is under way or has no amount, which the webhook never writes   *)
(* (returnRequest.js:165, razorpayWebhook.js:67), nor does a settlement by  *)
(* hand.                                                                    *)
GivenBackWithinTotal ==
    (IF order.sent = "processed" THEN GrandTotal ELSE 0) + Sum(Amounts, Processed) <= GrandTotal
====
