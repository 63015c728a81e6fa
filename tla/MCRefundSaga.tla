---- MODULE MCRefundSaga ----
(* Small instances of RefundSaga for TLC. *)
EXTENDS RefundSaga, TLC

CONSTANTS w1, w2

Symmetric == Permutations(Workers)

-----------------------------------------------------------------------------
(* Promises of the comments and documents that the code does not keep.  The *)
(* README tells how each one breaks; to see it, name one in a .cfg.         *)

(* cancelOrder.js: a cancellation that loses a race is a no-op, so it never *)
(* goes on to refund an order that is not cancelled.                        *)
LostCancelIsNoOp ==
    [][\A w \in Workers :
          Doing(w, "cancelled") /\ req[w].seen = "lost" /\ order.status # "cancelled"
            => req'[w] = Idle]_vars

(* attemptRefund.js: of the handler's answer and the webhook, whichever     *)
(* write lands second is a no-op; refunded has no outgoing transition.      *)
RefundedIsFinal == [][order.pay = "refunded" => order'.pay = "refunded"]_vars

(* attemptRefund.js: only one caller wins the claim.                        *)
OneCaller == Cardinality({w \in Workers : Doing(w, "call")}) <= 1

(* reopenOrder.js: reopening past a refund, processed or in progress, would *)
(* ship an item that was already paid back.                                 *)
Refunding == \E n \in Refunds : provider[n] \in {"pending", "processed"}
ReopenedKeepsMoney == order.status \in {"confirmed", "shipped"} => ~Refunding

(* retryRefund.js: retries refund initiation for a cancelled order whose    *)
(* refund previously failed.                                                *)
FailedCanRetry == order.pay = "refund_failed" /\ ~Refunding => Claimable

(* attemptRefund.js: a crash mid-call leaves a clearly recoverable state.   *)
CrashedRefundRecovers ==
    order.pay = "refund_pending" /\ order.refundId = 0
      ~> ~(order.pay = "refund_pending" /\ order.refundId = 0)
====
