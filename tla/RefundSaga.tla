----------------------------- MODULE RefundSaga -----------------------------
(***************************************************************************)
(* The money of one prepaid order: capture, cancellation, reopening and    *)
(* the refund, against Razorpay and its webhooks.                          *)
(*                                                                         *)
(* Stock is reduced to "was it sold" (OrderStock has the counters).  A     *)
(* worker runs one handler; req[w] is where it is and what it read.  The   *)
(* refund requests made to the provider are numbered; refund n answers     *)
(* pending or processed, is settled later, and each settlement is one      *)
(* webhook event that is delivered until the inbox completes it.           *)
(***************************************************************************)
EXTENDS Integers, FiniteSets

CONSTANTS
    Workers,     \* handlers in progress at once
    MaxRefunds,  \* bound: refunds the provider creates
    MaxAttempts  \* MAX_WEBHOOK_ATTEMPTS

ASSUME RefundsAssumption == MaxRefunds \in Nat \ {0}
ASSUME AttemptsAssumption == MaxAttempts \in Nat \ {0}

VARIABLES
    order,      \* the Order document
    captured,   \* the provider holds the customer's payment
    provider,   \* provider[n]: state of the n-th refund at Razorpay
    inbox,      \* inbox[n]: the webhook event that reports its settlement
    req,        \* what each worker is in the middle of
    crashed     \* history: the process of a handler has died

vars == <<order, captured, provider, inbox, req, crashed>>

Refunds == 1 .. MaxRefunds
PaymentStatus == {"pending", "paid", "failed", "refund_pending", "refunded", "refund_failed"}
OrderStatus == {"pending", "confirmed", "shipped", "cancelled"}
OrderDoc == [status : OrderStatus, pay : PaymentStatus, sold : BOOLEAN, flagged : BOOLEAN,
             refund : {"none", "processing", "processed", "failed"}, refundId : 0 .. MaxRefunds]
InboxStatus == {"received", "processing", "completed", "failed", "dead_letter"}
Event == [status : InboxStatus \cup {"unsent"}, attempts : 0 .. MaxAttempts]

Ops == {"capture", "refund_capture", "cancel", "cancelled", "refund", "call", "answer", "reopen", "webhook"}
Request == [op : Ops, seen : {"none", "lost", "pending", "processed", "error"} \cup PaymentStatus,
            status : OrderStatus, refund : 0 .. MaxRefunds]
Idle == [op |-> "idle"]

Begin(w, op, seen, n) ==
    req' = [req EXCEPT ![w] = [op |-> op, seen |-> seen, status |-> order.status, refund |-> n]]
Finish(w) == req' = [req EXCEPT ![w] = Idle]
IsIdle(w) == req[w] = Idle
Doing(w, op) == req[w].op = op

\* PAYMENT_TRANSITIONS, for the targets the refund webhooks ask for.
PaymentTransitions ==
    [paid |-> {"refund_pending", "refunded", "refund_failed"},
     refund_pending |-> {"refunded", "refund_failed"},
     refund_failed |-> {"refund_pending", "refunded"},
     pending |-> {"paid", "failed"}, failed |-> {"paid"}, refunded |-> {}]

CanTransitionPayment(from, to) == from = to \/ to \in PaymentTransitions[from]

-----------------------------------------------------------------------------
(* External: the customer pays, and Razorpay settles what it accepted.      *)
PayAtGateway ==
    /\ ~captured
    /\ captured' = TRUE
    /\ UNCHANGED <<order, provider, inbox, req, crashed>>

Settle(n) ==
    /\ provider[n] = "pending"
    /\ \E result \in {"processed", "failed"} :
          provider' = [provider EXCEPT ![n] = result]
    /\ inbox' = [inbox EXCEPT ![n].status = "received"]
    /\ UNCHANGED <<order, captured, req, crashed>>

-----------------------------------------------------------------------------
(* finalizeCapturedPayment: the order read first, the transaction, and the  *)
(* recording of a capture that cannot be fulfilled.                         *)
CaptureRead(w) ==
    /\ IsIdle(w)
    /\ captured
    /\ ~order.flagged
    /\ ~(order.pay = "paid" /\ order.sold)
    /\ Begin(w, "capture", "none", 0)
    /\ UNCHANGED <<order, captured, provider, inbox, crashed>>

Finalizable == order.pay # "paid" /\ ~order.sold

CaptureTx(w) ==
    /\ Doing(w, "capture")
    /\ \/ /\ ~Finalizable
          /\ Finish(w)
          /\ UNCHANGED order
       \/ /\ Finalizable
          /\ order.status # "cancelled"
          /\ order' = [order EXCEPT !.pay = "paid", !.status = "confirmed", !.sold = TRUE]
          /\ Finish(w)
       \/ /\ Finalizable \* cancelled before, or out of stock now
          /\ Begin(w, "refund_capture", "none", 0)
          /\ UNCHANGED order
    /\ UNCHANGED <<captured, provider, inbox, crashed>>

\* Fault: the capture is recorded and its refund never attempted.
RefundCaptureOnly(w) ==
    /\ Doing(w, "refund_capture")
    /\ order' = IF order.pay = "paid" THEN order
                ELSE [order EXCEPT !.pay = "paid", !.status = "cancelled", !.flagged = TRUE]
    /\ Finish(w)
    /\ UNCHANGED <<captured, provider, inbox, crashed>>

RefundCapture(w) ==
    /\ Doing(w, "refund_capture")
    /\ IF order.pay = "paid"
         THEN Finish(w) /\ UNCHANGED order
         ELSE /\ order' = [order EXCEPT !.pay = "paid", !.status = "cancelled", !.flagged = TRUE]
              /\ Begin(w, "refund", "none", 0)
    /\ UNCHANGED <<captured, provider, inbox, crashed>>

-----------------------------------------------------------------------------
(* cancelOrder: eligibility on the order read first, the transaction, then  *)
(* a fresh read that decides the refund, whether the transaction cancelled  *)
(* the order or found it in another status.                                 *)
Cancellable == order.status \in {"pending", "confirmed"}

CancelRead(w) ==
    /\ IsIdle(w)
    /\ Cancellable
    /\ Begin(w, "cancel", "none", 0)
    /\ UNCHANGED <<order, captured, provider, inbox, crashed>>

Cancel(w) ==
    /\ Doing(w, "cancel")
    /\ \/ /\ Cancellable
          /\ order' = [order EXCEPT !.status = "cancelled"]
          /\ Begin(w, "cancelled", "none", 0)
       \/ /\ ~Cancellable
          /\ UNCHANGED order
          /\ Begin(w, "cancelled", "lost", 0)
    /\ UNCHANGED <<captured, provider, inbox, crashed>>

AfterCancel(w) ==
    /\ Doing(w, "cancelled")
    /\ IF order.pay = "paid" THEN Begin(w, "refund", "none", 0) ELSE Finish(w)
    /\ UNCHANGED <<order, captured, provider, inbox, crashed>>

RetryRefund(w) ==
    /\ IsIdle(w)
    /\ order.status = "cancelled"
    /\ order.refund # "processed"
    /\ order.pay = "refund_failed"
    /\ Begin(w, "refund", "none", 0)
    /\ UNCHANGED <<order, captured, provider, inbox, crashed>>

(* reopenOrder: the refund checked on the order read, the status changed    *)
(* if it is still cancelled.                                                *)
ReopenRead(w) ==
    /\ IsIdle(w)
    /\ order.status = "cancelled"
    /\ order.refund \notin {"processing", "processed"}
    /\ Begin(w, "reopen", "none", 0)
    /\ UNCHANGED <<order, captured, provider, inbox, crashed>>

ReopenTx(w) ==
    /\ Doing(w, "reopen")
    /\ IF order.status = "cancelled"
         THEN order' = [order EXCEPT !.status = "confirmed"]
         ELSE UNCHANGED order
    /\ Finish(w)
    /\ UNCHANGED <<captured, provider, inbox, crashed>>

(* Fulfilment ships a confirmed order.                                      *)
Ship ==
    /\ order.status = "confirmed"
    /\ order' = [order EXCEPT !.status = "shipped"]
    /\ UNCHANGED <<captured, provider, inbox, req, crashed>>

-----------------------------------------------------------------------------
(* attemptRefund: claim, call the provider, write its answer.               *)
Claimable == order.pay \in {"paid", "refund_failed"} /\ order.refundId = 0

RefundClaim(w) ==
    /\ Doing(w, "refund")
    /\ IF Claimable
         THEN /\ order' = [order EXCEPT !.pay = "refund_pending", !.refund = "processing"]
              /\ Begin(w, "call", "none", 0)
         ELSE Finish(w) /\ UNCHANGED order
    /\ UNCHANGED <<captured, provider, inbox, crashed>>

(* External: Razorpay accepts a refund while the payment has not been given *)
(* back; the answer, or the connection, may be lost.                        *)
Refundable == \A n \in Refunds : provider[n] \in {"none", "failed"}

CallAccepted(w) ==
    /\ Doing(w, "call")
    /\ Refundable
    /\ \E n \in Refunds : \E result \in {"pending", "processed"} : \E answer \in {result, "error"} :
          /\ provider[n] = "none" /\ \A m \in 1 .. n - 1 : provider[m] # "none"
          /\ provider' = [provider EXCEPT ![n] = result]
          /\ inbox' = IF result = "processed"
                        THEN [inbox EXCEPT ![n].status = "received"] ELSE inbox
          /\ Begin(w, "answer", answer, n)
    /\ UNCHANGED <<order, captured, crashed>>

CallFails(w) ==
    /\ Doing(w, "call")
    /\ Begin(w, "answer", "error", 0)
    /\ UNCHANGED <<order, captured, provider, inbox, crashed>>

RecordProcessed(w) ==
    /\ Doing(w, "answer")
    /\ req[w].seen = "processed"
    /\ order' = IF order.pay = "refunded" THEN order
                ELSE [order EXCEPT !.pay = "refunded", !.refund = "processed",
                                   !.refundId = req[w].refund]
    /\ Finish(w)
    /\ UNCHANGED <<captured, provider, inbox, crashed>>

\* Fault: an accepted refund is taken for a processed one.
RecordPendingAsDone(w) ==
    /\ Doing(w, "answer")
    /\ req[w].seen = "pending"
    /\ order' = [order EXCEPT !.pay = "refunded", !.refund = "processed",
                              !.refundId = req[w].refund]
    /\ Finish(w)
    /\ UNCHANGED <<captured, provider, inbox, crashed>>

RecordPending(w) ==
    /\ Doing(w, "answer")
    /\ req[w].seen = "pending"
    /\ order' = [order EXCEPT !.refund = "processing", !.refundId = req[w].refund]
    /\ Finish(w)
    /\ UNCHANGED <<captured, provider, inbox, crashed>>

\* Fault: a failed call leaves the payment claimed.
RecordFailedOnly(w) ==
    /\ Doing(w, "answer")
    /\ req[w].seen = "error"
    /\ order' = [order EXCEPT !.refund = "failed"]
    /\ Finish(w)
    /\ UNCHANGED <<captured, provider, inbox, crashed>>

RecordFailed(w) ==
    /\ Doing(w, "answer")
    /\ req[w].seen = "error"
    /\ order' = [order EXCEPT !.pay = "refund_failed", !.refund = "failed"]
    /\ Finish(w)
    /\ UNCHANGED <<captured, provider, inbox, crashed>>

-----------------------------------------------------------------------------
(* razorpayWebhook: the delivery claims the event (replayRazorpayWebhook),  *)
(* transitionOrder reads the order and checks the transition ...            *)
\* Fault: an event another delivery is processing can be claimed.
WebhookClaimTaken(w, n) ==
    /\ IsIdle(w)
    /\ inbox[n].status \in {"received", "failed", "processing"}
    /\ inbox[n].attempts < MaxAttempts
    /\ inbox' = [inbox EXCEPT ![n].status = "processing", ![n].attempts = @ + 1]
    /\ Begin(w, "webhook", "none", n)
    /\ UNCHANGED <<order, captured, provider, crashed>>

WebhookClaim(w, n) ==
    /\ IsIdle(w)
    /\ inbox[n].status \in {"received", "failed"}
    /\ inbox[n].attempts < MaxAttempts
    /\ inbox' = [inbox EXCEPT ![n].status = "processing", ![n].attempts = @ + 1]
    /\ Begin(w, "webhook", "none", n)
    /\ UNCHANGED <<order, captured, provider, crashed>>

Target(n) == IF provider[n] = "processed" THEN "refunded" ELSE "refund_failed"

WebhookRead(w) ==
    LET n == req[w].refund
    IN  /\ Doing(w, "webhook")
        /\ req[w].seen = "none"
        /\ IF CanTransitionPayment(order.pay, Target(n))
             THEN Begin(w, "webhook", order.pay, n) /\ UNCHANGED inbox
             ELSE /\ inbox' = [inbox EXCEPT ![n].status =
                                 IF inbox[n].attempts >= MaxAttempts THEN "dead_letter" ELSE "failed"]
                  /\ Finish(w)
        /\ UNCHANGED <<order, captured, provider, crashed>>

\* Fault: Razorpay's status of the refund is stored as it came.
WebhookUpdateRaw(n) ==
    [order EXCEPT !.pay = provider[n], !.refund = provider[n]]

(* ... and writes it if neither status has moved since.  A lost race writes *)
(* nothing, and the event is completed either way.                          *)
WebhookUpdate(n) ==
    IF provider[n] = "processed"
      THEN [order EXCEPT !.pay = "refunded", !.refund = "processed", !.refundId = n]
      ELSE [order EXCEPT !.pay = "refund_failed", !.refund = "failed"]

WebhookWrite(w) ==
    LET n == req[w].refund
    IN  /\ Doing(w, "webhook")
        /\ req[w].seen # "none"
        /\ order' = IF order.pay = req[w].seen /\ order.status = req[w].status
                      THEN WebhookUpdate(n) ELSE order
        /\ inbox' = [inbox EXCEPT ![n].status = "completed"]
        /\ Finish(w)
        /\ UNCHANGED <<captured, provider, crashed>>

-----------------------------------------------------------------------------
(* The process of a handler dies between two of its steps.                  *)
Crash(w) ==
    /\ ~IsIdle(w)
    /\ Finish(w)
    /\ crashed' = TRUE
    /\ UNCHANGED <<order, captured, provider, inbox>>

Init ==
    /\ order = [status |-> "pending", pay |-> "pending", sold |-> FALSE, flagged |-> FALSE,
                refund |-> "none", refundId |-> 0]
    /\ captured = FALSE
    /\ provider = [n \in Refunds |-> "none"]
    /\ inbox = [n \in Refunds |-> [status |-> "unsent", attempts |-> 0]]
    /\ req = [w \in Workers |-> Idle]
    /\ crashed = FALSE

Handler(w) ==
    \/ CaptureTx(w) \/ RefundCapture(w) \/ Cancel(w) \/ AfterCancel(w) \/ ReopenTx(w)
    \/ RefundClaim(w) \/ CallAccepted(w) \/ CallFails(w)
    \/ RecordProcessed(w) \/ RecordPending(w) \/ RecordFailed(w)
    \/ WebhookRead(w) \/ WebhookWrite(w)

Start(w) ==
    \/ CaptureRead(w) \/ CancelRead(w) \/ RetryRefund(w) \/ ReopenRead(w)
    \/ \E n \in Refunds : WebhookClaim(w, n)

Next ==
    \/ PayAtGateway \/ Ship \/ \E n \in Refunds : Settle(n)
    \/ \E w \in Workers : Start(w) \/ Handler(w) \/ Crash(w)

Spec == Init /\ [][Next]_vars

(* A handler that was started runs on; staff retry a failed refund and      *)
(* Razorpay redelivers an unacknowledged event again and again.             *)
FairSpec ==
    /\ Spec
    /\ \A w \in Workers : WF_vars(Handler(w))
    /\ SF_vars(\E w \in Workers : RetryRefund(w))
    /\ \A n \in Refunds : WF_vars(Settle(n)) /\ SF_vars(\E w \in Workers : WebhookClaim(w, n))

(* Types, with the bound on the deliveries of one event.                    *)
TypeOK ==
    /\ order \in OrderDoc
    /\ captured \in BOOLEAN
    /\ provider \in [Refunds -> {"none", "pending", "processed", "failed"}]
    /\ inbox \in [Refunds -> Event]
    /\ req \in [Workers -> Request \cup {Idle}]
    /\ crashed \in BOOLEAN

(* The order says refunded only when Razorpay gave the money back: neither  *)
(* an accepted request, a lost answer nor an event about an earlier refund  *)
(* passes for it.                                                           *)
RefundedIsReal == order.pay = "refunded" => \E n \in Refunds : provider[n] = "processed"

(* However often an event is delivered, at most one delivery processes it.  *)
OneDeliveryAtATime ==
    \A n \in Refunds :
        Cardinality({w \in Workers : Doing(w, "webhook") /\ req[w].refund = n}) <= 1

(* While no server has died, a claimed refund without a provider id is in   *)
(* some handler's hands: whoever claimed it writes the outcome              *)
(* (attemptRefund.js:12-75).                                                *)
PendingHasOwner ==
    order.pay = "refund_pending" /\ order.refundId = 0 /\ ~crashed
      => \E w \in Workers : Doing(w, "call") \/ Doing(w, "answer")

(* Money kept for a cancelled order, with no refund recorded, is claimed    *)
(* for a refund, unless the server that was to claim it died.               *)
Kept == order.status = "cancelled" /\ order.pay = "paid" /\ order.refundId = 0
CancelledIsClaimed == Kept ~> ~Kept \/ crashed
=============================================================================
