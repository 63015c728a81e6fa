----------------------------- MODULE OrderStock -----------------------------
(***************************************************************************)
(* Orders over the stock service: placement, payment retry, capture, the   *)
(* payment and expiry crons, cancellation, reopening and refunds.          *)
(*                                                                         *)
(* A worker runs one handler at a time.  A Mongo transaction is one step   *)
(* (its writes all touch the order document, so overlapping transactions   *)
(* conflict and one of them runs again).  What a handler read before an    *)
(* await and still uses after it is kept in req[w].seen, and any other     *)
(* worker may run in between.  Partial COD is treated as prepaid: its      *)
(* advance_paid is "paid" here; full COD has online = FALSE.               *)
(***************************************************************************)
EXTENDS StockService

CONSTANTS
    Workers,              \* handlers in progress at once
    CancellableStatuses,  \* cancellation statuses of the shop's policy
    AdjustDeltas,         \* admin adjustments explored
    MaxAdjusts,           \* bound: number of adjustments
    MaxEdits,             \* bound: number of product edits
    OpeningStock          \* on-hand units of each SKU at the start

ASSUME CancellableAssumption ==
    CancellableStatuses \subseteq {"pending", "confirmed", "processing"}
ASSUME AdjustAssumption == AdjustDeltas \subseteq Int \ {0}
ASSUME OpeningAssumption == OpeningStock \in [Skus -> Nat]

VARIABLES
    order,      \* the Order documents
    captured,   \* orders whose provider order has a captured payment
    req,        \* what each worker is in the middle of
    adjusts, edits

vars == <<stock, reserved, mode, ledger, posted, holds, lapsed,
          order, captured, req, adjusts, edits>>

OrderStatus == {"absent", "pending", "confirmed", "processing", "cancelled", "failed"}
PaymentStatus == {"pending", "paid", "failed", "refund_pending", "refunded", "refund_failed"}
StockState == {"none", "reserved", "committed", "released", "restocked"}
StockFlag == {"none", "cancelled", "out_of_stock"}
\* refund.status; "accepted" is processing with a razorpay_refund_id recorded.
RefundStatus == {"none", "processing", "accepted", "processed", "failed"}

OrderDoc == [status : OrderStatus, pay : PaymentStatus, online : BOOLEAN, manual : BOOLEAN,
             stockState : StockState, epoch : Epochs, stockReserved : BOOLEAN,
             reverted : BOOLEAN, flag : StockFlag, refund : RefundStatus]

NoOrder == [status |-> "absent", pay |-> "pending", online |-> FALSE, manual |-> FALSE,
            stockState |-> "none", epoch |-> 0, stockReserved |-> FALSE,
            reverted |-> FALSE, flag |-> "none", refund |-> "none"]

Ops == {"capture", "refund_capture", "renew", "release", "cancel", "cancelled", "reopen",
        "refund", "refund_call"}
Request == [op : Ops, order : Orders, seen : StockState \cup StockFlag]
Idle == [op |-> "idle"]

Begin(w, op, o, seen) == req' = [req EXCEPT ![w] = [op |-> op, order |-> o, seen |-> seen]]
Finish(w) == req' = [req EXCEPT ![w] = Idle]
IsIdle(w) == req[w] = Idle
Doing(w, op) == req[w].op = op

Set(o, doc) == order' = [order EXCEPT ![o] = doc]
MarkCommitted(doc) == [doc EXCEPT !.stockState = "committed", !.stockReserved = TRUE,
                                  !.reverted = FALSE]
\* Fault: the reservation is released and the order not told.
AfterReleaseForgotten(doc) == doc

AfterRelease(doc) == [doc EXCEPT !.stockState = IF @ = "reserved" THEN "released" ELSE @]

-----------------------------------------------------------------------------
(* Checkout: the order, its items and its stock in one transaction.  A line *)
(* that is short aborts it, so nothing is placed.                           *)
PlacePrepaid(o) ==
    /\ order[o].status = "absent"
    /\ CanReserve(o)
    /\ ReserveOrder(o, 0)
    /\ Set(o, [NoOrder EXCEPT !.status = "pending", !.online = TRUE, !.stockState = "reserved"])
    /\ UNCHANGED <<captured, req, adjusts, edits>>

PlaceCod(o) ==
    /\ order[o].status = "absent"
    /\ CanCommitLines(o, 0)
    /\ CommitLines(o, 0)
    /\ Set(o, MarkCommitted([NoOrder EXCEPT !.status = "processing"]))
    /\ UNCHANGED <<captured, req, adjusts, edits>>

(* Razorpay captures the customer's payment; the page may stay open after   *)
(* the order was failed, cancelled or paid by hand.                         *)
PayAtGateway(o) ==
    /\ order[o].online
    /\ o \notin captured
    /\ captured' = captured \cup {o}
    /\ UNCHANGED <<stockVars, order, req, adjusts, edits>>

-----------------------------------------------------------------------------
(* retryPayment reads the order, asks the gateway that nothing was paid,    *)
(* then renews the hold with the order it read.                             *)
RetryRead(w, o) ==
    /\ IsIdle(w)
    /\ order[o].online
    /\ order[o].status = "pending"
    /\ order[o].pay \in {"pending", "failed"}
    /\ o \notin captured
    /\ Begin(w, "renew", o, order[o].stockState)
    /\ UNCHANGED <<stockVars, order, captured, adjusts, edits>>

(* renewReservation, first branch: the order read held units.               *)
RenewExtends(w) ==
    /\ Doing(w, "renew")
    /\ req[w].seen = "reserved"
    /\ ExtendHolds(req[w].order)
    /\ Finish(w)
    /\ UNCHANGED <<order, captured, adjusts, edits>>

(* renewReservation, last branch: a new epoch and a new hold; short units   *)
(* abort the transaction.  At the bound on epochs the request gives up.     *)
RenewReserves(w) ==
    LET o == req[w].order
        e == order[o].epoch + 1
    IN  /\ Doing(w, "renew")
        /\ req[w].seen \notin {"reserved", "committed"}
        /\ e <= MaxEpoch
        /\ CanReserve(o)
        /\ ReserveOrder(o, e)
        /\ Set(o, [order[o] EXCEPT !.epoch = e, !.stockState = "reserved"])
        /\ Finish(w)
        /\ UNCHANGED <<captured, adjusts, edits>>

RenewRefused(w) ==
    /\ Doing(w, "renew")
    /\ \/ req[w].seen = "committed"
       \/ /\ req[w].seen # "reserved"
          /\ ~CanReserve(req[w].order) \/ order[req[w].order].epoch = MaxEpoch
    /\ Finish(w)
    /\ UNCHANGED <<stockVars, order, captured, adjusts, edits>>

-----------------------------------------------------------------------------
(* finalizeCapturedPayment, called by the webhook, the browser, the payment *)
(* cron and the expiry cron: the checks made on the order read first.       *)
CaptureRead(w, o) ==
    /\ IsIdle(w)
    /\ o \in captured
    /\ ~order[o].manual
    /\ order[o].flag = "none"
    /\ ~(order[o].pay = "paid" /\ order[o].stockReserved)
    /\ Begin(w, "capture", o, "none")
    /\ UNCHANGED <<stockVars, order, captured, adjusts, edits>>

(* The order is read again inside the transaction.                          *)
Finalizable(o) ==
    /\ order[o].pay # "paid"
    /\ ~order[o].stockReserved
    /\ ~order[o].manual

HasHold(o) == order[o].stockState = "reserved"

CanFulfil(o) ==
    IF HasHold(o) THEN CanCommitReservation(o, order[o].epoch)
                  ELSE CanCommitLines(o, order[o].epoch)

\* Fault: a capture whose hold is gone sells nothing.
SellHoldOnly(o) ==
    IF HasHold(o) THEN CommitReservation(o, order[o].epoch) ELSE UNCHANGED stockVars

SellOrder(o) ==
    IF HasHold(o) THEN CommitReservation(o, order[o].epoch)
                  ELSE CommitLines(o, order[o].epoch)

PaidDoc(o) == MarkCommitted([order[o] EXCEPT !.pay = "paid", !.status = "confirmed"])

\* Fault: the order is not seen to be cancelled.
CaptureConfirmsAny(w) ==
    LET o == req[w].order
    IN  /\ Doing(w, "capture")
        /\ Finalizable(o)
        /\ CanFulfil(o)
        /\ SellOrder(o)
        /\ Set(o, PaidDoc(o))
        /\ Finish(w)
        /\ UNCHANGED <<captured, adjusts, edits>>

CaptureConfirms(w) ==
    LET o == req[w].order
    IN  /\ Doing(w, "capture")
        /\ Finalizable(o)
        /\ order[o].status # "cancelled"
        /\ CanFulfil(o)
        /\ SellOrder(o)
        /\ Set(o, PaidDoc(o))
        /\ Finish(w)
        /\ UNCHANGED <<captured, adjusts, edits>>

(* The transaction aborts, and the payment is then recorded by another one. *)
CaptureUnfulfillable(w) ==
    LET o == req[w].order
    IN  /\ Doing(w, "capture")
        /\ Finalizable(o)
        /\ \/ /\ order[o].status = "cancelled"
              /\ Begin(w, "refund_capture", o, "cancelled")
           \/ /\ order[o].status # "cancelled"
              /\ ~CanFulfil(o)
              /\ Begin(w, "refund_capture", o, "out_of_stock")
        /\ UNCHANGED <<stockVars, order, captured, adjusts, edits>>

CaptureReplayed(w) ==
    /\ Doing(w, "capture")
    /\ ~Finalizable(req[w].order)
    /\ Finish(w)
    /\ UNCHANGED <<stockVars, order, captured, adjusts, edits>>

(* finalizeRefundedCapture: the order ends cancelled and paid, any hold is  *)
(* released, and a refund is attempted next.                                *)
RefundCapture(w) ==
    LET o == req[w].order
        doc == IF HasHold(o) THEN AfterRelease(order[o]) ELSE order[o]
    IN  /\ Doing(w, "refund_capture")
        /\ order[o].pay # "paid"
        /\ IF HasHold(o) THEN ReleaseReservation(o) ELSE UNCHANGED stockVars
        /\ Set(o, [doc EXCEPT !.pay = "paid", !.status = "cancelled", !.flag = req[w].seen])
        /\ Begin(w, "refund", o, "none")
        /\ UNCHANGED <<captured, adjusts, edits>>

RefundCaptureTaken(w) ==
    /\ Doing(w, "refund_capture")
    /\ order[req[w].order].pay = "paid"
    /\ Finish(w)
    /\ UNCHANGED <<stockVars, order, captured, adjusts, edits>>

(* recordManualPayment: the same transaction, validated inside it; a short  *)
(* line is an error shown to the admin.                                     *)
ManualPayable(o) ==
    /\ order[o].online
    /\ order[o].pay \in {"pending", "failed"}
    /\ order[o].status \in {"pending", "confirmed", "failed"}
    /\ ~order[o].stockReserved
    /\ ~order[o].reverted
    /\ ~order[o].manual
    /\ order[o].refund = "none"

RecordManualPayment(o) ==
    /\ ManualPayable(o)
    /\ CanFulfil(o)
    /\ SellOrder(o)
    /\ Set(o, [PaidDoc(o) EXCEPT !.manual = TRUE])
    /\ UNCHANGED <<captured, req, adjusts, edits>>

-----------------------------------------------------------------------------
(* failUnpaidOrder, from updatePendingRazorpayPayments: the gateway showed  *)
(* no capture when it was asked, which may no longer be so.                 *)
FailUnpaid(o) ==
    /\ order[o].online
    /\ order[o].status = "pending"
    /\ order[o].pay = "pending"
    /\ ReleaseReservation(o)
    /\ Set(o, [AfterRelease(order[o]) EXCEPT !.status = "failed", !.pay = "failed"])
    /\ UNCHANGED <<captured, req, adjusts, edits>>

(* releaseExpiredReservations, which never overlaps itself: an order with a *)
(* lapsed hold is looked up and skipped when it is paid and still reserved. *)
(* The gateway is asked about any other order that is not paid.  A capture  *)
(* it shows, which is no longer one when it was refunded, is finalized      *)
(* (CaptureRead) and the hold left to that; otherwise the hold is to be     *)
(* released.                                                                *)
PaidButReserved(o) == order[o].pay = "paid" /\ order[o].stockState = "reserved"

ShowsCapture(o) == order[o].pay \notin {"paid", "refunded"} /\ o \in captured

ExpiryPicks(w, o) ==
    /\ IsIdle(w)
    /\ \A v \in Workers : ~Doing(v, "release")
    /\ HoldsOf(o) \cap lapsed # {}
    /\ ~PaidButReserved(o)


ExpiryCheck(w, o) ==
    /\ ExpiryPicks(w, o)
    /\ ~ShowsCapture(o)
    /\ Begin(w, "release", o, "none")
    /\ UNCHANGED <<stockVars, order, captured, adjusts, edits>>

(* The gateway could not be reached for the grace period of an hour.        *)
ExpiryBlind(w, o) ==
    /\ ExpiryPicks(w, o)
    /\ ShowsCapture(o)
    /\ Begin(w, "release", o, "none")
    /\ UNCHANGED <<stockVars, order, captured, adjusts, edits>>

ExpiryRelease(w) ==
    LET o == req[w].order
    IN  /\ Doing(w, "release")
        /\ ReleaseReservation(o)
        /\ Set(o, AfterRelease(order[o]))
        /\ Finish(w)
        /\ UNCHANGED <<captured, adjusts, edits>>

-----------------------------------------------------------------------------
(* cancelOrder: eligibility on the order read first; status and stock in    *)
(* one transaction, which leaves an order alone that is no longer in an     *)
(* eligible status; the refund afterwards, won or lost.                     *)
CancelRead(w, o) ==
    /\ IsIdle(w)
    /\ order[o].status \in CancellableStatuses
    /\ Begin(w, "cancel", o, "none")
    /\ UNCHANGED <<stockVars, order, captured, adjusts, edits>>

Cancel(w) ==
    LET o == req[w].order
    IN  /\ Doing(w, "cancel")
        /\ order[o].status \in CancellableStatuses
        /\ \/ /\ order[o].stockState = "reserved"
              /\ ReleaseReservation(o)
              /\ Set(o, [AfterRelease(order[o]) EXCEPT !.status = "cancelled"])
           \/ /\ order[o].stockState = "committed"
              /\ RestockLines(o, order[o].epoch)
              /\ Set(o, [order[o] EXCEPT !.status = "cancelled", !.stockState = "restocked",
                                         !.reverted = TRUE])
           \/ /\ order[o].stockState \notin {"reserved", "committed"}
              /\ Set(o, [order[o] EXCEPT !.status = "cancelled"])
              /\ UNCHANGED stockVars
        /\ Begin(w, "cancelled", o, "none")
        /\ UNCHANGED <<captured, adjusts, edits>>

CancelLost(w) ==
    LET o == req[w].order
    IN  /\ Doing(w, "cancel")
        /\ order[o].status \notin CancellableStatuses
        /\ Begin(w, "cancelled", o, "none")
        /\ UNCHANGED <<stockVars, order, captured, adjusts, edits>>

AfterCancel(w) ==
    LET o == req[w].order
    IN  /\ Doing(w, "cancelled")
        /\ IF order[o].online /\ order[o].pay = "paid"
              THEN Begin(w, "refund", o, "none")
              ELSE Finish(w)
        /\ UNCHANGED <<stockVars, order, captured, adjusts, edits>>

(* reopenOrder reads the order, then sells what it saw restocked.           *)
ReopenRead(w, o) ==
    /\ IsIdle(w)
    /\ order[o].status = "cancelled"
    /\ order[o].refund \notin {"processing", "accepted", "processed"}
    /\ Begin(w, "reopen", o, order[o].stockState)
    /\ UNCHANGED <<stockVars, order, captured, adjusts, edits>>

ReopenSells(w) ==
    LET o == req[w].order
        e == order[o].epoch + 1
    IN  /\ Doing(w, "reopen")
        /\ req[w].seen = "restocked"
        /\ order[o].status = "cancelled"
        /\ e <= MaxEpoch
        /\ CanCommitLines(o, e)
        /\ CommitLines(o, e)
        /\ Set(o, MarkCommitted([order[o] EXCEPT !.epoch = e, !.status = "confirmed"]))
        /\ Finish(w)
        /\ UNCHANGED <<captured, adjusts, edits>>

ReopenRelabels(w) ==
    LET o == req[w].order
    IN  /\ Doing(w, "reopen")
        /\ req[w].seen # "restocked"
        /\ order[o].status = "cancelled"
        /\ Set(o, [order[o] EXCEPT !.status = "confirmed", !.reverted = FALSE])
        /\ Finish(w)
        /\ UNCHANGED <<stockVars, captured, adjusts, edits>>

ReopenRefused(w) ==
    LET o == req[w].order
    IN  /\ Doing(w, "reopen")
        /\ \/ order[o].status # "cancelled"
           \/ /\ req[w].seen = "restocked"
              /\ ~CanCommitLines(o, order[o].epoch + 1) \/ order[o].epoch = MaxEpoch
        /\ Finish(w)
        /\ UNCHANGED <<stockVars, order, captured, adjusts, edits>>

-----------------------------------------------------------------------------
(* attemptRefund and retryRefund, as far as the stock depends on them;      *)
(* RefundSaga has the webhook and the provider's side.                      *)
RetryRefund(w, o) ==
    /\ IsIdle(w)
    /\ order[o].status = "cancelled"
    /\ order[o].pay = "refund_failed"
    /\ Begin(w, "refund", o, "none")
    /\ UNCHANGED <<stockVars, order, captured, adjusts, edits>>

Claimable(o) ==
    /\ order[o].pay \in {"paid", "refund_failed"}
    /\ order[o].refund \notin {"accepted", "processed"}

RefundClaim(w) ==
    LET o == req[w].order
    IN  /\ Doing(w, "refund")
        /\ IF Claimable(o)
              THEN /\ Set(o, [order[o] EXCEPT !.pay = "refund_pending", !.refund = "processing"])
                   /\ Begin(w, "refund_call", o, "none")
              ELSE /\ Finish(w)
                   /\ UNCHANGED order
        /\ UNCHANGED <<stockVars, captured, adjusts, edits>>

RefundAnswer(w) ==
    LET o == req[w].order
    IN  /\ Doing(w, "refund_call")
        /\ \/ /\ ~order[o].manual
              /\ Set(o, IF order[o].pay = "refunded" THEN order[o]
                        ELSE [order[o] EXCEPT !.pay = "refunded", !.refund = "processed"])
           \/ /\ ~order[o].manual
              /\ Set(o, [order[o] EXCEPT !.refund = "accepted"])
           \/ Set(o, [order[o] EXCEPT !.pay = "refund_failed", !.refund = "failed"])
        /\ Finish(w)
        /\ UNCHANGED <<stockVars, captured, adjusts, edits>>

-----------------------------------------------------------------------------
(* The server process of a handler dies between two of its steps.           *)
Crash(w) ==
    /\ ~IsIdle(w)
    /\ Finish(w)
    /\ UNCHANGED <<stockVars, order, captured, adjusts, edits>>

Adjust(s, delta) ==
    /\ adjusts < MaxAdjusts
    /\ AdjustStock(s, delta)
    /\ adjusts' = adjusts + 1
    /\ UNCHANGED <<order, captured, req, edits>>

Edit(s, m) ==
    /\ edits < MaxEdits
    /\ EditSku(s, m)
    /\ edits' = edits + 1
    /\ UNCHANGED <<order, captured, req, adjusts>>

Lapse(h) ==
    /\ HoldLapses(h)
    /\ UNCHANGED <<order, captured, req, adjusts, edits>>

Init ==
    /\ stock = OpeningStock
    /\ posted = OpeningStock
    /\ reserved = [s \in Skus |-> 0]
    /\ mode = [s \in Skus |-> "managed"]
    /\ ledger = {} /\ holds = {} /\ lapsed = {}
    /\ order = [o \in Orders |-> NoOrder]
    /\ captured = {}
    /\ req = [w \in Workers |-> Idle]
    /\ adjusts = 0 /\ edits = 0

Handler(w) ==
    \/ RenewExtends(w) \/ RenewReserves(w) \/ RenewRefused(w)
    \/ CaptureConfirms(w) \/ CaptureUnfulfillable(w) \/ CaptureReplayed(w)
    \/ RefundCapture(w) \/ RefundCaptureTaken(w)
    \/ ExpiryRelease(w)
    \/ Cancel(w) \/ CancelLost(w) \/ AfterCancel(w)
    \/ ReopenSells(w) \/ ReopenRelabels(w) \/ ReopenRefused(w)
    \/ RefundClaim(w) \/ RefundAnswer(w)

Start(w, o) ==
    \/ RetryRead(w, o) \/ CaptureRead(w, o)
    \/ ExpiryCheck(w, o) \/ ExpiryBlind(w, o)
    \/ CancelRead(w, o) \/ ReopenRead(w, o) \/ RetryRefund(w, o)

OneStep(o) ==
    \/ PlacePrepaid(o) \/ PlaceCod(o) \/ PayAtGateway(o)
    \/ RecordManualPayment(o) \/ FailUnpaid(o)

Next ==
    \/ \E w \in Workers : Handler(w) \/ Crash(w) \/ \E o \in Orders : Start(w, o)
    \/ \E o \in Orders : OneStep(o)
    \/ \E s \in Skus : (\E d \in AdjustDeltas : Adjust(s, d)) \/ (\E m \in Modes : Edit(s, m))
    \/ \E h \in holds : Lapse(h)

Spec == Init /\ [][Next]_vars

(* node-cron runs releaseExpiredReservations every minute, whatever it met  *)
(* the minute before, and a handler that was started runs on unless its     *)
(* process dies.  That happens neither to every release nor to every        *)
(* finalization, whose two transactions are CaptureSettles and              *)
(* CaptureRefunds.  Nothing promises that the gateway cannot be reached, so *)
(* ExpiryBlind has no fairness.                                             *)
ExpiryFinalizes(w, o) == ExpiryPicks(w, o) /\ ShowsCapture(o) /\ CaptureRead(w, o)
CaptureSettles(w) == CaptureConfirms(w) \/ CaptureUnfulfillable(w) \/ CaptureReplayed(w)
CaptureRefunds(w) == RefundCapture(w) \/ RefundCaptureTaken(w)

FairSpec ==
    /\ Spec
    /\ \A w \in Workers : WF_vars(Handler(w))
    /\ SF_vars(\E w \in Workers : ExpiryRelease(w))
    /\ SF_vars(\E w \in Workers : CaptureSettles(w))
    /\ SF_vars(\E w \in Workers : CaptureRefunds(w))
    /\ \A o \in Orders : /\ SF_vars(\E w \in Workers : ExpiryCheck(w, o))
                        /\ SF_vars(\E w \in Workers : ExpiryFinalizes(w, o))

-----------------------------------------------------------------------------
(* Types, with the stock counters' ranges under every interleaving of the   *)
(* handlers.                                                                *)
TypeOK ==
    /\ StockTypeOK
    /\ order \in [Orders -> OrderDoc]
    /\ captured \subseteq Orders
    /\ req \in [Workers -> Request \cup {Idle}]
    /\ adjusts \in Nat /\ edits \in Nat

(* The ledger rows of the order's current epoch say what its stock_state    *)
(* says: keys of an earlier cycle never make a sale or a restock pass for   *)
(* done, whatever mix of captures, cancellations, reopenings and retries.   *)
EpochMatchesState ==
    \A o \in Orders : \A s \in SkusOf(o) \cap Strict :
        LET sold == Row("commit", o, order[o].epoch, s) \in ledger
            back == Row("restock", o, order[o].epoch, s) \in ledger
        IN  /\ order[o].stockState = "committed" => sold /\ ~back
            /\ order[o].stockState = "restocked" => sold /\ back
            /\ order[o].stockState \in {"none", "reserved", "released"} => ~sold /\ ~back

(* Units are put back on hand only for a sale of the same epoch.            *)
RestockHasSale ==
    \A r \in ledger : r.kind = "restock" /\ r.sku \in Strict
        => Row("commit", r.order, r.epoch, r.sku) \in ledger

(* An order that says reserved has an ACTIVE hold, so a capture that finds  *)
(* it so has units to commit.                                               *)
ReservedHasHold ==
    \A o \in Orders : order[o].stockState = "reserved" => HoldsOf(o) # {}

(* A capture never revives a cancelled order: only a reopening, which       *)
(* leaves the payment alone, takes an order out of cancelled.               *)
CaptureNeverRevives ==
    [][\A o \in Orders :
          order[o].status = "cancelled" /\ order'[o].status # "cancelled"
            => order'[o].pay = order[o].pay]_vars

(* An order confirmed by a payment has sold exactly its units in that step  *)
(* or before.                                                               *)
ConfirmationSells ==
    [][\A o \in Orders :
          /\ order[o].pay # "paid"
          /\ order'[o].pay = "paid" /\ order'[o].status = "confirmed"
          => \A s \in SkusOf(o) \cap Strict : NetSales(o, s)' = 1]_vars

(* A captured order that finalizing leaves as it is, so that the cron never *)
(* gets to release its hold: paid by hand, to be refunded as a capture that *)
(* could not be fulfilled, or its units were sold before.                   *)
KeptByCapture(o) ==
    ShowsCapture(o) /\ (order[o].manual \/ order[o].flag # "none" \/ order[o].stockReserved)

=============================================================================
