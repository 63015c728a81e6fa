----------------------------- MODULE ReturnFlow -----------------------------
(***************************************************************************)
(* The returns of one delivered order: requests for units of its one line, *)
(* review, receipt and quality check, and what the customer gets for them: *)
(* a Razorpay refund, a refund settled by hand, or a replacement order.    *)
(*                                                                         *)
(* returns[r] is the ReturnRequest created under submission key r.  What a *)
(* Mongo transaction does is one step; a worker is a handler, webhook or   *)
(* cron between two of its steps.  Refunds at the provider are numbered.   *)
(* Amounts are paise.                                                      *)
(***************************************************************************)
EXTENDS Integers, FiniteSets

CONSTANTS
    Orders,      \* bound: the delivered orders explored, of those in Delivered
    Returns,     \* submission keys of return requests
    Workers,     \* handlers in progress at once
    MaxRefunds,  \* bound: refunds the provider creates
    Purchased,   \* units of the order line
    LinePaise,   \* what was paid for them, discounts taken off
    GrandTotal,  \* what the order was charged
    RoundOff     \* by how much the total was rounded down

ASSUME ReturnsAssumption == IsFiniteSet(Returns) /\ Returns # {}
ASSUME UnitsAssumption == Purchased \in Nat \ {0} /\ MaxRefunds \in Nat \ {0}
ASSUME MoneyAssumption == {LinePaise, GrandTotal, RoundOff} \subseteq Nat

VARIABLES
    order,    \* the delivered Order: online or not, payment_status, its own refund
    returns,  \* the ReturnRequest documents
    stock,    \* units on hand of the product
    parcels,  \* the replacement orders of each return, and how far the last one is
    gateway,  \* refunds at Razorpay
    told,     \* refunds whose webhook event was claimed; 0 is the order's own
    req       \* what each worker is in the middle of

vars == <<order, returns, stock, parcels, gateway, told, req>>

Refunds == 1 .. MaxRefunds
Units == 0 .. Purchased
Least(a, b) == IF a <= b THEN a ELSE b
Most(a, b) == IF a >= b THEN a ELSE b
\* The sum of the naturals f[x] for x in S, counted one by one.
Sum(f, S) == Cardinality(UNION {{x} \X (1 .. f[x]) : x \in S})

Status == {"none", "requested", "approved", "rejected", "received", "qc_failed", "refund_pending",
           "refund_failed", "manual_action_required", "replacement_pending", "replacement_shipped",
           "completed"}
RefundStatus == {"not_required", "pending", "processed", "failed", "manual_required"}
Request == [status : Status, type : {"refund", "replacement"}, quantity : Units, share : Nat,
            accepted : Units, refund : RefundStatus, amount : Nat, attempted : BOOLEAN,
            ref : {0} \cup Refunds,
            overlooked : BOOLEAN] \* history: see Checked
NoRequest == [status |-> "none", type |-> "refund", quantity |-> 0, share |-> 0, accepted |-> 0,
              refund |-> "not_required", amount |-> 0, attempted |-> FALSE, ref |-> 0,
              overlooked |-> FALSE]

\* The Order and the refund of all of its payment that a cancellation asked for
\* before the courier delivered it after all: its status and amount (0 if never
\* written) as the Order has them, and what Razorpay has (sent).
PaymentStatus == {"paid", "partially_refunded", "refunded", "refund_pending", "refund_failed"}
Sent == {"none", "pending", "processed", "failed"}
OrderDoc == [online : BOOLEAN, pay : PaymentStatus, own : {"not_required", "processing", "processed", "failed"},
             recorded : {0, GrandTotal}, sent : Sent]

Ops == {"claim", "call", "note", "adopt", "settle", "search", "fetch", "replace", "sync", "hook", "hookorder"}
Results == {"none", "pending", "processed", "failed", "shipped", "delivered"}
Task == [op : Ops, ret : Returns, id : {0} \cup Refunds, result : Results]
OwnTask == [op : {"ownhook"}, id : {0}, pay : PaymentStatus, result : {"processed", "failed"}]
Idle == [op |-> "idle"]

Do(w, op, r, n, result) == req' = [req EXCEPT ![w] = [op |-> op, ret |-> r, id |-> n, result |-> result]]
Finish(w) == req' = [req EXCEPT ![w] = Idle]
IsIdle(w) == req[w] = Idle
Doing(w, op) == req[w].op = op

-----------------------------------------------------------------------------
(* What a request may ask for, and what it is worth.                        *)
Live == {r \in Returns : returns[r].status \notin {"none", "rejected"}}
Quantities == [r \in Returns |-> returns[r].quantity]
Shares == [r \in Returns |-> returns[r].share]
Amounts == [r \in Returns |-> returns[r].amount]

EligibleQuantity == Most(0, Purchased - Sum(Quantities, Live))

RequestAmount(quantity, available, taken) ==
    Most(0, Least(LinePaise - taken,
                  IF quantity = available THEN LinePaise - taken
                  ELSE (LinePaise \div Purchased) * quantity))

(* createReturnRequest, which locks the order and replays a known key.      *)
Create(r) ==
    /\ returns[r].status = "none"
    /\ \E quantity \in 1 .. EligibleQuantity, type \in {"refund", "replacement"},
          status \in {"requested", "approved"} : \* return_auto_approve
          returns' = [returns EXCEPT ![r] =
              [NoRequest EXCEPT !.status = status, !.type = type, !.quantity = quantity,
                                !.share = RequestAmount(quantity, EligibleQuantity,
                                                        Sum(Shares, Live))]]
    /\ UNCHANGED <<order, stock, parcels, gateway, told, req>>

Review(r) ==
    /\ returns[r].status = "requested"
    /\ \E status \in {"approved", "rejected"} : returns' = [returns EXCEPT ![r].status = status]
    /\ UNCHANGED <<order, stock, parcels, gateway, told, req>>

(* receiveReturnRequest, or the delivery of the reverse pickup.             *)
Receive(r) ==
    /\ returns[r].status = "approved"
    /\ returns' = [returns EXCEPT ![r].status = "received"]
    /\ UNCHANGED <<order, stock, parcels, gateway, told, req>>

-----------------------------------------------------------------------------
(* inspectReturnRequest: one transaction under the order's lock ...         *)
Reserving == {"pending", "processed", "manual_required", "failed"}

\* The order's own refund, as Razorpay has it and as an inspection counts it.
OwnBack == IF order.sent \in {"pending", "processed"} THEN GrandTotal ELSE 0
OwnCounted == IF order.own = "processed" THEN order.recorded ELSE 0

\* Fault: a refund under way is not counted, only a settled one.
UsedProcessed(r) ==
    OwnCounted + Sum(Amounts, {s \in Returns \ {r} : returns[s].refund = "processed"})

Used(r) ==
    OwnCounted + Sum(Amounts, {s \in Returns \ {r} : returns[s].refund \in Reserving})

Worth(r, accepted) == (returns[r].share * accepted) \div returns[r].quantity
Overage(r, accepted) == Worth(r, accepted) + Used(r) - GrandTotal
RefundOf(r, accepted) == Worth(r, accepted) - Most(0, Overage(r, accepted))

Online == order.online /\ order.pay \in {"paid", "partially_refunded", "refund_pending"}

Checked(r, accepted) ==
    LET amount == RefundOf(r, accepted)
        doc == [returns[r] EXCEPT !.accepted = accepted, !.overlooked = OwnCounted < OwnBack]
    IN  CASE accepted = 0 -> [doc EXCEPT !.status = "qc_failed"]
          [] accepted > 0 /\ doc.type = "replacement" -> [doc EXCEPT !.status = "replacement_pending"]
          [] accepted > 0 /\ doc.type = "refund" /\ amount = 0 -> [doc EXCEPT !.status = "completed"]
          [] accepted > 0 /\ doc.type = "refund" /\ amount > 0 /\ Online ->
               [doc EXCEPT !.status = "refund_pending", !.refund = "pending", !.amount = amount]
          [] OTHER -> [doc EXCEPT !.status = "manual_action_required", !.refund = "manual_required",
                                  !.amount = amount]

(* ... and then the refund, or the replacement, outside it.                 *)
Inspect(w, r) ==
    /\ IsIdle(w)
    /\ returns[r].status = "received"
    /\ \E accepted \in 0 .. returns[r].quantity, restock \in BOOLEAN :
          /\ accepted > 0 /\ returns[r].type = "refund" =>
                /\ Overage(r, accepted) <= RoundOff
                /\ RefundOf(r, accepted) >= 0 \* bound: units are worth more than the rounding
          /\ returns' = [returns EXCEPT ![r] = Checked(r, accepted)]
          /\ stock' = IF restock THEN stock + accepted ELSE stock
          /\ CASE returns'[r].status = "refund_pending" -> Do(w, "claim", r, 0, "none")
               [] returns'[r].status = "replacement_pending" -> Do(w, "replace", r, 0, "none")
               [] OTHER -> UNCHANGED req
    /\ UNCHANGED <<order, parcels, gateway, told>>

-----------------------------------------------------------------------------
(* completeManualReturnRefund.                                              *)
Processed == {r \in Returns : returns[r].refund = "processed"}
PaidBack(S) == IF Sum(Amounts, S) >= GrandTotal THEN "refunded" ELSE "partially_refunded"

CompleteManual(r) ==
    /\ returns[r].status = "manual_action_required"
    /\ Sum(Amounts, Processed \cup {r}) <= GrandTotal
    /\ returns' = [returns EXCEPT ![r].status = "completed", ![r].refund = "processed"]
    /\ order' = [order EXCEPT !.pay = PaidBack(Processed \cup {r})]
    /\ UNCHANGED <<stock, parcels, gateway, told, req>>

-----------------------------------------------------------------------------
(* processReturnRefund: claim the one submission ...                        *)
\* Fault: an attempt whose answer was lost is made again.
ClaimUnattempted(w) ==
    LET r == req[w].ret
    IN  /\ Doing(w, "claim")
        /\ IF returns[r].status = "refund_pending" /\ returns[r].ref = 0
             THEN /\ returns' = [returns EXCEPT ![r].attempted = TRUE]
                  /\ Do(w, "call", r, 0, "none")
             ELSE Finish(w) /\ UNCHANGED returns
        /\ UNCHANGED <<order, stock, parcels, gateway, told>>

\* Fault: the attempt is noted with its answer, not before the call.
ClaimUnmarked(w) ==
    LET r == req[w].ret
    IN  /\ Doing(w, "claim")
        /\ IF returns[r].status = "refund_pending" /\ ~returns[r].attempted /\ returns[r].ref = 0
             THEN Do(w, "call", r, 0, "none") ELSE Finish(w)
        /\ UNCHANGED <<order, returns, stock, parcels, gateway, told>>

Claim(w) ==
    LET r == req[w].ret
    IN  /\ Doing(w, "claim")
        /\ IF returns[r].status = "refund_pending" /\ ~returns[r].attempted /\ returns[r].ref = 0
             THEN /\ returns' = [returns EXCEPT ![r].attempted = TRUE]
                  /\ Do(w, "call", r, 0, "none")
             ELSE Finish(w) /\ UNCHANGED returns
        /\ UNCHANGED <<order, stock, parcels, gateway, told>>

(* ... call Razorpay, which gives back no more than it captured and whose   *)
(* answer, or the request, may be lost (the error is noted, nothing more).  *)
GivenBack == Sum([n \in Refunds |-> gateway[n].amount],
                 {n \in Refunds : gateway[n].status \in {"pending", "processed"}})
Balance == GrandTotal - OwnBack - GivenBack

CallAccepted(w) ==
    LET r == req[w].ret
    IN  /\ Doing(w, "call")
        /\ returns[r].amount <= Balance
        /\ \E n \in Refunds, result \in {"pending", "processed"}, lost \in BOOLEAN :
              /\ gateway[n].status = "none" /\ \A m \in 1 .. n - 1 : gateway[m].status # "none"
              /\ gateway' = [gateway EXCEPT ![n] =
                               [ret |-> r, amount |-> returns[r].amount, status |-> result]]
              /\ IF lost THEN Finish(w) ELSE Do(w, "note", r, n, result)
        /\ UNCHANGED <<order, returns, stock, parcels, told>>

CallFails(w) ==
    /\ Doing(w, "call")
    /\ Finish(w)
    /\ UNCHANGED <<order, returns, stock, parcels, gateway, told>>

Note(w) ==
    LET r == req[w].ret
    IN  /\ Doing(w, "note")
        /\ returns' = IF returns[r].refund = "pending"
                        THEN [returns EXCEPT ![r].ref = req[w].id] ELSE returns
        /\ Do(w, "settle", r, req[w].id, req[w].result)
        /\ UNCHANGED <<order, stock, parcels, gateway, told>>

(* settleReturnRefund: only a final answer, only while the refund is        *)
(* pending, only for the refund and the amount the request has.             *)
\* Fault: an answer that is not final settles the refund too.
SettlesAny(w) ==
    LET r == req[w].ret
    IN  /\ returns[r].refund = "pending"
        /\ returns[r].ref = req[w].id
        /\ returns[r].amount = gateway[req[w].id].amount

Settles(w) ==
    LET r == req[w].ret
    IN  /\ req[w].result \in {"processed", "failed"}
        /\ returns[r].refund = "pending"
        /\ returns[r].ref = req[w].id
        /\ returns[r].amount = gateway[req[w].id].amount

Settled(r, result) ==
    IF result = "processed"
      THEN [returns EXCEPT ![r].status = "completed", ![r].refund = "processed"]
      ELSE [returns EXCEPT ![r].status = "refund_failed", ![r].refund = "failed"]

Settle(w) ==
    LET r == req[w].ret
    IN  /\ Doing(w, "settle")
        /\ IF Settles(w)
             THEN /\ returns' = Settled(r, req[w].result)
                  /\ order' = IF req[w].result = "processed"
                                THEN [order EXCEPT !.pay = PaidBack(Processed \cup {r})] ELSE order
             ELSE UNCHANGED <<returns, order>>
        /\ Finish(w)
        /\ UNCHANGED <<stock, parcels, gateway, told>>

-----------------------------------------------------------------------------
(* reconcileOneReturnRefund, for the cron and for staff: what the request   *)
(* says decides which of the three ways is taken.                           *)
Reconcile(w, r) ==
    /\ IsIdle(w)
    /\ returns[r].status = "refund_pending" /\ order.online
    /\ CASE returns[r].ref # 0 -> Do(w, "fetch", r, returns[r].ref, "none")
         [] returns[r].ref = 0 /\ returns[r].attempted -> Do(w, "search", r, 0, "none")
         [] OTHER -> Do(w, "claim", r, 0, "none")
    /\ UNCHANGED <<order, returns, stock, parcels, gateway, told>>

Fetch(w) ==
    /\ Doing(w, "fetch")
    /\ Do(w, "settle", req[w].ret, req[w].id, gateway[req[w].id].status)
    /\ UNCHANGED <<order, returns, stock, parcels, gateway, told>>

Found(r, n) == gateway[n].status # "none" /\ gateway[n].ret = r /\ gateway[n].amount = returns[r].amount

Search(w) ==
    LET r == req[w].ret
    IN  /\ Doing(w, "search")
        /\ \/ \E n \in Refunds : Found(r, n) /\ Do(w, "adopt", r, n, gateway[n].status)
           \/ (\A n \in Refunds : ~Found(r, n)) /\ Finish(w)
        /\ UNCHANGED <<order, returns, stock, parcels, gateway, told>>

Adopt(w) ==
    LET r == req[w].ret
    IN  /\ Doing(w, "adopt")
        /\ returns' = IF returns[r].ref = 0
                        THEN [returns EXCEPT ![r].ref = req[w].id] ELSE returns
        /\ Do(w, "settle", r, req[w].id, req[w].result)
        /\ UNCHANGED <<order, stock, parcels, gateway, told>>

(* External: Razorpay settles a refund it accepted.                         *)
GatewaySettles(n) ==
    /\ gateway[n].status = "pending"
    /\ \E result \in {"processed", "failed"} : gateway' = [gateway EXCEPT ![n].status = result]
    /\ UNCHANGED <<order, returns, stock, parcels, told, req>>

-----------------------------------------------------------------------------
(* razorpayWebhook: the event of a settled refund is claimed, the request   *)
(* it belongs to is read and saved, then the order is labelled after this   *)
(* refund alone.  A write that fails hands the event back for redelivery.   *)
HookClaim(w, n) ==
    /\ IsIdle(w)
    /\ gateway[n].status \in {"processed", "failed"}
    /\ n \notin told
    /\ told' = told \cup {n}
    /\ Do(w, "hook", gateway[n].ret, n, gateway[n].status)
    /\ UNCHANGED <<order, returns, stock, parcels, gateway>>

HookSave(w) ==
    LET r == req[w].ret
    IN  /\ Doing(w, "hook")
        /\ returns' = [Settled(r, req[w].result) EXCEPT ![r].ref = req[w].id]
        /\ Do(w, "hookorder", r, req[w].id, req[w].result)
        /\ UNCHANGED <<order, stock, parcels, gateway, told>>

HookLabel(r, result) ==
    IF result = "failed" THEN "refund_failed"
    ELSE IF returns[r].amount >= GrandTotal THEN "refunded" ELSE "partially_refunded"

HookOrder(w) ==
    /\ Doing(w, "hookorder")
    /\ order' = [order EXCEPT !.pay = HookLabel(req[w].ret, req[w].result)]
    /\ Finish(w)
    /\ UNCHANGED <<returns, stock, parcels, gateway, told>>

(* The event of the order's own refund belongs to no return: transitionOrder *)
(* refuses some labels (the event fails and is delivered again), and writes *)
(* only if the label is still the one it read.  No amount is recorded.      *)
PaymentTransitions ==
    [paid |-> {"refund_pending", "partially_refunded", "refunded", "refund_failed"},
     refund_pending |-> {"refunded", "partially_refunded", "refund_failed"},
     refund_failed |-> {"refund_pending", "refunded"},
     partially_refunded |-> {"refunded", "refund_pending"},
     refunded |-> {}]
OwnLabel(result) == IF result = "processed" THEN "refunded" ELSE "refund_failed"

OwnHookClaim(w) ==
    /\ IsIdle(w)
    /\ order.sent \in {"processed", "failed"}
    /\ 0 \notin told
    /\ OwnLabel(order.sent) \in {order.pay} \cup PaymentTransitions[order.pay]
    /\ told' = told \cup {0}
    /\ req' = [req EXCEPT ![w] = [op |-> "ownhook", id |-> 0, pay |-> order.pay, result |-> order.sent]]
    /\ UNCHANGED <<order, returns, stock, parcels, gateway>>

OwnHookSave(w) ==
    /\ Doing(w, "ownhook")
    /\ order' = IF order.pay = req[w].pay
                  THEN [order EXCEPT !.pay = OwnLabel(req[w].result), !.own = req[w].result]
                  ELSE order
    /\ Finish(w)
    /\ UNCHANGED <<returns, stock, parcels, gateway, told>>

(* External: Razorpay settles the order's own refund.                       *)
OwnSettles ==
    /\ order.sent = "pending"
    /\ \E result \in {"processed", "failed"} : order' = [order EXCEPT !.sent = result]
    /\ UNCHANGED <<returns, stock, parcels, gateway, told, req>>

HookFails(w) ==
    /\ req[w].op \in {"hook", "hookorder", "ownhook"}
    /\ told' = told \ {req[w].id}
    /\ Finish(w)
    /\ UNCHANGED <<order, returns, stock, parcels, gateway>>

-----------------------------------------------------------------------------
(* createReplacement: after the inspection, or on the retry of staff.       *)
RetryReplacement(w, r) ==
    /\ IsIdle(w)
    /\ returns[r].status = "replacement_pending"
    /\ Do(w, "replace", r, 0, "none")
    /\ UNCHANGED <<order, returns, stock, parcels, gateway, told>>

Replaceable(r) ==
    /\ returns[r].status = "replacement_pending"
    /\ parcels[r].sent = 0
    /\ stock >= returns[r].accepted

Replace(w) ==
    LET r == req[w].ret
    IN  /\ Doing(w, "replace")
        /\ IF Replaceable(r)
             THEN /\ stock' = stock - returns[r].accepted
                  /\ parcels' = [parcels EXCEPT ![r] = [sent |-> parcels[r].sent + 1, at |-> "confirmed"]]
             ELSE UNCHANGED <<stock, parcels>>
        /\ Finish(w)
        /\ UNCHANGED <<order, returns, gateway, told>>

(* transitionOrder moves the replacement order and then syncs its return.   *)
MoveReplacement(w, r) ==
    /\ IsIdle(w)
    /\ \/ parcels[r].at = "confirmed" /\ parcels' = [parcels EXCEPT ![r].at = "shipped"]
       \/ parcels[r].at = "shipped" /\ parcels' = [parcels EXCEPT ![r].at = "delivered"]
    /\ Do(w, "sync", r, 0, parcels'[r].at)
    /\ UNCHANGED <<order, returns, stock, gateway, told>>

SyncReplacement(w) ==
    LET r == req[w].ret
        delivered == req[w].result = "delivered"
    IN  /\ Doing(w, "sync")
        /\ returns' = IF \/ returns[r].status = "replacement_pending"
                         \/ delivered /\ returns[r].status = "replacement_shipped"
                        THEN [returns EXCEPT ![r].status = IF delivered THEN "completed"
                                                           ELSE "replacement_shipped"]
                        ELSE returns
        /\ Finish(w)
        /\ UNCHANGED <<order, stock, parcels, gateway, told>>

(* The process of a handler dies between two of its steps.                  *)
Crash(w) ==
    /\ ~IsIdle(w)
    /\ Finish(w)
    /\ UNCHANGED <<order, returns, stock, parcels, gateway, told>>

-----------------------------------------------------------------------------
(* A delivered order: paid online or not, and possibly after a cancellation *)
(* that came too late.  attemptRefund then left its refund in one of these: *)
(* done; with an answer that was not final; without one, as the server died *)
(* before or after the call; or failed, the call or its answer lost.  It is *)
(* not called again: retryRefund wants the order cancelled.                 *)
Unrefunded ==
    [online : BOOLEAN, pay : {"paid"}, own : {"not_required"}, recorded : {0}, sent : {"none"}]
Cancelled(pay, own, recorded, sent) ==
    [online : {TRUE}, pay : {pay}, own : {own}, recorded : {recorded}, sent : sent]

Delivered ==
    UNION {Unrefunded,
           Cancelled("refunded", "processed", GrandTotal, {"processed"}),
           Cancelled("refund_pending", "processing", GrandTotal, {"pending"}),
           Cancelled("refund_pending", "processing", 0, {"none", "pending"}),
           Cancelled("refund_failed", "failed", 0, {"none", "pending"})}

Init ==
    /\ order \in Delivered \cap Orders
    /\ returns = [r \in Returns |-> NoRequest]
    /\ stock = 0
    /\ parcels = [r \in Returns |-> [sent |-> 0, at |-> "none"]]
    /\ gateway = [n \in Refunds |-> [ret |-> CHOOSE r \in Returns : TRUE, amount |-> 0, status |-> "none"]]
    /\ told = {}
    /\ req = [w \in Workers |-> Idle]

Handler(w) ==
    \/ Claim(w) \/ CallAccepted(w) \/ CallFails(w) \/ Note(w) \/ Settle(w)
    \/ Fetch(w) \/ Search(w) \/ Adopt(w) \/ HookSave(w) \/ HookOrder(w) \/ OwnHookSave(w)
    \/ Replace(w) \/ SyncReplacement(w)

Start(w, r) ==
    \/ Inspect(w, r) \/ Reconcile(w, r) \/ RetryReplacement(w, r) \/ MoveReplacement(w, r)

Next ==
    \/ \E r \in Returns : Create(r) \/ Review(r) \/ Receive(r) \/ CompleteManual(r)
    \/ OwnSettles \/ \E n \in Refunds : GatewaySettles(n)
    \/ \E w \in Workers :
          \/ \E r \in Returns : Start(w, r)
          \/ \E n \in Refunds : HookClaim(w, n)
          \/ OwnHookClaim(w) \/ Handler(w) \/ HookFails(w) \/ Crash(w)

Spec == Init /\ [][Next]_vars

-----------------------------------------------------------------------------
(* Types, with the bounds on units and refund ids.                          *)
TypeOK ==
    /\ order \in OrderDoc
    /\ returns \in [Returns -> Request]
    /\ stock \in Nat
    /\ parcels \in [Returns -> [sent : {0, 1}, at : {"none", "confirmed", "shipped", "delivered"}]]
    /\ gateway \in [Refunds -> [ret : Returns, amount : Nat,
                                status : {"none", "pending", "processed", "failed"}]]
    /\ told \in SUBSET ({0} \cup Refunds)
    /\ req \in [Workers -> Task \cup OwnTask \cup {Idle}]

(* RETURN_MODULE.md:48: what is refunded, promised for a refund or settled  *)
(* by hand never exceeds what the order was charged, whichever requests are *)
(* inspected, settled and retried in whatever order (returnRequest.js:164); *)
(* nor together with the order's own refund, whatever becomes of that one,  *)
(* but for the requests inspected while it was under way or done and yet    *)
(* counted for less (returnRequest.js:165: not processed, or no amount).    *)
Promises == {r \in Returns : returns[r].refund \in Reserving}
Promised == Sum(Amounts, Promises)
Informed == {r \in Promises : ~returns[r].overlooked}
RefundsWithinTotal ==
    /\ Promised <= GrandTotal
    /\ OwnBack + Sum(Amounts, Informed) <= GrandTotal

(* Each return is compensated at most once: at most one refund at Razorpay, *)
(* or one settlement by hand, or one replacement order, whatever crashed or *)
(* timed out (refund.js:37, replacement.js:15).                             *)
RefundsOf(r) == {n \in Refunds : gateway[n].status # "none" /\ gateway[n].ret = r}
ByHand(r) == returns[r].refund = "processed" /\ RefundsOf(r) = {}
OneOutcome ==
    \A r \in Returns :
        /\ \A n, m \in RefundsOf(r) : n = m
        /\ RefundsOf(r) # {} => parcels[r].sent = 0
        /\ ByHand(r) => parcels[r].sent = 0

(* A status that says how the customer was compensated is true: the refund  *)
(* was processed at Razorpay or settled by hand, the replacement delivered, *)
(* or the refund really failed; and the order reads refunded only when all  *)
(* of its total went back (refund.js:22, razorpayWebhook.js:47,             *)
(* replacement.js:53).                                                      *)
Compensated(r) ==
    \/ returns[r].amount = 0 /\ returns[r].type = "refund"
    \/ \E n \in RefundsOf(r) : gateway[n].status = "processed"
    \/ ByHand(r)
    \/ parcels[r].at = "delivered"
StatusIsReal ==
    /\ \A r \in Returns : returns[r].status = "completed" => Compensated(r)
    /\ \A r \in Returns : returns[r].status = "refund_failed" =>
          \E n \in RefundsOf(r) : gateway[n].status = "failed"
    /\ order.pay = "refunded" => order.sent = "processed" \/ Sum(Amounts, Processed) >= GrandTotal

(* A refund that Razorpay accepted is never lost to its return: whenever    *)
(* the server died or the answer got lost, the return still knows that it   *)
(* was attempted, and either has the id or finds it by receipt and amount,  *)
(* so the cron goes on and never submits it again (refund.js:59).           *)
AcceptedIsFindable ==
    \A r \in Returns :
        RefundsOf(r) # {} /\ returns[r].refund = "pending" =>
            /\ returns[r].attempted
            /\ returns[r].ref \in {0} \cup RefundsOf(r)
            /\ \E n \in Refunds : Found(r, n)
=============================================================================
