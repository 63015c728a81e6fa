-------------------------- MODULE RefundSaga_proofs --------------------------
(***************************************************************************)
(* Proofs about RefundSaga, for any number of handlers and refunds.        *)
(***************************************************************************)
EXTENDS RefundSaga, FiniteSetTheorems, TLAPS

Provider == [Refunds -> {"none", "pending", "processed", "failed"}]

\* A handler that has a refund of the provider's in hand knows its number,
\* and an answer "processed" is only heard of one that was.
Numbered ==
    \A w \in Workers :
        /\ Doing(w, "webhook") => req[w].refund \in Refunds
        /\ Doing(w, "answer") /\ req[w].seen \in {"pending", "processed"} => req[w].refund \in Refunds
        /\ Doing(w, "answer") /\ req[w].seen = "processed" => provider[req[w].refund] = "processed"

\* Razorpay reports a refund once it is settled, and a delivery works on an
\* event that says so; no two on the same one.
Reported == \A n \in Refunds : provider[n] \in {"none", "pending"} => inbox[n].status = "unsent"
Claimed ==
    /\ \A w \in Workers : Doing(w, "webhook") => inbox[req[w].refund].status = "processing"
    /\ \A v, w \in Workers :
          Doing(v, "webhook") /\ Doing(w, "webhook") /\ req[v].refund = req[w].refund => v = w

Settled == Numbered /\ Reported /\ Claimed

IInv == TypeOK /\ Settled /\ RefundedIsReal /\ PendingHasOwner

-----------------------------------------------------------------------------
\* What a worker writes down is a request.
LEMMA BeginTyped ==
    ASSUME TypeOK, NEW w \in Workers, NEW op \in Ops,
           NEW seen \in {"none", "lost", "pending", "processed", "error"} \cup PaymentStatus,
           NEW n \in 0 .. MaxRefunds,
           Begin(w, op, seen, n)
    PROVE  /\ req' \in [Workers -> Request \cup {Idle}]
           /\ req'[w] = [op |-> op, seen |-> seen, status |-> order.status, refund |-> n]
           /\ \A v \in Workers \ {w} : req'[v] = req[v]
  <1>1. order.status \in OrderStatus
    BY DEF TypeOK, OrderDoc
  <1>2. [op |-> op, seen |-> seen, status |-> order.status, refund |-> n] \in Request
    BY <1>1 DEF Request
  <1> QED
    BY <1>2 DEF TypeOK, Begin

LEMMA FinishTyped ==
    ASSUME TypeOK, NEW w \in Workers, Finish(w)
    PROVE  /\ req' \in [Workers -> Request \cup {Idle}]
           /\ req'[w] = Idle
           /\ \A v \in Workers \ {w} : req'[v] = req[v]
  BY DEF TypeOK, Finish

LEMMA RefundsTyped ==
    Refunds \subseteq 0 .. MaxRefunds /\ 0 \notin Refunds /\ Refunds \subseteq Nat /\ 0 \in 0 .. MaxRefunds
  BY RefundsAssumption DEF Refunds

LEMMA Active ==
    ASSUME TypeOK, NEW w \in Workers, NEW op \in Ops, Doing(w, op)
    PROVE  req[w] \in Request
  BY DEF TypeOK, Doing, Idle, Ops

LEMMA InitIInv == ASSUME Init PROVE IInv
  <1>1. 0 \in 0 .. MaxRefunds /\ 0 \in 0 .. MaxAttempts
    BY RefundsAssumption, AttemptsAssumption
  <1>2. TypeOK
    BY <1>1 DEF Init, TypeOK, OrderDoc, OrderStatus, PaymentStatus, Event, InboxStatus
  <1>3. \A w \in Workers : ~Doing(w, "webhook") /\ ~Doing(w, "answer")
    BY DEF Init, Doing, Idle
  <1> QED
    BY <1>2, <1>3 DEF Init, IInv, Settled, Numbered, Reported, Claimed, RefundedIsReal, PendingHasOwner

-----------------------------------------------------------------------------
\* Every step keeps the types.
LEMMA TypeStep == ASSUME TypeOK, Numbered, [Next]_vars PROVE TypeOK'
  <1> USE RefundsTyped
  <1>1. ASSUME PayAtGateway \/ Ship PROVE TypeOK'
    BY <1>1 DEF PayAtGateway, Ship, TypeOK, OrderDoc, OrderStatus
  <1>2. ASSUME NEW n \in Refunds, Settle(n) PROVE TypeOK'
    BY <1>2 DEF Settle, TypeOK, Event, InboxStatus
  <1>3. ASSUME NEW w \in Workers, Start(w) PROVE TypeOK'
    <2> USE DEF Ops
    <2>1. CASE CaptureRead(w)
      BY <2>1, BeginTyped DEF CaptureRead, TypeOK
    <2>2. CASE CancelRead(w)
      BY <2>2, BeginTyped DEF CancelRead, TypeOK
    <2>3. CASE RetryRefund(w)
      BY <2>3, BeginTyped DEF RetryRefund, TypeOK
    <2>4. CASE ReopenRead(w)
      BY <2>4, BeginTyped DEF ReopenRead, TypeOK
    <2>5. ASSUME NEW n \in Refunds, WebhookClaim(w, n) PROVE TypeOK'
      <3>1. req' \in [Workers -> Request \cup {Idle}]
        BY <2>5, BeginTyped DEF WebhookClaim
      <3>2. inbox' \in [Refunds -> Event]
        BY <2>5, AttemptsAssumption DEF WebhookClaim, TypeOK, Event, InboxStatus
      <3> QED
        BY <2>5, <3>1, <3>2 DEF WebhookClaim, TypeOK
    <2> QED
      BY <1>3, <2>1, <2>2, <2>3, <2>4, <2>5 DEF Start
  <1>4. ASSUME NEW w \in Workers, Handler(w) PROVE TypeOK'
    <2> USE DEF Ops
    <2>0. order \in OrderDoc
      BY DEF TypeOK
    <2>1. CASE CaptureTx(w)
      <3>1. order' \in OrderDoc
        BY <2>0, <2>1 DEF CaptureTx, OrderDoc, OrderStatus, PaymentStatus
      <3>2. req' \in [Workers -> Request \cup {Idle}]
        BY <2>1, BeginTyped, FinishTyped DEF CaptureTx
      <3> QED
        BY <2>1, <3>1, <3>2 DEF CaptureTx, TypeOK
    <2>2. CASE RefundCapture(w)
      <3>1. order' \in OrderDoc
        BY <2>0, <2>2 DEF RefundCapture, OrderDoc, OrderStatus, PaymentStatus
      <3>2. req' \in [Workers -> Request \cup {Idle}]
        BY <2>2, BeginTyped, FinishTyped DEF RefundCapture
      <3> QED
        BY <2>2, <3>1, <3>2 DEF RefundCapture, TypeOK
    <2>3. CASE Cancel(w)
      <3>1. order' \in OrderDoc
        BY <2>0, <2>3 DEF Cancel, OrderDoc, OrderStatus
      <3>2. req' \in [Workers -> Request \cup {Idle}]
        BY <2>3, BeginTyped DEF Cancel
      <3> QED
        BY <2>3, <3>1, <3>2 DEF Cancel, TypeOK
    <2>4. CASE AfterCancel(w)
      BY <2>4, BeginTyped, FinishTyped DEF AfterCancel, TypeOK
    <2>5. CASE ReopenTx(w)
      <3>1. order' \in OrderDoc
        BY <2>0, <2>5 DEF ReopenTx, OrderDoc, OrderStatus
      <3> QED
        BY <2>5, <3>1, FinishTyped DEF ReopenTx, TypeOK
    <2>6. CASE RefundClaim(w)
      <3>1. order' \in OrderDoc
        BY <2>0, <2>6 DEF RefundClaim, OrderDoc, PaymentStatus
      <3>2. req' \in [Workers -> Request \cup {Idle}]
        BY <2>6, BeginTyped, FinishTyped DEF RefundClaim
      <3> QED
        BY <2>6, <3>1, <3>2 DEF RefundClaim, TypeOK
    <2>7. CASE CallAccepted(w)
      <3>1. PICK n \in Refunds, result \in {"pending", "processed"}, answer \in {"pending", "processed", "error"} :
              /\ provider' = [provider EXCEPT ![n] = result]
              /\ inbox' = IF result = "processed" THEN [inbox EXCEPT ![n].status = "received"] ELSE inbox
              /\ Begin(w, "answer", answer, n)
        BY <2>7 DEF CallAccepted
      <3>2. inbox' \in [Refunds -> Event]
        BY <3>1 DEF TypeOK, Event, InboxStatus
      <3>3. req' \in [Workers -> Request \cup {Idle}]
        BY <3>1, BeginTyped
      <3> QED
        BY <2>7, <3>1, <3>2, <3>3 DEF CallAccepted, TypeOK
    <2>8. CASE CallFails(w)
      BY <2>8, BeginTyped DEF CallFails, TypeOK
    <2>9. CASE RecordProcessed(w)
      <3>1. req[w].refund \in 0 .. MaxRefunds
        BY <2>9 DEF RecordProcessed, Numbered
      <3>2. order' \in OrderDoc
        BY <2>0, <2>9, <3>1 DEF RecordProcessed, PaymentStatus, OrderDoc
      <3> QED
        BY <2>9, <3>2, FinishTyped DEF RecordProcessed, TypeOK
    <2>10. CASE RecordPending(w)
      <3>1. req[w].refund \in 0 .. MaxRefunds
        BY <2>10 DEF RecordPending, Numbered
      <3>2. order' \in OrderDoc
        BY <2>0, <2>10, <3>1 DEF RecordPending, OrderDoc
      <3> QED
        BY <2>10, <3>2, FinishTyped DEF RecordPending, TypeOK
    <2>11. CASE RecordFailed(w)
      <3>2. order' \in OrderDoc
        BY <2>0, <2>11 DEF RecordFailed, PaymentStatus, OrderDoc
      <3> QED
        BY <2>11, <3>2, FinishTyped DEF RecordFailed, TypeOK
    <2>12. CASE WebhookRead(w)
      <3> DEFINE n == req[w].refund
      <3>1. n \in Refunds
        BY <2>12 DEF WebhookRead, Numbered
      <3>2. order.pay \in PaymentStatus
        BY <2>0 DEF OrderDoc
      <3>3. CASE CanTransitionPayment(order.pay, Target(n))
        BY <2>12, <3>1, <3>2, <3>3, BeginTyped DEF WebhookRead, TypeOK
      <3>4. CASE ~CanTransitionPayment(order.pay, Target(n))
        BY <2>12, <3>1, <3>4, FinishTyped DEF WebhookRead, TypeOK, Event, InboxStatus
      <3> QED
        BY <3>3, <3>4
    <2>13. CASE WebhookWrite(w)
      <3> DEFINE n == req[w].refund
      <3>1. n \in Refunds
        BY <2>13 DEF WebhookWrite, Numbered
      <3>2. WebhookUpdate(n) \in OrderDoc
        BY <2>0, <3>1 DEF WebhookUpdate, OrderDoc, PaymentStatus
      <3>3. inbox' \in [Refunds -> Event]
        BY <2>13, <3>1 DEF WebhookWrite, TypeOK, Event, InboxStatus
      <3> QED
        BY <2>13, <3>2, <3>3, FinishTyped DEF WebhookWrite, TypeOK
    <2> QED
      BY <1>4, <2>1, <2>2, <2>3, <2>4, <2>5, <2>6, <2>7, <2>8, <2>9, <2>10, <2>11, <2>12, <2>13
      DEF Handler
  <1>5. ASSUME NEW w \in Workers, Crash(w) PROVE TypeOK'
    BY <1>5, FinishTyped DEF Crash, TypeOK
  <1>6. ASSUME UNCHANGED vars PROVE TypeOK'
    BY <1>6 DEF vars, TypeOK
  <1> QED
    BY <1>1, <1>2, <1>3, <1>4, <1>5, <1>6 DEF Next

-----------------------------------------------------------------------------
\* A handler that moves on to a step without a refund of the provider's in
\* hand, or ends, leaves the deliveries and answers as they are.
LEMMA MovesOn ==
    ASSUME TypeOK, Settled, NEW w \in Workers,
           \A v \in Workers \ {w} : req'[v] = req[v],
           ~Doing(w, "webhook")' /\ ~Doing(w, "answer")',
           UNCHANGED <<provider, inbox>>
    PROVE  Settled'
  <1>1. \A v \in Workers : Doing(v, "webhook")' \/ Doing(v, "answer")' => v # w /\ req'[v] = req[v]
    BY DEF Doing
  <1>2. Numbered'
    BY <1>1 DEF Settled, Numbered, Doing
  <1>3. Reported'
    BY DEF Settled, Reported
  <1>4. Claimed'
    BY <1>1 DEF Settled, Claimed, Doing
  <1> QED
    BY <1>2, <1>3, <1>4 DEF Settled

\* A claim keeps its owner in every step that is not the owner's, unless the
\* step claims.
LEMMA OwnerStays ==
    ASSUME PendingHasOwner, NEW w \in Workers,
           \A v \in Workers \ {w} : req'[v] = req[v],
           ~Doing(w, "call"), ~Doing(w, "answer"),
           (order.pay = "refund_pending" /\ order.refundId = 0)'
             => order.pay = "refund_pending" /\ order.refundId = 0,
           crashed' = crashed
    PROVE  PendingHasOwner'
  <1>1. \A v \in Workers : Doing(v, "call") \/ Doing(v, "answer") => Doing(v, "call")' \/ Doing(v, "answer")'
    BY DEF Doing
  <1> QED
    BY <1>1 DEF PendingHasOwner

\* The provider never takes back what it processed.
LEMMA RealStays ==
    ASSUME RefundedIsReal,
           \A n \in Refunds : provider[n] = "processed" => provider'[n] = "processed",
           order'.pay = "refunded" => order.pay = "refunded" \/ \E n \in Refunds : provider[n] = "processed"
    PROVE  RefundedIsReal'
  BY DEF RefundedIsReal

Rest == Settled /\ RefundedIsReal /\ PendingHasOwner

LEMMA StartStep == ASSUME IInv, NEW w \in Workers, Start(w) PROVE Rest'
  <1> USE RefundsTyped DEF Ops
  <1>0. TypeOK /\ Settled /\ RefundedIsReal /\ PendingHasOwner
    BY DEF IInv
  <1>1. ~Doing(w, "call") /\ ~Doing(w, "answer") /\ ~Doing(w, "webhook") /\ order' = order /\ crashed' = crashed /\ provider' = provider
    <2>1. IsIdle(w)
      BY DEF Start, CaptureRead, CancelRead, RetryRefund, ReopenRead, WebhookClaim
    <2>2. UNCHANGED <<order, crashed, provider>>
      BY DEF Start, CaptureRead, CancelRead, RetryRefund, ReopenRead, WebhookClaim
    <2> QED
      BY <2>1, <2>2 DEF IsIdle, Doing, Idle
  <1>2. ASSUME NEW op \in {"capture", "cancel", "refund", "reopen"}, Begin(w, op, "none", 0), inbox' = inbox
        PROVE Rest'
    <2>1. /\ req'[w] = [op |-> op, seen |-> "none", status |-> order.status, refund |-> 0]
          /\ \A v \in Workers \ {w} : req'[v] = req[v]
      BY <1>0, <1>2, BeginTyped
    <2>2. Settled'
      BY <1>0, <1>1, <1>2, <2>1, MovesOn DEF Doing
    <2>3. PendingHasOwner'
      BY <1>0, <1>1, <2>1, OwnerStays
    <2> QED
      BY <1>0, <1>1, <2>2, <2>3, RealStays DEF Rest
  <1>3. ASSUME NEW n \in Refunds, WebhookClaim(w, n) PROVE Rest'
    <2>1. /\ req'[w] = [op |-> "webhook", seen |-> "none", status |-> order.status, refund |-> n]
          /\ \A v \in Workers \ {w} : req'[v] = req[v]
      BY <1>0, <1>3, BeginTyped DEF WebhookClaim
    <2>2. /\ inbox[n].status # "unsent" /\ inbox[n].status # "processing"
          /\ inbox' = [inbox EXCEPT ![n].status = "processing", ![n].attempts = @ + 1]
      BY <1>3 DEF WebhookClaim
    <2>3. inbox'[n].status = "processing" /\ \A m \in Refunds \ {n} : inbox'[m] = inbox[m]
      BY <1>0, <2>2 DEF TypeOK, Event
    <2>4. Numbered'
      BY <1>0, <1>1, <2>1 DEF Settled, Numbered, Doing
    <2>5. Reported'
      BY <1>0, <1>1, <2>2, <2>3 DEF Settled, Reported
    <2>6. \A v \in Workers : Doing(v, "webhook") => req[v].refund \in Refunds \ {n}
      BY <1>0, <2>2 DEF Settled, Numbered, Claimed
    <2>7. Claimed'
      BY <1>0, <2>1, <2>3, <2>6 DEF Settled, Claimed, Doing
    <2>8. PendingHasOwner'
      BY <1>0, <1>1, <2>1, OwnerStays
    <2> QED
      BY <1>0, <1>1, <2>4, <2>5, <2>7, <2>8, RealStays DEF Rest, Settled
  <1> QED
    BY <1>2, <1>3 DEF Start, CaptureRead, CancelRead, RetryRefund, ReopenRead

\* The steps of a handler that has neither an answer nor an event in hand.
Plain(w) ==
    \/ CaptureTx(w) \/ RefundCapture(w) \/ Cancel(w) \/ AfterCancel(w) \/ ReopenTx(w)
    \/ RefundClaim(w)

LEMMA PlainStep == ASSUME IInv, NEW w \in Workers, Plain(w) PROVE Rest'
  <1> USE RefundsTyped DEF Ops
  <1>0. TypeOK /\ Settled /\ RefundedIsReal /\ PendingHasOwner
    BY DEF IInv
  <1>1. UNCHANGED <<provider, inbox, crashed>>
    BY DEF Plain, CaptureTx, RefundCapture, Cancel, AfterCancel, ReopenTx, RefundClaim
  <1>2. ~Doing(w, "call") /\ ~Doing(w, "answer") /\ ~Doing(w, "webhook")
    BY DEF Plain, CaptureTx, RefundCapture, Cancel, AfterCancel, ReopenTx, RefundClaim, Doing
  <1>3. \/ Finish(w)
        \/ \E op \in {"refund_capture", "refund", "cancelled", "call"}, seen \in {"none", "lost"} :
              Begin(w, op, seen, 0)
    BY DEF Plain, CaptureTx, RefundCapture, Cancel, AfterCancel, ReopenTx, RefundClaim
  <1>4. /\ req'[w].op \in {"idle", "refund_capture", "refund", "cancelled", "call"}
        /\ \A v \in Workers \ {w} : req'[v] = req[v]
    <2>1. CASE Finish(w)
      BY <1>0, <2>1, FinishTyped DEF Idle
    <2>2. ASSUME NEW op \in {"refund_capture", "refund", "cancelled", "call"},
                 NEW seen \in {"none", "lost"}, Begin(w, op, seen, 0)
          PROVE  /\ req'[w].op \in {"idle", "refund_capture", "refund", "cancelled", "call"}
                 /\ \A v \in Workers \ {w} : req'[v] = req[v]
      <3>1. op \in Ops /\ seen \in {"none", "lost", "pending", "processed", "error"} \cup PaymentStatus
        OBVIOUS
      <3>2. /\ req'[w] = [op |-> op, seen |-> seen, status |-> order.status, refund |-> 0]
            /\ \A v \in Workers \ {w} : req'[v] = req[v]
        BY <1>0, <2>2, <3>1, BeginTyped
      <3> QED
        BY <3>2
    <2> QED
      BY <1>3, <2>1, <2>2
  <1>5. Settled'
    BY <1>0, <1>1, <1>4, MovesOn DEF Doing
  <1>6. order \in OrderDoc
    BY <1>0 DEF TypeOK
  <1>7. order'.pay = "refunded" => order.pay = "refunded"
    BY <1>6 DEF Plain, CaptureTx, RefundCapture, Cancel, AfterCancel, ReopenTx, RefundClaim, OrderDoc
  <1>8. RefundedIsReal'
    BY <1>0, <1>1, <1>7, RealStays
  <1>9. PendingHasOwner'
    <2>1. CASE RefundClaim(w) /\ Claimable
      <3>1. Begin(w, "call", "none", 0)
        BY <2>1 DEF RefundClaim
      <3>2. req'[w] = [op |-> "call", seen |-> "none", status |-> order.status, refund |-> 0]
        BY <1>0, <3>1, BeginTyped
      <3> QED
        BY <3>2 DEF PendingHasOwner, Doing
    <2>2. CASE ~(RefundClaim(w) /\ Claimable)
      <3>1. order'.pay = "refund_pending" /\ order'.refundId = 0
              => order.pay = "refund_pending" /\ order.refundId = 0
        BY <1>6, <2>2 DEF Plain, CaptureTx, RefundCapture, Cancel, AfterCancel, ReopenTx, RefundClaim, OrderDoc
      <3> QED
        BY <1>0, <1>1, <1>2, <1>4, <3>1, OwnerStays
    <2> QED
      BY <2>1, <2>2
  <1> QED
    BY <1>5, <1>8, <1>9 DEF Rest

LEMMA CallStep == ASSUME IInv, NEW w \in Workers, CallAccepted(w) \/ CallFails(w) PROVE Rest'
  <1> USE RefundsTyped DEF Ops
  <1>0. TypeOK /\ Settled /\ RefundedIsReal /\ PendingHasOwner
    BY DEF IInv
  <1>1. order' = order /\ crashed' = crashed
    BY DEF CallAccepted, CallFails
  <1>2. ASSUME NEW n \in 0 .. MaxRefunds, NEW answer \in {"pending", "processed", "error"},
               Begin(w, "answer", answer, n)
        PROVE  /\ req'[w] = [op |-> "answer", seen |-> answer, status |-> order.status, refund |-> n]
               /\ \A v \in Workers \ {w} : req'[v] = req[v]
               /\ PendingHasOwner'
    <2>1. /\ req'[w] = [op |-> "answer", seen |-> answer, status |-> order.status, refund |-> n]
          /\ \A v \in Workers \ {w} : req'[v] = req[v]
      BY <1>0, <1>2, BeginTyped
    <2>2. Doing(w, "answer")'
      BY <2>1 DEF Doing
    <2> QED
      BY <2>1, <2>2 DEF PendingHasOwner
  <1>3. ASSUME CallFails(w) PROVE Rest'
    <2>1. /\ req'[w] = [op |-> "answer", seen |-> "error", status |-> order.status, refund |-> 0]
          /\ \A v \in Workers \ {w} : req'[v] = req[v]
          /\ PendingHasOwner'
      BY <1>2, <1>3 DEF CallFails
    <2>2. UNCHANGED <<provider, inbox>>
      BY <1>3 DEF CallFails
    <2>3. Numbered'
      BY <1>0, <2>1, <2>2 DEF Settled, Numbered, Doing
    <2>4. Reported' /\ Claimed'
      BY <1>0, <2>1, <2>2 DEF Settled, Reported, Claimed, Doing
    <2>5. RefundedIsReal'
      BY <1>0, <1>1, <2>2, RealStays
    <2> QED
      BY <2>1, <2>3, <2>4, <2>5 DEF Rest, Settled
  <1>4. ASSUME CallAccepted(w) PROVE Rest'
    <2>1. PICK n \in Refunds, result \in {"pending", "processed"}, answer \in {"pending", "processed", "error"} :
            /\ answer = "processed" => result = "processed"
            /\ provider[n] = "none"
            /\ provider' = [provider EXCEPT ![n] = result]
            /\ inbox' = IF result = "processed" THEN [inbox EXCEPT ![n].status = "received"] ELSE inbox
            /\ Begin(w, "answer", answer, n)
      BY <1>4 DEF CallAccepted
    <2>2. /\ req'[w] = [op |-> "answer", seen |-> answer, status |-> order.status, refund |-> n]
          /\ \A v \in Workers \ {w} : req'[v] = req[v]
          /\ PendingHasOwner'
      BY <1>2, <2>1
    <2>3. /\ provider'[n] = result
          /\ \A m \in Refunds \ {n} : provider'[m] = provider[m] /\ inbox'[m] = inbox[m]
      BY <1>0, <2>1 DEF TypeOK
    <2>4. result = "pending" => inbox' = inbox
      BY <2>1
    <2>5. inbox[n].status = "unsent"
      BY <1>0, <2>1 DEF Settled, Reported
    <2>6. Numbered'
      BY <1>0, <2>1, <2>2, <2>3 DEF Settled, Numbered, Doing
    <2>7. Reported'
      BY <1>0, <2>1, <2>3, <2>4, <2>5 DEF Settled, Reported
    <2>8. \A v \in Workers : Doing(v, "webhook") => req[v].refund \in Refunds \ {n}
      BY <1>0, <2>5 DEF Settled, Numbered, Claimed
    <2>9. Claimed'
      <3>1. \A v \in Workers : Doing(v, "webhook")'
              => Doing(v, "webhook") /\ req'[v] = req[v] /\ inbox'[req[v].refund] = inbox[req[v].refund]
        <4> SUFFICES ASSUME NEW v \in Workers, Doing(v, "webhook")'
                     PROVE  Doing(v, "webhook") /\ req'[v] = req[v]
                            /\ inbox'[req[v].refund] = inbox[req[v].refund]
          OBVIOUS
        <4>1. v # w
          BY <2>2 DEF Doing
        <4>2. req'[v] = req[v] /\ Doing(v, "webhook")
          BY <2>2, <4>1 DEF Doing
        <4> QED
          BY <2>3, <2>8, <4>2
      <3> QED
        BY <1>0, <3>1 DEF Settled, Claimed
    <2>10. RefundedIsReal'
      BY <1>0, <1>1, <2>1, <2>3, RealStays
    <2> QED
      BY <2>2, <2>6, <2>7, <2>9, <2>10 DEF Rest, Settled
  <1> QED
    BY <1>3, <1>4

LEMMA AnswerStep ==
    ASSUME IInv, NEW w \in Workers, RecordProcessed(w) \/ RecordPending(w) \/ RecordFailed(w)
    PROVE  Rest'
  <1> USE RefundsTyped
  <1>0. TypeOK /\ Settled /\ RefundedIsReal /\ PendingHasOwner
    BY DEF IInv
  <1>1. UNCHANGED <<provider, inbox, crashed>> /\ Finish(w)
    BY DEF RecordProcessed, RecordPending, RecordFailed
  <1>2. req'[w] = Idle /\ \A v \in Workers \ {w} : req'[v] = req[v]
    BY <1>0, <1>1, FinishTyped
  <1>3. Settled'
    BY <1>0, <1>1, <1>2, MovesOn DEF Doing, Idle
  <1>4. order \in OrderDoc
    BY <1>0 DEF TypeOK
  <1>5. ~(order'.pay = "refund_pending" /\ order'.refundId = 0)
    <2>1. CASE RecordProcessed(w)
      BY <1>4, <2>1 DEF RecordProcessed, OrderDoc
    <2>2. CASE RecordPending(w)
      <3>1. req[w].refund \in Refunds
        BY <1>0, <2>2 DEF RecordPending, Settled, Numbered
      <3>2. order'.refundId = req[w].refund
        BY <1>4, <2>2 DEF RecordPending, OrderDoc
      <3> QED
        BY <3>1, <3>2
    <2>3. CASE RecordFailed(w)
      BY <1>4, <2>3 DEF RecordFailed, OrderDoc
    <2> QED
      BY <2>1, <2>2, <2>3
  <1>6. PendingHasOwner'
    BY <1>5 DEF PendingHasOwner
  <1>7. RefundedIsReal'
    <2>1. CASE RecordProcessed(w)
      <3>1. req[w].refund \in Refunds /\ provider[req[w].refund] = "processed"
        BY <1>0, <2>1 DEF RecordProcessed, Settled, Numbered
      <3> QED
        BY <1>1, <3>1 DEF RefundedIsReal
    <2>2. CASE RecordPending(w) \/ RecordFailed(w)
      <3>1. order'.pay = "refunded" => order.pay = "refunded"
        BY <1>4, <2>2 DEF RecordPending, RecordFailed, OrderDoc
      <3> QED
        BY <1>0, <1>1, <3>1, RealStays
    <2> QED
      BY <2>1, <2>2
  <1> QED
    BY <1>3, <1>6, <1>7 DEF Rest

LEMMA WebhookStep == ASSUME IInv, NEW w \in Workers, WebhookRead(w) \/ WebhookWrite(w) PROVE Rest'
  <1> USE RefundsTyped DEF Ops
  <1> DEFINE n == req[w].refund
  <1>0. TypeOK /\ Settled /\ RefundedIsReal /\ PendingHasOwner
    BY DEF IInv
  <1>1. /\ Doing(w, "webhook") /\ ~Doing(w, "call") /\ ~Doing(w, "answer")
        /\ provider' = provider /\ crashed' = crashed
    BY DEF WebhookRead, WebhookWrite, Doing
  <1>2. n \in Refunds /\ inbox[n].status = "processing"
    BY <1>0, <1>1 DEF Settled, Numbered, Claimed
  <1>3. order \in OrderDoc
    BY <1>0 DEF TypeOK
  <1>4. provider[n] \in {"processed", "failed"}
    BY <1>0, <1>2 DEF TypeOK, Settled, Reported
  <1>5. \A v \in Workers \ {w} : Doing(v, "webhook") => req[v].refund \in Refunds \ {n}
    BY <1>0, <1>1 DEF Settled, Numbered, Claimed
  <1>6. /\ \A v \in Workers \ {w} : req'[v] = req[v]
        /\ \/ req'[w] = Idle
           \/ Doing(w, "webhook")' /\ req'[w].refund = n /\ inbox' = inbox
        /\ \A m \in Refunds \ {n} : inbox'[m] = inbox[m]
    <2>1. CASE Finish(w)
      BY <1>0, <2>1, FinishTyped DEF WebhookRead, WebhookWrite, TypeOK
    <2>2. CASE Begin(w, "webhook", order.pay, n) /\ inbox' = inbox
      <3>1. order.pay \in PaymentStatus /\ n \in 0 .. MaxRefunds
        BY <1>2, <1>3 DEF OrderDoc
      <3>2. /\ req'[w] = [op |-> "webhook", seen |-> order.pay, status |-> order.status, refund |-> n]
            /\ \A v \in Workers \ {w} : req'[v] = req[v]
        BY <1>0, <2>2, <3>1, BeginTyped
      <3> QED
        BY <2>2, <3>2 DEF Doing
    <2> QED
      BY <2>1, <2>2 DEF WebhookRead, WebhookWrite
  <1>7. Numbered'
    BY <1>0, <1>1, <1>2, <1>6 DEF Settled, Numbered, Doing, Idle
  <1>8. Reported'
    BY <1>0, <1>1, <1>4, <1>6 DEF Settled, Reported
  <1>9. Claimed'
    <2>1. \A v \in Workers : Doing(v, "webhook")'
            => /\ Doing(v, "webhook") /\ req'[v].refund = req[v].refund
               /\ inbox'[req[v].refund] = inbox[req[v].refund]
      <3> SUFFICES ASSUME NEW v \in Workers, Doing(v, "webhook")'
                   PROVE  /\ Doing(v, "webhook") /\ req'[v].refund = req[v].refund
                          /\ inbox'[req[v].refund] = inbox[req[v].refund]
        OBVIOUS
      <3>1. CASE v = w
        <4>1. req'[w] # Idle
          BY <3>1 DEF Doing, Idle
        <4>2. req'[w].refund = n /\ inbox' = inbox
          BY <1>6, <4>1
        <4> QED
          BY <1>1, <3>1, <4>2
      <3>2. CASE v # w
        <4>1. req'[v] = req[v] /\ Doing(v, "webhook")
          BY <1>6, <3>2 DEF Doing
        <4>2. req[v].refund \in Refunds \ {n}
          BY <1>5, <3>2, <4>1
        <4> QED
          BY <1>6, <4>1, <4>2
      <3> QED
        BY <3>1, <3>2
    <2> QED
      BY <1>0, <2>1 DEF Settled, Claimed
  <1>10. /\ order'.pay = "refunded" => order.pay = "refunded" \/ provider[n] = "processed"
         /\ order'.pay = "refund_pending" /\ order'.refundId = 0
              => order.pay = "refund_pending" /\ order.refundId = 0
    BY <1>2, <1>3, <1>4 DEF WebhookRead, WebhookWrite, WebhookUpdate, OrderDoc
  <1>11. RefundedIsReal'
    BY <1>0, <1>1, <1>2, <1>10, RealStays
  <1>12. PendingHasOwner'
    BY <1>0, <1>1, <1>6, <1>10, OwnerStays
  <1> QED
    BY <1>7, <1>8, <1>9, <1>11, <1>12 DEF Rest, Settled

\* The customer, the provider and fulfilment.
LEMMA OutsideStep ==
    ASSUME IInv, PayAtGateway \/ Ship \/ (\E n \in Refunds : Settle(n)) PROVE Rest'
  <1>0. TypeOK /\ Settled /\ RefundedIsReal /\ PendingHasOwner
    BY DEF IInv
  <1>1. req' = req /\ crashed' = crashed
    BY DEF PayAtGateway, Ship, Settle
  <1>2. order \in OrderDoc
    BY <1>0 DEF TypeOK
  <1>3. order'.pay = order.pay /\ order'.refundId = order.refundId
    BY <1>2 DEF PayAtGateway, Ship, Settle, OrderDoc
  <1>4. PendingHasOwner'
    BY <1>0, <1>1, <1>3 DEF PendingHasOwner, Doing
  <1>5. ASSUME UNCHANGED <<provider, inbox>> PROVE Settled' /\ RefundedIsReal'
    BY <1>0, <1>1, <1>3, <1>5 DEF Settled, Numbered, Reported, Claimed, RefundedIsReal, Doing
  <1>6. ASSUME NEW n \in Refunds, Settle(n) PROVE Settled' /\ RefundedIsReal'
    <2>1. /\ provider[n] = "pending" /\ provider'[n] \in {"processed", "failed"}
          /\ \A m \in Refunds \ {n} : provider'[m] = provider[m] /\ inbox'[m] = inbox[m]
      BY <1>0, <1>6 DEF Settle, TypeOK
    <2>2. inbox[n].status = "unsent"
      BY <1>0, <2>1 DEF Settled, Reported
    <2>3. \A v \in Workers : Doing(v, "webhook") => req[v].refund \in Refunds \ {n}
      BY <1>0, <2>2 DEF Settled, Numbered, Claimed
    <2>4. Numbered'
      BY <1>0, <1>1, <2>1 DEF Settled, Numbered, Doing
    <2>5. Reported'
      BY <1>0, <2>1 DEF Settled, Reported
    <2>6. Claimed'
      BY <1>0, <1>1, <2>1, <2>3 DEF Settled, Claimed, Doing
    <2>7. RefundedIsReal'
      BY <1>0, <1>3, <2>1 DEF RefundedIsReal
    <2> QED
      BY <2>4, <2>5, <2>6, <2>7 DEF Settled
  <1> QED
    BY <1>4, <1>5, <1>6 DEF PayAtGateway, Ship, Rest

LEMMA CrashStep == ASSUME IInv, NEW w \in Workers, Crash(w) PROVE Rest'
  <1>0. TypeOK /\ Settled /\ RefundedIsReal /\ PendingHasOwner
    BY DEF IInv
  <1>1. req'[w] = Idle /\ \A v \in Workers \ {w} : req'[v] = req[v]
    BY <1>0, FinishTyped DEF Crash
  <1>2. Settled'
    BY <1>0, <1>1, MovesOn DEF Crash, Doing, Idle
  <1> QED
    BY <1>0, <1>2 DEF Crash, Rest, RefundedIsReal, PendingHasOwner

LEMMA IInvStep == IInv /\ [Next]_vars => IInv'
  <1> SUFFICES ASSUME IInv, [Next]_vars PROVE IInv'
    OBVIOUS
  <1>1. TypeOK'
    BY TypeStep DEF IInv, Settled
  <1>2. ASSUME NEW w \in Workers, Handler(w) PROVE Rest'
    BY <1>2, PlainStep, CallStep, AnswerStep, WebhookStep DEF Handler, Plain
  <1>3. ASSUME UNCHANGED vars PROVE Rest'
    BY <1>3 DEF vars, IInv, Rest, Settled, Numbered, Reported, Claimed, RefundedIsReal,
                PendingHasOwner, Doing
  <1>4. Rest'
    BY <1>2, <1>3, StartStep, CrashStep, OutsideStep DEF Next
  <1> QED
    BY <1>1, <1>4 DEF IInv, Rest

THEOREM Inductive == Spec => []IInv
  <1>1. Init => IInv
    BY InitIInv
  <1> QED
    BY <1>1, IInvStep, PTL DEF Spec

-----------------------------------------------------------------------------
\* What handlers and the provider write down is a document, an event or a
\* request of the declared shape.
THEOREM RefundTyped == Spec => []TypeOK
  <1>1. IInv => TypeOK
    BY DEF IInv
  <1> QED
    BY <1>1, Inductive, PTL

\* An order that says refunded has a processed refund at Razorpay
\* (attemptRefund.js, the refund webhooks).
THEOREM RefundedReal == Spec => []RefundedIsReal
  <1>1. IInv => RefundedIsReal
    BY DEF IInv
  <1> QED
    BY <1>1, Inductive, PTL

\* While no server died, a claimed refund without an id is in some handler's
\* hands (attemptRefund.js).
THEOREM ClaimHasOwner == Spec => []PendingHasOwner
  <1>1. IInv => PendingHasOwner
    BY DEF IInv
  <1> QED
    BY <1>1, Inductive, PTL

\* No two deliveries of one event process it at once (replayRazorpayWebhook).
THEOREM OneDelivery == Spec => []OneDeliveryAtATime
  <1>1. ASSUME IInv PROVE OneDeliveryAtATime
    <2> SUFFICES ASSUME NEW n \in Refunds
                 PROVE  Cardinality({w \in Workers : Doing(w, "webhook") /\ req[w].refund = n}) <= 1
      BY DEF OneDeliveryAtATime
    <2> DEFINE D == {w \in Workers : Doing(w, "webhook") /\ req[w].refund = n}
    <2>1. CASE D = {}
      BY <2>1, FS_EmptySet
    <2>2. CASE D # {}
      <3>1. PICK w \in D : TRUE
        BY <2>2
      <3>2. D = {w}
        BY <1>1, <3>1 DEF IInv, Settled, Claimed
      <3> QED
        <4>1. Cardinality({w}) = 1
          BY FS_Singleton
        <4>2. Cardinality(D) = 1
          BY <3>2, <4>1, Zenon
        <4> QED
          BY <4>2
    <2> QED
      BY <2>1, <2>2
  <1> QED
    BY <1>1, Inductive, PTL
=============================================================================
