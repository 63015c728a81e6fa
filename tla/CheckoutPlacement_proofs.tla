---- MODULE CheckoutPlacement_proofs ----
(* Proofs about CheckoutPlacement, for any set of requests, envelopes and   *)
(* prices: one Razorpay order per key, the placed order hangs on it, and    *)
(* the total the customer was shown is the one charged.                     *)
EXTENDS CheckoutPlacement, SequenceTheorems, TLAPS

Request == [step : Steps, envelope : Envelopes, amount : Amounts, provider : {0, 1}, created : BOOLEAN]
Attempt == [status : AttemptStatus, provider : {0, 1}, envelope : Envelopes, amount : Amounts,
            fresh : BOOLEAN]

\* The only Razorpay order is the attempt's, over the attempt's amount.
GatewayOK ==
    /\ price \in Amounts
    /\ gateway = <<>> \/ (attempt # NoAttempt /\ gateway = <<attempt.amount>>)

\* An attempt is as it was created, and knows a Razorpay order only if open.
AttemptOK ==
    \/ attempt = NoAttempt
    \/ /\ attempt \in Attempt
       /\ Expected[attempt.envelope] \in {0, attempt.amount}
       /\ attempt.provider = 1 => gateway # <<>>

\* Past the attempt's gate a request shares its fingerprint; an owner is
\* there before any Razorpay order; who holds one holds the only one.
OnAttempt(r) == attempt # NoAttempt /\ r.envelope = attempt.envelope
Fits(r) ==
    /\ Expected[r.envelope] \in {0, r.amount}
    /\ r.step \in {"create", "persist", "reconcile", "lookup", "bind", "missing", "erred",
                  "orphan"} => OnAttempt(r)
    /\ r.created => OnAttempt(r)
    /\ r.provider = 1 => gateway # <<>>
    /\ r.step = "create" => gateway = <<>> /\ r.amount = attempt.amount
    /\ r.step \in {"persist", "bind"} => gateway # <<>> /\ r.provider = 1
    /\ r.step = "place" /\ r.envelope \notin FullCod =>
         OnAttempt(r) /\ gateway # <<>> /\ r.provider = 1 /\ attempt.provider = 1

RequestsOK ==
    /\ req \in [Workers -> Request \cup {Idle}]
    /\ \A w \in Workers : req[w] = Idle \/ Fits(req[w])

\* One request owns the creation of the Razorpay order.
OneOwner == \A v, w \in Workers : Doing(v, "create") /\ Doing(w, "create") => v = w

\* The order was placed by a request that was ready to.
Placed == [placed : {TRUE}, provider : {0, 1}, envelope : Envelopes, amount : Amounts]
OrderOK ==
    \/ order = NoOrder
    \/ /\ order \in Placed
       /\ Expected[order.envelope] \in {0, order.amount}
       /\ order.provider = 1 => gateway # <<>>
       /\ order.envelope \notin FullCod =>
            /\ order.provider = 1
            /\ attempt # NoAttempt /\ attempt.provider = 1
            /\ attempt.envelope = order.envelope

IInv == GatewayOK /\ AttemptOK /\ RequestsOK /\ OneOwner /\ OrderOK

-----------------------------------------------------------------------------
\* What no step takes back: the attempt, its request and its Razorpay order.
Grows ==
    /\ attempt # NoAttempt =>
         /\ attempt' # NoAttempt
         /\ attempt'.envelope = attempt.envelope
         /\ attempt'.amount = attempt.amount
         /\ attempt.provider = 1 => attempt'.provider = 1
    /\ gateway # <<>> => gateway' # <<>>

(* A request in progress is a well-formed one that fits the attempt.        *)
LEMMA Busy ==
    ASSUME IInv, NEW w \in Workers, ~Doing(w, "idle")
    PROVE  req[w] \in Request /\ Fits(req[w])
    BY DEF IInv, RequestsOK, Doing, Idle

(* Requests that stand still go on fitting while the attempt grows.         *)
LEMMA StillFits ==
    ASSUME Grows, NEW q \in Request, Fits(q), q.step # "create" \/ UNCHANGED gateway
    PROVE  Fits(q)'
    BY DEF Grows, Fits, OnAttempt

(* A step of one request that lets the attempt grow, leaves the order alone *)
(* and does not create beside an owner keeps what is known of requests.     *)
LEMMA StepKeepsRequests ==
    ASSUME IInv, NEW w \in Workers, NEW r \in Request \cup {Idle},
           req' = [req EXCEPT ![w] = r], Grows, r = Idle \/ Fits(r)',
           UNCHANGED gateway \/ \A v \in Workers \ {w} : ~Doing(v, "create"),
           r.step = "create" => \A v \in Workers : ~Doing(v, "create")
    PROVE  RequestsOK' /\ OneOwner'
<1>1. req' \in [Workers -> Request \cup {Idle}]
    BY DEF IInv, RequestsOK
<1>2. ASSUME NEW v \in Workers, v # w, req[v] # Idle
      PROVE  Fits(req[v])'
    <2>1. ~Doing(v, "create") \/ UNCHANGED gateway
        BY <1>2
    <2>2. req[v] \in Request /\ Fits(req[v])
        BY <1>2 DEF IInv, RequestsOK
    <2>3. ASSUME NEW q \in Request, Fits(q), q = req[v]
          PROVE  Fits(q)'
        BY <2>1, <2>3, StillFits DEF Doing
    <2>4. req'[v] = req[v]
        BY <1>2 DEF IInv, RequestsOK
    <2> QED BY <2>2, <2>3, <2>4 DEF Fits, OnAttempt
<1>3. req'[w] = r
    BY DEF IInv, RequestsOK
<1>4. \A v \in Workers : req'[v] = Idle \/ Fits(req[v])'
    <2>1. r = Idle \/ Fits(req[w])'
        BY <1>3 DEF Fits, OnAttempt
    <2>2. \A v \in Workers : v # w => req'[v] = req[v]
        BY DEF IInv, RequestsOK
    <2> QED BY <1>2, <1>3, <2>1, <2>2
<1>5. OneOwner'
    BY DEF IInv, RequestsOK, OneOwner, Doing
<1> QED BY <1>1, <1>4, <1>5 DEF RequestsOK

(* The placed order goes on hanging on the attempt while that grows.        *)
LEMMA StepKeepsOrder ==
    ASSUME IInv, Grows, UNCHANGED order
    PROVE  OrderOK'
    BY DEF IInv, OrderOK, Grows, NoOrder

(* Steps that leave the Razorpay side alone: reads, refusals, hand-overs.   *)
LEMMA QuietSteps ==
    ASSUME IInv, NEW w \in Workers, NEW r \in Request \cup {Idle},
           req' = [req EXCEPT ![w] = r], r = Idle \/ Fits(r), r.step # "create",
           UNCHANGED <<gateway, attempt, order>>, price' \in Amounts
    PROVE  IInv'
<1>1. Grows
    BY DEF Grows
<1>2. r = Idle \/ Fits(r)'
    BY DEF Fits, OnAttempt
<1>3. RequestsOK' /\ OneOwner'
    BY <1>1, <1>2, StepKeepsRequests
<1> QED BY <1>1, <1>3, StepKeepsOrder DEF IInv, GatewayOK, AttemptOK

(* The forms in which a step leaves its request.                            *)
LEMMA Left ==
    ASSUME IInv, NEW w \in Workers, ~Doing(w, "idle"), NEW step \in Steps, NEW id \in {0, 1}
    PROVE  /\ [req[w] EXCEPT !.step = step] \in Request
           /\ [req[w] EXCEPT !.step = step, !.provider = id] \in Request
           /\ Goto(w, step) => req' = [req EXCEPT ![w] = [req[w] EXCEPT !.step = step]]
           /\ [req EXCEPT ![w].step = step, ![w].provider = id]
                  = [req EXCEPT ![w] = [req[w] EXCEPT !.step = step, !.provider = id]]
<1>1. req[w] \in Request
    BY Busy
<1>2. [req[w] EXCEPT !.step = step] \in Request
    BY <1>1 DEF Request
<1>3. [req[w] EXCEPT !.step = step, !.provider = id] \in Request
    BY <1>1 DEF Request
<1> QED BY <1>2, <1>3 DEF Goto

(* The ways a step of a request in progress may end it or hand it on        *)
(* without touching the attempt.                                            *)
LEMMA HandOver ==
    ASSUME IInv, NEW w \in Workers, ~Doing(w, "idle"), NEW step \in Steps,
           UNCHANGED <<price, gateway, attempt, order>>,
           \/ Finish(w)
           \/ /\ Goto(w, step) /\ step # "create"
              /\ Fits([req[w] EXCEPT !.step = step])
    PROVE  IInv'
<1>0. price' \in Amounts
    BY DEF IInv, GatewayOK
<1>1. CASE Finish(w)
    <2>1. Idle.step # "create"
        BY DEF Idle
    <2> QED BY <1>0, <1>1, <2>1, QuietSteps DEF Finish
<1>2. CASE Goto(w, step) /\ step # "create" /\ Fits([req[w] EXCEPT !.step = step])
    <2> DEFINE r == [req[w] EXCEPT !.step = step]
    <2>1. r \in Request /\ req' = [req EXCEPT ![w] = r]
        BY <1>2, Left
    <2>2. r.step # "create"
        BY <1>2, Busy DEF Request
    <2> QED BY <1>0, <1>2, <2>1, <2>2, QuietSteps
<1> QED BY <1>1, <1>2

(* A request that shares the attempt's Razorpay order goes on with it.      *)
LEMMA GoesOnWith ==
    ASSUME IInv, NEW w \in Workers, ~Doing(w, "idle"), OnAttempt(req[w]), attempt.provider # 0,
           PlaceWith(w, attempt.provider), UNCHANGED <<price, gateway, attempt, order>>
    PROVE  IInv'
<1> DEFINE r == [req[w] EXCEPT !.step = "place", !.provider = attempt.provider]
<1>1. attempt.provider = 1 /\ gateway # <<>>
    BY DEF IInv, AttemptOK, Attempt, NoAttempt
<1>2. "place" \in Steps
    BY DEF Steps
<1>3. r \in Request /\ req' = [req EXCEPT ![w] = r]
    BY <1>1, <1>2, Left, ZenonT(60) DEF PlaceWith
<1>4. Fits(r) /\ r.step # "create"
    BY <1>1, Busy DEF Fits, OnAttempt, Request
<1> QED BY <1>3, <1>4, QuietSteps DEF IInv, GatewayOK

-----------------------------------------------------------------------------
(* Requests start, wait, read and are refused without touching the attempt. *)
LEMMA StartKeeps ==
    ASSUME IInv, NEW w \in Workers, NEW e \in Envelopes, Start(w, e)
    PROVE  IInv'
<1> DEFINE r == [Idle EXCEPT !.step = "priced", !.envelope = e, !.amount = price]
<1>1. price \in Amounts /\ price' \in Amounts
    BY DEF IInv, GatewayOK, Start
<1>2. r \in Request
    BY <1>1 DEF Request, Idle, Steps
<1>3. Fits(r) /\ r.step # "create"
    BY DEF Fits, Start, Idle, OnAttempt
<1> QED BY <1>1, <1>2, <1>3, QuietSteps DEF Start

(* A request that looks for its order again fits wherever it goes on.       *)
LEMMA NumberKeeps ==
    ASSUME IInv, NEW w \in Workers, Number(w)
    PROVE  IInv'
<1>1. ~Doing(w, "idle") /\ req[w].step = "priced"
    BY DEF Number, Doing
<1>2. CASE Finish(w)
    BY <1>1, <1>2, HandOver DEF Number, Steps
<1>3. CASE req[w].envelope \in FullCod /\ Goto(w, "place")
    <2>1. Fits([req[w] EXCEPT !.step = "place"])
        BY <1>1, <1>3, Busy DEF Fits, Request, OnAttempt
    <2> QED BY <1>1, <1>3, <2>1, HandOver DEF Number, Steps
<1>4. CASE Goto(w, "numbered")
    <2>1. Fits([req[w] EXCEPT !.step = "numbered"])
        BY <1>1, Busy DEF Fits, Request, OnAttempt
    <2> QED BY <1>1, <1>4, <2>1, HandOver DEF Number, Steps
<1> QED BY <1>2, <1>3, <1>4 DEF Number

(* A request that shares the attempt waits, reconciles or uses its order.   *)
LEMMA ShareKeeps ==
    ASSUME IInv, NEW w \in Workers, ShareAttempt(w)
    PROVE  IInv'
<1>1. ~Doing(w, "idle")
    BY DEF ShareAttempt, Doing
<1>2. CASE Finish(w)
    BY <1>1, <1>2, HandOver DEF ShareAttempt, Steps
<1>3. CASE OnAttempt(req[w]) /\ attempt.provider # 0 /\ PlaceWith(w, attempt.provider)
    BY <1>1, <1>3, GoesOnWith DEF ShareAttempt
<1>4. CASE OnAttempt(req[w]) /\ Goto(w, "reconcile")
    <2>1. Fits([req[w] EXCEPT !.step = "reconcile"])
        BY <1>1, <1>4, Busy DEF Fits, Request, OnAttempt
    <2> QED BY <1>1, <1>4, <2>1, HandOver DEF ShareAttempt, Steps
<1> QED BY <1>2, <1>3, <1>4 DEF ShareAttempt, OnAttempt

(* An owner that cannot note the Razorpay order reports it.                 *)
LEMMA PersistFailsKeeps ==
    ASSUME IInv, NEW w \in Workers, PersistFails(w)
    PROVE  IInv'
<1>1. ~Doing(w, "idle") /\ req[w].step = "persist"
    BY DEF PersistFails, Doing
<1>2. Fits([req[w] EXCEPT !.step = "orphan"])
    BY <1>1, Busy DEF Fits, Request, OnAttempt
<1> QED BY <1>1, <1>2, HandOver DEF PersistFails, Steps

(* An aborted transaction leaves its request to end or to report.           *)
LEMMA PlaceAbortsKeeps ==
    ASSUME IInv, NEW w \in Workers, PlaceAborts(w)
    PROVE  IInv'
<1>1. ~Doing(w, "idle")
    BY DEF PlaceAborts, Doing
<1>2. req[w].created => Fits([req[w] EXCEPT !.step = "orphan"])
    BY <1>1, Busy DEF Fits, Request, OnAttempt
<1> QED BY <1>1, <1>2, HandOver DEF PlaceAborts, Steps

(* What a search finds is the one Razorpay order there is.                  *)
LEMMA LookupKeeps ==
    ASSUME IInv, NEW w \in Workers, LookupFinds(w) \/ LookupMisses(w) \/ LookupFails(w)
    PROVE  IInv'
<1>1. ~Doing(w, "idle") /\ req[w].step = "lookup"
    BY DEF LookupFinds, LookupMisses, LookupFails, Doing
<1>2. req[w] \in Request /\ Fits(req[w]) /\ OnAttempt(req[w])
    BY <1>1, Busy DEF Fits
<1>3. CASE LookupFinds(w)
    <2>1. PICK id \in Matching : req' = [req EXCEPT ![w].step = "bind", ![w].provider = id]
        BY <1>3 DEF LookupFinds
    <2>2. gateway # <<>> /\ id = 1
        BY DEF IInv, GatewayOK, Matching
    <2> DEFINE r == [req[w] EXCEPT !.step = "bind", !.provider = 1]
    <2>3. r \in Request
        BY <1>2 DEF Request, Steps
    <2>4. req' = [req EXCEPT ![w] = r]
        BY <2>1, <2>2
    <2>5. Fits(r) /\ r.step # "create"
        BY <1>2, <2>2 DEF Fits, OnAttempt, Request
    <2> QED BY <1>3, <2>3, <2>4, <2>5, QuietSteps DEF LookupFinds, IInv, GatewayOK
<1>4. ASSUME NEW step \in {"missing", "erred"}
      PROVE  Fits([req[w] EXCEPT !.step = step]) /\ step \in Steps /\ step # "create"
    BY <1>2 DEF Fits, OnAttempt, Request, Steps
<1>5. CASE LookupMisses(w)
    BY <1>1, <1>4, <1>5, HandOver DEF LookupMisses
<1>6. CASE LookupFails(w)
    BY <1>1, <1>4, <1>6, HandOver DEF LookupFails
<1> QED BY <1>3, <1>5, <1>6

(* A request that is lost relies on nothing.                                *)
LEMMA CrashKeeps ==
    ASSUME IInv, NEW w \in Workers, Crash(w)
    PROVE  IInv'
    BY HandOver DEF Crash, Steps

-----------------------------------------------------------------------------
(* A step that lets the attempt grow, and does what is asked of it below.   *)
LEMMA GrowingStep ==
    ASSUME IInv, NEW w \in Workers, NEW r \in Request \cup {Idle},
           req' = [req EXCEPT ![w] = r], r.step # "create", r = Idle \/ Fits(r)',
           Grows, AttemptOK', GatewayOK',
           UNCHANGED gateway \/ Doing(w, "create"), UNCHANGED order
    PROVE  IInv'
<1>1. UNCHANGED gateway \/ \A v \in Workers \ {w} : ~Doing(v, "create")
    BY DEF IInv, OneOwner
<1>2. RequestsOK' /\ OneOwner'
    BY <1>1, StepKeepsRequests
<1> QED BY <1>2, StepKeepsOrder DEF IInv

(* Relabelling the attempt changes nothing a request relies on.             *)
LEMMA Relabel ==
    ASSUME IInv, attempt # NoAttempt, NEW status \in AttemptStatus,
           attempt' = [attempt EXCEPT !.status = status], UNCHANGED <<price, gateway>>
    PROVE  Grows /\ AttemptOK' /\ GatewayOK' /\ attempt' # NoAttempt
<1>1. attempt \in Attempt
    BY DEF IInv, AttemptOK
<1>2. attempt' \in Attempt
    BY <1>1 DEF Attempt
<1>3. attempt'.status # "none"
    BY <1>1 DEF Attempt, AttemptStatus
<1>4. attempt' # NoAttempt
    BY <1>3 DEF NoAttempt
<1> QED BY <1>1, <1>2, <1>4 DEF IInv, Grows, AttemptOK, GatewayOK, Attempt

(* Noting the Razorpay order changes nothing a request relies on.           *)
LEMMA NoteProvider ==
    ASSUME IInv, attempt # NoAttempt, gateway # <<>>, NEW status \in AttemptStatus,
           attempt' = [attempt EXCEPT !.provider = 1, !.status = status], UNCHANGED <<price, gateway>>
    PROVE  Grows /\ AttemptOK' /\ GatewayOK' /\ attempt' # NoAttempt
<1>1. attempt \in Attempt
    BY DEF IInv, AttemptOK
<1>2. attempt' \in Attempt
    BY <1>1 DEF Attempt
<1>3. attempt'.status # "none"
    BY <1>1 DEF Attempt, AttemptStatus
<1>4. attempt' # NoAttempt
    BY <1>3 DEF NoAttempt
<1> QED BY <1>1, <1>2, <1>4 DEF IInv, Grows, AttemptOK, GatewayOK, Attempt

(* The attempt is opened once, before any Razorpay order, by one owner.     *)
LEMMA OpenKeeps ==
    ASSUME IInv, NEW w \in Workers, OpenAttempt(w)
    PROVE  IInv'
<1>1. ~Doing(w, "idle")
    BY DEF OpenAttempt, Doing
<1>2. req[w] \in Request /\ Fits(req[w])
    BY <1>1, Busy
<1>3. PICK r \in Request : r = [req[w] EXCEPT !.step = "create"]
    BY <1>1, Left DEF Steps
<1>4. /\ r.step = "create" /\ r.envelope = req[w].envelope /\ r.amount = req[w].amount
      /\ r.provider = req[w].provider
      /\ r.created = req[w].created
      /\ req' = [req EXCEPT ![w] = r]
    BY <1>2, <1>3 DEF OpenAttempt, Goto, Request
<1>5. attempt = NoAttempt /\ gateway = <<>> /\ UNCHANGED <<price, gateway, order>>
    BY DEF OpenAttempt, IInv, GatewayOK
<1>6. attempt' \in Attempt /\ attempt'.provider = 0 /\ attempt' # NoAttempt
    BY <1>2 DEF OpenAttempt, Attempt, AttemptStatus, Request, NoAttempt
<1>7. attempt'.envelope = r.envelope /\ attempt'.amount = r.amount
    BY <1>4 DEF OpenAttempt
<1>8. Expected[r.envelope] \in {0, r.amount}
    BY <1>2, <1>4 DEF Fits
<1>9. Grows /\ AttemptOK' /\ GatewayOK'
    BY <1>5, <1>6, <1>7, <1>8 DEF Grows, AttemptOK, GatewayOK, IInv
<1>10. Fits(r)'
    BY <1>2, <1>4, <1>5, <1>6, <1>7, <1>8 DEF Fits, OnAttempt
<1>11. \A v \in Workers : ~Doing(v, "create")
    BY <1>5, Busy DEF Fits, OnAttempt, Doing
<1>12. RequestsOK' /\ OneOwner'
    BY <1>4, <1>5, <1>9, <1>10, <1>11, StepKeepsRequests
<1> QED BY <1>5, <1>9, <1>12, StepKeepsOrder DEF IInv

(* The order is opened at Razorpay by its owner, which hears of it or not.  *)
LEMMA CreateKeeps ==
    ASSUME IInv, NEW w \in Workers, CreateAnswered(w) \/ CreateUnanswered(w)
    PROVE  IInv'
<1>1. ~Doing(w, "idle") /\ Doing(w, "create") /\ req[w].step = "create"
    BY DEF CreateAnswered, CreateUnanswered, Doing
<1>2. req[w] \in Request /\ Fits(req[w])
    BY <1>1, Busy
<1>3. OnAttempt(req[w]) /\ gateway = <<>> /\ req[w].amount = attempt.amount
    BY <1>1, <1>2 DEF Fits
<1>4. Append(gateway, req[w].amount) = <<attempt.amount>> /\ <<attempt.amount>> # <<>>
    BY <1>3
<1>5. UNCHANGED <<price, attempt, order>> /\ gateway' \in {gateway, <<attempt.amount>>}
    BY <1>4 DEF CreateAnswered, CreateUnanswered
<1>6. Grows /\ AttemptOK' /\ GatewayOK'
    BY <1>3, <1>4, <1>5 DEF IInv, Grows, AttemptOK, GatewayOK, OnAttempt
<1>7. CASE CreateAnswered(w)
    <2>1. gateway' = <<attempt.amount>> /\ Len(gateway') = 1
        BY <1>4, <1>7 DEF CreateAnswered
    <2>2. PICK r \in Request : r = [req[w] EXCEPT !.step = "persist", !.provider = 1, !.created = TRUE]
        BY <1>2 DEF Request, Steps
    <2>3. /\ r.step = "persist" /\ r.envelope = req[w].envelope /\ r.amount = req[w].amount
          /\ r.provider = 1
        BY <1>2, <2>2 DEF Request
    <2>4. req' = [req EXCEPT ![w] = r]
        BY <1>7, <2>1, <2>2 DEF CreateAnswered
    <2>5. Fits(r)'
        BY <1>2, <1>3, <1>4, <1>5, <2>1, <2>3 DEF Fits, OnAttempt
    <2> QED BY <1>1, <1>5, <1>6, <2>3, <2>4, <2>5, GrowingStep
<1>8. CASE CreateUnanswered(w)
    <2>1. req' = [req EXCEPT ![w] = Idle] /\ Idle.step # "create"
        BY <1>8 DEF CreateUnanswered, Finish, Idle
    <2> QED BY <1>1, <1>5, <1>6, <2>1, GrowingStep
<1> QED BY <1>7, <1>8

(* A request that relabels the attempt ends, or goes on searching.          *)
LEMMA RelabellingStep ==
    ASSUME IInv, NEW w \in Workers, ~Doing(w, "idle"), OnAttempt(req[w]), NEW status \in AttemptStatus,
           attempt' = [attempt EXCEPT !.status = status], UNCHANGED <<price, gateway, order>>,
           Finish(w) \/ Goto(w, "lookup")
    PROVE  IInv'
<1>1. attempt # NoAttempt /\ Grows /\ AttemptOK' /\ GatewayOK' /\ attempt' # NoAttempt
    BY Relabel DEF OnAttempt
<1>2. CASE Finish(w)
    <2>1. req' = [req EXCEPT ![w] = Idle] /\ Idle.step # "create"
        BY <1>2 DEF Finish, Idle
    <2> QED BY <1>1, <2>1, GrowingStep
<1>3. CASE Goto(w, "lookup")
    <2>1. req[w] \in Request /\ Fits(req[w])
        BY Busy
    <2>2. PICK r \in Request : r = [req[w] EXCEPT !.step = "lookup"]
        BY Left DEF Steps
    <2>3. /\ r.step = "lookup" /\ r.envelope = req[w].envelope /\ r.amount = req[w].amount
          /\ r.provider = req[w].provider
          /\ r.created = req[w].created
          /\ req' = [req EXCEPT ![w] = r]
        BY <1>3, <2>1, <2>2 DEF Goto, Request
    <2>4. Fits(r)'
        BY <1>1, <2>1, <2>3 DEF Fits, OnAttempt, Grows
    <2> QED BY <1>1, <2>3, <2>4, GrowingStep
<1> QED BY <1>2, <1>3

(* A reconciliation claims the attempt, or uses the order noted on it.      *)
LEMMA ClaimKeeps ==
    ASSUME IInv, NEW w \in Workers, ClaimReconciliation(w)
    PROVE  IInv'
<1>1. ~Doing(w, "idle") /\ req[w].step = "reconcile"
    BY DEF ClaimReconciliation, Doing
<1>2. OnAttempt(req[w])
    BY <1>1, Busy DEF Fits
<1>3. CASE attempt' = [attempt EXCEPT !.status = "reconciling"] /\ Goto(w, "lookup")
    BY <1>1, <1>2, <1>3, RelabellingStep DEF ClaimReconciliation, AttemptStatus
<1>4. CASE attempt.provider # 0 /\ PlaceWith(w, attempt.provider) /\ UNCHANGED attempt
    BY <1>1, <1>2, <1>4, GoesOnWith DEF ClaimReconciliation
<1>5. CASE Finish(w) /\ UNCHANGED attempt
    BY <1>1, <1>5, HandOver DEF ClaimReconciliation, Steps
<1> QED BY <1>3, <1>4, <1>5 DEF ClaimReconciliation

(* The owner or a reconciliation notes the Razorpay order it holds, unless  *)
(* it is noted already, and goes on to the transaction.                     *)
LEMMA NotingStep ==
    ASSUME IInv, NEW w \in Workers, req[w].step \in {"persist", "bind"}, NEW status \in AttemptStatus,
           \/ attempt' = [attempt EXCEPT !.provider = 1, !.status = status]
           \/ attempt.provider = 1 /\ UNCHANGED attempt,
           UNCHANGED <<price, gateway, order>>, Goto(w, "place")
    PROVE  IInv'
<1>1. ~Doing(w, "idle")
    BY DEF Doing
<1>2. req[w] \in Request /\ Fits(req[w])
    BY <1>1, Busy
<1>3. OnAttempt(req[w]) /\ gateway # <<>> /\ req[w].provider = 1 /\ attempt # NoAttempt
    BY <1>2 DEF Fits, OnAttempt
<1>4. Grows /\ AttemptOK' /\ GatewayOK' /\ attempt' # NoAttempt /\ attempt'.provider = 1
    <2>1. CASE attempt' = [attempt EXCEPT !.provider = 1, !.status = status]
        <3>1. Grows /\ AttemptOK' /\ GatewayOK' /\ attempt' # NoAttempt
            BY <1>3, <2>1, NoteProvider
        <3>2. attempt \in Attempt
            BY <1>3 DEF IInv, AttemptOK
        <3>3. attempt'.provider = 1
            BY <2>1, <3>2 DEF Attempt
        <3> QED BY <3>1, <3>3
    <2>2. CASE attempt.provider = 1 /\ UNCHANGED attempt
        BY <1>3, <2>2 DEF IInv, Grows, AttemptOK, GatewayOK
    <2> QED BY <2>1, <2>2
<1>5. PICK r \in Request : r = [req[w] EXCEPT !.step = "place"]
    BY <1>1, Left DEF Steps
<1>6. /\ r.step = "place" /\ r.envelope = req[w].envelope /\ r.amount = req[w].amount
      /\ r.created = req[w].created
      /\ r.provider = 1 /\ req' = [req EXCEPT ![w] = r]
    BY <1>2, <1>3, <1>5 DEF Goto, Request
<1>7. Fits(r)'
    BY <1>2, <1>3, <1>4, <1>6 DEF Fits, OnAttempt, Grows
<1> QED BY <1>4, <1>6, <1>7, GrowingStep

(* The owner notes the order it opened, unless that is noted already.       *)
LEMMA PersistKeeps ==
    ASSUME IInv, NEW w \in Workers, Persist(w)
    PROVE  IInv'
<1>1. req[w].step = "persist" /\ ~Doing(w, "idle") /\ "created" \in AttemptStatus
    BY DEF Persist, Doing, AttemptStatus
<1>2. req[w].provider = 1 /\ attempt # NoAttempt
    BY <1>1, Busy DEF Fits, OnAttempt
<1>3. attempt.provider \in {0, 1}
    BY <1>2 DEF IInv, AttemptOK, Attempt
<1> QED BY <1>1, <1>2, <1>3, NotingStep DEF Persist

(* A reconciliation notes the order it found, unless one is noted already.  *)
LEMMA BindKeeps ==
    ASSUME IInv, NEW w \in Workers, Bind(w)
    PROVE  IInv'
<1>1. req[w].step = "bind" /\ ~Doing(w, "idle") /\ "reconciled" \in AttemptStatus
    BY DEF Bind, Doing, AttemptStatus
<1>2. req[w].provider = 1
    BY <1>1, Busy DEF Fits
<1>3. CASE attempt.provider = 0
    BY <1>1, <1>2, <1>3, NotingStep DEF Bind
<1>4. CASE attempt.provider # 0
    BY <1>1, <1>4, HandOver DEF Bind, Steps
<1> QED BY <1>3, <1>4

(* A failed search ends the request, or hands it the order noted meanwhile. *)
LEMMA MarkKeeps ==
    ASSUME IInv, NEW w \in Workers, MarkFailed(w)
    PROVE  IInv'
<1>1. ~Doing(w, "idle") /\ req[w].step \in {"missing", "erred"} /\ "failed" \in AttemptStatus
    BY DEF MarkFailed, Doing, AttemptStatus
<1>2. req[w] \in Request /\ Fits(req[w]) /\ OnAttempt(req[w])
    BY <1>1, Busy DEF Fits
<1>3. CASE Finish(w)
    BY <1>1, <1>2, <1>3, RelabellingStep DEF MarkFailed
<1>4. CASE attempt.provider # 0 /\ PlaceWith(w, attempt.provider)
    <2>1. attempt \in Attempt /\ attempt.provider = 1 /\ gateway # <<>>
        BY <1>2, <1>4 DEF IInv, AttemptOK, Attempt, OnAttempt
    <2>2. attempt # NoAttempt /\ Grows /\ AttemptOK' /\ GatewayOK' /\ attempt' # NoAttempt
        BY <1>1, <1>2, Relabel DEF MarkFailed, OnAttempt
    <2>3. PICK r \in Request : r = [req[w] EXCEPT !.step = "place", !.provider = 1]
        BY <1>2 DEF Request, Steps
    <2>4. /\ r.step = "place" /\ r.envelope = req[w].envelope /\ r.amount = req[w].amount
          /\ r.created = req[w].created
          /\ r.provider = 1 /\ req' = [req EXCEPT ![w] = r]
        BY <1>2, <1>4, <2>1, <2>3 DEF PlaceWith, Request
    <2>5. Fits(r)'
        BY <1>2, <2>1, <2>2, <2>4 DEF Fits, OnAttempt, Grows, MarkFailed
    <2> QED BY <2>2, <2>4, <2>5, GrowingStep DEF MarkFailed
<1> QED BY <1>3, <1>4 DEF MarkFailed

(* A report of an orphan relabels the attempt at most.                      *)
LEMMA OrphanKeeps ==
    ASSUME IInv, NEW w \in Workers, Orphan(w)
    PROVE  IInv'
<1>1. ~Doing(w, "idle") /\ Finish(w) /\ UNCHANGED <<price, gateway, order>>
    BY DEF Orphan, Doing
<1>2. CASE UNCHANGED attempt
    BY <1>1, <1>2, HandOver DEF Steps
<1>3. CASE attempt' = [attempt EXCEPT !.status = "orphaned"]
    <2>1. OnAttempt(req[w])
        BY <1>1, Busy DEF Fits, Orphan, Doing
    <2> QED BY <1>1, <1>3, <2>1, RelabellingStep DEF AttemptStatus
<1> QED BY <1>2, <1>3 DEF Orphan

(* The transaction puts the order under its key, hanging on the attempt     *)
(* unless nothing is paid online.                                           *)
LEMMA PlaceKeeps ==
    ASSUME IInv, NEW w \in Workers, Place(w)
    PROVE  IInv'
<1>1. ~Doing(w, "idle") /\ req[w].step = "place"
    BY DEF Place, Doing
<1>2. req[w] \in Request /\ Fits(req[w])
    BY <1>1, Busy
<1>3. req' = [req EXCEPT ![w] = Idle] /\ Idle.step # "create" /\ UNCHANGED <<price, gateway>>
    BY DEF Place, Finish, Idle
<1>4. order' \in Placed /\ order'.envelope = req[w].envelope /\ order'.amount = req[w].amount
      /\ order'.provider = req[w].provider
    BY <1>2 DEF Place, Placed, Request
<1>5. Grows /\ AttemptOK' /\ GatewayOK'
    <2>1. CASE UNCHANGED attempt
        BY <1>3, <2>1 DEF IInv, Grows, AttemptOK, GatewayOK
    <2>2. CASE req[w].envelope \notin FullCod /\ attempt' = [attempt EXCEPT !.status = "linked"]
        BY <1>1, <1>2, <1>3, <2>2, Relabel DEF Fits, OnAttempt, AttemptStatus
    <2> QED BY <2>1, <2>2 DEF Place
<1>6. RequestsOK' /\ OneOwner'
    BY <1>3, <1>5, StepKeepsRequests
<1>7. OrderOK'
    BY <1>1, <1>2, <1>3, <1>4, <1>5 DEF OrderOK, Fits, OnAttempt, Grows
<1> QED BY <1>5, <1>6, <1>7 DEF IInv

(* Time and prices move without any request.                                *)
LEMMA WorldKeeps ==
    ASSUME IInv, Reprice \/ Age \/ UNCHANGED vars
    PROVE  IInv'
<1>1. CASE Reprice \/ UNCHANGED vars
    BY <1>1 DEF Reprice, vars, IInv, GatewayOK, AttemptOK, RequestsOK, Fits, OnAttempt, OneOwner,
                Doing, OrderOK
<1>2. CASE Age
    <2>1. attempt # NoAttempt /\ UNCHANGED <<price, gateway, order, req>>
        BY <1>2 DEF Age, NoAttempt
    <2>2. attempt \in Attempt
        BY <2>1 DEF IInv, AttemptOK
    <2>3. attempt' = [attempt EXCEPT !.fresh = FALSE]
        BY <1>2 DEF Age
    <2>4. attempt' \in Attempt /\ attempt'.status # "none"
        BY <2>2, <2>3 DEF Attempt, AttemptStatus
    <2>5. attempt' # NoAttempt
        BY <2>4 DEF NoAttempt
    <2>6. Grows /\ AttemptOK' /\ GatewayOK'
        BY <2>1, <2>2, <2>3, <2>4, <2>5 DEF IInv, Grows, AttemptOK, GatewayOK, Attempt
    <2>7. ASSUME NEW w \in Workers, req[w] # Idle
          PROVE  Fits(req[w])'
        <3>1. req[w] \in Request /\ Fits(req[w]) /\ UNCHANGED gateway
            BY <2>1, <2>7 DEF IInv, RequestsOK
        <3>2. ASSUME NEW q \in Request, Fits(q)
              PROVE  Fits(q)'
            BY <2>6, <3>1, <3>2, StillFits
        <3> QED BY <2>1, <3>1, <3>2 DEF Fits, OnAttempt
    <2>8. RequestsOK' /\ OneOwner'
        BY <2>1, <2>7 DEF IInv, RequestsOK, OneOwner, Doing
    <2> QED BY <2>1, <2>6, <2>8, StepKeepsOrder DEF IInv
<1> QED BY <1>1, <1>2

-----------------------------------------------------------------------------
(* The invariant holds before the first request.                            *)
LEMMA InitHolds == Init => IInv
    BY DEF Init, IInv, GatewayOK, AttemptOK, RequestsOK, OneOwner, OrderOK, Doing, Idle

(* Every step keeps the invariant, action by action.                        *)
LEMMA StepKeeps == IInv /\ [Next]_vars => IInv'
<1> SUFFICES ASSUME IInv, [Next]_vars
             PROVE  IInv'
    OBVIOUS
<1>1. CASE Reprice \/ Age \/ UNCHANGED vars
    BY <1>1, WorldKeeps
<1>2. ASSUME NEW w \in Workers, NEW e \in Envelopes, Start(w, e)
      PROVE  IInv'
    BY <1>2, StartKeeps
<1>3. ASSUME NEW w \in Workers, Crash(w)
      PROVE  IInv'
    BY <1>3, CrashKeeps
<1>4. ASSUME NEW w \in Workers, Serve(w)
      PROVE  IInv'
    BY <1>4, NumberKeeps, OpenKeeps, ShareKeeps, CreateKeeps, PersistKeeps, PersistFailsKeeps,
       ClaimKeeps, LookupKeeps, BindKeeps, MarkKeeps, PlaceKeeps, PlaceAbortsKeeps, OrphanKeeps
       DEF Serve, Reconcile
<1> QED BY <1>1, <1>2, <1>3, <1>4 DEF Next

(* What the requests that share a key never break, in any order of steps.   *)
THEOREM PlacementInvariance == Spec => []IInv
<1> QED BY InitHolds, StepKeeps, PTL DEF Spec

(* However many requests share the key, Razorpay holds one order for it.    *)
THEOREM OneOrderAtRazorpay == Spec => []OneProviderOrder
<1>1. ASSUME NEW a
      PROVE  Len(<<a>>) <= 1 /\ Len(<<>>) <= 1
    OBVIOUS
<1>2. IInv => OneProviderOrder
    BY <1>1 DEF IInv, GatewayOK, OneProviderOrder
<1> QED BY <1>2, PlacementInvariance, PTL

(* A placed order paid online hangs on the Razorpay order of its attempt.   *)
THEOREM OrdersHangOnAttempts == Spec => []PlacedOnItsAttempt
<1>1. ASSUME IInv, order.placed, order.envelope \notin FullCod
      PROVE  /\ order.provider \in DOMAIN gateway
             /\ attempt.provider = order.provider /\ attempt.envelope = order.envelope
    <2>1. order \in Placed /\ order.provider = 1 /\ gateway # <<>>
        BY <1>1 DEF IInv, OrderOK, NoOrder
    <2>2. gateway = <<attempt.amount>>
        BY <1>1, <2>1 DEF IInv, GatewayOK
    <2>3. attempt.provider = 1 /\ attempt.envelope = order.envelope
        BY <1>1 DEF IInv, OrderOK, NoOrder
    <2> QED BY <2>1, <2>2, <2>3
<1>2. IInv => PlacedOnItsAttempt
    BY <1>1 DEF PlacedOnItsAttempt
<1> QED BY <1>2, PlacementInvariance, PTL

(* Who was shown a total is charged that total, also when an earlier        *)
(* request of other prices opened the Razorpay order.                       *)
THEOREM ShownIsCharged == Spec => []ShownTotalCharged
<1>1. ASSUME IInv, order.placed, order.envelope \notin FullCod, Expected[order.envelope] # 0
      PROVE  gateway[order.provider] = order.amount
    <2>1. /\ order \in Placed /\ order.provider = 1 /\ gateway # <<>>
          /\ Expected[order.envelope] \in {0, order.amount}
          /\ attempt # NoAttempt /\ attempt.envelope = order.envelope
        BY <1>1 DEF IInv, OrderOK, NoOrder
    <2>2. gateway = <<attempt.amount>>
        BY <1>1, <2>1 DEF IInv, GatewayOK
    <2>3. Expected[attempt.envelope] \in {0, attempt.amount}
        BY <1>1, <2>1 DEF IInv, AttemptOK
    <2>4. attempt.amount = order.amount
        BY <1>1, <2>1, <2>3
    <2> QED BY <2>1, <2>2, <2>4
<1>2. IInv => ShownTotalCharged
    BY <1>1 DEF ShownTotalCharged
<1> QED BY <1>2, PlacementInvariance, PTL

(* Every variable keeps its type.                                           *)
THEOREM PlacementTyped == Spec => []TypeOK
<1>1. ASSUME IInv
      PROVE  /\ gateway \in Seq(Amounts) /\ Len(gateway) \in {0, 1}
             /\ gateway # <<>> => Len(gateway) = 1
    <2>1. CASE gateway = <<>>
        BY <2>1
    <2>2. CASE attempt # NoAttempt /\ gateway = <<attempt.amount>>
        <3>1. attempt.amount \in Amounts
            BY <1>1, <2>2 DEF IInv, AttemptOK, Attempt
        <3> QED BY <2>2, <3>1
    <2> QED BY <1>1, <2>1, <2>2 DEF IInv, GatewayOK
<1> DEFINE Shape ==
        /\ price \in Amounts /\ gateway \in Seq(Amounts)
        /\ attempt = NoAttempt \/
           attempt \in [status : AttemptStatus, provider : 0 .. Len(gateway), envelope : Envelopes,
                        amount : Amounts, fresh : BOOLEAN]
        /\ order = NoOrder \/
           order \in [placed : {TRUE}, provider : 0 .. Len(gateway), envelope : Envelopes,
                      amount : Amounts]
        /\ req \in [Workers -> [step : Steps, envelope : Envelopes, amount : Amounts,
                                provider : 0 .. Len(gateway), created : BOOLEAN] \cup {Idle}]
<1>2. ASSUME IInv
      PROVE  Shape
    <2>1. attempt = NoAttempt \/
          attempt \in [status : AttemptStatus, provider : 0 .. Len(gateway), envelope : Envelopes,
                       amount : Amounts, fresh : BOOLEAN]
        BY <1>1, <1>2 DEF IInv, AttemptOK, Attempt
    <2>2. order = NoOrder \/
          order \in [placed : {TRUE}, provider : 0 .. Len(gateway), envelope : Envelopes,
                     amount : Amounts]
        <3>1. CASE order \in Placed /\ (order.provider = 1 => gateway # <<>>)
            <4>1. order.provider \in 0 .. Len(gateway)
                BY <1>1, <1>2, <3>1 DEF Placed
            <4> QED BY <3>1, <4>1 DEF Placed
        <3> QED BY <1>2, <3>1 DEF IInv, OrderOK
    <2>3. ASSUME NEW w \in Workers
          PROVE  req[w] \in [step : Steps, envelope : Envelopes, amount : Amounts,
                             provider : 0 .. Len(gateway), created : BOOLEAN] \cup {Idle}
        <3>1. req[w] = Idle \/ (req[w] \in Request /\ (req[w].provider = 1 => gateway # <<>>))
            BY <1>2 DEF IInv, RequestsOK, Fits
        <3> QED BY <1>1, <1>2, <3>1 DEF Request
    <2> QED BY <1>1, <1>2, <2>1, <2>2, <2>3 DEF IInv, GatewayOK, RequestsOK
<1> DEFINE Crashes == crashes \in 0 .. MaxCrashes
<1>3. Init => Crashes
    BY CrashAssumption DEF Init
<1>4. Crashes /\ [Next]_vars => Crashes'
    <2>1. Reprice \/ Age \/ UNCHANGED vars => UNCHANGED crashes
        BY DEF vars, Reprice, Age
    <2>2. ASSUME NEW w \in Workers, NEW e \in Envelopes, Start(w, e)
          PROVE  UNCHANGED crashes
        BY <2>2 DEF Start
    <2>3. ASSUME NEW w \in Workers, Serve(w)
          PROVE  UNCHANGED crashes
        BY <2>3
        DEF Serve, Reconcile, Number, OpenAttempt, ShareAttempt, CreateAnswered, CreateUnanswered,
            Persist, PersistFails, ClaimReconciliation, LookupFinds, LookupMisses, LookupFails, Bind,
            MarkFailed, Place, PlaceAborts, Orphan
    <2>4. ASSUME NEW w \in Workers, Crashes, Crash(w)
          PROVE  Crashes'
        BY <2>4, CrashAssumption DEF Crash
    <2> QED BY <2>1, <2>2, <2>3, <2>4 DEF Next
<1>5. IInv /\ Crashes => TypeOK
    BY <1>2 DEF TypeOK
<1> HIDE DEF Crashes
<1> QED BY <1>3, <1>4, <1>5, PlacementInvariance, PTL DEF Spec

-----------------------------------------------------------------------------
(* What the Razorpay orders and the placed order look like from outside.    *)
LEMMA OpeningsSeen ==
    /\ gateway = <<>> => Openings = <<>>
    /\ \A a : gateway = <<a>> => Openings = <<[envelope |-> attempt.envelope, amount |-> a]>>
    BY DEF Openings

(* Nothing is seen of a step that moves neither the gateway nor the order,  *)
(* and keeps the request of an attempt with a Razorpay order.               *)
LEMMA Unseen ==
    ASSUME UNCHANGED <<gateway, order>>, gateway # <<>> => attempt'.envelope = attempt.envelope
    PROVE  UNCHANGED <<Openings, Placings>>
<1>1. CASE gateway = <<>>
    <2>1. DOMAIN gateway = {} /\ DOMAIN gateway' = {}
        BY <1>1
    <2> QED BY <2>1 DEF Openings, Placings
<1>2. CASE gateway # <<>>
    BY <1>2 DEF Openings, Placings
<1> QED BY <1>1, <1>2

(* Opening the Razorpay order.                                              *)
LEMMA CreateSeen ==
    ASSUME IInv, NEW w \in Workers, CreateAnswered(w) \/ CreateUnanswered(w)
    PROVE  [Contract!Next]_<<Openings, Placings>>
<1>1. ~Doing(w, "idle") /\ req[w].step = "create"
    BY DEF CreateAnswered, CreateUnanswered, Doing
<1>2. req[w] \in Request /\ Fits(req[w])
    BY <1>1, Busy
<1>3. OnAttempt(req[w]) /\ gateway = <<>> /\ req[w].amount = attempt.amount
    BY <1>1, <1>2 DEF Fits
<1>4. gateway' \in {gateway, <<attempt.amount>>} /\ UNCHANGED <<attempt, order>>
    BY <1>3 DEF CreateAnswered, CreateUnanswered
<1>5. CASE UNCHANGED gateway
    BY <1>3, <1>4, <1>5, Unseen
<1>6. CASE gateway' = <<attempt.amount>>
    <2>1. Openings = <<>>
        BY <1>3, OpeningsSeen
    <2>2. (\A a : gateway = <<a>> => Openings = <<[envelope |-> attempt.envelope, amount |-> a]>>)'
        BY OpeningsSeen, PTL
    <2>3. Openings' = <<[envelope |-> attempt.envelope, amount |-> attempt.amount]>>
        BY <1>4, <1>6, <2>2
    <2>4. attempt.envelope \in Envelopes /\ attempt.amount \in Amounts
        BY <1>2, <1>3 DEF OnAttempt, Request
    <2>5. Expected[attempt.envelope] \in {0, attempt.amount}
        BY <1>2, <1>3 DEF Fits, OnAttempt
    <2>6. UNCHANGED Placings
        BY <1>4 DEF Placings
    <2>7. Contract!Open(attempt.envelope, attempt.amount)
        BY <2>1, <2>3, <2>5, <2>6 DEF Contract!Open, Contract!Agreed
    <2> QED BY <2>4, <2>7 DEF Contract!Next
<1> QED BY <1>4, <1>5, <1>6

(* Placing the order.                                                       *)
LEMMA PlaceSeen ==
    ASSUME IInv, NEW w \in Workers, Place(w)
    PROVE  [Contract!Next]_<<Openings, Placings>>
<1>1. ~Doing(w, "idle") /\ req[w].step = "place"
    BY DEF Place, Doing
<1>2. req[w] \in Request /\ Fits(req[w])
    BY <1>1, Busy
<1>3. req[w].envelope \in Envelopes /\ req[w].amount \in Amounts
    BY <1>2 DEF Request
<1>4. Placings = <<>> /\ Placings' = <<[envelope |-> req[w].envelope, amount |-> req[w].amount]>>
    BY DEF Place, Placings
<1>5. Expected[req[w].envelope] \in {0, req[w].amount}
    BY <1>2 DEF Fits
<1>6. CASE req[w].envelope \in FullCod
    <2>1. UNCHANGED Openings
        BY <1>6 DEF Place, Openings
    <2>2. Contract!Place(req[w].envelope, req[w].amount)
        BY <1>4, <1>5, <1>6, <2>1 DEF Contract!Place, Contract!Agreed
    <2> QED BY <1>3, <2>2 DEF Contract!Next
<1>7. CASE req[w].envelope \notin FullCod
    <2>1. attempt # NoAttempt /\ req[w].envelope = attempt.envelope /\ gateway # <<>>
        BY <1>1, <1>2, <1>7 DEF Fits, OnAttempt
    <2>2. gateway = <<attempt.amount>> /\ attempt \in Attempt
        BY <2>1 DEF IInv, GatewayOK, AttemptOK
    <2>3. attempt'.envelope = attempt.envelope /\ UNCHANGED gateway
        BY <2>2 DEF Place, Attempt
    <2>4. UNCHANGED Openings
        BY <2>3 DEF Openings
    <2>5. Openings = <<[envelope |-> attempt.envelope, amount |-> attempt.amount]>>
        BY <2>2, OpeningsSeen
    <2>6. Openings # <<>> /\ Openings[1].envelope = req[w].envelope
        BY <2>1, <2>5
    <2>7. Contract!Place(req[w].envelope, req[w].amount)
        BY <1>4, <1>5, <2>4, <2>6 DEF Contract!Place, Contract!Agreed
    <2> QED BY <1>3, <2>7 DEF Contract!Next
<1> QED BY <1>6, <1>7

(* No other step of a request is seen.                                      *)
LEMMA ServeUnseen ==
    ASSUME IInv, NEW w \in Workers, Serve(w),
           ~(CreateAnswered(w) \/ CreateUnanswered(w)), ~Place(w)
    PROVE  UNCHANGED <<Openings, Placings>>
<1>1. UNCHANGED <<gateway, order>>
    BY DEF Serve, Reconcile, Number, OpenAttempt, ShareAttempt, Persist, PersistFails,
           ClaimReconciliation, LookupFinds, LookupMisses, LookupFails, Bind, MarkFailed,
           PlaceAborts, Orphan
<1>2. ASSUME gateway # <<>>
      PROVE  attempt'.envelope = attempt.envelope
    <2>1. attempt # NoAttempt /\ attempt \in Attempt
        BY <1>2 DEF IInv, GatewayOK, AttemptOK
    <2>2. CASE UNCHANGED attempt
        BY <2>2
    <2>3. CASE \/ \E s : attempt' = [attempt EXCEPT !.status = s]
               \/ \E p, s : attempt' = [attempt EXCEPT !.provider = p, !.status = s]
        BY <2>1, <2>3 DEF Attempt
    <2>4. CASE OpenAttempt(w)
        BY <2>1, <2>4 DEF OpenAttempt
    <2> QED
        BY <2>2, <2>3, <2>4
        DEF Serve, Reconcile, Number, ShareAttempt, Persist, PersistFails, ClaimReconciliation,
            LookupFinds, LookupMisses, LookupFails, Bind, MarkFailed, PlaceAborts, Orphan
<1> QED BY <1>1, <1>2, Unseen

(* Every step of the placement is one of the contract, or is not seen.      *)
LEMMA StepSeen == IInv /\ [Next]_vars => [Contract!Next]_<<Openings, Placings>>
<1> SUFFICES ASSUME IInv, [Next]_vars
             PROVE  [Contract!Next]_<<Openings, Placings>>
    OBVIOUS
<1>1. CASE UNCHANGED vars
    BY <1>1, Unseen DEF vars
<1>2. CASE Reprice
    BY <1>2, Unseen DEF Reprice
<1>3. CASE Age
    <2>1. attempt # NoAttempt
        BY <1>3 DEF Age, NoAttempt
    <2>2. attempt \in Attempt /\ attempt' = [attempt EXCEPT !.fresh = FALSE]
        BY <1>3, <2>1 DEF Age, IInv, AttemptOK
    <2>3. attempt'.envelope = attempt.envelope /\ UNCHANGED <<gateway, order>>
        BY <1>3, <2>2 DEF Age, Attempt
    <2> QED BY <2>3, Unseen
<1>4. ASSUME NEW w \in Workers, NEW e \in Envelopes, Start(w, e)
      PROVE  UNCHANGED <<Openings, Placings>>
    BY <1>4, Unseen DEF Start
<1>5. ASSUME NEW w \in Workers, Crash(w)
      PROVE  UNCHANGED <<Openings, Placings>>
    BY <1>5, Unseen DEF Crash
<1>6. ASSUME NEW w \in Workers, Serve(w)
      PROVE  [Contract!Next]_<<Openings, Placings>>
    BY <1>6, CreateSeen, PlaceSeen, ServeUnseen
<1> QED BY <1>1, <1>2, <1>3, <1>4, <1>5, <1>6 DEF Next

(* The placement implements the contract: one Razorpay order, one order     *)
(* placed, for the request and the total they were opened for.              *)
THEOREM PlacementKeepsContract == Spec => KeepsContract
<1>1. Init => Contract!Init
    <2> SUFFICES ASSUME Init
                 PROVE  Openings = <<>> /\ Placings = <<>>
        BY DEF Contract!Init
    <2>1. gateway = <<>> /\ ~order.placed
        BY DEF Init, NoOrder
    <2> QED BY <2>1, OpeningsSeen DEF Placings
<1> QED BY <1>1, StepSeen, PlacementInvariance, PTL DEF Spec, KeepsContract, Contract!Spec
====
