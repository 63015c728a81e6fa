---- MODULE CheckoutPlacement ----
(* Placing the order of one customer under one idempotency key: the         *)
(* checkout requests that share the key (retries, second tabs, a changed    *)
(* cart), the one attempt to open a Razorpay order they share, its          *)
(* reconciliation, and the transaction that places the order.  The stock    *)
(* the transaction takes is in OrderStock.                                  *)
EXTENDS Naturals, Sequences

CONSTANTS
    Workers,     \* server processes, one request each
    Envelopes,   \* request fingerprints sent under the key
    FullCod,     \* the envelopes that pay everything on delivery
    Expected,    \* expected_total of an envelope that pays it online, else 0:
                 \* none was sent, or an advance is paid, which it does not fix
    Amounts,     \* what the cart may cost
    MaxCrashes

ASSUME EnvelopeAssumption == FullCod \subseteq Envelopes /\ "none" \notin Envelopes
ASSUME AmountAssumption == Amounts \subseteq Nat \ {0}
ASSUME ExpectedAssumption == Expected \in [Envelopes -> Amounts \cup {0}]
ASSUME CrashAssumption == MaxCrashes \in Nat

VARIABLES
    price,    \* what the cart costs now, as add computes it
    gateway,  \* the Razorpay orders opened for the key: their amounts, by id
    attempt,  \* the ProviderOrderAttempt document of the key
    order,    \* the order placed under the key
    req,      \* the requests in progress
    crashes

vars == <<price, gateway, attempt, order, req, crashes>>

AttemptStatus == {"creating", "created", "linked", "orphaned", "reconciling", "reconciled", "failed"}
Steps == {"priced", "numbered", "create", "persist", "reconcile", "lookup", "bind", "missing",
          "erred", "place", "orphan"}

NoAttempt == [status |-> "none", provider |-> 0, envelope |-> "none", amount |-> 0, fresh |-> FALSE]
NoOrder == [placed |-> FALSE, provider |-> 0, envelope |-> "none", amount |-> 0]
Idle == [step |-> "idle", envelope |-> "none", amount |-> 0, provider |-> 0, created |-> FALSE]

Doing(w, step) == req[w].step = step
Finish(w) == req' = [req EXCEPT ![w] = Idle]
Goto(w, step) == req' = [req EXCEPT ![w].step = step]
\* The request goes on to the transaction with this Razorpay order.
PlaceWith(w, id) == req' = [req EXCEPT ![w].step = "place", ![w].provider = id]

\* What Razorpay answers to a search for the attempt's receipt and amount.
Matching == {id \in DOMAIN gateway : gateway[id] = attempt.amount}

Init ==
    /\ price \in Amounts
    /\ gateway = <<>>
    /\ attempt = NoAttempt
    /\ order = NoOrder
    /\ req = [w \in Workers |-> Idle]
    /\ crashes = 0

-----------------------------------------------------------------------------
(* Prices, shipping rates and the COD advance change; thirty seconds pass.  *)
Reprice ==
    /\ \E p \in Amounts \ {price} : price' = p
    /\ UNCHANGED <<gateway, attempt, order, req, crashes>>

Age ==
    /\ attempt.fresh
    /\ attempt' = [attempt EXCEPT !.fresh = FALSE]
    /\ UNCHANGED <<price, gateway, order, req, crashes>>

-----------------------------------------------------------------------------
(* add, up to its transaction.  A request that finds the order placed       *)
(* answers with it; otherwise it computes the total, which must be the      *)
(* expected one.                                                            *)
\* Fault: the total the customer was shown is not compared.
StartUnchecked(w, e) ==
    /\ Doing(w, "idle")
    /\ ~order.placed
    /\ req' = [req EXCEPT ![w] = [Idle EXCEPT !.step = "priced", !.envelope = e, !.amount = price]]
    /\ UNCHANGED <<price, gateway, attempt, order, crashes>>

Start(w, e) ==
    /\ Doing(w, "idle")
    /\ ~order.placed
    /\ Expected[e] \in {0, price}
    /\ req' = [req EXCEPT ![w] = [Idle EXCEPT !.step = "priced", !.envelope = e, !.amount = price]]
    /\ UNCHANGED <<price, gateway, attempt, order, crashes>>

(* It looks for the order once more and takes an order number; a full COD   *)
(* order needs no Razorpay order.                                           *)
Number(w) ==
    /\ Doing(w, "priced")
    /\ IF order.placed
         THEN Finish(w)
         ELSE Goto(w, IF req[w].envelope \in FullCod THEN "place" ELSE "numbered")
    /\ UNCHANGED <<price, gateway, attempt, order, crashes>>

(* The unique index on (user, idempotency_key) lets one request create the  *)
(* attempt, and with it own the creation of the Razorpay order.             *)
OpenAttempt(w) ==
    /\ Doing(w, "numbered")
    /\ attempt = NoAttempt
    /\ attempt' = [status |-> "creating", provider |-> 0, envelope |-> req[w].envelope,
                   amount |-> req[w].amount, fresh |-> TRUE]
    /\ Goto(w, "create")
    /\ UNCHANGED <<price, gateway, order, crashes>>

(* Any other request shares the attempt: it uses its Razorpay order, or is  *)
(* told to wait while the owner may still be creating one, or reconciles.   *)
\* Fault: a request does not compare its fingerprint with the attempt's.
ShareAnyAttempt(w) ==
    /\ Doing(w, "numbered")
    /\ attempt # NoAttempt
    /\ IF attempt.provider # 0 THEN PlaceWith(w, attempt.provider)
       ELSE IF attempt.status = "creating" /\ attempt.fresh THEN Finish(w)
       ELSE Goto(w, "reconcile")
    /\ UNCHANGED <<price, gateway, attempt, order, crashes>>

\* Fault: a request that finds a stale attempt opens a Razorpay order itself.
ShareOrReplace(w) ==
    /\ Doing(w, "numbered")
    /\ attempt # NoAttempt
    /\ IF attempt.envelope # req[w].envelope THEN Finish(w)
       ELSE IF attempt.provider # 0 THEN PlaceWith(w, attempt.provider)
       ELSE IF attempt.status = "creating" /\ attempt.fresh THEN Finish(w)
       ELSE Goto(w, "create")
    /\ UNCHANGED <<price, gateway, attempt, order, crashes>>

ShareAttempt(w) ==
    /\ Doing(w, "numbered")
    /\ attempt # NoAttempt
    /\ IF attempt.envelope # req[w].envelope THEN Finish(w)
       ELSE IF attempt.provider # 0 THEN PlaceWith(w, attempt.provider)
       ELSE IF attempt.status = "creating" /\ attempt.fresh THEN Finish(w)
       ELSE Goto(w, "reconcile")
    /\ UNCHANGED <<price, gateway, attempt, order, crashes>>

-----------------------------------------------------------------------------
(* createRazorpayOrder: the order is opened and the answer arrives or not,  *)
(* or nothing is opened.  Without an answer the request fails and leaves    *)
(* the attempt as it is.                                                    *)
CreateAnswered(w) ==
    /\ Doing(w, "create")
    /\ gateway' = Append(gateway, req[w].amount)
    /\ req' = [req EXCEPT ![w].step = "persist", ![w].provider = Len(gateway'), ![w].created = TRUE]
    /\ UNCHANGED <<price, attempt, order, crashes>>

CreateUnanswered(w) ==
    /\ Doing(w, "create")
    /\ gateway' \in {gateway, Append(gateway, req[w].amount)}
    /\ Finish(w)
    /\ UNCHANGED <<price, attempt, order, crashes>>

(* The owner notes the id unless a reconciliation did, or fails to.         *)
Persist(w) ==
    /\ Doing(w, "persist")
    /\ attempt' = IF attempt.provider = 0
                    THEN [attempt EXCEPT !.provider = req[w].provider, !.status = "created"]
                    ELSE attempt
    /\ Goto(w, "place")
    /\ UNCHANGED <<price, gateway, order, crashes>>

PersistFails(w) ==
    /\ Doing(w, "persist")
    /\ Goto(w, "orphan")
    /\ UNCHANGED <<price, gateway, attempt, order, crashes>>

-----------------------------------------------------------------------------
(* reconcileProviderOrderAttempt: claim the attempt, search for its receipt *)
(* and note what was found.  A claim that finds nothing to claim goes on    *)
(* with the Razorpay order noted meanwhile, if there is one.                *)
\* Fault: only an attempt that was never reconciled can be.
ClaimFirstOnly(w) ==
    /\ Doing(w, "reconcile")
    /\ IF attempt.provider = 0 /\ attempt.status = "creating"
         THEN attempt' = [attempt EXCEPT !.status = "reconciling"] /\ Goto(w, "lookup")
         ELSE /\ IF attempt.provider # 0 THEN PlaceWith(w, attempt.provider) ELSE Finish(w)
              /\ UNCHANGED attempt
    /\ UNCHANGED <<price, gateway, order, crashes>>

ClaimReconciliation(w) ==
    /\ Doing(w, "reconcile")
    /\ IF attempt.provider = 0 /\ attempt.status \in {"creating", "orphaned", "failed"}
         THEN attempt' = [attempt EXCEPT !.status = "reconciling"] /\ Goto(w, "lookup")
         ELSE /\ IF attempt.provider # 0 THEN PlaceWith(w, attempt.provider) ELSE Finish(w)
              /\ UNCHANGED attempt
    /\ UNCHANGED <<price, gateway, order, crashes>>

LookupFinds(w) ==
    /\ Doing(w, "lookup")
    /\ \E id \in Matching : Matching = {id} /\
          req' = [req EXCEPT ![w].step = "bind", ![w].provider = id]
    /\ UNCHANGED <<price, gateway, attempt, order, crashes>>

LookupMisses(w) ==
    /\ Doing(w, "lookup")
    /\ Matching = {}
    /\ Goto(w, "missing")
    /\ UNCHANGED <<price, gateway, attempt, order, crashes>>

LookupFails(w) ==
    /\ Doing(w, "lookup")
    /\ Goto(w, "erred")
    /\ UNCHANGED <<price, gateway, attempt, order, crashes>>

(* The id is bound unless the owner noted it first; the loser is refused.   *)
Bind(w) ==
    /\ Doing(w, "bind")
    /\ IF attempt.provider = 0
         THEN /\ attempt' = [attempt EXCEPT !.provider = req[w].provider, !.status = "reconciled"]
              /\ Goto(w, "place")
         ELSE Finish(w) /\ UNCHANGED attempt
    /\ UNCHANGED <<price, gateway, order, crashes>>

(* A failed search is noted whatever the attempt has become meanwhile.      *)
MarkFailed(w) ==
    /\ Doing(w, "missing") \/ Doing(w, "erred")
    /\ attempt' = [attempt EXCEPT !.status = "failed"]
    /\ IF Doing(w, "missing") /\ attempt.provider # 0
         THEN PlaceWith(w, attempt.provider) ELSE Finish(w)
    /\ UNCHANGED <<price, gateway, order, crashes>>

-----------------------------------------------------------------------------
(* The transaction: the order, its stock, the emptied cart, and the link to *)
(* the attempt; the unique index on the order's key refuses a second one.   *)
\* Fault: no unique index on the order's key.
PlaceAgain(w) ==
    /\ Doing(w, "place")
    /\ order' = [placed |-> TRUE, provider |-> req[w].provider, envelope |-> req[w].envelope,
                 amount |-> req[w].amount]
    /\ attempt' = IF req[w].envelope \in FullCod THEN attempt ELSE [attempt EXCEPT !.status = "linked"]
    /\ Finish(w)
    /\ UNCHANGED <<price, gateway, crashes>>

Place(w) ==
    /\ Doing(w, "place")
    /\ ~order.placed
    /\ order' = [placed |-> TRUE, provider |-> req[w].provider, envelope |-> req[w].envelope,
                 amount |-> req[w].amount]
    /\ attempt' = IF req[w].envelope \in FullCod THEN attempt ELSE [attempt EXCEPT !.status = "linked"]
    /\ Finish(w)
    /\ UNCHANGED <<price, gateway, crashes>>

(* An aborted transaction (a second order for the key, no stock, a write    *)
(* conflict): the request that opened the Razorpay order reports it.  The   *)
(* retry of a write conflict within the request is another Start.           *)
PlaceAborts(w) ==
    /\ Doing(w, "place")
    /\ IF req[w].created THEN Goto(w, "orphan") ELSE Finish(w)
    /\ UNCHANGED <<price, gateway, attempt, order, crashes>>

(* The report spares an attempt that is linked, and may itself fail.        *)
Orphan(w) ==
    /\ Doing(w, "orphan")
    /\ \/ attempt.status # "linked" /\ attempt' = [attempt EXCEPT !.status = "orphaned"]
       \/ UNCHANGED attempt
    /\ Finish(w)
    /\ UNCHANGED <<price, gateway, order, crashes>>

(* A server dies; what it knew of its request is gone.                      *)
Crash(w) ==
    /\ ~Doing(w, "idle")
    /\ crashes < MaxCrashes
    /\ crashes' = crashes + 1
    /\ Finish(w)
    /\ UNCHANGED <<price, gateway, attempt, order>>

-----------------------------------------------------------------------------
Reconcile(w) ==
    \/ ClaimReconciliation(w)
    \/ LookupFinds(w) \/ LookupMisses(w) \/ LookupFails(w)
    \/ Bind(w) \/ MarkFailed(w)

Serve(w) ==
    \/ Number(w) \/ OpenAttempt(w) \/ ShareAttempt(w)
    \/ CreateAnswered(w) \/ CreateUnanswered(w) \/ Persist(w) \/ PersistFails(w)
    \/ Reconcile(w)
    \/ Place(w) \/ PlaceAborts(w) \/ Orphan(w)

Next ==
    \/ Reprice \/ Age
    \/ \E w \in Workers : \/ \E e \in Envelopes : Start(w, e)
                          \/ Serve(w)
                          \/ Crash(w)

Spec == Init /\ [][Next]_vars

(* The customer whose Razorpay order is open sends the checkout again.      *)
Resend(w) == \E e \in Envelopes : e = attempt.envelope /\ Start(w, e)

(* Requests run on, time passes, the customer tries again as long as the    *)
(* shop asks for it, Razorpay's search is not down for good and the stock   *)
(* is not gone for good.                                                    *)
FairSpec ==
    /\ Spec /\ WF_vars(Age)
    /\ SF_vars(\E w \in Workers : Resend(w))
    /\ \A w \in Workers : WF_vars(Serve(w)) /\ SF_vars(LookupFinds(w)) /\ SF_vars(Place(w))

-----------------------------------------------------------------------------
(* Every variable keeps its type; no id is known that Razorpay did not give.*)
TypeOK ==
    /\ price \in Amounts
    /\ gateway \in Seq(Amounts)
    /\ attempt = NoAttempt \/
       attempt \in [status : AttemptStatus, provider : 0 .. Len(gateway), envelope : Envelopes,
                    amount : Amounts, fresh : BOOLEAN]
    /\ order = NoOrder \/
       order \in [placed : {TRUE}, provider : 0 .. Len(gateway), envelope : Envelopes, amount : Amounts]
    /\ req \in [Workers -> [step : Steps, envelope : Envelopes, amount : Amounts,
                            provider : 0 .. Len(gateway), created : BOOLEAN] \cup {Idle}]
    /\ crashes \in 0 .. MaxCrashes

(* However many requests share the key, fail, crash or reconcile, Razorpay  *)
(* never holds two orders for it: a second one could be paid as well.       *)
OneProviderOrder == Len(gateway) <= 1

(* A placed order that is paid online hangs on the Razorpay order of its    *)
(* own attempt: same id, same request.                                      *)
PlacedOnItsAttempt ==
    order.placed /\ order.envelope \notin FullCod
      => /\ order.provider \in DOMAIN gateway
         /\ attempt.provider = order.provider
         /\ attempt.envelope = order.envelope

(* A customer who was shown a total is charged that total, although the     *)
(* Razorpay order was opened by an earlier request at the prices of then.   *)
ShownTotalCharged ==
    order.placed /\ order.envelope \notin FullCod /\ Expected[order.envelope] # 0
      => gateway[order.provider] = order.amount

(* A Razorpay order that was opened ends up with its order, after whatever  *)
(* failures, unless the total the customer was shown is no longer right or  *)
(* a server died in the middle of a reconciliation.                         *)
TotalStands == attempt.envelope \in Envelopes /\ Expected[attempt.envelope] \in {0, price}
ReconciliationLost ==
    /\ attempt.status = "reconciling"
    /\ \A w \in Workers : req[w].step \notin {"lookup", "bind", "missing", "erred"}
OpenedIsPlaced == gateway # <<>> ~> order.placed \/ ~TotalStands \/ ReconciliationLost

-----------------------------------------------------------------------------
(* All of this implements the contract of CheckoutContract: the Razorpay    *)
(* orders count as opened for the attempt's request.                        *)
Openings == [i \in DOMAIN gateway |-> [envelope |-> attempt.envelope, amount |-> gateway[i]]]
Placings == IF order.placed THEN <<[envelope |-> order.envelope, amount |-> order.amount]>> ELSE <<>>

Contract == INSTANCE CheckoutContract WITH opened <- Openings, placed <- Placings

(* Seen from outside, requests that race, retry, crash and reconcile open   *)
(* one Razorpay order and place one order, for the request it was opened    *)
(* for (add.js:128-420, reconcileProviderOrderAttempt.js).                  *)
KeepsContract == Contract!Spec
====
