--------------------------- MODULE PackageStatus ---------------------------
(***************************************************************************)
(* The packages of one order: packing, the Shiprocket call, the courier's  *)
(* events and status fetches, admin corrections and cancellations, own     *)
(* riders, and the order status derived from all of them.                  *)
(*                                                                         *)
(* The order has one line of Units units.  A worker is a request, webhook  *)
(* or script between two of its database steps; a Mongo transaction is one *)
(* step.  The courier moves a parcel through Stages and reports each stage *)
(* in an event; events of one parcel are timed by the stage they report    *)
(* and may arrive late, twice, in any order or never.                      *)
(***************************************************************************)
EXTENDS Integers, FiniteSets

CONSTANTS
    Workers,     \* requests, webhooks and scripts in progress at once
    MaxRequests, \* bound: how many of them there are in all
    MaxPackages, \* bound: packages ever created
    Units,       \* units ordered
    Reach,       \* bound: the stages the courier's parcels pass through
    Cod,         \* whether the order is paid on delivery
    Staff        \* kinds of staff operations taken: subset of StaffOps

StaffOps == {"cancel_order", "cancel_package", "retry", "correct", "reconcile", "manual", "crash"}
ASSUME SizeAssumption == MaxRequests \in Nat /\ MaxPackages \in Nat \ {0} /\ Units \in Nat \ {0}
ASSUME ReachAssumption == "packed" \in Reach /\ Reach \subseteq {"packed", "shipped", "out_for_delivery", "delivered"}
ASSUME KindAssumption == Cod \in BOOLEAN /\ Staff \subseteq StaffOps

VARIABLES
    order,    \* order_status, payment_status, cancellation or refund effects, COD records
    pkgs,     \* the Package documents, by package_number
    courier,  \* the parcel at Shiprocket booked under each package's reference
    req,      \* what each worker is in the middle of
    left,     \* how many requests may still come (MaxRequests)
    override  \* history: an unguarded writer ran, so statuses may disagree

vars == <<order, pkgs, courier, req, left, override>>

Numbers == 1 .. MaxPackages
Stages == <<"packed", "shipped", "out_for_delivery", "delivered">>
Shipped == {"shipped", "out_for_delivery", "delivered"}
PackageStatusSet == {"none", "packed", "failed", "cancelled"} \cup Shipped
OrderStatusSet == {"confirmed", "processing", "packed", "partially_shipped", "shipped", "out_for_delivery",
                   "partially_delivered", "delivered", "cancelled", "failed"}

\* integ is integration_status, at the time of the last tracking event, seen the
\* statuses in the timeline; gone is history: the package was cancelled once.
NoPackage == [status |-> "none", mode |-> "shiprocket", integ |-> "pending", qty |-> 0, at |-> 0,
              seen |-> {}, gone |-> FALSE]
Idle == [op |-> "idle", p |-> 0, status |-> "none", at |-> 0, now |-> 0, to |-> "none", allow |-> FALSE, tries |-> 0,
         todo |-> {}, carrier |-> FALSE, settle |-> FALSE, seen |-> "none", pay |-> "none"]

Finish(w) == req' = [req EXCEPT ![w] = Idle]
Recompute(w, carrier) == req' = [req EXCEPT ![w] = [Idle EXCEPT !.op = "derive", !.carrier = carrier]]
\* An unconditional write of a status that is no longer one it was decided on.
Overwrite(status, expected) == override' = (override \/ status \notin expected)
Doing(w, op) == req[w].op = op
Begin(w) == Doing(w, "idle") /\ left > 0 /\ left' = left - 1
\* Units packed in the packages S, counted one by one.
UnitsIn(P, S) == Cardinality({u \in S \X (1 .. Units) : u[2] <= P[u[1]].qty})

-----------------------------------------------------------------------------
(* Constants of the code: the two transition tables and the stage order.    *)
Onward == {"partially_shipped", "partially_delivered"} \cup Shipped
Allowed == [confirmed |-> {"processing", "packed", "cancelled"} \cup Onward,
            processing |-> {"packed", "cancelled"} \cup Onward,
            packed |-> {"cancelled"} \cup Onward,
            partially_shipped |-> {"partially_delivered"} \cup Shipped,
            shipped |-> {"out_for_delivery", "delivered", "partially_delivered"},
            out_for_delivery |-> {"partially_delivered", "delivered"},
            partially_delivered |-> {"delivered"}]

CanTransition(from, to) == from = to \/ (from \in DOMAIN Allowed /\ to \in Allowed[from])

StageIndex(s) == CHOOSE i \in DOMAIN Stages : Stages[i] = s
IsStage(s) == \E i \in DOMAIN Stages : Stages[i] = s

IsForward(from, to) ==
    IF to = "cancelled" THEN from \in {"packed", "failed"}
    ELSE IsStage(from) => StageIndex(to) > StageIndex(from)

FulfillmentBlocked == order.status \in {"cancelled", "failed"} \/ order.effects

Existing == {p \in Numbers : pkgs[p].status # "none"}
ActiveIn(P) == {p \in Numbers : P[p].status \notin {"none", "cancelled"}}

(* derivePackageOrderStatus over summarizePackageQuantities; "none" is null. *)
DerivedStatus(P) ==
    LET Total(S) == UnitsIn(P, {p \in ActiveIn(P) : P[p].status \in S})
    IN  CASE Total({"delivered"}) >= Units -> "delivered"
          [] Total({"delivered"}) \in 1 .. Units - 1 -> "partially_delivered"
          [] Total({"delivered"}) = 0 /\ Total({"out_for_delivery"}) >= Units -> "out_for_delivery"
          [] Total({"delivered"}) = 0 /\ Total({"out_for_delivery"}) < Units /\ Total(Shipped) >= Units -> "shipped"
          [] Total({"delivered"}) = 0 /\ Total(Shipped) \in 1 .. Units - 1 -> "partially_shipped"
          [] Total(Shipped) = 0 /\ Total(PackageStatusSet) > 0 -> "packed"
          [] OTHER -> "none"

-----------------------------------------------------------------------------
(* createAndShipPackage: checked against an order read first, then the      *)
(* transaction that allocates units, then the call to Shiprocket.           *)
AskPackage(w) ==
    /\ Begin(w)
    /\ order.status \notin {"cancelled", "delivered", "failed"}
    /\ req' = [req EXCEPT ![w].op = "allocate"]
    /\ UNCHANGED <<order, pkgs, courier, override>>

\* Fault: a package counts only once Shiprocket took it.
AllocatedBooked == UnitsIn(pkgs, {p \in ActiveIn(pkgs) : pkgs[p].integ = "created"})

Allocated == UnitsIn(pkgs, ActiveIn(pkgs))

AllocatePackage(w) ==
    /\ Doing(w, "allocate")
    /\ \/ Cardinality(Existing) < MaxPackages /\ \E qty \in 1 .. Units - Allocated :
             LET p == Cardinality(Existing) + 1
             IN  /\ pkgs' = [pkgs EXCEPT ![p] = [NoPackage EXCEPT !.status = "packed", !.qty = qty]]
                 /\ req' = [req EXCEPT ![w].op = "call", ![w].p = p]
       \/ (Allocated >= Units \/ Cardinality(Existing) = MaxPackages) /\ Finish(w) /\ UNCHANGED pkgs
    /\ UNCHANGED <<order, courier, override, left>>

\* External: Shiprocket books the parcel or not, and its answer may be lost.
CallShiprocket(w) ==
    /\ Doing(w, "call")
    /\ \E booked, answered \in BOOLEAN :
         /\ courier' = IF booked /\ courier[req[w].p] = "none"
                       THEN [courier EXCEPT ![req[w].p] = "packed"] ELSE courier
         /\ req' = [req EXCEPT ![w].op = IF booked /\ answered THEN "booked" ELSE "unbooked"]
    /\ UNCHANGED <<order, pkgs, override, left>>

\* The new package keeps its status; a retried one is written back to packed.
SaveBooked(w) ==
    /\ Doing(w, "booked")
    /\ pkgs' = [pkgs EXCEPT ![req[w].p].integ = "created",
                            ![req[w].p].status = IF req[w].status = "retry" THEN "packed" ELSE @]
    /\ Recompute(w, FALSE)
    /\ Overwrite(pkgs[req[w].p].status, IF req[w].status = "retry" THEN {"packed", "failed"} ELSE PackageStatusSet)
    /\ UNCHANGED <<order, courier, left>>

SaveUnbooked(w) ==
    /\ Doing(w, "unbooked")
    /\ pkgs' = [pkgs EXCEPT ![req[w].p].integ = "unknown", ![req[w].p].status = "failed"]
    /\ Finish(w)
    /\ Overwrite(pkgs[req[w].p].status, {"packed", "failed"})
    /\ UNCHANGED <<order, courier, left>>

(* retryPackageShipment claims on integration_status alone.                 *)
ClaimRetry(w, p) ==
    /\ "retry" \in Staff /\ Begin(w)
    /\ pkgs[p].integ = "unknown"
    /\ pkgs' = [pkgs EXCEPT ![p].integ = "pending"]
    /\ req' = [req EXCEPT ![w].op = "call", ![w].p = p, ![w].status = "retry"]
    /\ UNCHANGED <<order, courier, override>>

-----------------------------------------------------------------------------
(* recomputeOrderStatus.  The order and the packages are read, then the     *)
(* transition is made: for the carrier only if the order is still as it was *)
(* read, else on a second reading of the order.                             *)
AwaitsCollection == Cod /\ order.pay = "pending"

AllDelivered == ActiveIn(pkgs) # {} /\ \A p \in ActiveIn(pkgs) : pkgs[p].status = "delivered"

Derive(w) ==
    /\ Doing(w, "derive")
    /\ LET derived == DerivedStatus(pkgs)
           to == IF req[w].carrier /\ (FulfillmentBlocked \/ ~CanTransition(order.status, derived))
                 THEN "none" ELSE derived
           settle == req[w].carrier /\ ~FulfillmentBlocked /\ to = "delivered" /\ AllDelivered /\ AwaitsCollection
       IN  IF to \in {"none", order.status} /\ ~settle
           THEN Finish(w)
           ELSE req' = [req EXCEPT ![w].op = "write", ![w].to = to, ![w].settle = settle,
                                   ![w].seen = order.status, ![w].pay = order.pay]
    /\ UNCHANGED <<order, pkgs, courier, override, left>>

Moved(to, settle) ==
    [order EXCEPT !.status = to, !.pay = IF settle THEN "paid" ELSE @,
                  !.remit = IF settle THEN "awaiting" ELSE @]

\* transitionOrder reads the order again before it writes (application).
Recheck(w) ==
    /\ Doing(w, "write") /\ ~req[w].carrier /\ req[w].tries = 0
    /\ IF CanTransition(order.status, req[w].to)
       THEN req' = [req EXCEPT ![w].seen = order.status, ![w].pay = order.pay, ![w].tries = 1]
       ELSE Finish(w)
    /\ UNCHANGED <<order, pkgs, courier, override, left>>

\* Fault: the update is not filtered on payment_status.
AsReadStatus(w) == order.status = req[w].seen

AsRead(w) == order.status = req[w].seen /\ order.pay = req[w].pay

\* Fault: a recomputation that met a conflict is not tried again.
GiveUp(w) == Finish(w) /\ UNCHANGED override

\* recomputeOrderStatus tries three times, for the carrier only.
AfterConflict(w) ==
    IF req[w].carrier /\ req[w].tries < 2
    THEN req' = [req EXCEPT ![w].op = "derive", ![w].tries = @ + 1] /\ UNCHANGED override
    ELSE Finish(w) /\ override' = TRUE

WriteOrder(w) ==
    /\ Doing(w, "write") /\ (req[w].carrier \/ req[w].tries = 1)
    /\ IF AsRead(w)
       THEN order' = Moved(req[w].to, req[w].settle) /\ Finish(w) /\ UNCHANGED override
       ELSE UNCHANGED order /\ AfterConflict(w)
    /\ UNCHANGED <<pkgs, courier, left>>

-----------------------------------------------------------------------------
(* updateOrderStatus (webhook) and syncShiprocketStatus, both through       *)
(* applyPackageShipment.  An event may report any stage the parcel has had. *)
Reported(p) ==
    CASE courier[p] = "none" -> {}
      [] courier[p] = "cancelled" -> {"packed", "cancelled"}
      [] OTHER -> {s \in Reach : StageIndex(s) <= StageIndex(courier[p])}
TimeOf(stage) == IF stage = "cancelled" THEN 2 ELSE StageIndex(stage)

Look(w, op, p, now, to) ==
    req' = [req EXCEPT ![w] = [Idle EXCEPT !.op = op, !.p = p, !.status = pkgs[p].status, !.at = pkgs[p].at, !.now = now,
                                           !.to = to, !.allow = ~FulfillmentBlocked, !.carrier = ~FulfillmentBlocked]]

Webhook(w, p) ==
    /\ Begin(w) /\ pkgs[p].status # "none"
    /\ \E to \in Reported(p) : Look(w, "apply", p, TimeOf(to), to)
    /\ UNCHANGED <<order, pkgs, courier, override>>

\* The answer is timed by the start of the request.
Sync(w, p) ==
    /\ Begin(w) /\ pkgs[p].integ = "created"
    /\ Look(w, "fetch", p, TimeOf(courier[p]), "none")
    /\ UNCHANGED <<order, pkgs, courier, override>>

\* Packages without a Shiprocket id are skipped; the order is recomputed all the same.
SyncUnlinked(w) ==
    /\ Begin(w) /\ Existing # {} /\ ~FulfillmentBlocked
    /\ \A p \in Existing : pkgs[p].integ # "created"
    /\ Recompute(w, TRUE)
    /\ UNCHANGED <<order, pkgs, courier, override>>

FetchStatus(w) ==
    /\ Doing(w, "fetch")
    /\ req' = [req EXCEPT ![w].op = "apply", ![w].to = courier[req[w].p], ![w].allow = ~FulfillmentBlocked]
    /\ UNCHANGED <<order, pkgs, courier, override, left>>

Stale(w) == req[w].at > req[w].now \/ (req[w].to # req[w].status /\ ~IsForward(req[w].status, req[w].to))

Tracked(pkg, w) ==
    IF /\ req[w].allow /\ req[w].status # "cancelled"
       /\ IsForward(req[w].status, req[w].to) /\ req[w].to \notin pkg.seen
    THEN [pkg EXCEPT !.at = req[w].now, !.status = req[w].to, !.seen = @ \cup {req[w].to},
                     !.gone = @ \/ req[w].to = "cancelled"]
    ELSE [pkg EXCEPT !.at = req[w].now]

\* Fault: the update is filtered on the time of the last event only.
AsLookedTimeOnly(w) == pkgs[req[w].p].at = req[w].at

AsLooked(w) == pkgs[req[w].p].at = req[w].at /\ pkgs[req[w].p].status = req[w].status

EndTracking(w) == IF req[w].carrier THEN Recompute(w, TRUE) ELSE Finish(w)

ApplyStatus(w) ==
    /\ Doing(w, "apply")
    /\ LET p == req[w].p IN
       CASE Stale(w) -> EndTracking(w) /\ UNCHANGED pkgs
         [] ~Stale(w) /\ AsLooked(w) -> pkgs' = [pkgs EXCEPT ![p] = Tracked(@, w)] /\ EndTracking(w)
         [] ~Stale(w) /\ ~AsLooked(w) /\ req[w].tries < 2 ->
              /\ req' = [req EXCEPT ![w].tries = @ + 1, ![w].status = pkgs[p].status, ![w].at = pkgs[p].at]
              /\ UNCHANGED pkgs
         [] OTHER -> Finish(w) /\ UNCHANGED pkgs
    /\ UNCHANGED <<order, courier, override, left>>

\* External: the courier's parcel moves on.
CourierMoves(p) ==
    /\ IsStage(courier[p])
    /\ \E to \in Reach : StageIndex(to) > StageIndex(courier[p]) /\ courier' = [courier EXCEPT ![p] = to]
    /\ UNCHANGED <<order, pkgs, req, override, left>>

-----------------------------------------------------------------------------
(* cancelPackage: checked on a package read first, the parcel cancelled at  *)
(* Shiprocket if it is known to be booked, then written unconditionally.    *)
AskCancelPackage(w, p) ==
    /\ "cancel_package" \in Staff /\ Begin(w)
    /\ pkgs[p].status \in {"packed", "failed"}
    /\ req' = [req EXCEPT ![w].op = IF pkgs[p].integ = "created" THEN "recall" ELSE "drop", ![w].p = p]
    /\ UNCHANGED <<order, pkgs, courier, override>>

RecallParcel(w) ==
    /\ Doing(w, "recall")
    /\ \/ /\ courier[req[w].p] \in {"packed", "cancelled"}
          /\ courier' = [courier EXCEPT ![req[w].p] = "cancelled"]
          /\ req' = [req EXCEPT ![w].op = "drop"]
       \/ Finish(w) /\ UNCHANGED courier
    /\ UNCHANGED <<order, pkgs, override, left>>

DropPackage(w) ==
    /\ Doing(w, "drop")
    /\ pkgs' = [pkgs EXCEPT ![req[w].p].status = "cancelled", ![req[w].p].gone = TRUE]
    /\ Overwrite(pkgs[req[w].p].status, {"packed", "failed"})
    /\ Recompute(w, FALSE)
    /\ UNCHANGED <<order, courier, left>>

(* cancelOrder's claim, and the refund or restock that follows it; it leaves *)
(* the packages alone.                                                       *)
CancelOrder ==
    /\ "cancel_order" \in Staff
    /\ order.status \in {"confirmed", "processing", "packed"}
    /\ order' = [order EXCEPT !.status = "cancelled", !.effects = TRUE]
    /\ UNCHANGED <<pkgs, courier, req, override, left>>

(* applyManualOrderStatusChange: the order first, then each package that was *)
(* active when they were read, one by one and unconditionally.               *)
\* Fault: any status is cascaded to the packages.
CascadesAny(to) == TRUE

Cascades(to) == to # "processing"

CorrectOrder(w) ==
    /\ "correct" \in Staff /\ Begin(w)
    /\ ~order.effects /\ order.status # "cancelled"
    /\ \E to \in {"processing", "packed", "failed"} \cup Shipped :
         /\ to # order.status /\ (Cascades(to) <=> ActiveIn(pkgs) # {})
         /\ order' = [order EXCEPT !.status = to]
         /\ IF ~Cascades(to) THEN UNCHANGED <<req, override>>
            ELSE /\ req' = [req EXCEPT ![w].op = "cascade", ![w].to = to, ![w].todo = ActiveIn(pkgs)]
                 /\ override' = TRUE
    /\ UNCHANGED <<pkgs, courier>>

CascadeStatus(w) ==
    /\ Doing(w, "cascade")
    /\ \E p \in req[w].todo :
         /\ pkgs' = [pkgs EXCEPT ![p].status = req[w].to, ![p].seen = @ \cup {req[w].to}]
         /\ IF req[w].todo = {p} THEN Finish(w) ELSE req' = [req EXCEPT ![w].todo = @ \ {p}]
    /\ UNCHANGED <<order, courier, override, left>>

(* reconcileShiprocketOrderStatus: one row of an exported report.           *)
ReadReport(w, p) ==
    /\ "reconcile" \in Staff /\ Begin(w) /\ pkgs[p].status # "none"
    /\ \E to \in Reported(p) :
         /\ IsForward(pkgs[p].status, to)
         /\ req' = [req EXCEPT ![w].op = "report", ![w].p = p, ![w].status = pkgs[p].status, ![w].to = to]
    /\ UNCHANGED <<order, pkgs, courier, override>>

SaveReport(w) ==
    /\ Doing(w, "report")
    /\ LET p == req[w].p
       IN  /\ pkgs' = [pkgs EXCEPT ![p].status = req[w].to, ![p].seen = @ \cup {req[w].to},
                                   ![p].gone = @ \/ req[w].to = "cancelled"]
           /\ Overwrite(pkgs[p].status, {req[w].status})
    /\ Recompute(w, FALSE)
    /\ UNCHANGED <<order, courier, left>>

-----------------------------------------------------------------------------
(* Own riders and the store counter: transactions over the order and its    *)
(* package (dispatchManual, markManualDelivered, returnToStore).            *)
Manual == {"self_delivery", "store_pickup"}

\* What recomputeOrderStatus in the same transaction makes of the order.
CanRecompute(P) == DerivedStatus(P) = "none" \/ CanTransition(order.status, DerivedStatus(P))
Recomputed(P) == [order EXCEPT !.status = IF DerivedStatus(P) = "none" THEN @ ELSE DerivedStatus(P)]

DispatchManual ==
    /\ "manual" \in Staff
    /\ order.status \notin {"delivered"} /\ ~FulfillmentBlocked
    /\ ActiveIn(pkgs) = {} /\ Cardinality(Existing) < MaxPackages
    /\ \E mode \in Manual :
         LET status == IF mode = "self_delivery" THEN "out_for_delivery" ELSE "packed"
             P == [pkgs EXCEPT ![Cardinality(Existing) + 1] =
                      [NoPackage EXCEPT !.status = status, !.mode = mode, !.integ = "not_applicable",
                                        !.qty = Units, !.seen = {status}]]
         IN  CanRecompute(P) /\ pkgs' = P /\ order' = Recomputed(P)
    /\ UNCHANGED <<courier, req, override, left>>

AwaitingHandover(p) == pkgs[p].mode \in Manual /\ pkgs[p].status \in {"packed", "out_for_delivery"} /\ ~FulfillmentBlocked

MarkDelivered(p) ==
    /\ AwaitingHandover(p)
    /\ LET P == [pkgs EXCEPT ![p].status = "delivered", ![p].seen = @ \cup {"delivered"}]
       IN  /\ CanRecompute(P) /\ pkgs' = P
           /\ order' = IF AwaitsCollection
                       THEN [Recomputed(P) EXCEPT !.pay = "paid", !.coll = TRUE] ELSE Recomputed(P)
    /\ UNCHANGED <<courier, req, override, left>>

ReturnToStore(p) ==
    /\ AwaitingHandover(p) /\ ActiveIn(pkgs) = {p}
    /\ pkgs' = [pkgs EXCEPT ![p].status = "cancelled", ![p].gone = TRUE]
    /\ order' = [order EXCEPT !.status = "processing"]
    /\ UNCHANGED <<courier, req, override, left>>

Crash(w) ==
    /\ "crash" \in Staff /\ ~Doing(w, "idle")
    /\ Finish(w)
    /\ override' = TRUE
    /\ UNCHANGED <<order, pkgs, courier, left>>

-----------------------------------------------------------------------------
Init ==
    \* a full COD order starts in processing, a paid one in confirmed
    /\ order = [status |-> IF Cod THEN "processing" ELSE "confirmed",
                pay |-> IF Cod THEN "pending" ELSE "paid", effects |-> FALSE, coll |-> FALSE, remit |-> "none"]
    /\ pkgs = [p \in Numbers |-> NoPackage]
    /\ courier = [p \in Numbers |-> "none"]
    /\ req = [w \in Workers |-> Idle]
    /\ left = MaxRequests
    /\ override = FALSE

WorkerStep(w) ==
    \/ AskPackage(w) \/ AllocatePackage(w) \/ CallShiprocket(w) \/ SaveBooked(w) \/ SaveUnbooked(w)
    \/ Derive(w) \/ Recheck(w) \/ WriteOrder(w)
    \/ SyncUnlinked(w) \/ FetchStatus(w) \/ ApplyStatus(w)
    \/ RecallParcel(w) \/ DropPackage(w) \/ CorrectOrder(w) \/ CascadeStatus(w) \/ SaveReport(w) \/ Crash(w)
    \/ \E p \in Numbers : Webhook(w, p) \/ Sync(w, p) \/ AskCancelPackage(w, p) \/ ClaimRetry(w, p) \/ ReadReport(w, p)

Next ==
    \/ \E w \in Workers : WorkerStep(w)
    \/ CancelOrder \/ DispatchManual
    \/ \E p \in Numbers : CourierMoves(p) \/ MarkDelivered(p) \/ ReturnToStore(p)

Spec == Init /\ [][Next]_vars

-----------------------------------------------------------------------------
OrderType == [status : OrderStatusSet, pay : {"pending", "paid"}, effects : BOOLEAN,
              coll : BOOLEAN, remit : {"none", "awaiting"}]
PackageType == [status : PackageStatusSet, mode : {"shiprocket"} \cup Manual,
                integ : {"pending", "created", "unknown", "not_applicable"}, qty : 0 .. Units, at : 0 .. 4,
                seen : SUBSET (PackageStatusSet \ {"none"}), gone : BOOLEAN]

(* The documents hold the statuses the models declare, and a package's      *)
(* number is taken once and for good (models/Package.js:26-35, 153).        *)
TypeOK ==
    /\ order \in OrderType
    /\ pkgs \in [Numbers -> PackageType]
    /\ courier \in [Numbers -> {"none", "packed", "cancelled"} \cup Shipped]
    /\ \A p \in Numbers : pkgs[p].status = "none" => pkgs[p] = NoPackage /\ courier[p] = "none"

(* Units are allocated to one package: those whose cancellation never freed *)
(* them hold at most what was ordered, however creations interleave         *)
(* (createAndShipPackage.js:85-86, manualFulfillment.js:129).               *)
AllocatedOnce == UnitsIn(pkgs, {p \in Existing : ~pkgs[p].gone}) <= Units

(* The customer of a COD order pays once: what staff collected at the door  *)
(* is not also awaited from the courier (codRemittance.js:21-31,            *)
(* manualFulfillment.js:246, recomputeOrderStatus.js expectedState).        *)
CollectedOnce == ~(order.coll /\ order.remit = "awaiting")

(* Once nothing is under way, the order says what its packages say, unless  *)
(* it is blocked, or Shiprocket has not taken a package yet, or a writer    *)
(* that checks nothing replaced a newer status, or three conflicts in a row *)
(* ended a recomputation (recomputeOrderStatus.js:43-56,                    *)
(* transitionOrder.js:35-41, 63-75).                                        *)
OrderFollowsPackages ==
    (/\ \A w \in Workers : Doing(w, "idle")
     /\ ~FulfillmentBlocked /\ ~override
     /\ \A p \in Numbers : pkgs[p].status # "failed"
     /\ DerivedStatus(pkgs) # "none")
        => order.status = DerivedStatus(pkgs)

(* A tracking step never takes a package back, in stage or in time, however *)
(* late its event is (applyShiprocketShipment.js:62, 72, 84-87).            *)
TrackingMovesForward ==
    [][\A p \in Numbers :
         /\ pkgs'[p].at >= pkgs[p].at
         /\ (pkgs'[p].at # pkgs[p].at /\ pkgs'[p].status # pkgs[p].status)
                => IsForward(pkgs[p].status, pkgs'[p].status)]_vars
=============================================================================
