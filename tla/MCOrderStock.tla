---- MODULE MCOrderStock ----
(* Small instances of OrderStock for TLC. *)
EXTENDS OrderStock, TLC

CONSTANTS o1, o2, s1, s2, w1, w2, w3

\* Every order asks for one unit of every SKU.
UnitLines == [o \in Orders |-> [s \in Skus |-> 1]]
\* Order o1 asks for two units of every SKU, any other order for one.
MixedLines == [o \in Orders |-> [s \in Skus |-> IF o = o1 THEN 2 ELSE 1]]
TwoUnits == [s \in Skus |-> 2]
\* The admin takes one unit of the shelf, damaged or lost.
OneRemoved == {-1}
Symmetric == Permutations(Workers)

-----------------------------------------------------------------------------
(* Promises of the comments and documents that the code does not keep.  The *)
(* README tells how each one breaks; to see it, name one in a .cfg.         *)

(* stock-reconcile.js: sum(delta) == stock_quantity, for every SKU that is  *)
(* tracked now, whatever it was before.                                     *)
TrackedLedgerBalances == \A s \in Skus : Tracked(s) => LedgerSum(s) = stock[s]

(* stock-reconcile.js: sum(active StockReservation.quantity) ==             *)
(* reserved_quantity, and an order has a hold exactly while it is reserved. *)
ReservedMatchesHolds == \A s \in Skus : reserved[s] = HeldUnits(s)
HoldsMatchState == \A o \in Orders : HoldsOf(o) # {} <=> order[o].stockState = "reserved"

(* reopenOrder.js: only stock that was given back is sold again.            *)
SoldAtMostOnce ==
    \A o \in Orders : \A s \in SkusOf(o) \cap Strict : NetSales(o, s) \in {0, 1}

(* cancelOrder.js: the transaction that cancels gives back whatever stock   *)
(* the order holds, so a cancelled order has no sale that was not put back. *)
CancelGivesBack ==
    \A o \in Orders : order[o].status = "cancelled" =>
        \A s \in SkusOf(o) \cap Strict : NetSales(o, s) = 0

(* STOCK_MANAGEMENT.md: a reopening starts a new epoch and sells the units  *)
(* again.                                                                   *)
ReopenSellsUnits ==
    [][\A o \in Orders :
          order[o].status = "cancelled" /\ order'[o].status = "confirmed"
            => \A s \in SkusOf(o) \cap Strict : NetSales(o, s)' = 1]_vars

(* With every captured payment finalized again and again by the crons.      *)
FinalizingSpec ==
    FairSpec /\ \A o \in Orders : SF_vars(\E w \in Workers : CaptureRead(w, o))

(* expiry.js, on the orders it skips: paid but never committed, finalize    *)
(* will commit the hold.                                                    *)
PaidHoldCommitted == \A o \in Orders : PaidButReserved(o) ~> ~PaidButReserved(o)

(* expiry.js: the cron frees reservations past their expiry.  A stale retry *)
(* gives an order a hold after it was cancelled or sold; once its captured  *)
(* payment is being refunded, finalizing it does nothing.                   *)
KeptHoldFreed ==
    \A o \in Orders : KeptByCapture(o) /\ HoldsOf(o) \cap lapsed # {}
                        ~> HoldsOf(o) \cap lapsed = {}

(* STOCK_MANAGEMENT.md: retryPayment renews or re-acquires the hold, so a   *)
(* retry that is not refused leaves the order with one.                     *)
RetryHolds ==
    [][\A w \in Workers : \A o \in Orders :
          Doing(w, "renew") /\ req[w].order = o /\ (RenewExtends(w) \/ RenewReserves(w))
            => HoldsOf(o)' # {}]_vars
====
