---------------------------- MODULE StockService ----------------------------
(***************************************************************************)
(* services/stock: the single choke point that moves stock.                *)
(*                                                                         *)
(* Every operator below is the effect of one function of mutations.js.     *)
(* The functions require a Mongo session, so an effect is never a step of  *)
(* its own: the handlers of OrderStock compose it with the order change of *)
(* the same transaction, and the transaction is one step.                  *)
(*                                                                         *)
(* Data kept: the on-hand and reserved counters of each SKU, which keyed   *)
(* ledger rows exist, the sum of the rows without a key, and which holds   *)
(* are ACTIVE.  An order's reservation rows of one epoch are created,      *)
(* renewed, committed and released together, so they are one hold          *)
(* [order, epoch].  Prices, notes, actors and the derived stock_status are *)
(* left out.                                                               *)
(***************************************************************************)
EXTENDS Integers, FiniteSets, FiniteSetsExt

CONSTANTS
    Skus,       \* products without variations, or variations
    Orders,     \* orders that may be placed
    Lines,      \* Lines[o][s]: units of s on order o, merged per SKU, 0 = none
    LooseSkus,  \* SKUs whose tracking or backorder setting the shop edits
    MaxEpoch    \* bound: stock_epoch values explored per order

ASSUME OrdersAssumption == IsFiniteSet(Orders)
ASSUME LinesAssumption == Lines \in [Orders -> [Skus -> Nat]]
ASSUME LooseAssumption == LooseSkus \subseteq Skus
ASSUME EpochAssumption == MaxEpoch \in Nat

VARIABLES
    stock,      \* stock_quantity per SKU (on hand)
    reserved,   \* reserved_quantity per SKU
    mode,       \* manage_stock / allow_backorders / status of the SKU
    ledger,     \* keyed StockTransaction rows, one per idempotency key
    posted,     \* sum of the deltas of the other rows (opening, adjustments)
    holds,      \* ACTIVE StockReservations
    lapsed      \* the ACTIVE ones whose expires_at has passed

stockVars == <<stock, reserved, mode, ledger, posted, holds, lapsed>>

Epochs == 0 .. MaxEpoch
Modes == {"managed", "inactive", "unmanaged", "backorder"}
Hold == [order : Orders, epoch : Epochs]
LedgerRow == [kind : {"commit", "restock"}, order : Orders, epoch : Epochs, sku : Skus]

SkusOf(o) == {s \in Skus : Lines[o][s] > 0}
HoldsOf(o) == {h \in holds : h.order = o}
Row(kind, o, e, s) == [kind |-> kind, order |-> o, epoch |-> e, sku |-> s]
Tracked(s) == mode[s] # "unmanaged"
AtLeastZero(n) == IF n >= 0 THEN n ELSE 0

-----------------------------------------------------------------------------
\* Fault: the guard compares on-hand stock alone.
SellableIgnoringHolds(s, qty) ==
    mode[s] # "inactive" /\ (mode[s] = "managed" => stock[s] >= qty)

(* sellableGuard: an inactive SKU never sells, an unmanaged or backorder    *)
(* SKU always does, a managed one needs the units to be available.          *)
Sellable(s, qty) ==
    /\ mode[s] # "inactive"
    /\ mode[s] = "managed" => stock[s] - reserved[s] >= qty

(* reserveOrder: hold the units of every line under the order's epoch.      *)
CanReserve(o) == \A s \in SkusOf(o) : Sellable(s, Lines[o][s])

ReserveOrder(o, e) ==
    /\ reserved' = [s \in Skus |-> reserved[s] + Lines[o][s]]
    /\ holds' = holds \cup {[order |-> o, epoch |-> e]}
    /\ UNCHANGED <<stock, mode, ledger, posted, lapsed>>

(* commitLines under commitKeyPrefix: a line whose key is booked is         *)
(* skipped, every other line sells from available stock.                    *)
ToSell(o, e) == {s \in SkusOf(o) : Row("commit", o, e, s) \notin ledger}

CanCommitLines(o, e) == \A s \in ToSell(o, e) : Sellable(s, Lines[o][s])

CommitLines(o, e) ==
    /\ stock' = [s \in Skus |-> IF s \in ToSell(o, e) THEN stock[s] - Lines[o][s] ELSE stock[s]]
    /\ ledger' = ledger \cup {Row("commit", o, e, s) : s \in {t \in ToSell(o, e) : Tracked(t)}}
    /\ UNCHANGED <<reserved, mode, posted, holds, lapsed>>

(* commitReservation: every ACTIVE hold becomes a sale.  The key is that of *)
(* the order's current epoch, so for a tracked SKU at most one hold moves   *)
(* the counters; an untracked SKU books no row and moves once per hold.  A  *)
(* hold larger than what is left in reserved falls back to a guarded sale   *)
(* that leaves reserved alone, so reserved gives up whole holds only.       *)
HoldsToSell(o, e, s) ==
    IF s \notin ToSell(o, e) \/ HoldsOf(o) = {} THEN 0
    ELSE IF Tracked(s) THEN 1
    ELSE Cardinality(HoldsOf(o))

ReservedCovers(o, e, s) == HoldsToSell(o, e, s) * Lines[o][s] <= reserved[s]

CanCommitReservation(o, e) ==
    \A s \in ToSell(o, e) : ReservedCovers(o, e, s) \/ Sellable(s, Lines[o][s])

CommitReservation(o, e) ==
    /\ stock' = [s \in Skus |-> stock[s] - HoldsToSell(o, e, s) * Lines[o][s]]
    /\ reserved' = [s \in Skus |-> IF ReservedCovers(o, e, s)
                                   THEN reserved[s] - HoldsToSell(o, e, s) * Lines[o][s]
                                   ELSE reserved[s] % Lines[o][s]]
    /\ ledger' = ledger \cup {Row("commit", o, e, s) :
                                s \in {t \in ToSell(o, e) : Tracked(t) /\ HoldsOf(o) # {}}}
    /\ holds' = holds \ HoldsOf(o)
    /\ lapsed' = lapsed \ HoldsOf(o)
    /\ UNCHANGED <<mode, posted>>

\* Fault: the units are freed without claiming the rows and without the clamp.
ReleaseUnclaimed(o) ==
    /\ reserved' = [s \in Skus |-> reserved[s] - Lines[o][s]]
    /\ UNCHANGED <<stock, mode, ledger, posted, holds, lapsed>>

\* Fault: the rows are released and the counters are not.
ReleaseRowsOnly(o) ==
    /\ holds' = holds \ HoldsOf(o)
    /\ lapsed' = lapsed \ HoldsOf(o)
    /\ UNCHANGED <<stock, reserved, mode, ledger, posted>>

(* releaseReservation: free every ACTIVE hold, whatever its expires_at;     *)
(* moveStock clamps reserved at zero.                                       *)
ReleaseReservation(o) ==
    /\ reserved' = [s \in Skus |-> AtLeastZero(reserved[s] - Cardinality(HoldsOf(o)) * Lines[o][s])]
    /\ holds' = holds \ HoldsOf(o)
    /\ lapsed' = lapsed \ HoldsOf(o)
    /\ UNCHANGED <<stock, mode, ledger, posted>>

\* Fault: the units are put back and no row is booked.
RestockUnbooked(o, e) ==
    /\ stock' = [s \in Skus |-> stock[s] + Lines[o][s]]
    /\ UNCHANGED <<reserved, mode, ledger, posted, holds, lapsed>>

(* restockLines under restockKeyPrefix: put back what has no restock row.   *)
ToRestock(o, e) == {s \in SkusOf(o) : Row("restock", o, e, s) \notin ledger}

RestockLines(o, e) ==
    /\ stock' = [s \in Skus |-> IF s \in ToRestock(o, e) THEN stock[s] + Lines[o][s] ELSE stock[s]]
    /\ ledger' = ledger \cup {Row("restock", o, e, s) : s \in {t \in ToRestock(o, e) : Tracked(t)}}
    /\ UNCHANGED <<reserved, mode, posted, holds, lapsed>>

(* updateMany in renewReservation: every ACTIVE hold gets a new expiry.     *)
ExtendHolds(o) ==
    /\ lapsed' = lapsed \ HoldsOf(o)
    /\ UNCHANGED <<stock, reserved, mode, ledger, posted, holds>>

-----------------------------------------------------------------------------
(* adjustStock and setStockCount: a signed on-hand change with its own row. *)
(* A removal may not take on-hand below what is reserved.                   *)
AdjustStock(s, delta) ==
    /\ delta < 0 => stock[s] + delta >= reserved[s]
    /\ stock' = [stock EXCEPT ![s] = @ + delta]
    /\ posted' = [posted EXCEPT ![s] = @ + delta]
    /\ UNCHANGED <<reserved, mode, ledger, holds, lapsed>>

(* A product edit changes how the SKU is tracked or whether it is listed;   *)
(* it never writes stock_quantity.                                          *)
EditSku(s, m) ==
    /\ mode[s] # m
    /\ s \notin LooseSkus => m \in {"managed", "inactive"}
    /\ mode' = [mode EXCEPT ![s] = m]
    /\ UNCHANGED <<stock, reserved, ledger, posted, holds, lapsed>>

(* A hold's expires_at passes.                                              *)
HoldLapses(h) ==
    /\ h \in holds \ lapsed
    /\ lapsed' = lapsed \cup {h}
    /\ UNCHANGED <<stock, reserved, mode, ledger, posted, holds>>

-----------------------------------------------------------------------------
(* What the data-operation stock-reconcile computes from the same tables.   *)
RowsOf(kind, o, s) == {r \in ledger : r.kind = kind /\ r.order = o /\ r.sku = s}

(* Units-worth of sales of order o not put back, in multiples of its line.  *)
NetSales(o, s) == Cardinality(RowsOf("commit", o, s)) - Cardinality(RowsOf("restock", o, s))

LedgerSum(s) == posted[s] - SumFunction([o \in Orders |-> NetSales(o, s) * Lines[o][s]])

HeldUnits(s) == SumFunctionOnSet([h \in Hold |-> Lines[h.order][s]], holds)

-----------------------------------------------------------------------------
(* Types.  That reserved never goes below zero rests on releases claiming   *)
(* their rows, on the clamp, and on commits taking whole holds only.        *)
StockTypeOK ==
    /\ stock \in [Skus -> Int]
    /\ reserved \in [Skus -> Nat]
    /\ mode \in [Skus -> Modes]
    /\ ledger \subseteq LedgerRow
    /\ posted \in [Skus -> Int]
    /\ holds \subseteq Hold
    /\ lapsed \subseteq holds

\* SKUs that have been tracked, without backorders, all along.
Strict == Skus \ LooseSkus

(* No unit is promised twice: whatever the handlers, crons and admins do at *)
(* the same time, a tracked SKU never has more reserved than on hand.       *)
NoOversell == \A s \in Strict : reserved[s] <= stock[s]

(* Every unit an ACTIVE reservation stands for is inside reserved_quantity, *)
(* so no sale or adjustment can take it.                                    *)
HoldsCovered == \A s \in Skus : HeldUnits(s) <= reserved[s]

(* stock-reconcile.js: sum(StockTransaction.delta) == stock_quantity.       *)
LedgerBalances == \A s \in Strict : LedgerSum(s) = stock[s]
=============================================================================
