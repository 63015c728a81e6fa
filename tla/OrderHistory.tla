----------------------------- MODULE OrderHistory ----------------------------
(***************************************************************************)
(* OrderStock with a history variable: the orders of which a handler has   *)
(* opened a new stock epoch on a check that no longer held.                *)
(*                                                                         *)
(* renewReservation and reopenOrder decide on the stock_state of the order *)
(* they read before their transaction.  When other handlers have moved it  *)
(* since, a retry holds units of an order that is held or sold already,    *)
(* and a reopening sells units that were not given back.  The code does    *)
(* not exclude either, so the promises about exact counters and single     *)
(* sales are stated here for the orders this has not happened to, whatever *)
(* else overlaps.                                                          *)
(***************************************************************************)
EXTENDS OrderStock

VARIABLE stale  \* orders once handled on a stock_state that had moved

hvars == <<vars, stale>>

(* The renewal or reopening in progress at w would have been refused, had   *)
(* it looked at the order inside its transaction.                           *)
Outdated(w) ==
    \/ Doing(w, "renew") /\ order[req[w].order].stockState \in {"reserved", "committed"}
    \/ Doing(w, "reopen") /\ order[req[w].order].stockState # "restocked"

ActsOutdated(w) == Outdated(w) /\ (RenewReserves(w) \/ ReopenSells(w))

HInit == Init /\ stale = {}

HNext ==
    /\ Next
    /\ stale' = stale \cup {req[w].order : w \in {v \in Workers : ActsOutdated(v)}}

HSpec == HInit /\ [][HNext]_hvars

-----------------------------------------------------------------------------
Fresh == Orders \ stale

(* An order has an ACTIVE hold exactly while its stock_state says reserved: *)
(* no handler commits or releases a hold and leaves the order reserved, and *)
(* none ends with a hold the order does not know of.                        *)
FreshHoldsMatch ==
    \A o \in Fresh : HoldsOf(o) # {} <=> order[o].stockState = "reserved"

(* stock-reconcile.js: sum(active StockReservation.quantity) ==             *)
(* reserved_quantity, for a SKU no stale order has units of.                *)
FreshReservedMatches ==
    \A s \in Skus : (\A o \in stale : s \notin SkusOf(o)) => reserved[s] = HeldUnits(s)

(* reopenOrder.js: only stock that was given back is sold again, so an      *)
(* order never has two sales of its units at once.                          *)
FreshSoldOnce ==
    \A o \in Fresh : \A s \in SkusOf(o) \cap Strict : NetSales(o, s) \in {0, 1}
=============================================================================
