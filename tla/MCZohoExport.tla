---- MODULE MCZohoExport ----
(* A small instance of ZohoExport for TLC. *)
EXTENDS ZohoExport

CONSTANTS s1, s2

(* A promise the code does not keep: every version of the order comes to be *)
(* reported on the order.  A worker that dies between the job's outcome and *)
(* the order's (ZohoSyncQueue.js:133-140) leaves the order behind, and the  *)
(* reconciliation does not queue a version the job has seen (:32).          *)
OutcomeReported == <>[](order.completed = order.version)
====
