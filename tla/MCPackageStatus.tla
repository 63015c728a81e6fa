---- MODULE MCPackageStatus ----
(* Small instances of PackageStatus for TLC. *)
EXTENDS PackageStatus, TLC

CONSTANTS w1, w2

Symmetric == Permutations(Workers)

(* What cancelPackage.js:8-9 says: "If a Shiprocket shipment was already     *)
(* created for it, that shipment is cancelled on Shiprocket's side too."  The *)
(* code asks whether the creation was ANSWERED (cancelPackage.js:19).        *)
CancelledIsRecalled ==
    \A p \in Numbers :
        (pkgs[p].status = "cancelled" /\ \A w \in Workers : req[w].p # p) => courier[p] \in {"none", "cancelled"}
====
