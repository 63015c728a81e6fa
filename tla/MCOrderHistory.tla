---- MODULE MCOrderHistory ----
(* Small instances of OrderHistory for TLC. *)
EXTENDS OrderHistory, TLC

CONSTANTS o1, o2, s1, s2, w1, w2, w3

\* Order o1 asks for two units of every SKU, any other order for one.
MixedLines == [o \in Orders |-> [s \in Skus |-> IF o = o1 THEN 2 ELSE 1]]
ThreeUnits == [s \in Skus |-> 3]
OneMoved == {-1, 1}
Symmetric == Permutations(Workers)
====
