-------------------------- MODULE OrderStock_proofs --------------------------
(***************************************************************************)
(* Proofs about OrderStock for any number of orders, SKUs, workers and     *)
(* epochs, in three parts, each on top of the one before.                  *)
(*                                                                         *)
(* 1. Types, and no tracked SKU is oversold.  NoOversell is not inductive  *)
(* alone.  It needs that reserved never goes below zero (types), that a    *)
(* SKU outside LooseSkus stays managed or inactive (else it sells          *)
(* unguarded), and that an order has finitely many holds (else the number  *)
(* a release or a commit frees means nothing).  The types need FlagSeen:   *)
(* what finalizeRefundedCapture writes as stock_flag was chosen as one by  *)
(* the transaction before it.                                              *)
(*                                                                         *)
(* 2. The idempotency keys of the ledger: the rows of an order's current   *)
(* epoch always say what its stock_state says, an order confirmed by a     *)
(* payment is sold once, and no capture revives a cancelled order.         *)
(* EpochMatchesState is not inductive alone.  A reopening or a retry that  *)
(* opens an epoch relies on no row being booked under it (FutureUnbooked); *)
(* a capture relies on stock_reserved having been set by the sale it would *)
(* repeat (SettledIsFlagged, BookedIsFlagged); a placement relies on an    *)
(* order that is not placed having no document that a handler wrote        *)
(* (AbsentIsNew), which in turn needs that whatever a handler works on was *)
(* placed (OnlyPlaced).                                                    *)
(*                                                                         *)
(* 3. The sums: every ledger balances with its posted stock and reserved   *)
(* covers the holds, whatever interleaves (StockOp: a step is at most one  *)
(* stock operation under its guard); and, of the orders no handler acted   *)
(* on with an outdated stock_state (OrderHistory), reserved is the holds,  *)
(* stock_state says whether there are some, and the units are sold at most *)
(* once, however many requests overlap (Tidy).                             *)
(***************************************************************************)
EXTENDS OrderHistory, FiniteSetTheorems, WellFoundedInduction, TLAPS

-----------------------------------------------------------------------------
(* Sums.                                                                    *)
(*                                                                          *)
(* The community modules define SumFunctionOnSet by a recursive function on *)
(* the subsets of the set that removes a chosen element at a time.  The     *)
(* lemmas show that the order of removal does not matter: any element may   *)
(* be taken out (SumRemove) or put in (SumInsert), one value may be changed *)
(* (SumChange), and values that agree have one sum (SumSame).  The          *)
(* induction is over the sizes of subsets, as an argument about sets of     *)
(* numbers.                                                                 *)

Sum(f, S) == SumFunctionOnSet(f, S)
Pick(T) == CHOOSE x \in T : TRUE
IntOn(f, S) == \A x \in S : f[x] \in Int

-----------------------------------------------------------------------------
(* Induction, for sets in place of predicates.                              *)
NatBelow == OpToRel(<, Nat)

(* A set of numbers that has 0 and the successor of its members is all of   *)
(* them.                                                                    *)
LEMMA AllNumbers ==
    ASSUME NEW Q \in SUBSET Nat, 0 \in Q, \A n \in Q : n + 1 \in Q
    PROVE  Q = Nat
<1> SUFFICES ASSUME Nat \ Q # {} PROVE FALSE
    OBVIOUS
<1>1. PICK n \in Nat \ Q : \A m \in Nat \ Q : ~(<<m, n>> \in NatBelow)
    BY NatLessThanWellFounded, WFMin DEF NatBelow
<1>2. n # 0 /\ n - 1 \in Nat
    OBVIOUS
<1>3. <<n - 1, n>> \in NatBelow
    BY <1>2 DEF NatBelow, OpToRel
<1>4. n - 1 \in Q
    BY <1>1, <1>2, <1>3
<1>5. (n - 1) + 1 = n
    OBVIOUS
<1> QED BY <1>4, <1>5

(* A family of subsets of a finite set that has each subset whose smaller   *)
(* subsets it has, has the set.                                             *)
LEMMA AllSubsets ==
    ASSUME NEW S, IsFiniteSet(S), NEW Q \in SUBSET SUBSET S,
           \A T \in SUBSET S : (\A x \in T : SUBSET (T \ {x}) \subseteq Q) => T \in Q
    PROVE  SUBSET S \subseteq Q
<1> DEFINE N == {n \in Nat : \A T \in SUBSET S : Cardinality(T) <= n => T \in Q}
<1>1. \A T \in SUBSET S : IsFiniteSet(T) /\ Cardinality(T) \in Nat
    BY FS_Subset, FS_CardinalityType
<1>2. 0 \in N
    <2> SUFFICES ASSUME NEW T \in SUBSET S, Cardinality(T) <= 0 PROVE T \in Q
        OBVIOUS
    <2>1. T = {}
        BY <1>1, FS_EmptySet
    <2> QED BY <2>1
<1>3. ASSUME NEW n \in N PROVE n + 1 \in N
    <2> SUFFICES ASSUME NEW T \in SUBSET S, Cardinality(T) <= n + 1 PROVE T \in Q
        OBVIOUS
    <2>1. ASSUME NEW x \in T, NEW U \in SUBSET (T \ {x}) PROVE U \in Q
        <3>1. IsFiniteSet(T \ {x}) /\ Cardinality(T \ {x}) = Cardinality(T) - 1
            BY <1>1, FS_RemoveElement
        <3>2. Cardinality(U) <= Cardinality(T \ {x})
            BY <3>1, FS_Subset
        <3>3. U \in SUBSET S
            OBVIOUS
        <3> QED BY <1>1, <3>1, <3>2, <3>3
    <2> QED BY <2>1
<1>4. N = Nat
    <2> HIDE DEF N
    <2>1. N \in SUBSET Nat
        BY DEF N
    <2> QED BY <1>2, <1>3, <2>1, AllNumbers
<1> QED BY <1>1, <1>4

-----------------------------------------------------------------------------
(* The recursive definition.                                                *)

\* g is the function that sums f over the subsets of S.
Adds(g, f, S) ==
    g = [T \in SUBSET S |-> IF T = {} THEN 0 ELSE f[Pick(T)] + g[T \ {Pick(T)}]]

LEMMA PickIn == ASSUME NEW T, T # {} PROVE Pick(T) \in T
    BY DEF Pick

LEMMA SumIs == ASSUME NEW f, NEW S PROVE Sum(f, S) = (CHOOSE g : Adds(g, f, S))[S]
    BY DEF Sum, Adds, Pick, SumFunctionOnSet, FoldFunctionOnSet, MapThenFoldSet

(* Such a function exists on a finite set.                                  *)
LEMMA AddsExists ==
    ASSUME NEW f, NEW S, IsFiniteSet(S)
    PROVE  \E g : Adds(g, f, S)
<1> DEFINE Next1(g, T) == IF T = {} THEN 0 ELSE f[Pick(T)] + g[T \ {Pick(T)}]
           Upto(g, n) == \A T \in SUBSET S : Cardinality(T) <= n => g[T] = Next1(g, T)
           Q == {n \in Nat : \E g : Upto(g, n)}
<1>1. \A T \in SUBSET S : IsFiniteSet(T) /\ Cardinality(T) \in Nat /\ Cardinality(T) <= Cardinality(S)
    BY FS_Subset, FS_CardinalityType
<1>2. \A T \in SUBSET S : T # {} =>
          T \ {Pick(T)} \in SUBSET S /\ Cardinality(T \ {Pick(T)}) = Cardinality(T) - 1
    BY <1>1, PickIn, FS_RemoveElement
<1>3. 0 \in Q
    <2> DEFINE g == [T \in SUBSET S |-> 0]
    <2>1. \A T \in SUBSET S : Cardinality(T) <= 0 => T = {}
        BY <1>1, FS_EmptySet
    <2>2. Upto(g, 0)
        BY <2>1
    <2> QED BY <2>2
<1>4. ASSUME NEW n \in Q PROVE n + 1 \in Q
    <2>1. PICK g : Upto(g, n)
        OBVIOUS
    <2> DEFINE h == [T \in SUBSET S |-> IF Cardinality(T) <= n THEN g[T] ELSE Next1(g, T)]
    <2>2. ASSUME NEW T \in SUBSET S, Cardinality(T) <= n + 1 PROVE h[T] = Next1(h, T)
        <3>1. h[T] = Next1(g, T)
            BY <2>1
        <3>2. T # {} => h[T \ {Pick(T)}] = g[T \ {Pick(T)}]
            BY <1>1, <1>2, <2>2
        <3> HIDE DEF h
        <3> QED BY <3>1, <3>2
    <2>3. Upto(h, n + 1)
        <3> HIDE DEF h
        <3> QED BY <2>2
    <2> HIDE DEF h, Upto
    <2> QED BY <2>3
<1>5. Cardinality(S) \in Q
    <2> HIDE DEF Q
    <2>1. Q \in SUBSET Nat
        BY DEF Q
    <2> QED BY <1>1, <1>3, <1>4, <2>1, AllNumbers
<1>6. PICK g : Upto(g, Cardinality(S))
    BY <1>5
<1> DEFINE h == [T \in SUBSET S |-> g[T]]
<1>7. ASSUME NEW T \in SUBSET S PROVE h[T] = Next1(h, T)
    BY <1>1, <1>2, <1>6
<1>8. h = [T \in SUBSET S |-> Next1(h, T)]
    <2>1. h = [T \in SUBSET S |-> h[T]]
        OBVIOUS
    <2> HIDE DEF h
    <2> QED BY <1>7, <2>1
<1> QED BY <1>8 DEF Adds

LEMMA AddsChosen ==
    ASSUME NEW f, NEW S, IsFiniteSet(S)
    PROVE  Adds(CHOOSE g : Adds(g, f, S), f, S)
    BY AddsExists, Zenon

(* Two of them agree on the subsets they share.                             *)
LEMMA AddsUnique ==
    ASSUME NEW f, NEW S, IsFiniteSet(S), NEW U \in SUBSET S, NEW g, NEW h,
           Adds(g, f, S), Adds(h, f, U)
    PROVE  g[U] = h[U]
<1> DEFINE Q == {T \in SUBSET U : g[T] = h[T]}
<1>1. \A T \in SUBSET S : g[T] = IF T = {} THEN 0 ELSE f[Pick(T)] + g[T \ {Pick(T)}]
    BY DEF Adds
<1>2. \A T \in SUBSET U : h[T] = IF T = {} THEN 0 ELSE f[Pick(T)] + h[T \ {Pick(T)}]
    BY DEF Adds
<1>3. ASSUME NEW T \in SUBSET U, \A x \in T : SUBSET (T \ {x}) \subseteq Q PROVE T \in Q
    <2>1. CASE T = {}
        BY <1>1, <1>2, <2>1
    <2>2. CASE T # {}
        <3>1. T \ {Pick(T)} \in Q
            BY <1>3, <2>2, PickIn
        <3> QED BY <1>1, <1>2, <2>2, <3>1
    <2> QED BY <2>1, <2>2
<1>4. IsFiniteSet(U) /\ Q \in SUBSET SUBSET U
    BY FS_Subset
<1>5. SUBSET U \subseteq Q
    <2> HIDE DEF Q
    <2> QED BY <1>3, <1>4, AllSubsets
<1> QED BY <1>5

-----------------------------------------------------------------------------
(* What follows from it.                                                    *)

LEMMA SumEmpty == ASSUME NEW f PROVE Sum(f, {}) = 0
<1>1. IsFiniteSet({}) /\ Adds(CHOOSE g : Adds(g, f, {}), f, {})
    BY FS_EmptySet, AddsChosen
<1>2. \A g : Adds(g, f, {}) => g[{}] = 0
    BY DEF Adds
<1> QED BY <1>1, <1>2, SumIs

LEMMA SumPick ==
    ASSUME NEW f, NEW S, IsFiniteSet(S), S # {}
    PROVE  Sum(f, S) = f[Pick(S)] + Sum(f, S \ {Pick(S)})
<1> DEFINE U == S \ {Pick(S)}
<1>1. PICK g : Adds(g, f, S) /\ Sum(f, S) = g[S]
    BY SumIs, AddsChosen
<1>2. PICK h : Adds(h, f, U) /\ Sum(f, U) = h[U]
    BY SumIs, AddsChosen, FS_RemoveElement
<1>3. U \in SUBSET S
    OBVIOUS
<1>4. g[U] = h[U]
    <2> HIDE DEF U
    <2> QED BY <1>1, <1>2, <1>3, AddsUnique
<1>5. g[S] = f[Pick(S)] + g[U]
    BY <1>1 DEF Adds
<1> QED BY <1>1, <1>2, <1>4, <1>5

(* A sum of integers is an integer, and any element may be taken out first. *)
LEMMA SumRemove ==
    ASSUME NEW f, NEW S, IsFiniteSet(S), IntOn(f, S)
    PROVE  /\ Sum(f, S) \in Int
           /\ \A x \in S : Sum(f, S) = f[x] + Sum(f, S \ {x})
<1> DEFINE Fine(T) == /\ Sum(f, T) \in Int
                      /\ \A x \in T : Sum(f, T) = f[x] + Sum(f, T \ {x})
           Q == {T \in SUBSET S : Fine(T)}
<1>1. ASSUME NEW T \in SUBSET S, \A x \in T : SUBSET (T \ {x}) \subseteq Q PROVE Fine(T)
    <2>0. IsFiniteSet(T) /\ \A x \in T : f[x] \in Int
        BY FS_Subset DEF IntOn
    <2>1. CASE T = {}
        BY <2>1, SumEmpty
    <2>2. CASE T # {}
        <3> DEFINE c == Pick(T)
        <3>1. c \in T /\ f[c] \in Int
            BY <2>0, <2>2, PickIn
        <3>2. Sum(f, T) = f[c] + Sum(f, T \ {c})
            BY <2>0, <2>2, SumPick
        <3>3. Fine(T \ {c})
            BY <1>1, <3>1
        <3>4. ASSUME NEW x \in T PROVE Sum(f, T) = f[x] + Sum(f, T \ {x})
            <4>1. CASE x = c
                BY <3>2, <4>1
            <4>2. CASE x # c
                <5> HIDE DEF c
                <5>1. Fine(T \ {x}) /\ Fine((T \ {c}) \ {x})
                    <6>1. T \ {x} \in Q
                        BY <1>1
                    <6>2. (T \ {c}) \ {x} \in Q
                        BY <1>1, <3>1
                    <6> QED BY <6>1, <6>2
                <5>2. Sum(f, T \ {c}) = f[x] + Sum(f, (T \ {c}) \ {x})
                    BY <3>3, <4>2
                <5>3. (T \ {x}) \ {c} = (T \ {c}) \ {x}
                    OBVIOUS
                <5>4. Sum(f, T \ {x}) = f[c] + Sum(f, (T \ {c}) \ {x})
                    <6>1. c \in T \ {x}
                        BY <3>1, <4>2
                    <6>2. Sum(f, T \ {x}) = f[c] + Sum(f, (T \ {x}) \ {c})
                        BY <5>1, <6>1
                    <6> QED BY <5>3, <6>2
                <5> DEFINE rest == Sum(f, (T \ {c}) \ {x})
                <5>5. rest \in Int
                    BY <5>1
                <5>6. f[x] \in Int
                    BY <2>0
                <5> QED BY <3>1, <3>2, <5>2, <5>4, <5>5, <5>6
            <4> QED BY <4>1, <4>2
        <3>5. Sum(f, T) \in Int
            <4> HIDE DEF c
            <4> QED BY <3>1, <3>2, <3>3
        <3> QED BY <3>4, <3>5
    <2> QED BY <2>1, <2>2
<1>2. SUBSET S \subseteq Q
    <2>1. ASSUME NEW T \in SUBSET S, \A x \in T : SUBSET (T \ {x}) \subseteq Q PROVE T \in Q
        BY <1>1, <2>1
    <2>2. Q \in SUBSET SUBSET S
        OBVIOUS
    <2> HIDE DEF Q
    <2> QED BY <2>1, <2>2, AllSubsets
<1> QED BY <1>2

(* A new element adds its value.                                            *)
LEMMA SumInsert ==
    ASSUME NEW f, NEW S, IsFiniteSet(S), NEW x, x \notin S, IntOn(f, S \cup {x})
    PROVE  /\ Sum(f, S) \in Int
           /\ Sum(f, S \cup {x}) = f[x] + Sum(f, S)
<1>1. IsFiniteSet(S \cup {x}) /\ (S \cup {x}) \ {x} = S /\ x \in S \cup {x} /\ IntOn(f, S)
    BY FS_AddElement DEF IntOn
<1> QED BY <1>1, SumRemove

(* Functions that agree on a set have the same sum over it.                 *)
LEMMA SumSame ==
    ASSUME NEW f, NEW g, NEW S, IsFiniteSet(S), IntOn(f, S), \A x \in S : f[x] = g[x]
    PROVE  Sum(f, S) = Sum(g, S)
<1> DEFINE Q == {T \in SUBSET S : Sum(f, T) = Sum(g, T)}
<1>1. ASSUME NEW T \in SUBSET S, \A x \in T : SUBSET (T \ {x}) \subseteq Q PROVE T \in Q
    <2>1. CASE T = {}
        BY <2>1, SumEmpty
    <2>2. CASE T # {}
        <3>1. IsFiniteSet(T) /\ Pick(T) \in T
            BY <2>2, FS_Subset, PickIn
        <3>2. T \ {Pick(T)} \in Q
            BY <1>1, <3>1
        <3>3. /\ Sum(f, T) = f[Pick(T)] + Sum(f, T \ {Pick(T)})
              /\ Sum(g, T) = g[Pick(T)] + Sum(g, T \ {Pick(T)})
            BY <2>2, <3>1, SumPick
        <3>4. f[Pick(T)] = g[Pick(T)]
            BY <3>1
        <3> QED BY <3>2, <3>3, <3>4
    <2> QED BY <2>1, <2>2
<1>2. SUBSET S \subseteq Q
    <2>1. Q \in SUBSET SUBSET S
        OBVIOUS
    <2> HIDE DEF Q
    <2> QED BY <1>1, <2>1, AllSubsets
<1> QED BY <1>2

(* Functions that agree on all of a set but one element differ in their     *)
(* sums by the difference there.                                            *)
LEMMA SumChange ==
    ASSUME NEW f, NEW g, NEW S, IsFiniteSet(S), IntOn(f, S), IntOn(g, S),
           NEW x \in S, \A y \in S : y # x => f[y] = g[y]
    PROVE  /\ Sum(f, S) \in Int /\ Sum(g, S) \in Int
           /\ Sum(g, S) = Sum(f, S) - f[x] + g[x]
<1>1. IsFiniteSet(S \ {x}) /\ IntOn(f, S \ {x}) /\ \A y \in S \ {x} : f[y] = g[y]
    BY FS_RemoveElement DEF IntOn
<1>2. Sum(f, S \ {x}) = Sum(g, S \ {x}) /\ Sum(f, S \ {x}) \in Int
    BY <1>1, SumSame, SumRemove
<1>3. /\ Sum(f, S) \in Int /\ Sum(f, S) = f[x] + Sum(f, S \ {x})
      /\ Sum(g, S) \in Int /\ Sum(g, S) = g[x] + Sum(g, S \ {x})
    BY SumRemove
<1> QED BY <1>2, <1>3 DEF IntOn

(* A sum of naturals is at least that over a subset.                        *)
LEMMA SumGrows ==
    ASSUME NEW f, NEW S, IsFiniteSet(S), \A x \in S : f[x] \in Nat, NEW R \in SUBSET S
    PROVE  Sum(f, R) \in Nat /\ Sum(f, S) \in Nat /\ Sum(f, R) <= Sum(f, S)
<1> DEFINE Fine(T) == Sum(f, T) \in Nat /\ \A U \in SUBSET T : Sum(f, U) <= Sum(f, T)
           Q == {T \in SUBSET S : Fine(T)}
<1>1. ASSUME NEW T \in SUBSET S, \A x \in T : SUBSET (T \ {x}) \subseteq Q PROVE Fine(T)
    <2>0. IsFiniteSet(T) /\ IntOn(f, T)
        BY FS_Subset DEF IntOn
    <2>1. Sum(f, T) \in Nat
        <3>1. CASE T = {}
            BY <3>1, SumEmpty
        <3>2. CASE T # {}
            <4>1. PICK x \in T : TRUE
                BY <3>2
            <4>2. Sum(f, T) = f[x] + Sum(f, T \ {x}) /\ f[x] \in Nat
                BY <2>0, SumRemove
            <4>3. T \ {x} \in Q
                BY <1>1
            <4> QED BY <4>2, <4>3
        <3> QED BY <3>1, <3>2
    <2>2. ASSUME NEW U \in SUBSET T PROVE Sum(f, U) <= Sum(f, T)
        <3>1. CASE U = T
            BY <2>1, <3>1
        <3>2. CASE U # T
            <4>1. PICK x \in T : x \notin U
                BY <3>2
            <4>2. Sum(f, T) = f[x] + Sum(f, T \ {x}) /\ f[x] \in Nat
                BY <2>0, SumRemove
            <4>3. T \ {x} \in Q /\ U \in SUBSET (T \ {x}) /\ U \in Q
                BY <1>1, <4>1
            <4> QED BY <4>2, <4>3
        <3> QED BY <3>1, <3>2
    <2> QED BY <2>1, <2>2
<1>2. SUBSET S \subseteq Q
    <2>1. ASSUME NEW T \in SUBSET S, \A x \in T : SUBSET (T \ {x}) \subseteq Q PROVE T \in Q
        BY <1>1, <2>1
    <2>2. Q \in SUBSET SUBSET S
        OBVIOUS
    <2> HIDE DEF Q
    <2> QED BY <2>1, <2>2, AllSubsets
<1> QED BY <1>2

(* Taking out elements of one value takes that value off once for each.     *)
LEMMA SumWithout ==
    ASSUME NEW f, NEW S, IsFiniteSet(S), IntOn(f, S), NEW R \in SUBSET S,
           NEW c \in Int, \A x \in R : f[x] = c
    PROVE  /\ Sum(f, S) \in Int /\ Sum(f, S \ R) \in Int
           /\ Sum(f, S \ R) = Sum(f, S) - Cardinality(R) * c
<1> DEFINE Fine(T) == Sum(f, S \ T) = Sum(f, S) - Cardinality(T) * c
           Q == {T \in SUBSET R : Fine(T)}
<1>0. IsFiniteSet(R) /\ Sum(f, S) \in Int
    BY FS_Subset, SumRemove
<1>1. ASSUME NEW T \in SUBSET R, \A x \in T : SUBSET (T \ {x}) \subseteq Q PROVE Fine(T)
    <2>1. CASE T = {}
        <3>1. S \ T = S /\ Cardinality(T) * c = 0
            BY <2>1, FS_EmptySet
        <3>2. Sum(f, S) - 0 = Sum(f, S)
            BY <1>0
        <3> QED BY <3>1, <3>2
    <2>2. CASE T # {}
        <3>1. PICK x \in T : TRUE
            BY <2>2
        <3> DEFINE U == T \ {x}
        <3>2. Fine(U)
            BY <1>1, <3>1
        <3>3. IsFiniteSet(T) /\ Cardinality(U) = Cardinality(T) - 1 /\ Cardinality(T) \in Nat
            BY <1>0, <3>1, FS_Subset, FS_RemoveElement, FS_CardinalityType
        <3>4. /\ IsFiniteSet(S \ U) /\ IntOn(f, S \ U) /\ x \in S \ U
              /\ (S \ U) \ {x} = S \ T /\ IsFiniteSet(S \ T) /\ IntOn(f, S \ T)
            BY <3>1, FS_Subset DEF IntOn
        <3>5. Sum(f, S \ U) = f[x] + Sum(f, S \ T) /\ Sum(f, S \ T) \in Int /\ f[x] = c
            BY <3>1, <3>4, SumRemove
        <3>6. ASSUME NEW n \in Nat PROVE n * c = (n - 1) * c + c /\ n * c \in Int /\ (n - 1) * c \in Int
            OBVIOUS
        <3>7. Cardinality(U) * c = Cardinality(T) * c - c /\ Cardinality(T) * c \in Int
            BY <3>3, <3>6
        <3>8. Sum(f, S \ U) = Sum(f, S) - Cardinality(U) * c
            BY <3>2
        <3>9. Sum(f, S \ T) = Sum(f, S) - Cardinality(T) * c
            <4> HIDE DEF U
            <4> QED BY <1>0, <3>5, <3>7, <3>8
        <3> QED BY <3>9
    <2> QED BY <2>1, <2>2
<1>2. SUBSET R \subseteq Q
    <2>1. ASSUME NEW T \in SUBSET R, \A x \in T : SUBSET (T \ {x}) \subseteq Q PROVE T \in Q
        BY <1>1, <2>1
    <2>2. Q \in SUBSET SUBSET R
        OBVIOUS
    <2> HIDE DEF Q
    <2> QED BY <1>0, <2>1, <2>2, AllSubsets
<1>3. Sum(f, S \ R) \in Int
    <2>1. IsFiniteSet(S \ R) /\ IntOn(f, S \ R)
        BY FS_Subset DEF IntOn
    <2> QED BY <2>1, SumRemove
<1> QED BY <1>0, <1>2, <1>3

(* A sum of zeros is zero.                                                  *)
LEMMA SumZero ==
    ASSUME NEW f, NEW S, IsFiniteSet(S), \A x \in S : f[x] = 0
    PROVE  Sum(f, S) = 0
<1>1. PICK c \in Int, R \in SUBSET S : c = 0 /\ R = S
    OBVIOUS
<1>2. IntOn(f, S) /\ \A x \in R : f[x] = c
    BY <1>1 DEF IntOn
<1>3. Sum(f, S) \in Int /\ Sum(f, S \ R) = Sum(f, S) - Cardinality(R) * c
    BY <1>1, <1>2, SumWithout
<1>4. Cardinality(R) * c = 0 /\ S \ R = {}
    BY <1>1, FS_CardinalityType
<1>5. Sum(f, S \ R) = 0
    BY <1>4, SumEmpty
<1> QED BY <1>3, <1>4, <1>5

-----------------------------------------------------------------------------
(* What the proofs of all three parts rest on.                              *)

USE OrdersAssumption, LinesAssumption, LooseAssumption, EpochAssumption,
    OpeningAssumption, AdjustAssumption

StrictModes == \A s \in Strict : mode[s] \in {"managed", "inactive"}

StockInv == StockTypeOK /\ IsFiniteSet(holds) /\ StrictModes /\ NoOversell

ShopTypeOK ==
    /\ order \in [Orders -> OrderDoc]
    /\ captured \subseteq Orders
    /\ req \in [Workers -> Request \cup {Idle}]
    /\ adjusts \in Nat /\ edits \in Nat

\* What RefundCapture writes to the order was a flag when it was read.
FlagSeen == \A w \in Workers : Doing(w, "refund_capture") => req[w].seen \in StockFlag

Inv == StockInv /\ ShopTypeOK /\ FlagSeen

-----------------------------------------------------------------------------
(* The stock operations keep StockInv.                                      *)

(* The number of holds of an order is a number.                             *)
LEMMA HoldCount ==
    ASSUME IsFiniteSet(holds), NEW o
    PROVE  /\ IsFiniteSet(HoldsOf(o))
           /\ Cardinality(HoldsOf(o)) \in Nat
<1>1. HoldsOf(o) \subseteq holds
    BY DEF HoldsOf
<1>2. IsFiniteSet(HoldsOf(o))
    BY <1>1, FS_Subset
<1> QED BY <1>2, FS_CardinalityType

(* A change of holds that removes all holds of one order.                   *)
LEMMA HoldsRemoved ==
    ASSUME StockTypeOK, IsFiniteSet(holds), NEW o,
           holds' = holds \ HoldsOf(o), lapsed' = lapsed \ HoldsOf(o)
    PROVE  holds' \subseteq Hold /\ lapsed' \subseteq holds' /\ IsFiniteSet(holds')
<1>1. holds' \subseteq holds
    OBVIOUS
<1>2. IsFiniteSet(holds')
    BY <1>1, FS_Subset
<1> QED BY <1>2 DEF StockTypeOK

(* A line of an order is a natural number of units.                         *)
LEMMA LineUnits ==
    ASSUME NEW o \in Orders, NEW s \in Skus
    PROVE  /\ Lines[o][s] \in Nat
           /\ s \notin SkusOf(o) => Lines[o][s] = 0
    BY DEF SkusOf

(* What is left of reserved below one whole line is no more than on hand.   *)
LEMMA SmallRemainder ==
    ASSUME NEW a \in Nat, NEW b \in Nat, a < b
    PROVE  a % b = a
    OBVIOUS

(* The row that books a line of an order is a ledger row.                   *)
LEMMA RowType ==
    ASSUME NEW kind \in {"commit", "restock"}, NEW o \in Orders, NEW e \in Epochs,
           NEW s \in Skus
    PROVE  Row(kind, o, e, s) \in LedgerRow
    BY DEF Row, LedgerRow

(* A step that leaves the stock service alone keeps StockInv.               *)
LEMMA StockUnchanged ==
    ASSUME StockInv, UNCHANGED stockVars
    PROVE  StockInv'
    BY DEF StockInv, StockTypeOK, StrictModes, NoOversell, stockVars

(* reserveOrder: what is held was available.                                *)
LEMMA ReserveKeeps ==
    ASSUME StockInv, NEW o \in Orders, NEW e \in Epochs, CanReserve(o), ReserveOrder(o, e)
    PROVE  StockInv'
<1>1. StockTypeOK'
    BY LineUnits DEF StockInv, StockTypeOK, ReserveOrder, Hold
<1>2. IsFiniteSet(holds')
    BY FS_AddElement DEF StockInv, ReserveOrder
<1>3. StrictModes'
    BY DEF StockInv, StrictModes, ReserveOrder
<1>4. NoOversell'
    <2> SUFFICES ASSUME NEW s \in Strict
                 PROVE  reserved'[s] <= stock'[s]
        BY DEF NoOversell
    <2>1. s \in Skus /\ reserved'[s] = reserved[s] + Lines[o][s] /\ stock'[s] = stock[s]
        BY DEF Strict, ReserveOrder
    <2>2. stock[s] \in Int /\ reserved[s] \in Nat /\ reserved[s] <= stock[s]
        BY <2>1 DEF StockInv, StockTypeOK, NoOversell
    <2>3. CASE s \in SkusOf(o)
        BY <2>1, <2>2, <2>3, LineUnits DEF CanReserve, Sellable, StockInv, StrictModes
    <2>4. CASE s \notin SkusOf(o)
        BY <2>1, <2>2, <2>4, LineUnits
    <2> QED BY <2>3, <2>4
<1> QED BY <1>1, <1>2, <1>3, <1>4 DEF StockInv

(* commitLines: what is sold was available.                                 *)
LEMMA CommitLinesKeeps ==
    ASSUME StockInv, NEW o \in Orders, NEW e \in Epochs, CanCommitLines(o, e), CommitLines(o, e)
    PROVE  StockInv'
<1>1. StockTypeOK'
    <2>1. ledger' \subseteq LedgerRow
        BY RowType DEF StockInv, StockTypeOK, CommitLines, ToSell, SkusOf
    <2>2. stock' \in [Skus -> Int]
        BY LineUnits DEF StockInv, StockTypeOK, CommitLines
    <2> QED BY <2>1, <2>2 DEF StockInv, StockTypeOK, CommitLines
<1>2. IsFiniteSet(holds') /\ StrictModes'
    BY DEF StockInv, StrictModes, CommitLines
<1>3. NoOversell'
    <2> SUFFICES ASSUME NEW s \in Strict
                 PROVE  reserved'[s] <= stock'[s]
        BY DEF NoOversell
    <2>1. s \in Skus /\ reserved'[s] = reserved[s]
        BY DEF Strict, CommitLines
    <2>2. stock[s] \in Int /\ reserved[s] \in Nat /\ reserved[s] <= stock[s]
        BY <2>1 DEF StockInv, StockTypeOK, NoOversell
    <2>3. CASE s \in ToSell(o, e)
        BY <2>1, <2>2, <2>3, LineUnits
           DEF CanCommitLines, CommitLines, Sellable, StockInv, StrictModes
    <2>4. CASE s \notin ToSell(o, e)
        BY <2>1, <2>2, <2>4 DEF CommitLines
    <2> QED BY <2>3, <2>4
<1> QED BY <1>1, <1>2, <1>3 DEF StockInv

(* How many holds a commit sells: a number, and at most one of a tracked    *)
(* SKU.                                                                     *)
LEMMA HoldsSold ==
    ASSUME StockInv, NEW o \in Orders, NEW e \in Epochs, NEW s \in Skus
    PROVE  /\ HoldsToSell(o, e, s) \in Nat
           /\ Tracked(s) => HoldsToSell(o, e, s) \in {0, 1}
           /\ s \notin ToSell(o, e) => HoldsToSell(o, e, s) = 0
    BY HoldCount DEF HoldsToSell, StockInv

(* commitReservation: a hold is moved from reserved to sold, or the units   *)
(* are taken from what is available.                                        *)
LEMMA CommitReservationKeeps ==
    ASSUME StockInv, NEW o \in Orders, NEW e \in Epochs,
           CanCommitReservation(o, e), CommitReservation(o, e)
    PROVE  StockInv'
<1> DEFINE N(s) == HoldsToSell(o, e, s)
           U(s) == HoldsToSell(o, e, s) * Lines[o][s]
<1>1. ASSUME NEW s \in Skus
      PROVE  /\ stock[s] \in Int /\ reserved[s] \in Nat /\ Lines[o][s] \in Nat
             /\ N(s) \in Nat /\ U(s) \in Nat
             /\ U(s) > reserved[s] => Lines[o][s] > 0
    <2>1. stock[s] \in Int /\ reserved[s] \in Nat /\ Lines[o][s] \in Nat /\ N(s) \in Nat
        BY LineUnits, HoldsSold DEF StockInv, StockTypeOK
    <2>2. U(s) \in Nat /\ (Lines[o][s] = 0 => U(s) = 0)
        BY <2>1
    <2> QED BY <2>1, <2>2
<1>2. ASSUME NEW s \in Skus
      PROVE  stock'[s] \in Int /\ reserved'[s] \in Nat
    <2>1. stock'[s] = stock[s] - U(s)
        BY DEF CommitReservation
    <2>2. CASE ReservedCovers(o, e, s)
        BY <1>1, <2>1, <2>2 DEF CommitReservation, ReservedCovers
    <2>3. CASE ~ReservedCovers(o, e, s)
        <3>1. reserved'[s] = reserved[s] % Lines[o][s]
            BY <2>3 DEF CommitReservation
        <3>2. U(s) > reserved[s]
            BY <1>1, <2>3 DEF ReservedCovers
        <3> HIDE DEF U, N
        <3>3. Lines[o][s] > 0 /\ Lines[o][s] \in Nat /\ reserved[s] \in Nat
            BY <1>1, <3>2
        <3> QED BY <1>1, <2>1, <3>1, <3>3
    <2> QED BY <2>2, <2>3
<1>3. StockTypeOK'
    <2>1. stock' \in [Skus -> Int] /\ reserved' \in [Skus -> Nat]
        BY <1>2 DEF CommitReservation
    <2>2. holds' \subseteq Hold /\ lapsed' \subseteq holds'
        BY HoldsRemoved DEF CommitReservation, StockInv
    <2>3. ledger' \subseteq LedgerRow
        BY RowType DEF StockInv, StockTypeOK, CommitReservation, ToSell, SkusOf
    <2> QED BY <2>1, <2>2, <2>3 DEF StockInv, StockTypeOK, CommitReservation
<1>4. IsFiniteSet(holds') /\ StrictModes'
    BY HoldsRemoved DEF StockInv, StrictModes, CommitReservation
<1>5. NoOversell'
    <2> SUFFICES ASSUME NEW s \in Strict
                 PROVE  reserved'[s] <= stock'[s]
        BY DEF NoOversell
    <2>1. s \in Skus /\ Tracked(s)
        BY DEF Strict, Tracked, StockInv, StrictModes
    <2>2. stock'[s] = stock[s] - U(s) /\ reserved[s] <= stock[s]
        BY <2>1 DEF CommitReservation, StockInv, NoOversell
    <2>3. CASE ReservedCovers(o, e, s)
        <3>1. reserved'[s] = reserved[s] - U(s)
            BY <2>1, <2>3 DEF CommitReservation
        <3> HIDE DEF U
        <3> QED BY <1>1, <2>1, <2>2, <3>1
    <2>4. CASE ~ReservedCovers(o, e, s)
        <3>1. reserved'[s] = reserved[s] % Lines[o][s] /\ U(s) > reserved[s]
            BY <1>1, <2>1, <2>4 DEF CommitReservation, ReservedCovers
        <3>2. N(s) = 1 /\ s \in ToSell(o, e)
            <4>1. N(s) # 0
                BY <1>1, <2>1, <3>1
            <4> QED BY <2>1, <4>1, HoldsSold
        <3>3. U(s) = Lines[o][s]
            BY <1>1, <2>1, <3>2
        <3>4. stock[s] - reserved[s] >= Lines[o][s]
            BY <2>1, <2>4, <3>2 DEF CanCommitReservation, Sellable, StockInv, StrictModes
        <3>5. reserved[s] % Lines[o][s] = reserved[s]
            <4> HIDE DEF U, N
            <4>1. reserved[s] \in Nat /\ Lines[o][s] \in Nat /\ reserved[s] < Lines[o][s]
                BY <1>1, <2>1, <3>1, <3>3
            <4> QED BY <4>1, SmallRemainder
        <3> HIDE DEF U, N
        <3> QED BY <1>1, <2>1, <2>2, <3>1, <3>3, <3>4, <3>5
    <2> QED BY <2>3, <2>4
<1> QED BY <1>3, <1>4, <1>5 DEF StockInv

(* releaseReservation: reserved only goes down, and not below zero.         *)
LEMMA ReleaseKeeps ==
    ASSUME StockInv, NEW o \in Orders, ReleaseReservation(o)
    PROVE  StockInv'
<1>1. ASSUME NEW s \in Skus
      PROVE  reserved'[s] \in Nat /\ reserved'[s] <= reserved[s]
    <2> DEFINE U == Cardinality(HoldsOf(o)) * Lines[o][s]
    <2>1. Cardinality(HoldsOf(o)) \in Nat /\ Lines[o][s] \in Nat
        BY HoldCount, LineUnits DEF StockInv
    <2>2. U \in Nat
        BY <2>1
    <2>3. reserved'[s] = AtLeastZero(reserved[s] - U) /\ reserved[s] \in Nat
        BY DEF ReleaseReservation, StockInv, StockTypeOK
    <2> HIDE DEF U
    <2> QED BY <2>2, <2>3 DEF AtLeastZero
<1>2. StockTypeOK'
    <2>1. reserved' \in [Skus -> Nat]
        BY <1>1 DEF ReleaseReservation
    <2>2. holds' \subseteq Hold /\ lapsed' \subseteq holds'
        BY HoldsRemoved DEF ReleaseReservation, StockInv
    <2> QED BY <2>1, <2>2 DEF StockInv, StockTypeOK, ReleaseReservation
<1>3. IsFiniteSet(holds') /\ StrictModes'
    BY HoldsRemoved DEF StockInv, StrictModes, ReleaseReservation
<1>4. NoOversell'
    <2> SUFFICES ASSUME NEW s \in Strict
                 PROVE  reserved'[s] <= stock'[s]
        BY DEF NoOversell
    <2>1. s \in Skus /\ stock'[s] = stock[s] /\ reserved[s] <= stock[s]
        BY DEF Strict, ReleaseReservation, StockInv, NoOversell
    <2> QED BY <1>1, <2>1 DEF StockInv, StockTypeOK
<1> QED BY <1>2, <1>3, <1>4 DEF StockInv

(* restockLines: on-hand only goes up.                                      *)
LEMMA RestockKeeps ==
    ASSUME StockInv, NEW o \in Orders, NEW e \in Epochs, RestockLines(o, e)
    PROVE  StockInv'
<1>1. StockTypeOK'
    <2>1. ledger' \subseteq LedgerRow
        BY RowType DEF StockInv, StockTypeOK, RestockLines, ToRestock, SkusOf
    <2>2. stock' \in [Skus -> Int]
        BY LineUnits DEF StockInv, StockTypeOK, RestockLines
    <2> QED BY <2>1, <2>2 DEF StockInv, StockTypeOK, RestockLines
<1>2. IsFiniteSet(holds') /\ StrictModes'
    BY DEF StockInv, StrictModes, RestockLines
<1>3. NoOversell'
    BY LineUnits DEF NoOversell, Strict, StockInv, StockTypeOK, RestockLines
<1> QED BY <1>1, <1>2, <1>3 DEF StockInv

(* renewReservation's extension moves expiries, no counter.                 *)
LEMMA ExtendKeeps ==
    ASSUME StockInv, NEW o, ExtendHolds(o)
    PROVE  StockInv'
    BY DEF StockInv, StockTypeOK, StrictModes, NoOversell, ExtendHolds

(* A hold that lapses moves no counter.                                     *)
LEMMA LapseKeeps ==
    ASSUME StockInv, NEW h, HoldLapses(h)
    PROVE  StockInv'
    BY DEF StockInv, StockTypeOK, StrictModes, NoOversell, HoldLapses

(* adjustStock: a removal leaves what is reserved.                          *)
LEMMA AdjustKeeps ==
    ASSUME StockInv, NEW s \in Skus, NEW delta \in Int, AdjustStock(s, delta)
    PROVE  StockInv'
<1>1. StockTypeOK'
    BY DEF StockInv, StockTypeOK, AdjustStock
<1>2. IsFiniteSet(holds') /\ StrictModes'
    BY DEF StockInv, StrictModes, AdjustStock
<1>3. NoOversell'
    BY DEF NoOversell, Strict, StockInv, StockTypeOK, AdjustStock
<1> QED BY <1>1, <1>2, <1>3 DEF StockInv

(* A product edit leaves a strict SKU managed or inactive, units untouched. *)
LEMMA EditKeeps ==
    ASSUME StockInv, NEW s \in Skus, NEW m \in Modes, EditSku(s, m)
    PROVE  StockInv'
<1>1. StockTypeOK'
    BY DEF StockInv, StockTypeOK, EditSku
<1>2. IsFiniteSet(holds') /\ NoOversell'
    BY DEF StockInv, NoOversell, EditSku
<1>3. StrictModes'
    BY DEF StockInv, StrictModes, StockTypeOK, Strict, EditSku
<1> QED BY <1>1, <1>2, <1>3 DEF StockInv

-----------------------------------------------------------------------------
(* The handlers keep StockInv: each is a stock operation under its guard,   *)
(* or leaves the stock alone.                                               *)

(* A worker that is doing something does it for an order.                   *)
LEMMA Doer ==
    ASSUME ShopTypeOK, NEW w \in Workers, NEW op \in Ops, Doing(w, op)
    PROVE  req[w] \in Request /\ req[w].order \in Orders
    BY DEF ShopTypeOK, Ops, Request, Idle, Doing

(* The stock_epoch of an order document is an explored epoch.               *)
LEMMA EpochOf ==
    ASSUME ShopTypeOK, NEW o \in Orders
    PROVE  /\ order[o] \in OrderDoc
           /\ order[o].epoch \in Epochs
           /\ order[o].epoch + 1 <= MaxEpoch => order[o].epoch + 1 \in Epochs
           /\ 0 \in Epochs
    BY DEF ShopTypeOK, OrderDoc, Epochs

(* finalizeCapturedPayment's sale, by the hold or by available stock.       *)
LEMMA SellOrderKeeps ==
    ASSUME StockInv, ShopTypeOK, NEW o \in Orders, CanFulfil(o), SellOrder(o)
    PROVE  StockInv'
<1>1. order[o].epoch \in Epochs
    BY EpochOf
<1>2. CASE HasHold(o)
    BY <1>1, <1>2, CommitReservationKeeps DEF CanFulfil, SellOrder
<1>3. CASE ~HasHold(o)
    BY <1>1, <1>3, CommitLinesKeeps DEF CanFulfil, SellOrder
<1> QED BY <1>2, <1>3

(* No transaction of a handler in progress oversells.                       *)
LEMMA HandlerKeepsStock ==
    ASSUME Inv, NEW w \in Workers, Handler(w)
    PROVE  StockInv'
<1> DEFINE o == req[w].order
<1> USE DEF Inv
<1>1. CASE RenewExtends(w)
    BY <1>1, ExtendKeeps DEF RenewExtends
<1>2. CASE RenewReserves(w)
    <2>1. o \in Orders
        BY <1>2, Doer DEF RenewReserves, Ops
    <2>2. order[o].epoch + 1 \in Epochs
        BY <1>2, <2>1, EpochOf DEF RenewReserves
    <2> QED BY <1>2, <2>1, <2>2, ReserveKeeps DEF RenewReserves
<1>3. CASE CaptureConfirms(w)
    <2>1. o \in Orders
        BY <1>3, Doer DEF CaptureConfirms, Ops
    <2> QED BY <1>3, <2>1, SellOrderKeeps DEF CaptureConfirms
<1>4. CASE RefundCapture(w)
    <2>1. o \in Orders
        BY <1>4, Doer DEF RefundCapture, Ops
    <2>2. CASE HasHold(o)
        BY <1>4, <2>1, <2>2, ReleaseKeeps DEF RefundCapture
    <2>3. CASE ~HasHold(o)
        BY <1>4, <2>3, StockUnchanged DEF RefundCapture
    <2> QED BY <2>2, <2>3
<1>5. CASE ExpiryRelease(w)
    <2>1. o \in Orders
        BY <1>5, Doer DEF ExpiryRelease, Ops
    <2> QED BY <1>5, <2>1, ReleaseKeeps DEF ExpiryRelease
<1>6. CASE ReopenSells(w)
    <2>1. o \in Orders
        BY <1>6, Doer DEF ReopenSells, Ops
    <2>2. order[o].epoch + 1 \in Epochs
        BY <1>6, <2>1, EpochOf DEF ReopenSells
    <2> QED BY <1>6, <2>1, <2>2, CommitLinesKeeps DEF ReopenSells
<1>7. CASE Cancel(w)
    <2>1. o \in Orders
        BY <1>7, Doer DEF Cancel, Ops
    <2>2. CASE order[o].stockState = "reserved"
        BY <1>7, <2>1, <2>2, ReleaseKeeps DEF Cancel
    <2>3. CASE order[o].stockState = "committed"
        <3>1. order[o].epoch \in Epochs
            BY <2>1, EpochOf
        <3> QED BY <1>7, <2>1, <2>3, <3>1, RestockKeeps DEF Cancel
    <2>4. CASE order[o].stockState \notin {"reserved", "committed"}
        BY <1>7, <2>4, StockUnchanged DEF Cancel
    <2> QED BY <2>2, <2>3, <2>4
<1>8. CASE \/ RenewRefused(w) \/ CaptureUnfulfillable(w) \/ CaptureReplayed(w)
           \/ RefundCaptureTaken(w) \/ CancelLost(w) \/ AfterCancel(w) \/ ReopenRelabels(w)
           \/ ReopenRefused(w) \/ RefundClaim(w) \/ RefundAnswer(w)
    <2>1. UNCHANGED stockVars
        BY <1>8 DEF RenewRefused, CaptureUnfulfillable, CaptureReplayed, RefundCaptureTaken,
           CancelLost, AfterCancel, ReopenRelabels, ReopenRefused, RefundClaim, RefundAnswer
    <2> QED BY <2>1, StockUnchanged
<1> QED BY <1>1, <1>2, <1>3, <1>4, <1>5, <1>6, <1>7, <1>8 DEF Handler

(* The reads that start a handler leave the stock service alone.            *)
LEMMA StartKeepsStock ==
    ASSUME Inv, NEW w \in Workers, NEW o \in Orders, Start(w, o)
    PROVE  StockInv'
<1> USE DEF Inv
<1>1. UNCHANGED stockVars
    BY DEF Start, RetryRead, CaptureRead, ExpiryCheck, ExpiryBlind, CancelRead, ReopenRead, RetryRefund
<1> QED BY <1>1, StockUnchanged

(* Placement, manual payment and the payment cron do not oversell.          *)
LEMMA OneStepKeepsStock ==
    ASSUME Inv, NEW o \in Orders, OneStep(o)
    PROVE  StockInv'
<1> USE DEF Inv
<1>1. CASE PlacePrepaid(o)
    BY <1>1, EpochOf, ReserveKeeps DEF PlacePrepaid
<1>2. CASE PlaceCod(o)
    BY <1>2, EpochOf, CommitLinesKeeps DEF PlaceCod
<1>3. CASE PayAtGateway(o)
    BY <1>3, StockUnchanged DEF PayAtGateway
<1>4. CASE RecordManualPayment(o)
    BY <1>4, SellOrderKeeps DEF RecordManualPayment
<1>5. CASE FailUnpaid(o)
    BY <1>5, ReleaseKeeps DEF FailUnpaid
<1> QED BY <1>1, <1>2, <1>3, <1>4, <1>5 DEF OneStep

(* No step of the system oversells.                                         *)
LEMMA StepKeepsStock ==
    ASSUME Inv, [Next]_vars
    PROVE  StockInv'
<1> USE DEF Inv
<1>1. ASSUME NEW w \in Workers, Handler(w) PROVE StockInv'
    BY <1>1, HandlerKeepsStock
<1>2. ASSUME NEW w \in Workers, NEW o \in Orders, Start(w, o) PROVE StockInv'
    BY <1>2, StartKeepsStock
<1>3. ASSUME NEW w \in Workers, Crash(w) PROVE StockInv'
    BY <1>3, StockUnchanged DEF Crash
<1>4. ASSUME NEW o \in Orders, OneStep(o) PROVE StockInv'
    BY <1>4, OneStepKeepsStock
<1>5. ASSUME NEW s \in Skus, NEW d \in AdjustDeltas, Adjust(s, d) PROVE StockInv'
    BY <1>5, AdjustKeeps DEF Adjust
<1>6. ASSUME NEW s \in Skus, NEW m \in Modes, Edit(s, m) PROVE StockInv'
    BY <1>6, EditKeeps DEF Edit
<1>7. ASSUME NEW h \in holds, Lapse(h) PROVE StockInv'
    BY <1>7, LapseKeeps DEF Lapse
<1>8. CASE UNCHANGED vars
    BY <1>8, StockUnchanged DEF vars, stockVars
<1> QED BY <1>1, <1>2, <1>3, <1>4, <1>5, <1>6, <1>7, <1>8 DEF Next

-----------------------------------------------------------------------------
(* The types of orders, workers and bounds.                                 *)


ReqOK == req \in [Workers -> Request \cup {Idle}] /\ FlagSeen

(* Starting a handler for an order keeps the type of req.                   *)
LEMMA BeginType ==
    ASSUME ShopTypeOK, FlagSeen, NEW w \in Workers, NEW op \in Ops, NEW o \in Orders,
           NEW seen \in StockState \cup StockFlag, Begin(w, op, o, seen),
           op = "refund_capture" => seen \in StockFlag
    PROVE  ReqOK'
    BY DEF ShopTypeOK, FlagSeen, ReqOK, Begin, Request, Doing

(* Ending a handler keeps the type of req.                                  *)
LEMMA FinishType ==
    ASSUME ShopTypeOK, FlagSeen, NEW w \in Workers, Finish(w)
    PROVE  ReqOK'
    BY DEF ShopTypeOK, FlagSeen, ReqOK, Finish, Idle, Doing

(* Writing an order document keeps the type of order.                       *)
LEMMA SetType ==
    ASSUME ShopTypeOK, NEW o \in Orders, NEW doc \in OrderDoc, Set(o, doc)
    PROVE  order' \in [Orders -> OrderDoc]
    BY DEF ShopTypeOK, Set

(* A handler that only moves the status writes an order document.           *)
LEMMA StatusDoc ==
    ASSUME NEW doc \in OrderDoc, NEW st \in {"confirmed", "cancelled"}
    PROVE  [doc EXCEPT !.status = st] \in OrderDoc
<1>1. st \in OrderStatus
    BY DEF OrderStatus
<1> QED BY <1>1 DEF OrderDoc

(* cancelOrder marks an order whose sale it put back.                       *)
LEMMA RestockedDoc ==
    ASSUME NEW doc \in OrderDoc
    PROVE  [doc EXCEPT !.status = "cancelled", !.stockState = "restocked", !.reverted = TRUE]
               \in OrderDoc
<1>1. "cancelled" \in OrderStatus /\ "restocked" \in StockState
    BY DEF OrderStatus, StockState
<1> QED BY <1>1 DEF OrderDoc

(* A reopening that sells nothing marks the order confirmed again.          *)
LEMMA RelabelledDoc ==
    ASSUME NEW doc \in OrderDoc
    PROVE  [doc EXCEPT !.status = "confirmed", !.reverted = FALSE] \in OrderDoc
<1>1. "confirmed" \in OrderStatus
    BY DEF OrderStatus
<1> QED BY <1>1 DEF OrderDoc

(* attemptRefund writes the payment and the refund status together.         *)
LEMMA RefundDoc ==
    ASSUME NEW doc \in OrderDoc, NEW p \in {"refund_pending", "refunded", "refund_failed"},
           NEW r \in {"processing", "processed", "failed"}
    PROVE  [doc EXCEPT !.pay = p, !.refund = r] \in OrderDoc
<1>1. p \in PaymentStatus /\ r \in RefundStatus
    BY DEF PaymentStatus, RefundStatus
<1> QED BY <1>1 DEF OrderDoc

(* attemptRefund notes that Razorpay took the refund.                       *)
LEMMA AcceptedDoc ==
    ASSUME NEW doc \in OrderDoc
    PROVE  [doc EXCEPT !.refund = "accepted"] \in OrderDoc
<1>1. "accepted" \in RefundStatus
    BY DEF RefundStatus
<1> QED BY <1>1 DEF OrderDoc

(* refundUnfulfillableCapture flags the order it cancels.                   *)
LEMMA FlaggedDoc ==
    ASSUME NEW doc \in OrderDoc, NEW fl \in StockFlag
    PROVE  [doc EXCEPT !.pay = "paid", !.status = "cancelled", !.flag = fl] \in OrderDoc
<1>1. "paid" \in PaymentStatus /\ "cancelled" \in OrderStatus
    BY DEF PaymentStatus, OrderStatus
<1> QED BY <1>1 DEF OrderDoc

(* retryPayment and the reopening open the next epoch.                      *)
LEMMA NextEpochDoc ==
    ASSUME NEW doc \in OrderDoc, NEW e \in Epochs
    PROVE  /\ [doc EXCEPT !.epoch = e, !.stockState = "reserved"] \in OrderDoc
           /\ [doc EXCEPT !.epoch = e, !.status = "confirmed"] \in OrderDoc
<1>1. "reserved" \in StockState /\ "confirmed" \in OrderStatus
    BY DEF StockState, OrderStatus
<1>2. [doc EXCEPT !.epoch = e, !.stockState = "reserved"] \in OrderDoc
    BY <1>1 DEF OrderDoc
<1>3. [doc EXCEPT !.epoch = e, !.status = "confirmed"] \in OrderDoc
    BY <1>1 DEF OrderDoc
<1> QED BY <1>2, <1>3

(* The documents the handlers write are order documents.                    *)
LEMMA DocTypes ==
    ASSUME ShopTypeOK, NEW o \in Orders
    PROVE  /\ order[o] \in OrderDoc
           /\ AfterRelease(order[o]) \in OrderDoc
           /\ MarkCommitted(order[o]) \in OrderDoc
           /\ PaidDoc(o) \in OrderDoc
           /\ NoOrder \in OrderDoc
<1>1. order[o] \in OrderDoc /\ 0 \in Epochs
    BY EpochOf
<1> USE <1>1 DEF OrderDoc, OrderStatus, PaymentStatus, StockState, StockFlag, RefundStatus
<1>2. AfterRelease(order[o]) \in OrderDoc
    BY DEF AfterRelease
<1>3. MarkCommitted(order[o]) \in OrderDoc
    BY DEF MarkCommitted
<1>4. PaidDoc(o) \in OrderDoc
    BY DEF PaidDoc, MarkCommitted
<1>5. NoOrder \in OrderDoc
    BY DEF NoOrder
<1> QED BY <1>2, <1>3, <1>4, <1>5

ShopInv == ShopTypeOK /\ FlagSeen

(* A step of a handler in progress writes order documents and requests.     *)
LEMMA HandlerKeepsShop ==
    ASSUME ShopInv, NEW w \in Workers, Handler(w)
    PROVE  ShopInv'
<1> DEFINE o == req[w].order
<1> USE DEF ShopInv
<1>0. UNCHANGED <<captured, adjusts, edits>>
    BY DEF Handler, RenewExtends, RenewReserves, RenewRefused, CaptureConfirms,
       CaptureUnfulfillable, CaptureReplayed, RefundCapture, RefundCaptureTaken, ExpiryRelease,
       Cancel, CancelLost, AfterCancel, ReopenSells, ReopenRelabels, ReopenRefused, RefundClaim, RefundAnswer
<1>1. o \in Orders
    BY Doer DEF Ops, Handler, RenewExtends, RenewReserves, RenewRefused, CaptureConfirms,
       CaptureUnfulfillable, CaptureReplayed, RefundCapture, RefundCaptureTaken, ExpiryRelease,
       Cancel, CancelLost, AfterCancel, ReopenSells, ReopenRelabels, ReopenRefused, RefundClaim, RefundAnswer
<1>2. ReqOK'
    <2>1. CASE Finish(w)
        BY <2>1, FinishType
    <2>2. CASE \E flag \in {"cancelled", "out_of_stock"} : Begin(w, "refund_capture", o, flag)
        BY <1>1, <2>2, BeginType DEF Ops, StockFlag
    <2>3. CASE \E op \in {"cancelled", "refund", "refund_call"} : Begin(w, op, o, "none")
        BY <1>1, <2>3, BeginType DEF Ops, StockFlag
    <2> QED
        BY <2>1, <2>2, <2>3
        DEF Handler, RenewExtends, RenewReserves, RenewRefused, CaptureConfirms,
            CaptureUnfulfillable, CaptureReplayed, RefundCapture, RefundCaptureTaken,
            ExpiryRelease, Cancel, CancelLost, AfterCancel, ReopenSells, ReopenRelabels, ReopenRefused,
            RefundClaim, RefundAnswer
<1>3. order' \in [Orders -> OrderDoc]
    <2>0. order[o] \in OrderDoc /\ AfterRelease(order[o]) \in OrderDoc
        BY <1>1, DocTypes
    <2>1. CASE RenewReserves(w)
        <3>1. order[o].epoch + 1 \in Epochs
            BY <1>1, <2>1, EpochOf DEF RenewReserves
        <3>2. [order[o] EXCEPT !.epoch = order[o].epoch + 1, !.stockState = "reserved"] \in OrderDoc
            BY <2>0, <3>1, NextEpochDoc
        <3> QED BY <1>1, <2>1, <3>2, SetType DEF RenewReserves
    <2>2. CASE CaptureConfirms(w)
        BY <1>1, <2>2, DocTypes, SetType DEF CaptureConfirms
    <2>3. CASE RefundCapture(w)
        <3>1. req[w].seen \in StockFlag
            BY <2>3 DEF FlagSeen, RefundCapture, StockFlag
        <3>2. ASSUME NEW doc \in OrderDoc
              PROVE  [doc EXCEPT !.pay = "paid", !.status = "cancelled", !.flag = req[w].seen]
                         \in OrderDoc
            BY <3>1, FlaggedDoc
        <3>3. PICK doc \in OrderDoc :
                 Set(o, [doc EXCEPT !.pay = "paid", !.status = "cancelled", !.flag = req[w].seen])
            BY <2>0, <2>3 DEF RefundCapture
        <3> QED BY <1>1, <3>2, <3>3, SetType
    <2>4. CASE ExpiryRelease(w)
        BY <1>1, <2>0, <2>4, SetType DEF ExpiryRelease
    <2>5. CASE ReopenSells(w)
        <3> DEFINE doc == [order[o] EXCEPT !.epoch = order[o].epoch + 1, !.status = "confirmed"]
        <3>1. order[o].epoch + 1 \in Epochs
            BY <1>1, <2>5, EpochOf DEF ReopenSells
        <3>2. doc \in OrderDoc
            BY <2>0, <3>1, NextEpochDoc
        <3>3. MarkCommitted(doc) \in OrderDoc
            <4> HIDE DEF doc
            <4> QED BY <3>2 DEF MarkCommitted, OrderDoc, StockState
        <3> QED BY <1>1, <2>5, <3>3, SetType DEF ReopenSells
    <2>6. CASE ReopenRelabels(w)
        <3>1. [order[o] EXCEPT !.status = "confirmed", !.reverted = FALSE] \in OrderDoc
            BY <2>0, RelabelledDoc
        <3> QED BY <1>1, <2>6, <3>1, SetType DEF ReopenRelabels
    <2>7. CASE RefundClaim(w)
        <3>1. [order[o] EXCEPT !.pay = "refund_pending", !.refund = "processing"] \in OrderDoc
            BY <2>0, RefundDoc
        <3> QED BY <1>1, <2>7, <3>1, SetType DEF RefundClaim, ShopTypeOK
    <2>8. CASE RefundAnswer(w)
        <3>1. [order[o] EXCEPT !.pay = "refunded", !.refund = "processed"] \in OrderDoc
            BY <2>0, RefundDoc
        <3>2. [order[o] EXCEPT !.refund = "accepted"] \in OrderDoc
            BY <2>0, AcceptedDoc
        <3>3. [order[o] EXCEPT !.pay = "refund_failed", !.refund = "failed"] \in OrderDoc
            BY <2>0, RefundDoc
        <3> QED BY <1>1, <2>0, <2>8, <3>1, <3>2, <3>3, SetType DEF RefundAnswer
    <2>9. CASE Cancel(w)
        <3>1. [AfterRelease(order[o]) EXCEPT !.status = "cancelled"] \in OrderDoc
            BY <2>0, StatusDoc
        <3>2. [order[o] EXCEPT !.status = "cancelled", !.stockState = "restocked",
                               !.reverted = TRUE] \in OrderDoc
            BY <2>0, RestockedDoc
        <3>3. [order[o] EXCEPT !.status = "cancelled"] \in OrderDoc
            BY <2>0, StatusDoc
        <3> QED BY <1>1, <2>9, <3>1, <3>2, <3>3, SetType DEF Cancel
    <2>10. CASE UNCHANGED order
        BY <2>10 DEF ShopTypeOK
    <2> QED
        BY <2>1, <2>2, <2>3, <2>4, <2>5, <2>6, <2>7, <2>8, <2>9, <2>10
        DEF Handler, RenewExtends, RenewRefused, CaptureUnfulfillable, CaptureReplayed,
            RefundCaptureTaken, CancelLost, AfterCancel, ReopenRefused
<1> QED BY <1>0, <1>2, <1>3 DEF ShopTypeOK, ReqOK

(* The reads that start a handler begin well-formed requests.               *)
LEMMA StartKeepsShop ==
    ASSUME ShopInv, NEW w \in Workers, NEW o \in Orders, Start(w, o)
    PROVE  ShopInv'
<1> USE DEF ShopInv
<1>1. UNCHANGED <<order, captured, adjusts, edits>>
    BY DEF Start, RetryRead, CaptureRead, ExpiryCheck, ExpiryBlind, CancelRead, ReopenRead, RetryRefund
<1>2. ReqOK'
    <2>1. order[o].stockState \in StockState
        BY EpochOf DEF OrderDoc
    <2>2. CASE \E op \in {"renew", "reopen"} : Begin(w, op, o, order[o].stockState)
        BY <2>1, <2>2, BeginType DEF Ops
    <2>3. CASE \E op \in {"capture", "release", "cancel", "refund"} : Begin(w, op, o, "none")
        BY <2>3, BeginType DEF Ops, StockFlag
    <2> QED BY <2>2, <2>3
            DEF Start, RetryRead, CaptureRead, ExpiryCheck, ExpiryBlind, CancelRead, ReopenRead, RetryRefund
<1> QED BY <1>1, <1>2 DEF ShopTypeOK, ReqOK

(* Placement, manual payment and the payment cron write order documents.    *)
LEMMA OneStepKeepsShop ==
    ASSUME ShopInv, NEW o \in Orders, OneStep(o)
    PROVE  ShopInv'
<1> USE DEF ShopInv
<1>1. UNCHANGED <<req, adjusts, edits>> /\ captured' \subseteq Orders
    BY DEF ShopTypeOK, OneStep, PlacePrepaid, PlaceCod, PayAtGateway, RecordManualPayment,
       FailUnpaid
<1>2. order' \in [Orders -> OrderDoc]
    <2> USE DEF OrderDoc, OrderStatus, PaymentStatus, StockState
    <2>0. NoOrder \in OrderDoc /\ AfterRelease(order[o]) \in OrderDoc /\ PaidDoc(o) \in OrderDoc
        BY DocTypes
    <2>1. CASE PlacePrepaid(o)
        <3>1. [NoOrder EXCEPT !.status = "pending", !.online = TRUE, !.stockState = "reserved"]
                 \in OrderDoc
            BY <2>0
        <3> QED BY <2>1, <3>1, SetType DEF PlacePrepaid
    <2>2. CASE PlaceCod(o)
        <3>1. MarkCommitted([NoOrder EXCEPT !.status = "processing"]) \in OrderDoc
            BY <2>0, ZenonT(60) DEF MarkCommitted
        <3> QED BY <2>2, <3>1, SetType DEF PlaceCod
    <2>3. CASE RecordManualPayment(o)
        <3>1. [PaidDoc(o) EXCEPT !.manual = TRUE] \in OrderDoc
            BY <2>0
        <3> QED BY <2>3, <3>1, SetType DEF RecordManualPayment
    <2>4. CASE FailUnpaid(o)
        <3>1. [AfterRelease(order[o]) EXCEPT !.status = "failed", !.pay = "failed"] \in OrderDoc
            BY <2>0
        <3> QED BY <2>4, <3>1, SetType DEF FailUnpaid
    <2>5. CASE PayAtGateway(o)
        BY <2>5 DEF PayAtGateway, ShopTypeOK
    <2> QED BY <2>1, <2>2, <2>3, <2>4, <2>5 DEF OneStep
<1>3. FlagSeen'
    BY <1>1 DEF FlagSeen, Doing
<1> QED BY <1>1, <1>2, <1>3 DEF ShopTypeOK

(* Every step keeps the types of the shop's variables.                      *)
LEMMA StepKeepsShop ==
    ASSUME ShopInv, [Next]_vars
    PROVE  ShopInv'
<1> USE DEF ShopInv
<1>1. ASSUME NEW w \in Workers, Handler(w) PROVE ShopInv'
    BY <1>1, HandlerKeepsShop
<1>2. ASSUME NEW w \in Workers, NEW o \in Orders, Start(w, o) PROVE ShopInv'
    BY <1>2, StartKeepsShop
<1>3. ASSUME NEW w \in Workers, Crash(w) PROVE ShopInv'
    BY <1>3, FinishType DEF Crash, ShopTypeOK, ReqOK
<1>4. ASSUME NEW o \in Orders, OneStep(o) PROVE ShopInv'
    BY <1>4, OneStepKeepsShop
<1>5. ASSUME NEW s \in Skus, NEW d \in AdjustDeltas, Adjust(s, d) PROVE ShopInv'
    BY <1>5 DEF Adjust, ShopTypeOK, FlagSeen, Doing
<1>6. ASSUME NEW s \in Skus, NEW m \in Modes, Edit(s, m) PROVE ShopInv'
    BY <1>6 DEF Edit, ShopTypeOK, FlagSeen, Doing
<1>7. ASSUME NEW h \in holds, Lapse(h) PROVE ShopInv'
    BY <1>7 DEF Lapse, ShopTypeOK, FlagSeen, Doing
<1>8. CASE UNCHANGED vars
    BY <1>8 DEF vars, ShopTypeOK, FlagSeen, Doing
<1> QED BY <1>1, <1>2, <1>3, <1>4, <1>5, <1>6, <1>7, <1>8 DEF Next

-----------------------------------------------------------------------------
(* The empty shop with its opening stock satisfies the invariant.           *)
LEMMA InitInv ==
    ASSUME Init
    PROVE  Inv
<1>1. StockTypeOK
    BY DEF Init, StockTypeOK, Modes
<1>2. IsFiniteSet(holds)
    BY FS_EmptySet DEF Init
<1>3. StrictModes /\ NoOversell
    BY DEF Init, StrictModes, NoOversell, Strict
<1>4. ShopTypeOK
    <2>1. NoOrder \in OrderDoc
        BY DEF NoOrder, OrderDoc, OrderStatus, PaymentStatus, StockState, StockFlag,
               RefundStatus, Epochs
    <2> QED BY <2>1 DEF Init, ShopTypeOK
<1>5. FlagSeen
    BY DEF Init, FlagSeen, Doing, Idle
<1> QED BY <1>1, <1>2, <1>3, <1>4, <1>5 DEF Inv, StockInv

(* Inv holds in every reachable state.                                      *)
THEOREM Invariance == Spec => []Inv
<1>1. Inv /\ [Next]_vars => Inv'
    BY StepKeepsStock, StepKeepsShop DEF Inv, ShopInv
<1> QED BY InitInv, <1>1, PTL DEF Spec

(* Every variable keeps its type under any interleaving of the handlers; in *)
(* particular reserved_quantity is never driven below zero.                 *)
THEOREM TypeCorrect == Spec => []TypeOK
<1>1. Inv => TypeOK
    BY DEF Inv, StockInv, ShopTypeOK, TypeOK
<1> QED BY Invariance, <1>1, PTL

(* No tracked SKU ever has more units reserved than on hand, so no unit is  *)
(* promised to two orders.                                                  *)
THEOREM NeverOversold == Spec => []NoOversell
<1>1. Inv => NoOversell
    BY DEF Inv, StockInv
<1> QED BY Invariance, <1>1, PTL

-----------------------------------------------------------------------------
(* Part 2: the rows of the ledger and the state of their order.             *)

Unsettled == {"none", "reserved", "released"}
Settled == {"committed", "restocked"}

FutureUnbooked == \A r \in ledger : r.epoch <= order[r.order].epoch

SettledIsFlagged ==
    \A o \in Orders : order[o].stockState \in Settled => order[o].stockReserved

BookedIsFlagged == \A r \in ledger : order[r.order].stockReserved

Books ==
    FutureUnbooked /\ EpochMatchesState /\ RestockHasSale /\ SettledIsFlagged /\ BookedIsFlagged

Placed(o) == order[o].status # "absent"

AbsentIsNew == \A o \in Orders : ~Placed(o) => order[o] = NoOrder

OnlyPlaced ==
    /\ \A o \in captured : Placed(o)
    /\ \A h \in holds : Placed(h.order)
    /\ \A w \in Workers : ~IsIdle(w) => Placed(req[w].order)

Papers == AbsentIsNew /\ OnlyPlaced /\ ReservedHasHold

\* What the proofs below take from OrderStock_proofs.
Typed == StockTypeOK /\ StrictModes /\ ShopTypeOK

-----------------------------------------------------------------------------
(* What a transaction may do to the ledger and the order, by kind.          *)

(* A ledger row is known by its kind, order, epoch and SKU.                 *)
LEMMA RowFields ==
    ASSUME NEW kind, NEW o, NEW e, NEW s
    PROVE  /\ Row(kind, o, e, s).kind = kind
           /\ Row(kind, o, e, s).order = o
           /\ Row(kind, o, e, s).epoch = e
           /\ Row(kind, o, e, s).sku = s
    BY DEF Row

(* Only the written order's document changes.                               *)
LEMMA SetDoc ==
    ASSUME ShopTypeOK, NEW o \in Orders, NEW doc, Set(o, doc)
    PROVE  /\ order'[o] = doc
           /\ \A p \in Orders : p # o => order'[p] = order[p]
    BY DEF ShopTypeOK, Set

(* No row of a later epoch than the order's is booked.                      *)
LEMMA NoRowAhead ==
    ASSUME Books, NEW kind, NEW o \in Orders, NEW e \in Epochs, NEW s,
           order[o].epoch \in Epochs, e > order[o].epoch
    PROVE  Row(kind, o, e, s) \notin ledger
<1>1. ~(e <= order[o].epoch)
    BY DEF Epochs
<1> QED BY <1>1, RowFields DEF Books, FutureUnbooked

(* A transaction that books no row may move an order among the unsettled    *)
(* states, or to one of them under a later epoch.                           *)
LEMMA UnbookedStep ==
    ASSUME Typed, Books, NEW o \in Orders, NEW doc \in OrderDoc, Set(o, doc),
           ledger' = ledger, doc.stockReserved = order[o].stockReserved,
           \/ doc.epoch = order[o].epoch /\ doc.stockState = order[o].stockState
           \/ doc.epoch = order[o].epoch /\ doc.stockState \in Unsettled
                                         /\ order[o].stockState \in Unsettled
           \/ doc.epoch > order[o].epoch /\ doc.stockState \in Unsettled
    PROVE  Books'
<1>0. order[o].epoch \in Epochs /\ doc.epoch \in Epochs
    BY EpochOf DEF Typed, OrderDoc
<1>1. order'[o] = doc /\ \A p \in Orders : p # o => order'[p] = order[p]
    BY SetDoc DEF Typed
<1>2. FutureUnbooked'
    <2> SUFFICES ASSUME NEW r \in ledger PROVE r.epoch <= order'[r.order].epoch
        BY DEF FutureUnbooked
    <2>1. r.epoch <= order[r.order].epoch /\ r.order \in Orders /\ r.epoch \in Epochs
        BY DEF Typed, StockTypeOK, LedgerRow, Books, FutureUnbooked
    <2>2. order[o].epoch <= doc.epoch
        BY <1>0 DEF Epochs
    <2> QED BY <1>0, <1>1, <2>1, <2>2 DEF Epochs
<1>3. EpochMatchesState'
    <2> SUFFICES ASSUME NEW p \in Orders, NEW s \in SkusOf(p) \cap Strict
                 PROVE  /\ order'[p].stockState = "committed" =>
                             /\ Row("commit", p, order'[p].epoch, s) \in ledger
                             /\ Row("restock", p, order'[p].epoch, s) \notin ledger
                        /\ order'[p].stockState = "restocked" =>
                             /\ Row("commit", p, order'[p].epoch, s) \in ledger
                             /\ Row("restock", p, order'[p].epoch, s) \in ledger
                        /\ order'[p].stockState \in {"none", "reserved", "released"} =>
                             /\ Row("commit", p, order'[p].epoch, s) \notin ledger
                             /\ Row("restock", p, order'[p].epoch, s) \notin ledger
        BY Zenon DEF EpochMatchesState, SkusOf, Row
    <2>1. CASE p = o /\ doc.epoch > order[o].epoch
        <3>1. /\ Row("commit", o, doc.epoch, s) \notin ledger
              /\ Row("restock", o, doc.epoch, s) \notin ledger
            BY <1>0, <2>1, NoRowAhead
        <3>2. doc.stockState \in Unsettled
            BY <1>0, <2>1 DEF Epochs
        <3> QED BY <1>1, <2>1, <3>1, <3>2 DEF Unsettled
    <2>2. CASE p = o /\ doc.epoch = order[o].epoch
        <3>1. \/ doc.stockState = order[o].stockState
              \/ doc.stockState \in Unsettled /\ order[o].stockState \in Unsettled
            BY <1>0, <2>2 DEF Epochs
        <3> QED BY <1>1, <2>2, <3>1 DEF Books, EpochMatchesState, Unsettled
    <2>3. CASE p # o
        BY <1>1, <2>3 DEF Books, EpochMatchesState
    <2> QED BY <1>0, <2>1, <2>2, <2>3 DEF Epochs
<1>4. RestockHasSale'
    BY DEF Books, RestockHasSale, Row
<1>5. SettledIsFlagged'
    BY <1>1 DEF Books, SettledIsFlagged, Settled, Unsettled
<1>6. BookedIsFlagged'
    BY <1>1 DEF Books, BookedIsFlagged, Typed, StockTypeOK, LedgerRow
<1> QED BY <1>2, <1>3, <1>4, <1>5, <1>6 DEF Books

\* The rows of one kind booked for an order under an epoch.
RowsBooked(kind, o, e, T) == {Row(kind, o, e, s) : s \in T}

(* A transaction that books the sale of every strict line, under an epoch   *)
(* that has none yet, and marks the order committed.                        *)
LEMMA SaleStep ==
    ASSUME Typed, Books, NEW o \in Orders, NEW doc \in OrderDoc, Set(o, doc),
           NEW T \in SUBSET SkusOf(o), SkusOf(o) \cap Strict \subseteq T,
           ledger' = ledger \cup RowsBooked("commit", o, doc.epoch, T),
           doc.stockState = "committed", doc.stockReserved,
           \/ doc.epoch = order[o].epoch /\ order[o].stockState \in Unsettled
           \/ doc.epoch > order[o].epoch
    PROVE  Books'
<1>0. order[o].epoch \in Epochs /\ doc.epoch \in Epochs /\ doc.epoch >= order[o].epoch
    BY EpochOf DEF Typed, OrderDoc, Epochs
<1>1. order'[o] = doc /\ \A p \in Orders : p # o => order'[p] = order[p]
    BY SetDoc DEF Typed
<1>2. \A r \in ledger' : r \in ledger \/ /\ r.kind = "commit" /\ r.order = o
                                         /\ r.epoch = doc.epoch /\ r.sku \in T
    BY RowFields DEF RowsBooked
<1>3. \A s \in SkusOf(o) \cap Strict : Row("commit", o, doc.epoch, s) \in ledger'
    BY DEF RowsBooked
<1>4. \A s \in SkusOf(o) \cap Strict : Row("restock", o, doc.epoch, s) \notin ledger
    <2> TAKE s \in SkusOf(o) \cap Strict
    <2>1. CASE doc.epoch > order[o].epoch
        BY <1>0, <2>1, NoRowAhead
    <2>2. CASE doc.epoch = order[o].epoch /\ order[o].stockState \in Unsettled
        BY <2>2 DEF Books, EpochMatchesState, Unsettled
    <2> QED BY <2>1, <2>2
<1>5. \A kind, p, e, s : p # o => (Row(kind, p, e, s) \in ledger' <=> Row(kind, p, e, s) \in ledger)
    BY RowFields DEF RowsBooked
<1>6. \A e, s : Row("restock", o, e, s) \in ledger' => Row("restock", o, e, s) \in ledger
    BY RowFields DEF RowsBooked
<1>7. FutureUnbooked'
    <2> SUFFICES ASSUME NEW r \in ledger' PROVE r.epoch <= order'[r.order].epoch
        BY DEF FutureUnbooked
    <2>1. CASE r \in ledger
        <3>1. r.epoch <= order[r.order].epoch /\ r.order \in Orders /\ r.epoch \in Epochs
            BY <2>1 DEF Typed, StockTypeOK, LedgerRow, Books, FutureUnbooked
        <3> QED BY <1>0, <1>1, <3>1 DEF Epochs
    <2>2. CASE r.order = o /\ r.epoch = doc.epoch
        BY <1>0, <1>1, <2>2 DEF Epochs
    <2> QED BY <1>2, <2>1, <2>2
<1>8. EpochMatchesState'
    <2> SUFFICES ASSUME NEW p \in Orders, NEW s \in SkusOf(p) \cap Strict
                 PROVE  /\ order'[p].stockState = "committed" =>
                             /\ Row("commit", p, order'[p].epoch, s) \in ledger'
                             /\ Row("restock", p, order'[p].epoch, s) \notin ledger'
                        /\ order'[p].stockState = "restocked" =>
                             /\ Row("commit", p, order'[p].epoch, s) \in ledger'
                             /\ Row("restock", p, order'[p].epoch, s) \in ledger'
                        /\ order'[p].stockState \in {"none", "reserved", "released"} =>
                             /\ Row("commit", p, order'[p].epoch, s) \notin ledger'
                             /\ Row("restock", p, order'[p].epoch, s) \notin ledger'
        BY Zenon DEF EpochMatchesState, SkusOf, Row
    <2>1. CASE p = o
        BY <1>1, <1>3, <1>4, <1>6, <2>1
    <2>2. CASE p # o
        BY <1>1, <1>5, <2>2 DEF Books, EpochMatchesState
    <2> QED BY <2>1, <2>2
<1>9. RestockHasSale'
    BY <1>2 DEF Books, RestockHasSale, Row
<1>10. SettledIsFlagged'
    BY <1>1 DEF Books, SettledIsFlagged
<1>11. BookedIsFlagged'
    BY <1>1, <1>2 DEF Books, BookedIsFlagged, Typed, StockTypeOK, LedgerRow
<1> QED BY <1>7, <1>8, <1>9, <1>10, <1>11 DEF Books

(* A transaction that books the restock of a committed order's lines and    *)
(* marks it restocked.                                                      *)
LEMMA RestockStep ==
    ASSUME Typed, Books, NEW o \in Orders, NEW doc \in OrderDoc, Set(o, doc),
           NEW T \in SUBSET SkusOf(o), SkusOf(o) \cap Strict \subseteq T,
           ledger' = ledger \cup RowsBooked("restock", o, doc.epoch, T),
           doc.epoch = order[o].epoch, doc.stockReserved = order[o].stockReserved,
           order[o].stockState = "committed", doc.stockState = "restocked"
    PROVE  Books'
<1>0. doc.epoch \in Epochs
    BY DEF OrderDoc
<1>1. order'[o] = doc /\ \A p \in Orders : p # o => order'[p] = order[p]
    BY SetDoc DEF Typed
<1>2. \A r \in ledger' : r \in ledger \/ /\ r.kind = "restock" /\ r.order = o
                                         /\ r.epoch = doc.epoch /\ r.sku \in T
    BY RowFields DEF RowsBooked
<1>3. \A s \in SkusOf(o) \cap Strict : /\ Row("commit", o, doc.epoch, s) \in ledger'
                                     /\ Row("restock", o, doc.epoch, s) \in ledger'
    BY DEF RowsBooked, Books, EpochMatchesState
<1>4. \A kind, p, e, s : p # o => (Row(kind, p, e, s) \in ledger' <=> Row(kind, p, e, s) \in ledger)
    BY RowFields DEF RowsBooked
<1>5. FutureUnbooked'
    <2> SUFFICES ASSUME NEW r \in ledger' PROVE r.epoch <= order'[r.order].epoch
        BY DEF FutureUnbooked
    <2>1. CASE r \in ledger
        <3>1. r.epoch <= order[r.order].epoch /\ r.order \in Orders
            BY <2>1 DEF Typed, StockTypeOK, LedgerRow, Books, FutureUnbooked
        <3> QED BY <1>1, <3>1
    <2>2. CASE r.order = o /\ r.epoch = doc.epoch
        BY <1>0, <1>1, <2>2 DEF Epochs
    <2> QED BY <1>2, <2>1, <2>2
<1>6. EpochMatchesState'
    <2> SUFFICES ASSUME NEW p \in Orders, NEW s \in SkusOf(p) \cap Strict
                 PROVE  /\ order'[p].stockState = "committed" =>
                             /\ Row("commit", p, order'[p].epoch, s) \in ledger'
                             /\ Row("restock", p, order'[p].epoch, s) \notin ledger'
                        /\ order'[p].stockState = "restocked" =>
                             /\ Row("commit", p, order'[p].epoch, s) \in ledger'
                             /\ Row("restock", p, order'[p].epoch, s) \in ledger'
                        /\ order'[p].stockState \in {"none", "reserved", "released"} =>
                             /\ Row("commit", p, order'[p].epoch, s) \notin ledger'
                             /\ Row("restock", p, order'[p].epoch, s) \notin ledger'
        BY Zenon DEF EpochMatchesState, SkusOf, Row
    <2>1. CASE p = o
        BY <1>1, <1>3, <2>1
    <2>2. CASE p # o
        BY <1>1, <1>4, <2>2 DEF Books, EpochMatchesState
    <2> QED BY <2>1, <2>2
<1>7. RestockHasSale'
    <2> SUFFICES ASSUME NEW r \in ledger', r.kind = "restock", r.sku \in Strict
                 PROVE  Row("commit", r.order, r.epoch, r.sku) \in ledger'
        BY Zenon DEF RestockHasSale, Row
    <2>1. CASE r \in ledger
        BY <2>1 DEF Books, RestockHasSale, Row
    <2>2. CASE r.order = o /\ r.epoch = doc.epoch /\ r.sku \in T
        BY <1>3, <2>2
    <2> QED BY <1>2, <2>1, <2>2
<1>8. SettledIsFlagged'
    BY <1>1 DEF Books, SettledIsFlagged, Settled
<1>9. BookedIsFlagged'
    BY <1>1, <1>2 DEF Books, BookedIsFlagged, SettledIsFlagged, Settled, Typed, StockTypeOK, LedgerRow
<1> QED BY <1>5, <1>6, <1>7, <1>8, <1>9 DEF Books

-----------------------------------------------------------------------------
(* The handlers' transactions are of these kinds.                           *)

(* commitLines books every strict line that has no sale under the epoch.    *)
LEMMA CommitLinesBooks ==
    ASSUME Typed, NEW o \in Orders, NEW e \in Epochs, CommitLines(o, e),
           \A s \in SkusOf(o) \cap Strict : Row("commit", o, e, s) \notin ledger
    PROVE  \E T \in SUBSET SkusOf(o) : /\ SkusOf(o) \cap Strict \subseteq T
                                       /\ ledger' = ledger \cup RowsBooked("commit", o, e, T)
<1> DEFINE T == {t \in ToSell(o, e) : Tracked(t)}
<1>1. ledger' = ledger \cup RowsBooked("commit", o, e, T)
    BY DEF CommitLines, RowsBooked
<1>2. T \subseteq SkusOf(o)
    BY DEF ToSell
<1>3. SkusOf(o) \cap Strict \subseteq T
    BY DEF ToSell, Typed, StrictModes, Tracked
<1> QED BY <1>1, <1>2, <1>3

(* commitReservation does, when the order has an ACTIVE hold.               *)
LEMMA CommitReservationBooks ==
    ASSUME Typed, NEW o \in Orders, NEW e \in Epochs, CommitReservation(o, e),
           HoldsOf(o) # {},
           \A s \in SkusOf(o) \cap Strict : Row("commit", o, e, s) \notin ledger
    PROVE  \E T \in SUBSET SkusOf(o) : /\ SkusOf(o) \cap Strict \subseteq T
                                       /\ ledger' = ledger \cup RowsBooked("commit", o, e, T)
<1> DEFINE T == {t \in ToSell(o, e) : Tracked(t) /\ HoldsOf(o) # {}}
<1>1. ledger' = ledger \cup RowsBooked("commit", o, e, T)
    BY DEF CommitReservation, RowsBooked
<1>2. T \subseteq SkusOf(o)
    BY DEF ToSell
<1>3. SkusOf(o) \cap Strict \subseteq T
    BY DEF ToSell, Typed, StrictModes, Tracked
<1> QED BY <1>1, <1>2, <1>3

(* A step that changes neither the orders nor the ledger keeps Books.       *)
LEMMA BooksUnchanged ==
    ASSUME Books, UNCHANGED <<order, ledger>>
    PROVE  Books'
    BY DEF Books, FutureUnbooked, EpochMatchesState, RestockHasSale, SettledIsFlagged,
           BookedIsFlagged, Row

(* The document a transaction writes is an order document.                  *)
LEMMA DocWritten ==
    ASSUME ShopTypeOK, ShopTypeOK', NEW o \in Orders, NEW doc, Set(o, doc)
    PROVE  doc \in OrderDoc
    BY SetDoc DEF ShopTypeOK

(* Fields of the documents that handlers derive from the one they found.    *)
LEMMA DocFields ==
    ASSUME ShopTypeOK, NEW o \in Orders
    PROVE  /\ AfterRelease(order[o]).epoch = order[o].epoch
           /\ AfterRelease(order[o]).stockReserved = order[o].stockReserved
           /\ AfterRelease(order[o]).status = order[o].status
           /\ AfterRelease(order[o]).pay = order[o].pay
           /\ AfterRelease(order[o]).stockState # "reserved"
           /\ \/ AfterRelease(order[o]).stockState = order[o].stockState
              \/ AfterRelease(order[o]).stockState = "released"
                 /\ order[o].stockState = "reserved"
           /\ PaidDoc(o).epoch = order[o].epoch
           /\ PaidDoc(o).stockState = "committed"
           /\ PaidDoc(o).stockReserved
           /\ PaidDoc(o).status = "confirmed"
<1>1. order[o] \in OrderDoc
    BY DEF ShopTypeOK
<1> QED BY <1>1 DEF AfterRelease, PaidDoc, MarkCommitted, OrderDoc

(* finalizeCapturedPayment and recordManualPayment: an order that was never *)
(* sold has every strict line booked, by its hold or from available stock.  *)
LEMMA PaymentSells ==
    ASSUME Typed, Books, ReservedHasHold, NEW o \in Orders, ~order[o].stockReserved,
           SellOrder(o)
    PROVE  \E T \in SUBSET SkusOf(o) :
              /\ SkusOf(o) \cap Strict \subseteq T
              /\ ledger' = ledger \cup RowsBooked("commit", o, order[o].epoch, T)
<1>1. order[o].stockState \in Unsettled /\ order[o].epoch \in Epochs
    BY EpochOf DEF Books, SettledIsFlagged, Settled, Unsettled, Typed, OrderDoc, StockState
<1>2. \A s \in SkusOf(o) \cap Strict : Row("commit", o, order[o].epoch, s) \notin ledger
    BY <1>1 DEF Books, EpochMatchesState, Unsettled
<1>3. CASE HasHold(o)
    BY <1>1, <1>2, <1>3, CommitReservationBooks DEF SellOrder, HasHold, ReservedHasHold
<1>4. CASE ~HasHold(o)
    BY <1>1, <1>2, <1>4, CommitLinesBooks DEF SellOrder
<1> QED BY <1>3, <1>4

(* It is sold under its epoch, which had no row yet.                        *)
LEMMA PaymentKeepsBooks ==
    ASSUME Typed, Books, ReservedHasHold, NEW o \in Orders, ~order[o].stockReserved,
           SellOrder(o), NEW doc \in OrderDoc, Set(o, doc), doc.epoch = order[o].epoch,
           doc.stockState = "committed", doc.stockReserved
    PROVE  Books'
<1>1. order[o].stockState \in Unsettled
    BY EpochOf DEF Books, SettledIsFlagged, Settled, Unsettled, Typed, OrderDoc, StockState
<1>2. PICK T \in SUBSET SkusOf(o) :
         /\ SkusOf(o) \cap Strict \subseteq T
         /\ ledger' = ledger \cup RowsBooked("commit", o, order[o].epoch, T)
    BY PaymentSells
<1> QED BY <1>1, <1>2, SaleStep

(* releaseReservation, with whatever status the handler then writes.        *)
LEMMA ReleaseKeepsBooks ==
    ASSUME Typed, Books, NEW o \in Orders, ledger' = ledger,
           NEW doc \in OrderDoc, Set(o, doc),
           \/ doc.stockState = order[o].stockState
           \/ doc.stockState = "released" /\ order[o].stockState = "reserved",
           doc.epoch = order[o].epoch, doc.stockReserved = order[o].stockReserved
    PROVE  Books'
    BY UnbookedStep DEF Unsettled

(* Every transaction of a handler in progress keeps the ledger rows in step *)
(* with the order's stock_state.                                            *)
LEMMA HandlerKeepsBooks ==
    ASSUME Inv, Inv', Books, ReservedHasHold, NEW w \in Workers, Handler(w)
    PROVE  Books'
<1> DEFINE o == req[w].order
<1>0. Typed /\ ShopTypeOK /\ ShopTypeOK'
    BY DEF Inv, StockInv, Typed
<1>1. o \in Orders
    BY <1>0, Doer DEF Ops, Handler, RenewExtends, RenewReserves, RenewRefused, CaptureConfirms,
       CaptureUnfulfillable, CaptureReplayed, RefundCapture, RefundCaptureTaken, ExpiryRelease,
       Cancel, CancelLost, AfterCancel, ReopenSells, ReopenRelabels, ReopenRefused, RefundClaim,
       RefundAnswer
<1>2. order[o] \in OrderDoc /\ order[o].epoch \in Epochs
    BY <1>0, <1>1, EpochOf
<1>3. CASE RenewReserves(w)
    <2> DEFINE doc == [order[o] EXCEPT !.epoch = order[o].epoch + 1, !.stockState = "reserved"]
    <2>1. Set(o, doc) /\ ledger' = ledger
        BY <1>3 DEF RenewReserves, ReserveOrder
    <2>2. doc.epoch > order[o].epoch /\ doc.stockState \in Unsettled
          /\ doc.stockReserved = order[o].stockReserved
        BY <1>2 DEF OrderDoc, Unsettled, Epochs
    <2>3. doc \in OrderDoc
        BY <1>0, <1>1, <2>1, DocWritten
    <2> HIDE DEF doc
    <2> QED BY <1>0, <1>1, <2>1, <2>2, <2>3, UnbookedStep
<1>4. CASE CaptureConfirms(w)
    <2>1. SellOrder(o) /\ Set(o, PaidDoc(o)) /\ ~order[o].stockReserved
        BY <1>4 DEF CaptureConfirms, Finalizable
    <2>2. PaidDoc(o) \in OrderDoc
        BY <1>0, <1>1, DocTypes
    <2> QED BY <1>0, <1>1, <2>1, <2>2, DocFields, PaymentKeepsBooks
<1>5. CASE RefundCapture(w)
    <2> DEFINE found == IF HasHold(o) THEN AfterRelease(order[o]) ELSE order[o]
               doc == [found EXCEPT !.pay = "paid", !.status = "cancelled", !.flag = req[w].seen]
    <2>1. Set(o, doc) /\ ledger' = ledger
        BY <1>5 DEF RefundCapture, ReleaseReservation, stockVars
    <2>2. doc \in OrderDoc
        BY <1>0, <1>1, <2>1, DocWritten
    <2>3. found \in OrderDoc
        BY <1>0, <1>1, <1>2, DocTypes
    <2>4. doc.stockState = found.stockState /\ doc.epoch = found.epoch
          /\ doc.stockReserved = found.stockReserved
        <3> HIDE DEF found
        <3> QED BY <2>3 DEF OrderDoc
    <2>5. /\ \/ doc.stockState = order[o].stockState
             \/ doc.stockState = "released" /\ order[o].stockState = "reserved"
          /\ doc.epoch = order[o].epoch /\ doc.stockReserved = order[o].stockReserved
        <3> HIDE DEF doc
        <3> QED BY <1>0, <1>1, <2>4, DocFields
    <2> HIDE DEF doc
    <2> QED BY <1>0, <1>1, <2>1, <2>2, <2>5, ReleaseKeepsBooks
<1>6. CASE ExpiryRelease(w)
    <2>1. Set(o, AfterRelease(order[o])) /\ ledger' = ledger
        BY <1>6 DEF ExpiryRelease, ReleaseReservation
    <2>2. AfterRelease(order[o]) \in OrderDoc
        BY <1>0, <1>1, DocTypes
    <2> QED BY <1>0, <1>1, <2>1, <2>2, DocFields, ReleaseKeepsBooks
<1>7. CASE Cancel(w)
    <2>1. CASE ReleaseReservation(o)
               /\ Set(o, [AfterRelease(order[o]) EXCEPT !.status = "cancelled"])
        <3> DEFINE doc == [AfterRelease(order[o]) EXCEPT !.status = "cancelled"]
        <3>1. AfterRelease(order[o]) \in OrderDoc
            BY <1>0, <1>1, DocTypes
        <3>2. doc.stockState = AfterRelease(order[o]).stockState
              /\ doc.epoch = AfterRelease(order[o]).epoch
              /\ doc.stockReserved = AfterRelease(order[o]).stockReserved
            BY <3>1 DEF OrderDoc
        <3>3. doc \in OrderDoc /\ Set(o, doc)
            BY <1>0, <1>1, <2>1, DocWritten
        <3>4. ledger' = ledger
            BY <2>1 DEF ReleaseReservation
        <3> HIDE DEF doc
        <3> QED BY <1>0, <1>1, <3>2, <3>3, <3>4, DocFields, ReleaseKeepsBooks
    <2>2. CASE /\ order[o].stockState = "committed"
               /\ RestockLines(o, order[o].epoch)
               /\ Set(o, [order[o] EXCEPT !.status = "cancelled", !.stockState = "restocked",
                                          !.reverted = TRUE])
        <3> DEFINE doc == [order[o] EXCEPT !.status = "cancelled", !.stockState = "restocked",
                                           !.reverted = TRUE]
                   T == {t \in ToRestock(o, order[o].epoch) : Tracked(t)}
        <3>1. doc \in OrderDoc /\ Set(o, doc)
            BY <1>0, <1>1, <2>2, DocWritten
        <3>2. doc.stockState = "restocked" /\ doc.epoch = order[o].epoch
              /\ doc.stockReserved = order[o].stockReserved
            BY <1>2 DEF OrderDoc
        <3>3. ledger' = ledger \cup RowsBooked("restock", o, doc.epoch, T)
            BY <2>2, <3>2 DEF RestockLines, RowsBooked
        <3>4. T \subseteq SkusOf(o) /\ SkusOf(o) \cap Strict \subseteq T
            BY <1>0, <1>1, <2>2
            DEF ToRestock, Books, EpochMatchesState, Tracked, Typed, StrictModes
        <3> HIDE DEF doc, T
        <3> QED BY <1>0, <1>1, <2>2, <3>1, <3>2, <3>3, <3>4, RestockStep
    <2>3. CASE UNCHANGED stockVars /\ Set(o, [order[o] EXCEPT !.status = "cancelled"])
        <3> DEFINE doc == [order[o] EXCEPT !.status = "cancelled"]
        <3>1. doc \in OrderDoc /\ Set(o, doc) /\ ledger' = ledger
            BY <1>0, <1>1, <2>3, DocWritten DEF stockVars
        <3>2. doc.stockState = order[o].stockState /\ doc.epoch = order[o].epoch
              /\ doc.stockReserved = order[o].stockReserved
            BY <1>2 DEF OrderDoc
        <3> HIDE DEF doc
        <3> QED BY <1>0, <1>1, <3>1, <3>2, ReleaseKeepsBooks
    <2> QED BY <1>7, <2>1, <2>2, <2>3 DEF Cancel
<1>8. CASE ReopenSells(w)
    <2> DEFINE e == order[o].epoch + 1
               sold == [order[o] EXCEPT !.epoch = e, !.status = "confirmed"]
               doc == MarkCommitted(sold)
    <2>1. CommitLines(o, e) /\ Set(o, doc) /\ e \in Epochs
        BY <1>0, <1>1, <1>8, EpochOf DEF ReopenSells
    <2>2. doc.epoch = e /\ doc.stockState = "committed" /\ doc.stockReserved
          /\ e > order[o].epoch
        BY <1>2 DEF OrderDoc, MarkCommitted, Epochs
    <2>3. doc \in OrderDoc
        BY <1>0, <1>1, <2>1, DocWritten
    <2> HIDE DEF doc, e
    <2>4. \A s \in SkusOf(o) \cap Strict : Row("commit", o, e, s) \notin ledger
        BY <1>1, <1>2, <2>1, <2>2, NoRowAhead
    <2>5. PICK T \in SUBSET SkusOf(o) :
             /\ SkusOf(o) \cap Strict \subseteq T
             /\ ledger' = ledger \cup RowsBooked("commit", o, e, T)
        BY <1>0, <1>1, <2>1, <2>4, CommitLinesBooks
    <2> QED BY <1>0, <1>1, <2>1, <2>2, <2>3, <2>5, SaleStep
<1>9. CASE ReopenRelabels(w)
    <2> DEFINE doc == [order[o] EXCEPT !.status = "confirmed", !.reverted = FALSE]
    <2>1. Set(o, doc) /\ ledger' = ledger
        BY <1>9 DEF ReopenRelabels, stockVars
    <2>2. doc \in OrderDoc
        BY <1>0, <1>1, <2>1, DocWritten
    <2>3. doc.stockState = order[o].stockState /\ doc.epoch = order[o].epoch
          /\ doc.stockReserved = order[o].stockReserved
        BY <1>2 DEF OrderDoc
    <2> HIDE DEF doc
    <2> QED BY <1>0, <1>1, <2>1, <2>2, <2>3, ReleaseKeepsBooks
<1>10. CASE RefundClaim(w) \/ RefundAnswer(w)
    <2>1. ledger' = ledger
        BY <1>10 DEF RefundClaim, RefundAnswer, stockVars
    <2>2. CASE UNCHANGED order
        BY <2>1, <2>2, BooksUnchanged
    <2>3. ASSUME NEW p, NEW r, Set(o, [order[o] EXCEPT !.pay = p, !.refund = r]) PROVE Books'
        <3> DEFINE doc == [order[o] EXCEPT !.pay = p, !.refund = r]
        <3>1. doc \in OrderDoc /\ Set(o, doc)
            BY <1>0, <1>1, <2>3, DocWritten
        <3>2. doc.stockState = order[o].stockState /\ doc.epoch = order[o].epoch
              /\ doc.stockReserved = order[o].stockReserved
            BY <1>2 DEF OrderDoc
        <3> HIDE DEF doc
        <3> QED BY <1>0, <1>1, <2>1, <3>1, <3>2, ReleaseKeepsBooks
    <2>4. ASSUME NEW r, Set(o, [order[o] EXCEPT !.refund = r]) PROVE Books'
        <3>1. [order[o] EXCEPT !.refund = r] = [order[o] EXCEPT !.pay = order[o].pay, !.refund = r]
            BY <1>2 DEF OrderDoc
        <3> QED BY <2>3, <2>4, <3>1
    <2>5. CASE Set(o, order[o])
        BY <1>0, <1>1, <1>2, <2>1, <2>5, ReleaseKeepsBooks
    <2> QED BY <1>10, <2>2, <2>3, <2>4, <2>5 DEF RefundClaim, RefundAnswer
<1>11. CASE UNCHANGED <<order, ledger>>
    BY <1>11, BooksUnchanged
<1> QED
    BY <1>3, <1>4, <1>5, <1>6, <1>7, <1>8, <1>9, <1>10, <1>11
    DEF Handler, RenewExtends, RenewRefused, CaptureUnfulfillable, CaptureReplayed,
        RefundCaptureTaken, CancelLost, AfterCancel, ReopenRefused, ExtendHolds, stockVars

(* So do placement, manual payment and the payment cron.                    *)
LEMMA OneStepKeepsBooks ==
    ASSUME Inv, Inv', Books, Papers, NEW o \in Orders, OneStep(o)
    PROVE  Books'
<1>0. Typed /\ ShopTypeOK /\ ShopTypeOK' /\ ReservedHasHold
    BY DEF Inv, StockInv, Typed, Papers
<1>1. order[o] \in OrderDoc /\ order[o].epoch \in Epochs /\ NoOrder \in OrderDoc
    BY <1>0, EpochOf, DocTypes
<1>2. CASE PlacePrepaid(o)
    <2> DEFINE doc == [NoOrder EXCEPT !.status = "pending", !.online = TRUE,
                                      !.stockState = "reserved"]
    <2>1. order[o] = NoOrder /\ Set(o, doc) /\ ledger' = ledger
        BY <1>2 DEF PlacePrepaid, ReserveOrder, Papers, AbsentIsNew, Placed
    <2>2. doc \in OrderDoc
        BY <1>0, <2>1, DocWritten
    <2>3. doc.epoch = NoOrder.epoch /\ doc.stockState = "reserved"
          /\ NoOrder.stockState = "none" /\ doc.stockReserved = NoOrder.stockReserved
        BY DEF NoOrder
    <2> HIDE DEF doc
    <2> QED BY <1>0, <2>1, <2>2, <2>3, UnbookedStep DEF Unsettled
<1>3. CASE PlaceCod(o)
    <2> DEFINE doc == MarkCommitted([NoOrder EXCEPT !.status = "processing"])
    <2>1. order[o] = NoOrder /\ Set(o, doc) /\ CommitLines(o, 0)
        BY <1>3 DEF PlaceCod, Papers, AbsentIsNew, Placed
    <2>2. doc \in OrderDoc
        BY <1>0, <2>1, DocWritten
    <2>3. doc.epoch = 0 /\ doc.stockState = "committed" /\ doc.stockReserved
          /\ NoOrder.stockState = "none" /\ NoOrder.epoch = 0
        BY DEF NoOrder, MarkCommitted
    <2> HIDE DEF doc
    <2>4. \A s \in SkusOf(o) \cap Strict : Row("commit", o, 0, s) \notin ledger
        BY <2>1, <2>3 DEF Books, EpochMatchesState
    <2>5. PICK T \in SUBSET SkusOf(o) :
             /\ SkusOf(o) \cap Strict \subseteq T
             /\ ledger' = ledger \cup RowsBooked("commit", o, 0, T)
        BY <1>0, <1>1, <2>1, <2>3, <2>4, CommitLinesBooks
    <2> QED BY <1>0, <2>1, <2>2, <2>3, <2>5, SaleStep DEF Unsettled
<1>4. CASE RecordManualPayment(o)
    <2> DEFINE doc == [PaidDoc(o) EXCEPT !.manual = TRUE]
    <2>1. SellOrder(o) /\ Set(o, doc) /\ ~order[o].stockReserved
        BY <1>4 DEF RecordManualPayment, ManualPayable
    <2>2. doc \in OrderDoc /\ PaidDoc(o) \in OrderDoc
        BY <1>0, <2>1, DocWritten, DocTypes
    <2>3. doc.epoch = PaidDoc(o).epoch /\ doc.stockState = PaidDoc(o).stockState
          /\ doc.stockReserved = PaidDoc(o).stockReserved
        BY <2>2 DEF OrderDoc
    <2> HIDE DEF doc
    <2> QED BY <1>0, <2>1, <2>2, <2>3, DocFields, PaymentKeepsBooks
<1>5. CASE FailUnpaid(o)
    <2> DEFINE doc == [AfterRelease(order[o]) EXCEPT !.status = "failed", !.pay = "failed"]
    <2>1. Set(o, doc) /\ ledger' = ledger
        BY <1>5 DEF FailUnpaid, ReleaseReservation
    <2>2. doc \in OrderDoc /\ AfterRelease(order[o]) \in OrderDoc
        BY <1>0, <2>1, DocWritten, DocTypes
    <2>3. doc.epoch = AfterRelease(order[o]).epoch
          /\ doc.stockState = AfterRelease(order[o]).stockState
          /\ doc.stockReserved = AfterRelease(order[o]).stockReserved
        BY <2>2 DEF OrderDoc
    <2> HIDE DEF doc
    <2> QED BY <1>0, <2>1, <2>2, <2>3, DocFields, ReleaseKeepsBooks
<1>6. CASE PayAtGateway(o)
    BY <1>6, BooksUnchanged DEF PayAtGateway, stockVars
<1> QED BY <1>2, <1>3, <1>4, <1>5, <1>6 DEF OneStep

(* Every step keeps the ledger rows in step with the orders.                *)
LEMMA StepKeepsBooks ==
    ASSUME Inv, Inv', Books, Papers, [Next]_vars
    PROVE  Books'
<1>1. ASSUME NEW w \in Workers, Handler(w) PROVE Books'
    BY <1>1, HandlerKeepsBooks DEF Papers
<1>2. ASSUME NEW w \in Workers, NEW o \in Orders, Start(w, o) PROVE Books'
    BY <1>2, BooksUnchanged
    DEF Start, RetryRead, CaptureRead, ExpiryCheck, ExpiryBlind, CancelRead, ReopenRead, RetryRefund,
           stockVars
<1>3. ASSUME NEW w \in Workers, Crash(w) PROVE Books'
    BY <1>3, BooksUnchanged DEF Crash, stockVars
<1>4. ASSUME NEW o \in Orders, OneStep(o) PROVE Books'
    BY <1>4, OneStepKeepsBooks
<1>5. ASSUME NEW s \in Skus, NEW d \in AdjustDeltas, Adjust(s, d) PROVE Books'
    BY <1>5, BooksUnchanged DEF Adjust, AdjustStock
<1>6. ASSUME NEW s \in Skus, NEW m \in Modes, Edit(s, m) PROVE Books'
    BY <1>6, BooksUnchanged DEF Edit, EditSku
<1>7. ASSUME NEW h \in holds, Lapse(h) PROVE Books'
    BY <1>7, BooksUnchanged DEF Lapse, HoldLapses
<1>8. CASE UNCHANGED vars
    BY <1>8, BooksUnchanged DEF vars
<1> QED BY <1>1, <1>2, <1>3, <1>4, <1>5, <1>6, <1>7, <1>8 DEF Next

-----------------------------------------------------------------------------
(* Papers: what exists belongs to a placed order, and a reserved order has  *)
(* a hold.                                                                  *)

(* A written order stays or becomes placed; nothing new refers to others.   *)
LEMMA PlacedStep ==
    ASSUME Typed, Papers, NEW o \in Orders, NEW doc \in OrderDoc, Set(o, doc),
           doc.status # "absent",
           captured' \subseteq captured \cup {o},
           \A h \in holds' : h \in holds \/ h.order = o,
           \A w \in Workers : req'[w] # Idle =>
               \/ req'[w] = req[w] \/ req'[w].order = o
               \/ req[w] # Idle /\ req'[w].order = req[w].order
    PROVE  AbsentIsNew' /\ OnlyPlaced'
<1>1. order'[o] = doc /\ \A p \in Orders : p # o => order'[p] = order[p]
    BY SetDoc DEF Typed
<1>2. AbsentIsNew'
    BY <1>1 DEF Papers, AbsentIsNew, Placed
<1>3. \A p \in Orders : Placed(p) => Placed(p)'
    BY <1>1 DEF Placed
<1>4. Placed(o)'
    BY <1>1 DEF Placed
<1>5. \A p \in captured' : Placed(p)'
    BY <1>3, <1>4 DEF Papers, OnlyPlaced, Typed, ShopTypeOK
<1>6. \A h \in holds' : Placed(h.order)'
    BY <1>3, <1>4 DEF Papers, OnlyPlaced, Typed, StockTypeOK, Hold
<1>7. ASSUME NEW w \in Workers, req'[w] # Idle
      PROVE  order'[req'[w].order].status # "absent"
    <2>1. req[w] # Idle => req[w].order \in Orders /\ Placed(req[w].order)
        BY DEF Papers, OnlyPlaced, IsIdle, Typed, ShopTypeOK, Request
    <2> QED BY <1>3, <1>4, <1>7, <2>1 DEF Placed
<1> QED BY <1>2, <1>5, <1>6, <1>7 DEF OnlyPlaced, IsIdle, Placed

(* A transaction keeps a hold for every reserved order if it takes only its *)
(* own order's holds, and has one when it leaves that order reserved.       *)
LEMMA HoldStep ==
    ASSUME Typed, ReservedHasHold, NEW o \in Orders, NEW doc, Set(o, doc),
           holds \ HoldsOf(o) \subseteq holds',
           doc.stockState = "reserved" => \E h \in holds' : h.order = o
    PROVE  ReservedHasHold'
<1>1. order'[o] = doc /\ \A p \in Orders : p # o => order'[p] = order[p]
    BY SetDoc DEF Typed
<1> SUFFICES ASSUME NEW p \in Orders, order'[p].stockState = "reserved"
             PROVE  \E h \in holds' : h.order = p
    BY DEF ReservedHasHold, HoldsOf
<1>2. CASE p = o
    BY <1>1, <1>2
<1>3. CASE p # o
    BY <1>1, <1>3 DEF ReservedHasHold, HoldsOf
<1> QED BY <1>2, <1>3

(* A worker starts, moves on with or ends what it does for order o.         *)
ReqStep(w, o) == \/ Finish(w)
                 \/ \E op \in Ops, seen \in StockState \cup StockFlag : Begin(w, op, o, seen)
                 \/ UNCHANGED req

(* Then every busy worker works on o or on the order it worked on before.   *)
LEMMA ReqOrders ==
    ASSUME ShopTypeOK, NEW w \in Workers, NEW o \in Orders, ReqStep(w, o)
    PROVE  \A v \in Workers : req'[v] # Idle =>
               \/ req'[v] = req[v] \/ req'[v].order = o
               \/ req[v] # Idle /\ req'[v].order = req[v].order
    BY DEF ReqStep, ShopTypeOK, Begin, Finish

(* A transaction for a placed order, or one that places it, keeps Papers.   *)
LEMMA PapersStep ==
    ASSUME Typed, Typed', Papers, NEW o \in Orders, NEW doc, Set(o, doc),
           doc.status # "absent", captured' \subseteq captured \cup {o},
           \/ UNCHANGED req
           \/ \E w \in Workers : ReqStep(w, o),
           \/ holds' = holds
              /\ (doc.stockState = "reserved" => order[o].stockState = "reserved")
           \/ holds' = holds \ HoldsOf(o) /\ doc.stockState # "reserved"
           \/ \E e : holds' = holds \cup {[order |-> o, epoch |-> e]}
    PROVE  Papers'
<1>1. doc \in OrderDoc
    BY DocWritten DEF Typed
<1>2. \A v \in Workers : req'[v] # Idle =>
          \/ req'[v] = req[v] \/ req'[v].order = o
          \/ req[v] # Idle /\ req'[v].order = req[v].order
    <2>1. CASE UNCHANGED req
        BY <2>1
    <2>2. ASSUME NEW w \in Workers, ReqStep(w, o)
          PROVE  \A v \in Workers : req'[v] # Idle =>
                     \/ req'[v] = req[v] \/ req'[v].order = o
                     \/ req[v] # Idle /\ req'[v].order = req[v].order
        BY <2>2, ReqOrders DEF Typed
    <2> QED BY <2>1, <2>2
<1>3. \A h \in holds' : h \in holds \/ h.order = o
    OBVIOUS
<1>4. holds \ HoldsOf(o) \subseteq holds'
    OBVIOUS
<1>5. doc.stockState = "reserved" => \E h \in holds' : h.order = o
    <2>1. order[o].stockState = "reserved" => \E h \in holds : h.order = o
        BY DEF Papers, ReservedHasHold, HoldsOf
    <2>2. ASSUME NEW e, holds' = holds \cup {[order |-> o, epoch |-> e]}
          PROVE  \E h \in holds' : h.order = o
        <3>1. [order |-> o, epoch |-> e] \in holds' /\ [order |-> o, epoch |-> e].order = o
            BY <2>2
        <3> QED BY <3>1
    <2>3. CASE holds' = holds /\ (doc.stockState = "reserved" => order[o].stockState = "reserved")
        BY <2>1, <2>3
    <2>4. CASE doc.stockState # "reserved"
        BY <2>4
    <2> QED BY <2>2, <2>3, <2>4
<1>6. AbsentIsNew' /\ OnlyPlaced'
    BY <1>1, <1>2, <1>3, PlacedStep
<1>7. ReservedHasHold'
    BY <1>4, <1>5, HoldStep DEF Papers
<1> QED BY <1>6, <1>7 DEF Papers

(* A step that leaves orders and holds alone and starts or ends something   *)
(* for a placed order keeps Papers.                                         *)
LEMMA PapersRead ==
    ASSUME Typed, Typed', Papers, NEW o \in Orders, Placed(o),
           UNCHANGED <<order, holds, captured>>,
           \/ UNCHANGED req
           \/ \E w \in Workers : ReqStep(w, o)
    PROVE  Papers'
<1>1. Set(o, order[o]) /\ order[o].status # "absent"
    BY DEF Set, Typed, ShopTypeOK, Placed
<1> QED BY <1>1, PapersStep

(* A handler in progress writes a placed order that stays placed.           *)
LEMMA HandlerKeepsPapers ==
    ASSUME Inv, Inv', Papers, NEW w \in Workers, Handler(w)
    PROVE  Papers'
<1> DEFINE o == req[w].order
<1>0. Typed /\ Typed' /\ ShopTypeOK /\ ShopTypeOK'
    BY DEF Inv, StockInv, Typed
<1>1. o \in Orders
    BY <1>0, Doer DEF Ops, Handler, RenewExtends, RenewReserves, RenewRefused, CaptureConfirms,
       CaptureUnfulfillable, CaptureReplayed, RefundCapture, RefundCaptureTaken, ExpiryRelease,
       Cancel, CancelLost, AfterCancel, ReopenSells, ReopenRelabels, ReopenRefused, RefundClaim,
       RefundAnswer
<1>2. captured' = captured
    BY DEF Handler, RenewExtends, RenewReserves, RenewRefused, CaptureConfirms,
       CaptureUnfulfillable, CaptureReplayed, RefundCapture, RefundCaptureTaken, ExpiryRelease,
       Cancel, CancelLost, AfterCancel, ReopenSells, ReopenRelabels, ReopenRefused, RefundClaim,
       RefundAnswer
<1>3. req[w] # Idle
    <2>1. \E op \in Ops : Doing(w, op)
        BY DEF Ops, Handler, RenewExtends, RenewReserves, RenewRefused, CaptureConfirms,
           CaptureUnfulfillable, CaptureReplayed, RefundCapture, RefundCaptureTaken, ExpiryRelease,
           Cancel, CancelLost, AfterCancel, ReopenSells, ReopenRelabels, ReopenRefused, RefundClaim,
           RefundAnswer
    <2> QED BY <2>1 DEF Doing, Idle, Ops
<1>4. order[o] \in OrderDoc /\ Placed(o) /\ order[o].status # "absent"
    BY <1>0, <1>1, <1>3, EpochOf DEF Papers, OnlyPlaced, Placed, IsIdle
<1>5. ReqStep(w, o)
    <2>1. CASE Finish(w)
        BY <2>1 DEF ReqStep
    <2>2. CASE \E flag \in {"cancelled", "out_of_stock"} : Begin(w, "refund_capture", o, flag)
        BY <2>2 DEF ReqStep, Ops, StockFlag
    <2>3. CASE \E op \in {"cancelled", "refund", "refund_call"} : Begin(w, op, o, "none")
        BY <2>3 DEF ReqStep, Ops, StockFlag
    <2> QED
        BY <2>1, <2>2, <2>3
        DEF Handler, RenewExtends, RenewReserves, RenewRefused, CaptureConfirms,
            CaptureUnfulfillable, CaptureReplayed, RefundCapture, RefundCaptureTaken,
            ExpiryRelease, Cancel, CancelLost, AfterCancel, ReopenSells, ReopenRelabels,
            ReopenRefused, RefundClaim, RefundAnswer
<1>6. AfterRelease(order[o]) \in OrderDoc /\ AfterRelease(order[o]).status # "absent"
      /\ AfterRelease(order[o]).stockState # "reserved"
    BY <1>0, <1>1, <1>4, DocFields, DocTypes
<1>7. CASE RenewReserves(w)
    <2> DEFINE doc == [order[o] EXCEPT !.epoch = order[o].epoch + 1, !.stockState = "reserved"]
    <2>1. Set(o, doc) /\ \E e : holds' = holds \cup {[order |-> o, epoch |-> e]}
        BY <1>7 DEF RenewReserves, ReserveOrder
    <2>2. doc.status # "absent"
        BY <1>4 DEF OrderDoc
    <2> HIDE DEF doc
    <2> QED BY <1>0, <1>1, <1>2, <1>5, <2>1, <2>2, PapersStep
<1>8. CASE CaptureConfirms(w)
    <2>1. Set(o, PaidDoc(o)) /\ (holds' = holds \ HoldsOf(o) \/ holds' = holds)
        BY <1>8 DEF CaptureConfirms, SellOrder, CommitReservation, CommitLines
    <2>2. PaidDoc(o).status # "absent" /\ PaidDoc(o).stockState # "reserved"
        BY <1>0, <1>1, DocFields
    <2> QED BY <1>0, <1>1, <1>2, <1>5, <2>1, <2>2, PapersStep
<1>9. CASE RefundCapture(w)
    <2> DEFINE found == IF HasHold(o) THEN AfterRelease(order[o]) ELSE order[o]
               doc == [found EXCEPT !.pay = "paid", !.status = "cancelled", !.flag = req[w].seen]
    <2>1. Set(o, doc) /\ (holds' = holds \ HoldsOf(o) \/ holds' = holds)
        BY <1>9 DEF RefundCapture, ReleaseReservation, stockVars
    <2>2. found \in OrderDoc /\ found.stockState # "reserved"
        BY <1>4, <1>6 DEF HasHold
    <2>3. doc.status = "cancelled" /\ doc.stockState = found.stockState
        <3> HIDE DEF found
        <3> QED BY <2>2 DEF OrderDoc
    <2>4. doc.status # "absent" /\ doc.stockState # "reserved"
        BY <2>2, <2>3
    <2> HIDE DEF doc, found
    <2> QED BY <1>0, <1>1, <1>2, <1>5, <2>1, <2>4, PapersStep
<1>10. CASE ExpiryRelease(w)
    <2>1. Set(o, AfterRelease(order[o])) /\ holds' = holds \ HoldsOf(o)
        BY <1>10 DEF ExpiryRelease, ReleaseReservation
    <2> QED BY <1>0, <1>1, <1>2, <1>5, <1>6, <2>1, PapersStep
<1>11. CASE Cancel(w)
    <2>1. CASE ReleaseReservation(o)
               /\ Set(o, [AfterRelease(order[o]) EXCEPT !.status = "cancelled"])
        <3> DEFINE doc == [AfterRelease(order[o]) EXCEPT !.status = "cancelled"]
        <3>1. doc.status = "cancelled" /\ doc.stockState = AfterRelease(order[o]).stockState
            BY <1>6 DEF OrderDoc
        <3>2. doc.status # "absent" /\ doc.stockState # "reserved" /\ Set(o, doc)
            BY <1>6, <2>1, <3>1
        <3>3. holds' = holds \ HoldsOf(o)
            BY <2>1 DEF ReleaseReservation
        <3> HIDE DEF doc
        <3> QED BY <1>0, <1>1, <1>2, <1>5, <3>2, <3>3, PapersStep
    <2>2. CASE /\ RestockLines(o, order[o].epoch)
               /\ Set(o, [order[o] EXCEPT !.status = "cancelled", !.stockState = "restocked",
                                          !.reverted = TRUE])
        <3> DEFINE doc == [order[o] EXCEPT !.status = "cancelled", !.stockState = "restocked",
                                           !.reverted = TRUE]
        <3>1. doc.status = "cancelled" /\ doc.stockState = "restocked"
            BY <1>4 DEF OrderDoc
        <3>2. doc.status # "absent" /\ doc.stockState # "reserved" /\ Set(o, doc)
            BY <2>2, <3>1
        <3>3. holds' = holds
            BY <2>2 DEF RestockLines
        <3> HIDE DEF doc
        <3> QED BY <1>0, <1>1, <1>2, <1>5, <3>2, <3>3, PapersStep
    <2>3. CASE UNCHANGED stockVars /\ Set(o, [order[o] EXCEPT !.status = "cancelled"])
        <3> DEFINE doc == [order[o] EXCEPT !.status = "cancelled"]
        <3>1. doc.status = "cancelled" /\ doc.stockState = order[o].stockState
            BY <1>4 DEF OrderDoc
        <3>2. doc.status # "absent" /\ Set(o, doc) /\ holds' = holds
            BY <2>3, <3>1 DEF stockVars
        <3> HIDE DEF doc
        <3> QED BY <1>0, <1>1, <1>2, <1>5, <3>1, <3>2, PapersStep
    <2> QED BY <1>11, <2>1, <2>2, <2>3 DEF Cancel
<1>12. CASE ReopenSells(w)
    <2> DEFINE doc == MarkCommitted([order[o] EXCEPT !.epoch = order[o].epoch + 1,
                                                     !.status = "confirmed"])
    <2>1. Set(o, doc) /\ holds' = holds
        BY <1>12 DEF ReopenSells, CommitLines
    <2>2. doc.status = "confirmed" /\ doc.stockState = "committed"
        BY <1>4 DEF OrderDoc, MarkCommitted
    <2>3. doc.status # "absent" /\ doc.stockState # "reserved"
        BY <2>2
    <2> HIDE DEF doc
    <2> QED BY <1>0, <1>1, <1>2, <1>5, <2>1, <2>3, PapersStep
<1>13. CASE ReopenRelabels(w)
    <2> DEFINE doc == [order[o] EXCEPT !.status = "confirmed", !.reverted = FALSE]
    <2>1. Set(o, doc) /\ holds' = holds
        BY <1>13 DEF ReopenRelabels, stockVars
    <2>2. doc.status = "confirmed" /\ doc.stockState = order[o].stockState
        BY <1>4 DEF OrderDoc
    <2>3. doc.status # "absent"
        BY <2>2
    <2> HIDE DEF doc
    <2> QED BY <1>0, <1>1, <1>2, <1>5, <2>1, <2>2, <2>3, PapersStep
<1>14. CASE RefundClaim(w) \/ RefundAnswer(w)
    <2>1. holds' = holds
        BY <1>14 DEF RefundClaim, RefundAnswer, stockVars
    <2>2. CASE UNCHANGED order \/ Set(o, order[o])
        <3>1. UNCHANGED order
            BY <1>0, <1>1, <2>2 DEF Set, ShopTypeOK
        <3> QED BY <1>0, <1>1, <1>2, <1>4, <1>5, <2>1, <3>1, PapersRead
    <2>3. ASSUME NEW p, NEW r, Set(o, [order[o] EXCEPT !.pay = p, !.refund = r]) PROVE Papers'
        <3> DEFINE doc == [order[o] EXCEPT !.pay = p, !.refund = r]
        <3>1. doc.stockState = order[o].stockState /\ doc.status # "absent"
            BY <1>4 DEF OrderDoc
        <3>2. Set(o, doc)
            BY <2>3
        <3> HIDE DEF doc
        <3> QED BY <1>0, <1>1, <1>2, <1>5, <2>1, <3>1, <3>2, PapersStep
    <2>4. ASSUME NEW r, Set(o, [order[o] EXCEPT !.refund = r]) PROVE Papers'
        <3>1. [order[o] EXCEPT !.refund = r] = [order[o] EXCEPT !.pay = order[o].pay, !.refund = r]
            BY <1>4 DEF OrderDoc
        <3> QED BY <2>3, <2>4, <3>1
    <2> QED BY <1>14, <2>2, <2>3, <2>4 DEF RefundClaim, RefundAnswer
<1>15. CASE UNCHANGED <<order, holds>>
    BY <1>0, <1>1, <1>2, <1>4, <1>5, <1>15, PapersRead
<1> QED
    BY <1>7, <1>8, <1>9, <1>10, <1>11, <1>12, <1>13, <1>14, <1>15
    DEF Handler, RenewExtends, RenewRefused, CaptureUnfulfillable, CaptureReplayed,
        RefundCaptureTaken, CancelLost, AfterCancel, ReopenRefused, ExtendHolds, stockVars

(* Placement places the order; manual payment and the payment cron write an *)
(* order that was placed.                                                   *)
LEMMA OneStepKeepsPapers ==
    ASSUME Inv, Inv', Papers, NEW o \in Orders, OneStep(o)
    PROVE  Papers'
<1>0. Typed /\ Typed' /\ ShopTypeOK /\ ShopTypeOK'
    BY DEF Inv, StockInv, Typed
<1>1. order[o] \in OrderDoc /\ PaidDoc(o) \in OrderDoc /\ AfterRelease(order[o]) \in OrderDoc
    BY <1>0, EpochOf, DocTypes
<1>2. CASE PlacePrepaid(o)
    <2> DEFINE doc == [NoOrder EXCEPT !.status = "pending", !.online = TRUE,
                                      !.stockState = "reserved"]
    <2>1. Set(o, doc) /\ UNCHANGED <<req, captured>>
          /\ \E e : holds' = holds \cup {[order |-> o, epoch |-> e]}
        BY <1>2 DEF PlacePrepaid, ReserveOrder
    <2>2. doc.status # "absent"
        BY DEF NoOrder
    <2> HIDE DEF doc
    <2> QED BY <1>0, <2>1, <2>2, PapersStep
<1>3. CASE PlaceCod(o)
    <2> DEFINE doc == MarkCommitted([NoOrder EXCEPT !.status = "processing"])
    <2>1. Set(o, doc) /\ UNCHANGED <<req, captured, holds>>
        BY <1>3 DEF PlaceCod, CommitLines
    <2>2. doc.status # "absent" /\ doc.stockState # "reserved"
        BY DEF NoOrder, MarkCommitted
    <2> HIDE DEF doc
    <2> QED BY <1>0, <2>1, <2>2, PapersStep
<1>4. CASE RecordManualPayment(o)
    <2> DEFINE doc == [PaidDoc(o) EXCEPT !.manual = TRUE]
    <2>1. Set(o, doc) /\ UNCHANGED <<req, captured>>
          /\ (holds' = holds \ HoldsOf(o) \/ holds' = holds)
        BY <1>4 DEF RecordManualPayment, SellOrder, CommitReservation, CommitLines
    <2>2. doc.status = PaidDoc(o).status /\ doc.stockState = PaidDoc(o).stockState
        BY <1>1 DEF OrderDoc
    <2>3. doc.status # "absent" /\ doc.stockState # "reserved"
        BY <1>0, <2>2, DocFields
    <2> HIDE DEF doc
    <2> QED BY <1>0, <2>1, <2>3, PapersStep
<1>5. CASE FailUnpaid(o)
    <2> DEFINE doc == [AfterRelease(order[o]) EXCEPT !.status = "failed", !.pay = "failed"]
    <2>1. Set(o, doc) /\ UNCHANGED <<req, captured>> /\ holds' = holds \ HoldsOf(o)
        BY <1>5 DEF FailUnpaid, ReleaseReservation
    <2>2. doc.status = "failed" /\ doc.stockState = AfterRelease(order[o]).stockState
        BY <1>1 DEF OrderDoc
    <2>3. doc.status # "absent" /\ doc.stockState # "reserved"
        BY <1>0, <2>2, DocFields
    <2> HIDE DEF doc
    <2> QED BY <1>0, <2>1, <2>3, PapersStep
<1>6. CASE PayAtGateway(o)
    <2>1. order[o] # NoOrder
        BY <1>6 DEF PayAtGateway, NoOrder
    <2>2. order[o].status # "absent" /\ Set(o, order[o])
        BY <1>0, <1>6, <2>1 DEF Papers, AbsentIsNew, Placed, PayAtGateway, Set, ShopTypeOK
    <2> QED BY <1>0, <1>6, <2>2, PapersStep DEF PayAtGateway, stockVars
<1> QED BY <1>2, <1>3, <1>4, <1>5, <1>6 DEF OneStep

(* What starts a handler looks at a placed order.                           *)
LEMMA StartKeepsPapers ==
    ASSUME Inv, Inv', Papers, NEW w \in Workers, NEW o \in Orders, Start(w, o)
    PROVE  Papers'
<1>0. Typed /\ Typed' /\ ShopTypeOK
    BY DEF Inv, StockInv, Typed
<1>1. UNCHANGED <<order, captured, holds>>
    BY DEF Start, RetryRead, CaptureRead, ExpiryCheck, ExpiryBlind, CancelRead, ReopenRead, RetryRefund,
           stockVars
<1>2. ReqStep(w, o)
    <2>1. order[o].stockState \in StockState
        BY <1>0, EpochOf DEF OrderDoc
    <2> QED BY <2>1 DEF ReqStep, Ops, StockFlag, Start, RetryRead, CaptureRead, ExpiryCheck,
                        ExpiryBlind, CancelRead, ReopenRead, RetryRefund
<1>3. Placed(o)
    <2>1. CASE order[o].status \in {"pending", "confirmed", "processing", "cancelled"}
        BY <2>1 DEF Placed
    <2>2. CASE o \in captured
        BY <2>2 DEF Papers, OnlyPlaced
    <2>3. CASE HoldsOf(o) # {}
        BY <2>3 DEF Papers, OnlyPlaced, HoldsOf
    <2> QED BY <2>1, <2>2, <2>3, CancellableAssumption
            DEF Start, RetryRead, CaptureRead, ExpiryCheck, ExpiryBlind, ExpiryPicks, CancelRead,
                ReopenRead, RetryRefund
<1> QED BY <1>0, <1>1, <1>2, <1>3, PapersRead

(* Every step keeps Papers.                                                 *)
LEMMA StepKeepsPapers ==
    ASSUME Inv, Inv', Papers, [Next]_vars
    PROVE  Papers'
<1>1. ASSUME NEW w \in Workers, Handler(w) PROVE Papers'
    BY <1>1, HandlerKeepsPapers
<1>2. ASSUME NEW w \in Workers, NEW o \in Orders, Start(w, o) PROVE Papers'
    BY <1>2, StartKeepsPapers
<1>3. ASSUME NEW w \in Workers, Crash(w) PROVE Papers'
    <2>1. req[w].order \in Orders /\ Placed(req[w].order)
        BY <1>3 DEF Crash, IsIdle, Papers, OnlyPlaced, Inv, ShopTypeOK, Request
    <2>2. ReqStep(w, req[w].order) /\ UNCHANGED <<order, holds, captured>>
        BY <1>3 DEF Crash, ReqStep, stockVars
    <2> QED BY <2>1, <2>2, PapersRead DEF Inv, StockInv, Typed
<1>4. ASSUME NEW o \in Orders, OneStep(o) PROVE Papers'
    BY <1>4, OneStepKeepsPapers
<1>5. CASE UNCHANGED <<order, holds, captured, req>>
    BY <1>5 DEF Papers, AbsentIsNew, OnlyPlaced, ReservedHasHold, Placed, IsIdle, HoldsOf
<1>6. ASSUME NEW s \in Skus, NEW d \in AdjustDeltas, Adjust(s, d) PROVE Papers'
    BY <1>5, <1>6 DEF Adjust, AdjustStock
<1>7. ASSUME NEW s \in Skus, NEW m \in Modes, Edit(s, m) PROVE Papers'
    BY <1>5, <1>7 DEF Edit, EditSku
<1>8. ASSUME NEW h \in holds, Lapse(h) PROVE Papers'
    BY <1>5, <1>8 DEF Lapse, HoldLapses
<1>9. CASE UNCHANGED vars
    BY <1>5, <1>9 DEF vars
<1> QED BY <1>1, <1>2, <1>3, <1>4, <1>6, <1>7, <1>8, <1>9 DEF Next

(* The empty shop has empty books.                                          *)
LEMMA InitLedger ==
    ASSUME Init
    PROVE  Books /\ Papers
    BY DEF Init, Books, Papers, FutureUnbooked, EpochMatchesState, RestockHasSale,
       SettledIsFlagged, Settled, BookedIsFlagged, AbsentIsNew, OnlyPlaced, Placed, IsIdle, ReservedHasHold, NoOrder


-----------------------------------------------------------------------------
(* Action properties.                                                       *)

StaysCancelled ==
    \A o \in Orders :
        order[o].status = "cancelled" /\ order'[o].status # "cancelled"
          => order'[o].pay = order[o].pay

(* A transaction for a cancelled order leaves it cancelled or its payment   *)
(* alone.                                                                   *)
LEMMA CancelledStep ==
    ASSUME ShopTypeOK, NEW o \in Orders, NEW doc, Set(o, doc),
           \/ order[o].status # "cancelled"
           \/ doc.status = "cancelled"
           \/ doc.pay = order[o].pay
    PROVE  StaysCancelled
    BY SetDoc DEF StaysCancelled

(* Only ReopenSells and ReopenRelabels take an order out of cancelled.      *)
LEMMA StepStaysCancelled ==
    ASSUME Inv, [Next]_vars
    PROVE  StaysCancelled
<1>0. ShopTypeOK
    BY DEF Inv
<1>1. CASE UNCHANGED order
    BY <1>1 DEF StaysCancelled
<1>2. ASSUME NEW w \in Workers, Handler(w) PROVE StaysCancelled
    <2> DEFINE o == req[w].order
    <2>1. o \in Orders
        BY <1>0, <1>2, Doer DEF Ops, Handler, RenewExtends, RenewReserves, RenewRefused,
           CaptureConfirms, CaptureUnfulfillable, CaptureReplayed, RefundCapture,
           RefundCaptureTaken, ExpiryRelease, Cancel, CancelLost, AfterCancel, ReopenSells,
           ReopenRelabels, ReopenRefused, RefundClaim, RefundAnswer
    <2>2. order[o] \in OrderDoc /\ AfterRelease(order[o]) \in OrderDoc
          /\ AfterRelease(order[o]).status = order[o].status
          /\ AfterRelease(order[o]).pay = order[o].pay
        BY <1>0, <2>1, DocTypes, DocFields
    <2>3. CASE RenewReserves(w)
        <3> DEFINE doc == [order[o] EXCEPT !.epoch = order[o].epoch + 1, !.stockState = "reserved"]
        <3>1. Set(o, doc)
            BY <2>3 DEF RenewReserves
        <3>2. doc.pay = order[o].pay
            BY <2>2 DEF OrderDoc
        <3> HIDE DEF doc
        <3> QED BY <1>0, <2>1, <3>1, <3>2, CancelledStep
    <2>4. CASE CaptureConfirms(w)
        <3>1. Set(o, PaidDoc(o)) /\ order[o].status # "cancelled"
            BY <2>4 DEF CaptureConfirms
        <3> QED BY <1>0, <2>1, <3>1, CancelledStep
    <2>5. CASE RefundCapture(w)
        <3> DEFINE found == IF HasHold(o) THEN AfterRelease(order[o]) ELSE order[o]
                   doc == [found EXCEPT !.pay = "paid", !.status = "cancelled",
                                        !.flag = req[w].seen]
        <3>1. Set(o, doc)
            BY <2>5 DEF RefundCapture
        <3>2. found \in OrderDoc
            BY <2>2
        <3>3. doc.status = "cancelled"
            <4> HIDE DEF found
            <4> QED BY <3>2 DEF OrderDoc
        <3> HIDE DEF doc
        <3> QED BY <1>0, <2>1, <3>1, <3>3, CancelledStep
    <2>6. CASE ExpiryRelease(w)
        <3>1. Set(o, AfterRelease(order[o]))
            BY <2>6 DEF ExpiryRelease
        <3> QED BY <1>0, <2>1, <2>2, <3>1, CancelledStep
    <2>7. CASE Cancel(w)
        <3>1. \E doc : Set(o, doc) /\ doc.status = "cancelled"
            <4>1. [AfterRelease(order[o]) EXCEPT !.status = "cancelled"].status = "cancelled"
                BY <2>2 DEF OrderDoc
            <4>2. [order[o] EXCEPT !.status = "cancelled", !.stockState = "restocked",
                                   !.reverted = TRUE].status = "cancelled"
                BY <2>2 DEF OrderDoc
            <4>3. [order[o] EXCEPT !.status = "cancelled"].status = "cancelled"
                BY <2>2 DEF OrderDoc
            <4>4. \/ Set(o, [AfterRelease(order[o]) EXCEPT !.status = "cancelled"])
                  \/ Set(o, [order[o] EXCEPT !.status = "cancelled", !.stockState = "restocked",
                                             !.reverted = TRUE])
                  \/ Set(o, [order[o] EXCEPT !.status = "cancelled"])
                BY <2>7 DEF Cancel
            <4> QED BY <4>1, <4>2, <4>3, <4>4, Zenon
        <3> QED BY <1>0, <2>1, <3>1, CancelledStep
    <2>8. CASE ReopenSells(w)
        <3> DEFINE doc == MarkCommitted([order[o] EXCEPT !.epoch = order[o].epoch + 1,
                                                         !.status = "confirmed"])
        <3>1. Set(o, doc)
            BY <2>8 DEF ReopenSells
        <3>2. doc.pay = order[o].pay
            BY <2>2 DEF OrderDoc, MarkCommitted
        <3> HIDE DEF doc
        <3> QED BY <1>0, <2>1, <3>1, <3>2, CancelledStep
    <2>9. CASE ReopenRelabels(w)
        <3> DEFINE doc == [order[o] EXCEPT !.status = "confirmed", !.reverted = FALSE]
        <3>1. Set(o, doc)
            BY <2>9 DEF ReopenRelabels
        <3>2. doc.pay = order[o].pay
            BY <2>2 DEF OrderDoc
        <3> HIDE DEF doc
        <3> QED BY <1>0, <2>1, <3>1, <3>2, CancelledStep
    <2>10. CASE RefundClaim(w) \/ RefundAnswer(w)
        <3>1. ASSUME NEW p, NEW r PROVE [order[o] EXCEPT !.pay = p, !.refund = r].status = order[o].status
            BY <2>2 DEF OrderDoc
        <3>2. ASSUME NEW r PROVE [order[o] EXCEPT !.refund = r].status = order[o].status
            BY <2>2 DEF OrderDoc
        <3>3. \/ UNCHANGED order
              \/ \E p, r : Set(o, [order[o] EXCEPT !.pay = p, !.refund = r])
              \/ \E r : Set(o, [order[o] EXCEPT !.refund = r])
              \/ Set(o, order[o])
            BY <2>10 DEF RefundClaim, RefundAnswer
        <3>4. UNCHANGED order \/ \E doc : Set(o, doc) /\ doc.status = order[o].status
            BY <3>1, <3>2, <3>3, Zenon
        <3> QED BY <1>0, <1>1, <2>1, <3>4, CancelledStep
    <2> QED
        BY <1>1, <1>2, <2>3, <2>4, <2>5, <2>6, <2>7, <2>8, <2>9, <2>10
        DEF Handler, RenewExtends, RenewRefused, CaptureUnfulfillable, CaptureReplayed,
            RefundCaptureTaken, CancelLost, AfterCancel, ReopenRefused
<1>3. ASSUME NEW o \in Orders, OneStep(o) PROVE StaysCancelled
    BY <1>0, <1>1, <1>3, CancelledStep
    DEF OneStep, PlacePrepaid, PlaceCod, PayAtGateway, RecordManualPayment, ManualPayable, FailUnpaid
<1>4. ASSUME NEW w \in Workers, NEW o \in Orders, Start(w, o) PROVE StaysCancelled
    BY <1>1, <1>4 DEF Start, RetryRead, CaptureRead, ExpiryCheck, ExpiryBlind, CancelRead, ReopenRead, RetryRefund
<1>5. ASSUME NEW w \in Workers, Crash(w) PROVE StaysCancelled
    BY <1>1, <1>5 DEF Crash
<1>6. ASSUME NEW s \in Skus, NEW d \in AdjustDeltas, Adjust(s, d) PROVE StaysCancelled
    BY <1>1, <1>6 DEF Adjust
<1>7. ASSUME NEW s \in Skus, NEW m \in Modes, Edit(s, m) PROVE StaysCancelled
    BY <1>1, <1>7 DEF Edit
<1>8. ASSUME NEW h \in holds, Lapse(h) PROVE StaysCancelled
    BY <1>1, <1>8 DEF Lapse
<1>9. CASE UNCHANGED vars
    BY <1>1, <1>9 DEF vars
<1> QED BY <1>2, <1>3, <1>4, <1>5, <1>6, <1>7, <1>8, <1>9 DEF Next

ConfirmedIsSold ==
    \A o \in Orders :
        /\ order[o].pay # "paid"
        /\ order'[o].pay = "paid" /\ order'[o].status = "confirmed"
        => \A s \in SkusOf(o) \cap Strict : NetSales(o, s)' = 1

(* A payment that confirms an order is the first to sell it: no row of any  *)
(* epoch was booked for an order without stock_reserved, so afterwards each *)
(* strict line has one sale and no restock.                                 *)
LEMMA FirstSale ==
    ASSUME Typed, Books, ReservedHasHold, NEW o \in Orders, ~order[o].stockReserved,
           SellOrder(o)
    PROVE  \A s \in SkusOf(o) \cap Strict : NetSales(o, s)' = 1
<1>1. \A r \in ledger : r.order # o
    BY DEF Books, BookedIsFlagged
<1>2. PICK T \in SUBSET SkusOf(o) :
         /\ SkusOf(o) \cap Strict \subseteq T
         /\ ledger' = ledger \cup RowsBooked("commit", o, order[o].epoch, T)
    BY PaymentSells
<1> TAKE s \in SkusOf(o) \cap Strict
<1> DEFINE sale == Row("commit", o, order[o].epoch, s)
<1>3. RowsOf("commit", o, s)' = {sale}
    <2>1. sale \in RowsOf("commit", o, s)'
        BY <1>2, RowFields DEF RowsOf, RowsBooked
    <2>2. ASSUME NEW r \in RowsOf("commit", o, s)' PROVE r = sale
        <3>1. r \in ledger' /\ r.order = o /\ r.sku = s
            BY DEF RowsOf
        <3>2. PICK u \in T : r = Row("commit", o, order[o].epoch, u)
            BY <1>1, <1>2, <3>1 DEF RowsBooked
        <3> QED BY <3>1, <3>2, RowFields
    <2> QED BY <2>1, <2>2
<1>4. RowsOf("restock", o, s)' = {}
    <2> SUFFICES ASSUME NEW r \in RowsOf("restock", o, s)' PROVE FALSE
        OBVIOUS
    <2>1. r \in ledger' /\ r.order = o /\ r.kind = "restock"
        BY DEF RowsOf
    <2>2. PICK u \in T : r = Row("commit", o, order[o].epoch, u)
        BY <1>1, <1>2, <2>1 DEF RowsBooked
    <2> QED BY <2>1, <2>2, RowFields
<1> HIDE DEF sale
<1>5. Cardinality({sale}) = 1
    BY FS_Singleton, Zenon
<1>6. Cardinality({}) = 0
    BY FS_EmptySet, Zenon
<1>7. Cardinality(RowsOf("commit", o, s)') = 1
    BY <1>3, <1>5
<1>8. Cardinality(RowsOf("restock", o, s)') = 0
    BY <1>4, <1>6
<1> QED BY <1>7, <1>8 DEF NetSales

(* A transaction that does not mark its order paid confirms nothing.        *)
LEMMA UnpaidStep ==
    ASSUME ShopTypeOK, NEW o \in Orders, NEW doc, Set(o, doc),
           doc.pay = order[o].pay \/ doc.pay # "paid" \/ doc.status # "confirmed"
    PROVE  ConfirmedIsSold
    BY SetDoc DEF ConfirmedIsSold

(* A transaction that does has sold its order.                              *)
LEMMA PaidStep ==
    ASSUME Typed, Books, ReservedHasHold, NEW o \in Orders, NEW doc, Set(o, doc),
           ~order[o].stockReserved, SellOrder(o)
    PROVE  ConfirmedIsSold
<1>1. \A s \in SkusOf(o) \cap Strict : NetSales(o, s)' = 1
    BY FirstSale
<1>2. \A p \in Orders : p # o => order'[p] = order[p]
    BY SetDoc DEF Typed
<1> QED BY <1>1, <1>2 DEF ConfirmedIsSold

(* Only CaptureConfirms and RecordManualPayment confirm an order by a       *)
(* payment, and both sell it.                                               *)
LEMMA StepSellsConfirmed ==
    ASSUME Inv, Books, ReservedHasHold, [Next]_vars
    PROVE  ConfirmedIsSold
<1>0. Typed /\ ShopTypeOK
    BY DEF Inv, StockInv, Typed
<1>1. CASE UNCHANGED order
    BY <1>1 DEF ConfirmedIsSold
<1>2. ASSUME NEW w \in Workers, Handler(w) PROVE ConfirmedIsSold
    <2> DEFINE o == req[w].order
    <2>1. o \in Orders
        BY <1>0, <1>2, Doer DEF Ops, Handler, RenewExtends, RenewReserves, RenewRefused,
           CaptureConfirms, CaptureUnfulfillable, CaptureReplayed, RefundCapture,
           RefundCaptureTaken, ExpiryRelease, Cancel, CancelLost, AfterCancel, ReopenSells,
           ReopenRelabels, ReopenRefused, RefundClaim, RefundAnswer
    <2>2. order[o] \in OrderDoc /\ AfterRelease(order[o]) \in OrderDoc
          /\ AfterRelease(order[o]).pay = order[o].pay
        BY <1>0, <2>1, DocTypes, DocFields
    <2>3. CASE CaptureConfirms(w)
        <3>1. SellOrder(o) /\ Set(o, PaidDoc(o)) /\ ~order[o].stockReserved
            BY <2>3 DEF CaptureConfirms, Finalizable
        <3> QED BY <1>0, <2>1, <3>1, PaidStep
    <2>4. CASE RefundCapture(w)
        <3> DEFINE found == IF HasHold(o) THEN AfterRelease(order[o]) ELSE order[o]
                   doc == [found EXCEPT !.pay = "paid", !.status = "cancelled",
                                        !.flag = req[w].seen]
        <3>1. Set(o, doc)
            BY <2>4 DEF RefundCapture
        <3>2. found \in OrderDoc
            BY <2>2
        <3>3. doc.status = "cancelled"
            <4> HIDE DEF found
            <4> QED BY <3>2 DEF OrderDoc
        <3> HIDE DEF doc
        <3> QED BY <1>0, <2>1, <3>1, <3>3, UnpaidStep
    <2>5. CASE ExpiryRelease(w)
        <3>1. Set(o, AfterRelease(order[o]))
            BY <2>5 DEF ExpiryRelease
        <3> QED BY <1>0, <2>1, <2>2, <3>1, UnpaidStep
    <2>6. CASE RenewReserves(w) \/ Cancel(w) \/ ReopenSells(w) \/ ReopenRelabels(w)
        <3>1. \/ Set(o, [order[o] EXCEPT !.epoch = order[o].epoch + 1, !.stockState = "reserved"])
              \/ Set(o, [AfterRelease(order[o]) EXCEPT !.status = "cancelled"])
              \/ Set(o, [order[o] EXCEPT !.status = "cancelled", !.stockState = "restocked",
                                         !.reverted = TRUE])
              \/ Set(o, [order[o] EXCEPT !.status = "cancelled"])
              \/ Set(o, MarkCommitted([order[o] EXCEPT !.epoch = order[o].epoch + 1,
                                                       !.status = "confirmed"]))
              \/ Set(o, [order[o] EXCEPT !.status = "confirmed", !.reverted = FALSE])
            BY <2>6 DEF RenewReserves, Cancel, ReopenSells, ReopenRelabels
        <3>2. /\ [order[o] EXCEPT !.epoch = order[o].epoch + 1,
                                  !.stockState = "reserved"].pay = order[o].pay
              /\ [AfterRelease(order[o]) EXCEPT !.status = "cancelled"].pay = order[o].pay
              /\ [order[o] EXCEPT !.status = "cancelled", !.stockState = "restocked",
                                  !.reverted = TRUE].pay = order[o].pay
              /\ [order[o] EXCEPT !.status = "cancelled"].pay = order[o].pay
              /\ [order[o] EXCEPT !.status = "confirmed", !.reverted = FALSE].pay = order[o].pay
            BY <2>2 DEF OrderDoc
        <3>3. MarkCommitted([order[o] EXCEPT !.epoch = order[o].epoch + 1,
                                             !.status = "confirmed"]).pay = order[o].pay
            BY <2>2 DEF OrderDoc, MarkCommitted
        <3>4. \E doc : Set(o, doc) /\ doc.pay = order[o].pay
            BY <3>1, <3>2, <3>3, Zenon
        <3> QED BY <1>0, <2>1, <3>4, UnpaidStep
    <2>7. CASE RefundClaim(w) \/ RefundAnswer(w)
        <3>1. ASSUME NEW p, NEW r PROVE [order[o] EXCEPT !.pay = p, !.refund = r].pay = p
            BY <2>2 DEF OrderDoc
        <3>2. ASSUME NEW r PROVE [order[o] EXCEPT !.refund = r].pay = order[o].pay
            BY <2>2 DEF OrderDoc
        <3>3. \/ UNCHANGED order
              \/ \E p, r : p # "paid" /\ Set(o, [order[o] EXCEPT !.pay = p, !.refund = r])
              \/ \E r : Set(o, [order[o] EXCEPT !.refund = r])
              \/ Set(o, order[o])
            BY <2>7 DEF RefundClaim, RefundAnswer
        <3>4. \/ UNCHANGED order
              \/ \E doc : Set(o, doc) /\ (doc.pay = order[o].pay \/ doc.pay # "paid")
            <4>1. ASSUME NEW p, NEW r, p # "paid",
                         Set(o, [order[o] EXCEPT !.pay = p, !.refund = r])
                  PROVE  \E doc : Set(o, doc) /\ doc.pay # "paid"
                BY <4>1, <3>1, Zenon
            <4>2. ASSUME NEW r, Set(o, [order[o] EXCEPT !.refund = r])
                  PROVE  \E doc : Set(o, doc) /\ doc.pay = order[o].pay
                BY <4>2, <3>2, Zenon
            <4> QED BY <3>3, <4>1, <4>2, Zenon
        <3> QED BY <1>0, <1>1, <2>1, <3>4, UnpaidStep
    <2> QED
        BY <1>1, <1>2, <2>3, <2>4, <2>5, <2>6, <2>7
        DEF Handler, RenewExtends, RenewRefused, CaptureUnfulfillable, CaptureReplayed,
            RefundCaptureTaken, CancelLost, AfterCancel, ReopenRefused
<1>3. ASSUME NEW o \in Orders, OneStep(o) PROVE ConfirmedIsSold
    <2>1. order[o] \in OrderDoc /\ AfterRelease(order[o]) \in OrderDoc
        BY <1>0, DocTypes
    <2>2. CASE PlacePrepaid(o)
        <3>1. [NoOrder EXCEPT !.status = "pending", !.online = TRUE,
                              !.stockState = "reserved"].pay # "paid"
            BY DEF NoOrder
        <3> QED BY <1>0, <2>2, <3>1, UnpaidStep DEF PlacePrepaid
    <2>3. CASE PlaceCod(o)
        <3>1. MarkCommitted([NoOrder EXCEPT !.status = "processing"]).pay # "paid"
            BY DEF NoOrder, MarkCommitted
        <3> QED BY <1>0, <2>3, <3>1, UnpaidStep DEF PlaceCod
    <2>4. CASE RecordManualPayment(o)
        BY <1>0, <2>4, PaidStep DEF RecordManualPayment, ManualPayable
    <2>5. CASE FailUnpaid(o)
        <3>1. [AfterRelease(order[o]) EXCEPT !.status = "failed", !.pay = "failed"].pay # "paid"
            BY <2>1 DEF OrderDoc
        <3> QED BY <1>0, <2>5, <3>1, UnpaidStep DEF FailUnpaid
    <2>6. CASE PayAtGateway(o)
        BY <1>1, <2>6 DEF PayAtGateway
    <2> QED BY <1>3, <2>2, <2>3, <2>4, <2>5, <2>6 DEF OneStep
<1>4. ASSUME NEW w \in Workers, NEW o \in Orders, Start(w, o) PROVE ConfirmedIsSold
    BY <1>1, <1>4 DEF Start, RetryRead, CaptureRead, ExpiryCheck, ExpiryBlind, CancelRead, ReopenRead, RetryRefund
<1>5. ASSUME NEW w \in Workers, Crash(w) PROVE ConfirmedIsSold
    BY <1>1, <1>5 DEF Crash
<1>6. ASSUME NEW s \in Skus, NEW d \in AdjustDeltas, Adjust(s, d) PROVE ConfirmedIsSold
    BY <1>1, <1>6 DEF Adjust
<1>7. ASSUME NEW s \in Skus, NEW m \in Modes, Edit(s, m) PROVE ConfirmedIsSold
    BY <1>1, <1>7 DEF Edit
<1>8. ASSUME NEW h \in holds, Lapse(h) PROVE ConfirmedIsSold
    BY <1>1, <1>8 DEF Lapse
<1>9. CASE UNCHANGED vars
    BY <1>1, <1>9 DEF vars
<1> QED BY <1>2, <1>3, <1>4, <1>5, <1>6, <1>7, <1>8, <1>9 DEF Next

-----------------------------------------------------------------------------
(* The inductive invariant of the ledger holds in every reachable state.    *)
THEOREM LedgerInvariance == Spec => [](Inv /\ Books /\ Papers)
<1> DEFINE LInv == Inv /\ Books /\ Papers
<1>1. Init => LInv
    BY InitInv, InitLedger
<1>2. LInv /\ [Next]_vars => LInv'
    <2> SUFFICES ASSUME LInv, [Next]_vars PROVE LInv'
        OBVIOUS
    <2>1. Inv'
        BY StepKeepsStock, StepKeepsShop DEF Inv, ShopInv
    <2> QED BY <2>1, StepKeepsBooks, StepKeepsPapers
<1> QED BY <1>1, <1>2, PTL DEF Spec

(* The idempotency keys of an order's current stock_epoch say what its      *)
(* stock_state says, so no sale or restock is skipped as a duplicate of one *)
(* made in an earlier life of the order, and none is made twice in one.     *)
THEOREM KeysMatchState == Spec => []EpochMatchesState
<1>1. Inv /\ Books /\ Papers => EpochMatchesState
    BY DEF Books
<1> QED BY LedgerInvariance, <1>1, PTL

(* restockLines never puts back units that were not sold under the same     *)
(* epoch.                                                                   *)
THEOREM RestocksAreSales == Spec => []RestockHasSale
<1>1. Inv /\ Books /\ Papers => RestockHasSale
    BY DEF Books
<1> QED BY LedgerInvariance, <1>1, PTL

(* An order that says it is reserved has an ACTIVE reservation to commit.   *)
THEOREM ReservedOrdersHold == Spec => []ReservedHasHold
<1>1. Inv /\ Books /\ Papers => ReservedHasHold
    BY DEF Papers
<1> QED BY LedgerInvariance, <1>1, PTL

(* finalizeCapturedPayment never brings a cancelled order back: an order    *)
(* leaves cancelled by a reopening only, which does not touch its payment.  *)
THEOREM NoRevival == Spec => CaptureNeverRevives
<1>1. Inv /\ [Next]_vars => [\A o \in Orders :
          order[o].status = "cancelled" /\ order'[o].status # "cancelled"
            => order'[o].pay = order[o].pay]_vars
    BY StepStaysCancelled DEF StaysCancelled
<1> QED BY Invariance, <1>1, PTL DEF Spec, CaptureNeverRevives

(* finalizeCapturedPayment and recordManualPayment confirm an order only    *)
(* with exactly one sale of each of its tracked lines on the books, whether *)
(* the hold was still there or had to be replaced by available stock.       *)
THEOREM ConfirmedOrdersAreSold == Spec => ConfirmationSells
<1>1. Inv /\ Books /\ Papers /\ [Next]_vars => [\A o \in Orders :
          /\ order[o].pay # "paid"
          /\ order'[o].pay = "paid" /\ order'[o].status = "confirmed"
          => \A s \in SkusOf(o) \cap Strict : NetSales(o, s)' = 1]_vars
    BY StepSellsConfirmed DEF ConfirmedIsSold, Papers
<1> QED BY LedgerInvariance, <1>1, PTL DEF Spec, ConfirmationSells

-----------------------------------------------------------------------------
(* Part 3: the ledger balances and the holds are covered.                  *)
(* Sums over orders and over holds.                                         *)

\* What an order's rows take off the stock of a SKU, and what it has on hold.
SoldUnits(o, s) == NetSales(o, s) * Lines[o][s]
SalesOf(s) == [o \in Orders |-> SoldUnits(o, s)]
UnitsHeld(s) == [h \in Hold |-> Lines[h.order][s]]

LEMMA LedgerSumIs ==
    ASSUME NEW s
    PROVE  LedgerSum(s) = posted[s] - Sum(SalesOf(s), Orders)
    BY DEF LedgerSum, SumFunction, Sum, SalesOf, SoldUnits

LEMMA HeldUnitsIs ==
    ASSUME NEW s
    PROVE  HeldUnits(s) = Sum(UnitsHeld(s), holds)
    BY DEF HeldUnits, Sum, UnitsHeld

(* An order has finitely many rows of a kind for a SKU, one per epoch.      *)
LEMMA RowsFinite ==
    ASSUME StockTypeOK, NEW kind, NEW o, NEW s
    PROVE  IsFiniteSet(RowsOf(kind, o, s)) /\ Cardinality(RowsOf(kind, o, s)) \in Nat
<1> DEFINE all == {Row(kind, o, e, s) : e \in Epochs}
           f == [e \in Epochs |-> Row(kind, o, e, s)]
<1>1. IsFiniteSet(Epochs)
    <2>1. 0 \in Int /\ MaxEpoch \in Int
        OBVIOUS
    <2> QED BY <2>1, FS_Interval DEF Epochs
<1>2. f \in Surjection(Epochs, all)
    BY DEF Surjection
<1>3. IsFiniteSet(all)
    <2> HIDE DEF f, all
    <2> QED BY <1>1, <1>2, FS_Surjection
<1>4. RowsOf(kind, o, s) \subseteq all
    BY DEF RowsOf, StockTypeOK, LedgerRow, Row
<1>5. IsFiniteSet(RowsOf(kind, o, s))
    <2> HIDE DEF all
    <2> QED BY <1>3, <1>4, FS_Subset
<1> QED BY <1>5, FS_CardinalityType

LEMMA NetSalesInt ==
    ASSUME StockTypeOK, NEW o, NEW s
    PROVE  NetSales(o, s) \in Int
    BY RowsFinite DEF NetSales

(* A row that is booked for the first time is one more row of its kind.     *)
LEMMA RowAdded ==
    ASSUME StockTypeOK, NEW o, NEW kind, NEW e, NEW T,
           ledger' = ledger \cup RowsBooked(kind, o, e, T),
           NEW s \in T, Row(kind, o, e, s) \notin ledger
    PROVE  /\ Cardinality(RowsOf(kind, o, s)') = Cardinality(RowsOf(kind, o, s)) + 1
           /\ \A k : k # kind => RowsOf(k, o, s)' = RowsOf(k, o, s)
<1> DEFINE row == Row(kind, o, e, s)
<1>1. \A k : k # kind => RowsOf(k, o, s)' = RowsOf(k, o, s)
    BY RowFields DEF RowsOf, RowsBooked
<1>2. RowsOf(kind, o, s)' = RowsOf(kind, o, s) \cup {row}
    <2>1. row \in RowsOf(kind, o, s)'
        BY RowFields DEF RowsOf, RowsBooked
    <2>2. ASSUME NEW r \in RowsOf(kind, o, s)' PROVE r \in RowsOf(kind, o, s) \cup {row}
        <3>1. CASE r \in ledger
            BY <3>1 DEF RowsOf
        <3>2. CASE r \in RowsBooked(kind, o, e, T)
            BY <3>2, RowFields DEF RowsOf, RowsBooked
        <3> QED BY <3>1, <3>2 DEF RowsOf
    <2>3. RowsOf(kind, o, s) \subseteq RowsOf(kind, o, s)'
        BY DEF RowsOf
    <2> QED BY <2>1, <2>2, <2>3
<1>3. row \notin RowsOf(kind, o, s)
    BY DEF RowsOf
<1>4. IsFiniteSet(RowsOf(kind, o, s))
    BY RowsFinite
<1> HIDE DEF row
<1> QED BY <1>1, <1>2, <1>3, <1>4, FS_AddElement

(* A new commit row is one more sale; a new restock row takes one back.     *)
LEMMA NetSalesSold ==
    ASSUME StockTypeOK, NEW o, NEW e, NEW T, ledger' = ledger \cup RowsBooked("commit", o, e, T),
           NEW s \in T, Row("commit", o, e, s) \notin ledger
    PROVE  NetSales(o, s)' = NetSales(o, s) + 1
<1>1. /\ Cardinality(RowsOf("commit", o, s)') = Cardinality(RowsOf("commit", o, s)) + 1
      /\ RowsOf("restock", o, s)' = RowsOf("restock", o, s)
    BY RowAdded
<1>2. Cardinality(RowsOf("commit", o, s)) \in Nat /\ Cardinality(RowsOf("restock", o, s)) \in Nat
    BY RowsFinite
<1> QED BY <1>1, <1>2 DEF NetSales

LEMMA NetSalesBack ==
    ASSUME StockTypeOK, NEW o, NEW e, NEW T, ledger' = ledger \cup RowsBooked("restock", o, e, T),
           NEW s \in T, Row("restock", o, e, s) \notin ledger
    PROVE  NetSales(o, s)' = NetSales(o, s) - 1
<1>1. /\ Cardinality(RowsOf("restock", o, s)') = Cardinality(RowsOf("restock", o, s)) + 1
      /\ RowsOf("commit", o, s)' = RowsOf("commit", o, s)
    BY RowAdded
<1>2. Cardinality(RowsOf("commit", o, s)) \in Nat /\ Cardinality(RowsOf("restock", o, s)) \in Nat
    BY RowsFinite
<1> QED BY <1>1, <1>2 DEF NetSales

(* Booking a sale or a restock changes the sum of a SKU by the order's line. *)
LEMMA SalesStep ==
    ASSUME StockTypeOK, NEW o \in Orders, NEW kind \in {"commit", "restock"}, NEW e \in Epochs,
           NEW T \in SUBSET SkusOf(o), \A s \in T : Row(kind, o, e, s) \notin ledger,
           ledger' = ledger \cup RowsBooked(kind, o, e, T), NEW s \in Skus
    PROVE  /\ Sum(SalesOf(s), Orders) \in Int
           /\ s \notin T => Sum(SalesOf(s)', Orders) = Sum(SalesOf(s), Orders)
           /\ s \in T /\ kind = "commit" =>
                Sum(SalesOf(s)', Orders) = Sum(SalesOf(s), Orders) + Lines[o][s]
           /\ s \in T /\ kind = "restock" =>
                Sum(SalesOf(s)', Orders) = Sum(SalesOf(s), Orders) - Lines[o][s]
<1> DEFINE f == SalesOf(s)
           g == SalesOf(s)'
           d == IF s \in T THEN IF kind = "commit" THEN Lines[o][s] ELSE -Lines[o][s] ELSE 0
<1>1. \A p \in Orders : Lines[p][s] \in Nat /\ NetSales(p, s) \in Int
    BY LineUnits, NetSalesInt
<1>2. \A p \in Orders : f[p] = NetSales(p, s) * Lines[p][s] /\ g[p] = NetSales(p, s)' * Lines[p][s]
    BY DEF SalesOf, SoldUnits
<1>3. /\ \A p \in Orders : p # o => g[p] = f[p]
      /\ g[o] = f[o] + d
    <2>1. /\ \A p : p # o \/ s \notin T => NetSales(p, s)' = NetSales(p, s)
          /\ s \in T /\ kind = "commit" => NetSales(o, s)' = NetSales(o, s) + 1
          /\ s \in T /\ kind = "restock" => NetSales(o, s)' = NetSales(o, s) - 1
        <3>1. ASSUME NEW p, p # o \/ s \notin T PROVE NetSales(p, s)' = NetSales(p, s)
            <4>1. \A k : RowsOf(k, p, s)' = RowsOf(k, p, s)
                BY <3>1, RowFields DEF RowsOf, RowsBooked
            <4> QED BY <4>1 DEF NetSales
        <3>2. ASSUME s \in T, kind = "commit" PROVE NetSales(o, s)' = NetSales(o, s) + 1
            BY <3>2, NetSalesSold
        <3>3. ASSUME s \in T, kind = "restock" PROVE NetSales(o, s)' = NetSales(o, s) - 1
            BY <3>3, NetSalesBack
        <3> QED BY <3>1, <3>2, <3>3
    <2>2. \A p \in Orders : p # o => g[p] = f[p]
        BY <1>2, <2>1
    <2>3. ASSUME NEW n \in Int, NEW u \in Nat
          PROVE  (n + 1) * u = n * u + u /\ (n - 1) * u = n * u - u
        OBVIOUS
    <2>4. NetSales(o, s) \in Int /\ Lines[o][s] \in Nat
        BY <1>1
    <2>5. CASE s \in T /\ kind = "commit"
        <3>1. g[o] = (NetSales(o, s) + 1) * Lines[o][s]
            BY <1>2, <2>1, <2>5
        <3>2. g[o] = NetSales(o, s) * Lines[o][s] + Lines[o][s]
            BY <2>3, <2>4, <3>1
        <3> QED BY <1>2, <2>2, <2>5, <3>2
    <2>6. CASE s \in T /\ kind = "restock"
        <3>1. g[o] = (NetSales(o, s) - 1) * Lines[o][s]
            BY <1>2, <2>1, <2>6
        <3>2. g[o] = NetSales(o, s) * Lines[o][s] - Lines[o][s]
            BY <2>3, <2>4, <3>1
        <3>3. f[o] = NetSales(o, s) * Lines[o][s] /\ d = -Lines[o][s]
            BY <1>2, <2>6
        <3> QED BY <2>2, <2>4, <3>2, <3>3
    <2>7. CASE s \notin T
        <3>1. NetSales(o, s)' = NetSales(o, s)
            BY <2>1, <2>7
        <3>2. g[o] = NetSales(o, s) * Lines[o][s] /\ f[o] = NetSales(o, s) * Lines[o][s] /\ d = 0
            BY <1>2, <2>7, <3>1
        <3>3. NetSales(o, s) * Lines[o][s] \in Int
            BY <2>4
        <3> HIDE DEF f, g, d
        <3> QED BY <2>2, <3>2, <3>3
    <2> QED BY <2>5, <2>6, <2>7
<1>4. IntOn(f, Orders) /\ d \in Int
    BY <1>1, <1>2 DEF IntOn
<1>5. IntOn(g, Orders)
    <2> HIDE DEF f, g, d
    <2> QED BY <1>3, <1>4 DEF IntOn
<1>6. Sum(f, Orders) \in Int /\ Sum(g, Orders) = Sum(f, Orders) - f[o] + g[o] /\ f[o] \in Int
    <2> HIDE DEF f, g, d
    <2> QED BY <1>3, <1>4, <1>5, SumChange DEF IntOn
<1>7. Sum(g, Orders) = Sum(f, Orders) + d
    <2> HIDE DEF f, g, d
    <2> QED BY <1>3, <1>4, <1>6
<1> HIDE DEF f, g
<1> QED BY <1>1, <1>6, <1>7 DEF f, g
-----------------------------------------------------------------------------
(* The ledger's balance.                                                    *)

(* A transaction whose change of on-hand stock is that of the rows it books *)
(* keeps the balance.                                                       *)
LEMMA BookingBalances ==
    ASSUME StockTypeOK, LedgerBalances, NEW o \in Orders, NEW kind \in {"commit", "restock"},
           NEW e \in Epochs, NEW T \in SUBSET SkusOf(o),
           \A s \in T : Row(kind, o, e, s) \notin ledger,
           ledger' = ledger \cup RowsBooked(kind, o, e, T), posted' = posted,
           \A s \in Strict : /\ s \notin T => stock'[s] = stock[s]
                             /\ s \in T /\ kind = "commit" => stock'[s] = stock[s] - Lines[o][s]
                             /\ s \in T /\ kind = "restock" => stock'[s] = stock[s] + Lines[o][s]
    PROVE  LedgerBalances'
<1> SUFFICES ASSUME NEW s \in Strict PROVE LedgerSum(s)' = stock'[s]
    BY DEF LedgerBalances
<1>1. s \in Skus /\ posted[s] \in Int /\ stock[s] \in Int /\ Lines[o][s] \in Nat
    BY LineUnits DEF Strict, StockTypeOK
<1>2. LedgerSum(s) = posted[s] - Sum(SalesOf(s), Orders) /\ LedgerSum(s) = stock[s]
    BY LedgerSumIs DEF LedgerBalances
<1>3. LedgerSum(s)' = posted[s] - Sum(SalesOf(s)', Orders)
    BY DEF LedgerSum, SumFunction, Sum, SalesOf, SoldUnits
<1>4. /\ Sum(SalesOf(s), Orders) \in Int
      /\ s \notin T => Sum(SalesOf(s)', Orders) = Sum(SalesOf(s), Orders)
      /\ s \in T /\ kind = "commit" =>
           Sum(SalesOf(s)', Orders) = Sum(SalesOf(s), Orders) + Lines[o][s]
      /\ s \in T /\ kind = "restock" =>
           Sum(SalesOf(s)', Orders) = Sum(SalesOf(s), Orders) - Lines[o][s]
    BY <1>1, SalesStep
<1> QED BY <1>1, <1>2, <1>3, <1>4

(* A step that books nothing and moves no tracked stock keeps it.           *)
LEMMA BalanceUnchanged ==
    ASSUME LedgerBalances, UNCHANGED <<stock, ledger, posted>>
    PROVE  LedgerBalances'
    BY DEF LedgerBalances, LedgerSum, NetSales, RowsOf

(* commitLines books what it sells of every tracked line.                   *)
LEMMA CommitLinesBalances ==
    ASSUME Typed, LedgerBalances, NEW o \in Orders, NEW e \in Epochs, CommitLines(o, e)
    PROVE  LedgerBalances'
<1> DEFINE T == {t \in ToSell(o, e) : Tracked(t)}
<1>1. /\ T \in SUBSET SkusOf(o) /\ \A s \in T : Row("commit", o, e, s) \notin ledger
      /\ ledger' = ledger \cup RowsBooked("commit", o, e, T) /\ posted' = posted
    BY DEF ToSell, CommitLines, RowsBooked
<1>2. \A s \in Strict : stock'[s] = IF s \in T THEN stock[s] - Lines[o][s] ELSE stock[s]
    <2> TAKE s \in Strict
    <2>1. s \in Skus /\ Tracked(s) /\ stock[s] \in Int
        BY DEF Strict, Tracked, Typed, StrictModes, StockTypeOK
    <2> QED BY <2>1 DEF CommitLines
<1> HIDE DEF T
<1> QED BY <1>1, <1>2, BookingBalances DEF Typed

(* commitReservation sells one hold of a tracked line that has no sale, and *)
(* books it.                                                                *)
LEMMA CommitReservationBalances ==
    ASSUME Typed, LedgerBalances, NEW o \in Orders, NEW e \in Epochs, CommitReservation(o, e)
    PROVE  LedgerBalances'
<1> DEFINE T == {t \in ToSell(o, e) : Tracked(t) /\ HoldsOf(o) # {}}
<1>1. /\ T \in SUBSET SkusOf(o) /\ \A s \in T : Row("commit", o, e, s) \notin ledger
      /\ ledger' = ledger \cup RowsBooked("commit", o, e, T) /\ posted' = posted
    BY DEF ToSell, CommitReservation, RowsBooked
<1>2. \A s \in Strict : stock'[s] = IF s \in T THEN stock[s] - Lines[o][s] ELSE stock[s]
    <2> TAKE s \in Strict
    <2>1. s \in Skus /\ Tracked(s) /\ stock[s] \in Int /\ Lines[o][s] \in Nat
        BY LineUnits DEF Strict, Tracked, Typed, StrictModes, StockTypeOK
    <2>2. stock'[s] = stock[s] - HoldsToSell(o, e, s) * Lines[o][s]
        BY <2>1 DEF CommitReservation
    <2>3. HoldsToSell(o, e, s) = IF s \in T THEN 1 ELSE 0
        BY <2>1 DEF HoldsToSell
    <2> HIDE DEF T
    <2> QED BY <2>1, <2>2, <2>3
<1> HIDE DEF T
<1> QED BY <1>1, <1>2, BookingBalances DEF Typed

(* restockLines books what it puts back of every tracked line.              *)
LEMMA RestockBalances ==
    ASSUME Typed, LedgerBalances, NEW o \in Orders, NEW e \in Epochs, RestockLines(o, e)
    PROVE  LedgerBalances'
<1> DEFINE T == {t \in ToRestock(o, e) : Tracked(t)}
<1>1. /\ T \in SUBSET SkusOf(o) /\ \A s \in T : Row("restock", o, e, s) \notin ledger
      /\ ledger' = ledger \cup RowsBooked("restock", o, e, T) /\ posted' = posted
    BY DEF ToRestock, RestockLines, RowsBooked
<1>2. \A s \in Strict : stock'[s] = IF s \in T THEN stock[s] + Lines[o][s] ELSE stock[s]
    <2> TAKE s \in Strict
    <2>1. s \in Skus /\ Tracked(s) /\ stock[s] \in Int /\ Lines[o][s] \in Nat
        BY LineUnits DEF Strict, Tracked, Typed, StrictModes, StockTypeOK
    <2>2. stock'[s] = IF s \in T THEN stock[s] + Lines[o][s] ELSE stock[s]
        BY <2>1 DEF RestockLines
    <2> HIDE DEF T
    <2> QED BY <2>1, <2>2
<1> HIDE DEF T
<1> QED BY <1>1, <1>2, BookingBalances DEF Typed

(* adjustStock writes a row of its own for what it moves.                   *)
LEMMA AdjustBalances ==
    ASSUME Typed, LedgerBalances, NEW s \in Skus, NEW delta \in Int, AdjustStock(s, delta)
    PROVE  LedgerBalances'
<1> SUFFICES ASSUME NEW t \in Strict PROVE LedgerSum(t)' = stock'[t]
    BY DEF LedgerBalances
<1>1. t \in Skus /\ posted[t] \in Int /\ stock[t] \in Int /\ ledger' = ledger
    BY DEF Strict, Typed, StockTypeOK, AdjustStock
<1>2. LedgerSum(t) = posted[t] - Sum(SalesOf(t), Orders) /\ LedgerSum(t) = stock[t]
    BY LedgerSumIs DEF LedgerBalances
<1>3. LedgerSum(t)' = posted'[t] - Sum(SalesOf(t), Orders)
    BY <1>1 DEF LedgerSum, SumFunction, Sum, SalesOf, SoldUnits, NetSales, RowsOf
<1>4. Sum(SalesOf(t), Orders) \in Int
    <2>1. IntOn(SalesOf(t), Orders)
        BY <1>1, LineUnits, NetSalesInt DEF IntOn, SalesOf, SoldUnits, Typed
    <2> QED BY <2>1, SumRemove
<1>5. \/ posted'[t] = posted[t] /\ stock'[t] = stock[t]
      \/ posted'[t] = posted[t] + delta /\ stock'[t] = stock[t] + delta
    BY <1>1 DEF AdjustStock, Typed, StockTypeOK
<1> QED BY <1>1, <1>2, <1>3, <1>4, <1>5

-----------------------------------------------------------------------------
(* The units under hold.                                                    *)

(* Units under hold are a natural number.                                   *)
LEMMA HeldNat ==
    ASSUME StockTypeOK, IsFiniteSet(holds), NEW s \in Skus
    PROVE  /\ HeldUnits(s) \in Nat
           /\ \A h \in holds : UnitsHeld(s)[h] = Lines[h.order][s] /\ UnitsHeld(s)[h] \in Nat
           /\ IntOn(UnitsHeld(s), holds)
<1>1. \A h \in holds : UnitsHeld(s)[h] = Lines[h.order][s] /\ UnitsHeld(s)[h] \in Nat
    <2> TAKE h \in holds
    <2>1. h \in Hold /\ h.order \in Orders
        BY DEF StockTypeOK, Hold
    <2> QED BY <2>1, LineUnits DEF UnitsHeld
<1>2. Sum(UnitsHeld(s), holds) \in Nat
    <2> HIDE DEF UnitsHeld
    <2> QED BY <1>1, SumGrows
<1> QED BY <1>1, <1>2, HeldUnitsIs DEF IntOn

(* Removing an order's holds takes its line off the units once for each.    *)
LEMMA HeldAfterRemoval ==
    ASSUME StockTypeOK, IsFiniteSet(holds), NEW o \in Orders, NEW s \in Skus,
           holds' = holds \ HoldsOf(o)
    PROVE  /\ HeldUnits(s)' = HeldUnits(s) - Cardinality(HoldsOf(o)) * Lines[o][s]
           /\ HeldUnits(s)' \in Nat
<1>1. HoldsOf(o) \in SUBSET holds /\ \A h \in HoldsOf(o) : UnitsHeld(s)[h] = Lines[o][s]
    BY HeldNat DEF HoldsOf
<1>2. Lines[o][s] \in Int
    BY LineUnits
<1>3. Sum(UnitsHeld(s), holds \ HoldsOf(o))
        = Sum(UnitsHeld(s), holds) - Cardinality(HoldsOf(o)) * Lines[o][s]
    <2>1. IntOn(UnitsHeld(s), holds)
        BY HeldNat
    <2> QED BY <1>1, <1>2, <2>1, SumWithout
<1>4. Sum(UnitsHeld(s), holds \ HoldsOf(o)) \in Nat
    <2>1. holds \ HoldsOf(o) \in SUBSET holds /\ \A h \in holds : UnitsHeld(s)[h] \in Nat
        BY HeldNat
    <2> QED BY <2>1, SumGrows
<1>5. HeldUnits(s)' = Sum(UnitsHeld(s), holds')
    BY DEF HeldUnits, Sum, UnitsHeld
<1> QED BY <1>3, <1>4, <1>5, HeldUnitsIs

(* A new hold adds its order's line.                                        *)
LEMMA HeldAfterHold ==
    ASSUME StockTypeOK, IsFiniteSet(holds), NEW o \in Orders, NEW e \in Epochs, NEW s \in Skus,
           holds' = holds \cup {[order |-> o, epoch |-> e]}
    PROVE  HeldUnits(s)' = IF [order |-> o, epoch |-> e] \in holds THEN HeldUnits(s)
                           ELSE HeldUnits(s) + Lines[o][s]
<1> DEFINE h == [order |-> o, epoch |-> e]
<1>1. HeldUnits(s)' = Sum(UnitsHeld(s), holds') /\ HeldUnits(s) = Sum(UnitsHeld(s), holds)
    BY DEF HeldUnits, Sum, UnitsHeld
<1>2. CASE h \in holds
    <2>1. holds' = holds
        BY <1>2
    <2> QED BY <1>1, <1>2, <2>1
<1>3. CASE h \notin holds
    <2>1. h \in Hold /\ UnitsHeld(s)[h] = Lines[o][s] /\ Lines[o][s] \in Nat
        BY LineUnits DEF Hold, UnitsHeld
    <2>2. IntOn(UnitsHeld(s), holds \cup {h})
        BY <2>1, HeldNat DEF IntOn
    <2>3. Sum(UnitsHeld(s), holds \cup {h}) = UnitsHeld(s)[h] + Sum(UnitsHeld(s), holds)
          /\ Sum(UnitsHeld(s), holds) \in Int
        <3> HIDE DEF h
        <3> QED BY <1>3, <2>2, SumInsert
    <2>4. holds' = holds \cup {h}
        OBVIOUS
    <2> HIDE DEF h
    <2>5. HeldUnits(s)' = HeldUnits(s) + Lines[o][s]
        <3>1. HeldUnits(s)' = UnitsHeld(s)[h] + Sum(UnitsHeld(s), holds)
            BY <1>1, <2>3, <2>4
        <3> QED BY <1>1, <2>1, <2>3, <3>1
    <2> QED BY <1>3, <2>5 DEF h
<1> QED BY <1>2, <1>3

LEMMA CoveredUnchanged ==
    ASSUME HoldsCovered, UNCHANGED <<reserved, holds>>
    PROVE  HoldsCovered'
    BY DEF HoldsCovered, HeldUnits

(* reserveOrder raises reserved by what it holds.                           *)
LEMMA ReserveCovers ==
    ASSUME StockInv, HoldsCovered, NEW o \in Orders, NEW e \in Epochs, ReserveOrder(o, e)
    PROVE  HoldsCovered'
<1> SUFFICES ASSUME NEW s \in Skus PROVE HeldUnits(s)' <= reserved'[s]
    BY DEF HoldsCovered
<1>1. reserved'[s] = reserved[s] + Lines[o][s] /\ Lines[o][s] \in Nat /\ reserved[s] \in Nat
    BY LineUnits DEF ReserveOrder, StockInv, StockTypeOK
<1>2. HeldUnits(s) \in Nat /\ HeldUnits(s) <= reserved[s]
    BY HeldNat DEF StockInv, HoldsCovered
<1>3. HeldUnits(s)' = HeldUnits(s) \/ HeldUnits(s)' = HeldUnits(s) + Lines[o][s]
    BY HeldAfterHold DEF StockInv, ReserveOrder
<1> QED BY <1>1, <1>2, <1>3

(* releaseReservation removes the holds whose units it frees; the clamp at  *)
(* zero frees no more.                                                      *)
LEMMA ReleaseCovers ==
    ASSUME StockInv, HoldsCovered, NEW o \in Orders, ReleaseReservation(o)
    PROVE  HoldsCovered'
<1> SUFFICES ASSUME NEW s \in Skus PROVE HeldUnits(s)' <= reserved'[s]
    BY DEF HoldsCovered
<1> DEFINE U == Cardinality(HoldsOf(o)) * Lines[o][s]
<1>1. U \in Nat /\ reserved[s] \in Nat
    BY HoldCount, LineUnits DEF StockInv, StockTypeOK
<1>2. HeldUnits(s) \in Nat /\ HeldUnits(s) <= reserved[s]
    BY HeldNat DEF StockInv, HoldsCovered
<1>3. HeldUnits(s)' = HeldUnits(s) - U /\ HeldUnits(s)' \in Nat
    BY HeldAfterRemoval DEF StockInv, ReleaseReservation
<1>4. reserved'[s] = AtLeastZero(reserved[s] - U)
    BY DEF ReleaseReservation
<1> HIDE DEF U
<1> QED BY <1>1, <1>2, <1>3, <1>4 DEF AtLeastZero

(* commitReservation: every hold is covered, so the fallback to available   *)
(* stock is not taken, and the units sold are at most those of the holds    *)
(* removed.                                                                 *)
LEMMA CommitCovers ==
    ASSUME StockInv, HoldsCovered, NEW o \in Orders, NEW e \in Epochs, CommitReservation(o, e)
    PROVE  HoldsCovered'
<1> SUFFICES ASSUME NEW s \in Skus PROVE HeldUnits(s)' <= reserved'[s]
    BY DEF HoldsCovered
<1> DEFINE n == Cardinality(HoldsOf(o))
           k == HoldsToSell(o, e, s)
           u == Lines[o][s]
<1>1. n \in Nat /\ u \in Nat /\ reserved[s] \in Nat /\ k \in Nat
    BY HoldCount, LineUnits, HoldsSold DEF StockInv, StockTypeOK
<1>2. HeldUnits(s) \in Nat /\ HeldUnits(s) <= reserved[s]
    BY HeldNat DEF StockInv, HoldsCovered
<1>3. HeldUnits(s)' = HeldUnits(s) - n * u /\ HeldUnits(s)' \in Nat
    BY HeldAfterRemoval DEF StockInv, CommitReservation
<1>4. k <= n
    <2>1. HoldsOf(o) # {} => n # 0
        BY HoldCount, FS_EmptySet DEF StockInv
    <2> QED BY <1>1, <2>1 DEF HoldsToSell
<1>5. n * u \in Nat /\ k * u \in Nat /\ k * u <= n * u
    <2>1. ASSUME NEW a \in Nat, NEW b \in Nat, NEW c \in Nat, a <= b
          PROVE  b * c \in Nat /\ a * c \in Nat /\ a * c <= b * c
        <3>1. b * c = a * c + (b - a) * c /\ b - a \in Nat
            BY <2>1
        <3>2. (b - a) * c \in Nat /\ a * c \in Nat
            BY <3>1
        <3> QED BY <3>1, <3>2
    <2> HIDE DEF n, k, u
    <2> QED BY <1>1, <1>4, <2>1
<1>6. ReservedCovers(o, e, s)
    <2> SUFFICES k * u <= reserved[s]
        BY DEF ReservedCovers
    <2> HIDE DEF n, k, u
    <2> QED BY <1>1, <1>2, <1>3, <1>5
<1>7. reserved'[s] = reserved[s] - k * u
    BY <1>6 DEF CommitReservation
<1> HIDE DEF n, k, u
<1> QED BY <1>1, <1>2, <1>3, <1>5, <1>7

-----------------------------------------------------------------------------
(* Every step of the shop is one operation of the stock service, under its  *)
(* guard, or leaves the service alone.                                      *)
StockOp ==
    \/ UNCHANGED stockVars
    \/ \E o \in Orders, e \in Epochs :
          \/ CanReserve(o) /\ ReserveOrder(o, e)
          \/ CanCommitLines(o, e) /\ CommitLines(o, e)
          \/ CanCommitReservation(o, e) /\ CommitReservation(o, e)
          \/ RestockLines(o, e)
    \/ \E o \in Orders : ReleaseReservation(o) \/ ExtendHolds(o)
    \/ \E s \in Skus, d \in Int : AdjustStock(s, d)
    \/ \E s \in Skus, m \in Modes : EditSku(s, m)
    \/ \E h \in holds : HoldLapses(h)

LEMMA SaleIsStockOp ==
    ASSUME ShopTypeOK, NEW o \in Orders, CanFulfil(o), SellOrder(o)
    PROVE  StockOp
    BY EpochOf DEF CanFulfil, SellOrder, StockOp

LEMMA HandlerIsStockOp ==
    ASSUME ShopTypeOK, NEW w \in Workers, Handler(w)
    PROVE  StockOp
<1> DEFINE o == req[w].order
<1>1. o \in Orders
    BY Doer DEF Ops, Handler, RenewExtends, RenewReserves, RenewRefused, CaptureConfirms,
       CaptureUnfulfillable, CaptureReplayed, RefundCapture, RefundCaptureTaken, ExpiryRelease,
       Cancel, CancelLost, AfterCancel, ReopenSells, ReopenRelabels, ReopenRefused, RefundClaim,
       RefundAnswer
<1>2. CASE RenewExtends(w)
    BY <1>1, <1>2 DEF RenewExtends, StockOp
<1>3. CASE RenewReserves(w)
    BY <1>1, <1>3, EpochOf DEF RenewReserves, StockOp
<1>4. CASE CaptureConfirms(w)
    BY <1>1, <1>4, SaleIsStockOp DEF CaptureConfirms
<1>5. CASE RefundCapture(w) \/ ExpiryRelease(w)
    BY <1>1, <1>5 DEF RefundCapture, ExpiryRelease, StockOp
<1>6. CASE ReopenSells(w)
    BY <1>1, <1>6, EpochOf DEF ReopenSells, StockOp
<1>7. CASE Cancel(w)
    BY <1>1, <1>7, EpochOf DEF Cancel, StockOp
<1>8. CASE UNCHANGED stockVars
    BY <1>8 DEF StockOp
<1> QED BY <1>2, <1>3, <1>4, <1>5, <1>6, <1>7, <1>8
        DEF Handler, RenewRefused, CaptureUnfulfillable, CaptureReplayed, RefundCaptureTaken,
            CancelLost, AfterCancel, ReopenRelabels, ReopenRefused, RefundClaim, RefundAnswer

LEMMA StepIsStockOp ==
    ASSUME ShopTypeOK, [Next]_vars
    PROVE  StockOp
<1>1. ASSUME NEW w \in Workers, Handler(w) PROVE StockOp
    BY <1>1, HandlerIsStockOp
<1>2. ASSUME NEW w \in Workers, NEW o \in Orders, Start(w, o) PROVE StockOp
    <2>1. UNCHANGED stockVars
        BY <1>2 DEF Start, RetryRead, CaptureRead, ExpiryCheck, ExpiryBlind, CancelRead, ReopenRead, RetryRefund
    <2> QED BY <2>1 DEF StockOp
<1>3. ASSUME NEW w \in Workers, Crash(w) PROVE StockOp
    BY <1>3 DEF Crash, StockOp
<1>4. ASSUME NEW o \in Orders, OneStep(o) PROVE StockOp
    <2>1. CASE PlacePrepaid(o)
        BY <2>1, EpochOf DEF PlacePrepaid, StockOp
    <2>2. CASE PlaceCod(o)
        BY <2>2, EpochOf DEF PlaceCod, StockOp
    <2>3. CASE RecordManualPayment(o)
        BY <2>3, SaleIsStockOp DEF RecordManualPayment
    <2>4. CASE PayAtGateway(o) \/ FailUnpaid(o)
        BY <2>4 DEF PayAtGateway, FailUnpaid, StockOp
    <2> QED BY <1>4, <2>1, <2>2, <2>3, <2>4 DEF OneStep
<1>5. ASSUME NEW s \in Skus, NEW d \in AdjustDeltas, Adjust(s, d) PROVE StockOp
    BY <1>5 DEF Adjust, StockOp
<1>6. ASSUME NEW s \in Skus, NEW m \in Modes, Edit(s, m) PROVE StockOp
    BY <1>6 DEF Edit, StockOp
<1>7. ASSUME NEW h \in holds, Lapse(h) PROVE StockOp
    BY <1>7 DEF Lapse, StockOp
<1>8. CASE UNCHANGED vars
    BY <1>8 DEF vars, stockVars, StockOp
<1> QED BY <1>1, <1>2, <1>3, <1>4, <1>5, <1>6, <1>7, <1>8 DEF Next

(* Every operation of the service keeps the ledger's balance.               *)
LEMMA StockOpBalances ==
    ASSUME Typed, LedgerBalances, StockOp
    PROVE  LedgerBalances'
<1>1. ASSUME NEW o \in Orders, NEW e \in Epochs, ReserveOrder(o, e) PROVE LedgerBalances'
    BY <1>1, BalanceUnchanged DEF ReserveOrder
<1>2. ASSUME NEW o \in Orders, NEW e \in Epochs,
             CommitLines(o, e) \/ CommitReservation(o, e) \/ RestockLines(o, e)
      PROVE  LedgerBalances'
    BY <1>2, CommitLinesBalances, CommitReservationBalances, RestockBalances
<1>3. ASSUME NEW o \in Orders, ReleaseReservation(o) \/ ExtendHolds(o) PROVE LedgerBalances'
    BY <1>3, BalanceUnchanged DEF ReleaseReservation, ExtendHolds
<1>4. ASSUME NEW s \in Skus, NEW d \in Int, AdjustStock(s, d) PROVE LedgerBalances'
    BY <1>4, AdjustBalances
<1>5. ASSUME NEW s, NEW m, EditSku(s, m) PROVE LedgerBalances'
    BY <1>5, BalanceUnchanged DEF EditSku
<1>6. ASSUME NEW h, HoldLapses(h) PROVE LedgerBalances'
    BY <1>6, BalanceUnchanged DEF HoldLapses
<1>7. CASE UNCHANGED stockVars
    BY <1>7, BalanceUnchanged DEF stockVars
<1> QED BY <1>1, <1>2, <1>3, <1>4, <1>5, <1>6, <1>7 DEF StockOp

(* Every operation of the service keeps the holds covered.                  *)
LEMMA StockOpCovers ==
    ASSUME StockInv, HoldsCovered, StockOp
    PROVE  HoldsCovered'
<1>1. ASSUME NEW o \in Orders, NEW e \in Epochs,
             ReserveOrder(o, e) \/ CommitReservation(o, e) \/ ReleaseReservation(o)
      PROVE  HoldsCovered'
    BY <1>1, ReserveCovers, CommitCovers, ReleaseCovers
<1>2. ASSUME NEW o \in Orders, NEW e \in Epochs, CommitLines(o, e) \/ RestockLines(o, e)
      PROVE  HoldsCovered'
    BY <1>2, CoveredUnchanged DEF CommitLines, RestockLines
<1>3. ASSUME NEW o \in Orders, ExtendHolds(o) PROVE HoldsCovered'
    BY <1>3, CoveredUnchanged DEF ExtendHolds
<1>4. ASSUME NEW s, NEW d, AdjustStock(s, d) PROVE HoldsCovered'
    BY <1>4, CoveredUnchanged DEF AdjustStock
<1>5. ASSUME NEW s, NEW m, EditSku(s, m) PROVE HoldsCovered'
    BY <1>5, CoveredUnchanged DEF EditSku
<1>6. ASSUME NEW h, HoldLapses(h) PROVE HoldsCovered'
    BY <1>6, CoveredUnchanged DEF HoldLapses
<1>7. CASE UNCHANGED stockVars
    BY <1>7, CoveredUnchanged DEF stockVars
<1>8. ASSUME NEW o \in Orders, ReleaseReservation(o) PROVE HoldsCovered'
    BY <1>8, ReleaseCovers
<1> QED BY <1>1, <1>2, <1>3, <1>4, <1>5, <1>6, <1>7, <1>8 DEF StockOp

(* The opening stock is posted, and nothing is held.                        *)
LEMMA InitCounts ==
    ASSUME Init
    PROVE  LedgerBalances /\ HoldsCovered
<1>1. ASSUME NEW s \in Strict PROVE LedgerSum(s) = stock[s]
    <2>1. s \in Skus /\ stock[s] \in Int /\ posted[s] = stock[s] /\ ledger = {}
        BY <1>1 DEF Strict, Init
    <2>2. \A o \in Orders : NetSales(o, s) = 0
        <3>1. \A k, o : RowsOf(k, o, s) = {}
            BY <2>1 DEF RowsOf
        <3>2. Cardinality({}) = 0
            BY FS_EmptySet
        <3>3. \A o \in Orders : NetSales(o, s) = 0 - 0
            BY <3>1, <3>2 DEF NetSales
        <3> QED BY <3>3
    <2>3. \A o \in Orders : SalesOf(s)[o] = 0
        BY <2>1, <2>2, LineUnits DEF SalesOf, SoldUnits
    <2>4. Sum(SalesOf(s), Orders) = 0
        BY <2>3, SumZero
    <2> QED BY <2>1, <2>4, LedgerSumIs
<1>2. ASSUME NEW s \in Skus PROVE HeldUnits(s) <= reserved[s]
    <2>1. Sum(UnitsHeld(s), {}) = 0
        BY SumEmpty
    <2> QED BY <2>1, HeldUnitsIs DEF Init
<1> QED BY <1>1, <1>2 DEF LedgerBalances, HoldsCovered

(* stock-reconcile finds nothing to report about a SKU that has been        *)
(* tracked all along: its on-hand quantity is the sum of its ledger rows,   *)
(* however the handlers, crons and admins interleave.                       *)
THEOREM LedgerAlwaysBalances == Spec => []LedgerBalances
<1>1. Init => LedgerBalances
    BY InitCounts
<1>2. Inv /\ LedgerBalances /\ [Next]_vars => LedgerBalances'
    BY StepIsStockOp, StockOpBalances DEF Inv, StockInv, Typed
<1> QED BY Invariance, <1>1, <1>2, PTL DEF Spec

(* Every unit of every ACTIVE reservation is inside reserved_quantity, so   *)
(* no sale, adjustment or other checkout can take it.                       *)
THEOREM HoldsAlwaysCovered == Spec => []HoldsCovered
<1>1. Init => HoldsCovered
    BY InitCounts
<1>2. Inv /\ HoldsCovered /\ [Next]_vars => HoldsCovered'
    BY StepIsStockOp, StockOpCovers DEF Inv
<1> QED BY Invariance, <1>1, <1>2, PTL DEF Spec

-----------------------------------------------------------------------------
(* What is exact about a set F of orders, and the SKUs of no other order.   *)

HoldsFit(F) ==
    \A o \in F : /\ HoldsOf(o) # {} <=> order[o].stockState = "reserved"
                 /\ \A g, h \in HoldsOf(o) : g = h

ReservedMatch(F) ==
    \A s \in Skus : (\A o \in Orders \ F : s \notin SkusOf(o)) => reserved[s] = HeldUnits(s)

SalesMatch(F) ==
    \A o \in F : \A s \in SkusOf(o) \cap Strict :
        /\ NetSales(o, s) \in {0, 1}
        /\ order[o].stockState = "committed" => NetSales(o, s) = 1
        /\ order[o].stockState = "restocked" => NetSales(o, s) = 0

Tidy(F) == HoldsFit(F) /\ ReservedMatch(F) /\ SalesMatch(F)

(* A transaction that leaves the holds alone, and whether its order says    *)
(* reserved.                                                                *)
LEMMA HoldsKept ==
    ASSUME NEW F \in SUBSET Orders, ShopTypeOK, HoldsFit(F), NEW o \in Orders, NEW doc,
           Set(o, doc), holds' = holds,
           doc.stockState = "reserved" <=> order[o].stockState = "reserved"
    PROVE  HoldsFit(F)'
    BY SetDoc DEF HoldsFit, HoldsOf

(* One that removes its order's holds and leaves it not reserved.           *)
LEMMA HoldsDropped ==
    ASSUME NEW F \in SUBSET Orders, ShopTypeOK, HoldsFit(F), NEW o \in Orders, NEW doc,
           Set(o, doc), holds' = holds \ HoldsOf(o), doc.stockState # "reserved"
    PROVE  HoldsFit(F)'
    BY SetDoc DEF HoldsFit, HoldsOf

(* One that takes a hold for an order that has none.                        *)
LEMMA HoldTaken ==
    ASSUME NEW F \in SUBSET Orders, ShopTypeOK, HoldsFit(F), NEW o \in Orders, NEW doc,
           Set(o, doc), NEW e, holds' = holds \cup {[order |-> o, epoch |-> e]},
           HoldsOf(o) = {}, doc.stockState = "reserved"
    PROVE  HoldsFit(F)'
<1>1. HoldsOf(o)' = {[order |-> o, epoch |-> e]}
    BY DEF HoldsOf
<1>2. \A p \in Orders : p # o => HoldsOf(p)' = HoldsOf(p) /\ order'[p] = order[p]
    BY SetDoc DEF HoldsOf
<1>3. order'[o] = doc
    BY SetDoc
<1>4. ASSUME NEW p \in F
      PROVE  /\ HoldsOf(p)' # {} <=> order'[p].stockState = "reserved"
             /\ \A g, h \in HoldsOf(p)' : g = h
    <2>1. CASE p = o
        BY <1>1, <1>3, <2>1
    <2>2. CASE p # o
        BY <1>2, <2>2 DEF HoldsFit
    <2> QED BY <2>1, <2>2
<1> QED BY <1>4 DEF HoldsFit, HoldsOf

(* reserved and the holds go up together when the order had no hold.        *)
LEMMA ReserveMatches ==
    ASSUME StockInv, NEW o \in Orders, NEW e \in Epochs, ReserveOrder(o, e), HoldsOf(o) = {},
           NEW s \in Skus, reserved[s] = HeldUnits(s)
    PROVE  reserved'[s] = HeldUnits(s)'
<1>1. reserved'[s] = reserved[s] + Lines[o][s]
    BY DEF ReserveOrder
<1>2. [order |-> o, epoch |-> e] \notin holds
    BY DEF HoldsOf
<1>3. HeldUnits(s)' = HeldUnits(s) + Lines[o][s]
    BY <1>2, HeldAfterHold DEF StockInv, ReserveOrder
<1> QED BY <1>1, <1>3

(* A release frees what its holds stood for; the clamp has nothing to do.   *)
LEMMA ReleaseMatches ==
    ASSUME StockInv, NEW o \in Orders, ReleaseReservation(o),
           NEW s \in Skus, reserved[s] = HeldUnits(s)
    PROVE  reserved'[s] = HeldUnits(s)'
<1> DEFINE U == Cardinality(HoldsOf(o)) * Lines[o][s]
<1>1. U \in Nat /\ HeldUnits(s) \in Nat
    BY HoldCount, LineUnits, HeldNat DEF StockInv
<1>2. HeldUnits(s)' = HeldUnits(s) - U /\ HeldUnits(s)' \in Nat
    BY HeldAfterRemoval DEF StockInv, ReleaseReservation
<1>3. reserved'[s] = AtLeastZero(reserved[s] - U)
    BY DEF ReleaseReservation
<1> HIDE DEF U
<1> QED BY <1>1, <1>2, <1>3 DEF AtLeastZero

(* A commit of the one hold of an order that has no sale sells every line   *)
(* from the hold.                                                           *)
LEMMA CommitMatches ==
    ASSUME StockInv, NEW o \in Orders, NEW e \in Epochs, CommitReservation(o, e),
           HoldsOf(o) # {}, \A g, h \in HoldsOf(o) : g = h,
           \A s \in SkusOf(o) : Row("commit", o, e, s) \notin ledger,
           NEW s \in Skus, reserved[s] = HeldUnits(s)
    PROVE  reserved'[s] = HeldUnits(s)'
<1> DEFINE k == HoldsToSell(o, e, s)
           u == Lines[o][s]
<1>1. u \in Nat /\ HeldUnits(s) \in Nat
    BY LineUnits, HeldNat DEF StockInv
<1>2. Cardinality(HoldsOf(o)) = 1
    <2>1. PICK h \in HoldsOf(o) : HoldsOf(o) = {h}
        OBVIOUS
    <2> QED BY <2>1, FS_Singleton
<1>3. HeldUnits(s)' = HeldUnits(s) - 1 * u /\ HeldUnits(s)' \in Nat
    BY <1>2, HeldAfterRemoval DEF StockInv, CommitReservation
<1>4. k * u = u
    <2>1. CASE s \in SkusOf(o)
        <3>1. k = 1
            BY <1>2, <2>1 DEF HoldsToSell, ToSell
        <3> HIDE DEF k, u
        <3> QED BY <1>1, <3>1
    <2>2. CASE s \notin SkusOf(o)
        <3>1. k = 0 /\ u = 0
            BY <2>2, LineUnits DEF HoldsToSell, ToSell
        <3> HIDE DEF k, u
        <3> QED BY <3>1
    <2> QED BY <2>1, <2>2
<1>5. ReservedCovers(o, e, s)
    <2> SUFFICES k * u <= reserved[s]
        BY DEF ReservedCovers
    <2> HIDE DEF k, u
    <2> QED BY <1>1, <1>3, <1>4
<1>6. reserved'[s] = reserved[s] - k * u
    BY <1>5 DEF CommitReservation
<1> HIDE DEF k, u
<1> QED BY <1>1, <1>3, <1>4, <1>6

(* A transaction that books nothing and settles no order.                   *)
LEMMA SalesKept ==
    ASSUME NEW F \in SUBSET Orders, ShopTypeOK, SalesMatch(F), NEW o \in Orders, NEW doc,
           Set(o, doc), ledger' = ledger,
           doc.stockState = order[o].stockState \/ doc.stockState \notin Settled
    PROVE  SalesMatch(F)'
<1>1. \A p, s : NetSales(p, s)' = NetSales(p, s)
    BY DEF NetSales, RowsOf
<1>2. order'[o] = doc /\ \A p \in Orders : p # o => order'[p] = order[p]
    BY SetDoc
<1> QED BY <1>1, <1>2 DEF SalesMatch, SkusOf, Settled

(* An order without stock_reserved was never sold.                          *)
LEMMA NeverSold ==
    ASSUME Books, NEW o \in Orders, ~order[o].stockReserved
    PROVE  /\ \A kind, e, s : Row(kind, o, e, s) \notin ledger
           /\ \A s : NetSales(o, s) = 0
<1>1. \A r \in ledger : r.order # o
    BY DEF Books, BookedIsFlagged
<1>2. \A kind, s : RowsOf(kind, o, s) = {}
    BY <1>1 DEF RowsOf
<1>3. Cardinality({}) = 0
    BY FS_EmptySet
<1>4. \A s : NetSales(o, s) = 0 - 0
    BY <1>2, <1>3 DEF NetSales
<1> QED BY <1>1, <1>4, RowFields

(* Rows booked for one order leave the sales of every other alone.          *)
LEMMA OthersSales ==
    ASSUME NEW kind, NEW o, NEW e, NEW T, ledger' = ledger \cup RowsBooked(kind, o, e, T)
    PROVE  \A p : p # o => \A s : NetSales(p, s)' = NetSales(p, s)
<1> SUFFICES ASSUME NEW p, p # o, NEW s PROVE NetSales(p, s)' = NetSales(p, s)
    OBVIOUS
<1>1. \A k : RowsOf(k, p, s)' = RowsOf(k, p, s)
    BY RowFields DEF RowsOf, RowsBooked
<1> QED BY <1>1 DEF NetSales

(* A sale of an order whose units are all back, under a new key.            *)
LEMMA SaleMatches ==
    ASSUME NEW F \in SUBSET Orders, Typed, SalesMatch(F), NEW o \in Orders, NEW doc, Set(o, doc),
           NEW e \in Epochs, NEW T \in SUBSET SkusOf(o), SkusOf(o) \cap Strict \subseteq T,
           ledger' = ledger \cup RowsBooked("commit", o, e, T), doc.stockState = "committed",
           \A s \in SkusOf(o) \cap Strict : /\ Row("commit", o, e, s) \notin ledger
                                            /\ NetSales(o, s) = 0
    PROVE  SalesMatch(F)'
<1> SUFFICES ASSUME NEW p \in F, NEW s \in SkusOf(p) \cap Strict
             PROVE  /\ NetSales(p, s)' \in {0, 1}
                    /\ order'[p].stockState = "committed" => NetSales(p, s)' = 1
                    /\ order'[p].stockState = "restocked" => NetSales(p, s)' = 0
    BY DEF SalesMatch, SkusOf
<1>1. order'[o] = doc /\ (p # o => order'[p] = order[p]) /\ s \in Skus /\ p \in Orders
    BY SetDoc DEF Typed, SkusOf
<1>2. CASE p = o
    <2>1. NetSales(o, s)' = NetSales(o, s) + 1
        BY <1>2, NetSalesSold DEF Typed
    <2> QED BY <1>1, <1>2, <2>1
<1>3. CASE p # o
    <2>1. NetSales(p, s)' = NetSales(p, s)
        BY <1>3, OthersSales
    <2> QED BY <1>1, <1>3, <2>1 DEF SalesMatch
<1> QED BY <1>2, <1>3

(* A restock of a committed order, under the key of its sale.               *)
LEMMA RestockMatches ==
    ASSUME NEW F \in SUBSET Orders, Typed, SalesMatch(F), NEW o \in Orders, NEW doc, Set(o, doc),
           NEW e \in Epochs, NEW T \in SUBSET SkusOf(o), SkusOf(o) \cap Strict \subseteq T,
           ledger' = ledger \cup RowsBooked("restock", o, e, T),
           order[o].stockState = "committed", doc.stockState = "restocked",
           \A s \in SkusOf(o) \cap Strict : Row("restock", o, e, s) \notin ledger
    PROVE  SalesMatch(F)'
<1> SUFFICES ASSUME NEW p \in F, NEW s \in SkusOf(p) \cap Strict
             PROVE  /\ NetSales(p, s)' \in {0, 1}
                    /\ order'[p].stockState = "committed" => NetSales(p, s)' = 1
                    /\ order'[p].stockState = "restocked" => NetSales(p, s)' = 0
    BY DEF SalesMatch, SkusOf
<1>1. order'[o] = doc /\ (p # o => order'[p] = order[p]) /\ s \in Skus /\ p \in Orders
    BY SetDoc DEF Typed, SkusOf
<1>2. CASE p = o
    <2>1. NetSales(o, s)' = NetSales(o, s) - 1
        BY <1>2, NetSalesBack DEF Typed
    <2>2. NetSales(o, s) = 1
        BY <1>2 DEF SalesMatch
    <2> QED BY <1>1, <1>2, <2>1, <2>2
<1>3. CASE p # o
    <2>1. NetSales(p, s)' = NetSales(p, s)
        BY <1>3, OthersSales
    <2> QED BY <1>1, <1>3, <2>1 DEF SalesMatch
<1> QED BY <1>2, <1>3

-----------------------------------------------------------------------------
(* A transaction touches nothing that is exact about other orders.          *)

Elsewhere(o) ==
    /\ \A p \in Orders \ {o} :
          /\ order'[p] = order[p]
          /\ HoldsOf(p)' = HoldsOf(p)
          /\ \A s \in Skus : NetSales(p, s)' = NetSales(p, s)
    /\ \A s \in Skus \ SkusOf(o) : reserved'[s] = reserved[s] /\ HeldUnits(s)' = HeldUnits(s)

(* So a transaction of an order outside F leaves F tidy.                    *)
LEMMA OutsideFits ==
    ASSUME NEW F \in SUBSET Orders, Tidy(F), NEW o \in Orders \ F, Elsewhere(o)
    PROVE  Tidy(F)'
<1>1. \A p \in F : p \in Orders \ {o}
    OBVIOUS
<1>2. HoldsFit(F)'
    BY <1>1 DEF Tidy, HoldsFit, Elsewhere
<1>3. ReservedMatch(F)'
    <2> SUFFICES ASSUME NEW s \in Skus, \A p \in Orders \ F : s \notin SkusOf(p)
                 PROVE  reserved'[s] = HeldUnits(s)'
        BY DEF ReservedMatch, SkusOf
    <2>1. s \in Skus \ SkusOf(o) /\ reserved[s] = HeldUnits(s)
        BY DEF Tidy, ReservedMatch
    <2> QED BY <2>1 DEF Elsewhere
<1>4. SalesMatch(F)'
    BY <1>1 DEF Tidy, SalesMatch, Elsewhere, SkusOf
<1> QED BY <1>2, <1>3, <1>4 DEF Tidy

(* Every stock operation on an order is such a transaction.                 *)
LEMMA TransactionElsewhere ==
    ASSUME Inv, NEW o \in Orders, UNCHANGED order \/ \E doc : Set(o, doc), NEW e \in Epochs,
           \/ UNCHANGED <<reserved, holds, ledger>>
           \/ ReserveOrder(o, e) \/ ReleaseReservation(o)
           \/ CommitLines(o, e) \/ CommitReservation(o, e) \/ RestockLines(o, e)
    PROVE  Elsewhere(o)
<1>0. StockInv /\ ShopTypeOK /\ StockTypeOK /\ IsFiniteSet(holds)
    BY DEF Inv, StockInv
<1>1. ASSUME NEW p \in Orders \ {o} PROVE order'[p] = order[p] /\ HoldsOf(p)' = HoldsOf(p)
    <2>1. order'[p] = order[p]
        BY <1>0, SetDoc
    <2>2. \/ holds' = holds \/ holds' = holds \ HoldsOf(o)
          \/ holds' = holds \cup {[order |-> o, epoch |-> e]}
        BY DEF ReserveOrder, ReleaseReservation, CommitLines, CommitReservation, RestockLines
    <2> QED BY <2>1, <2>2 DEF HoldsOf
<1>2. ASSUME NEW p \in Orders \ {o}, NEW s \in Skus PROVE NetSales(p, s)' = NetSales(p, s)
    <2>1. \/ ledger' = ledger
          \/ \E kind, T : ledger' = ledger \cup RowsBooked(kind, o, e, T)
        <3> DEFINE A == {t \in ToSell(o, e) : Tracked(t)}
                   B == {t \in ToSell(o, e) : Tracked(t) /\ HoldsOf(o) # {}}
                   C == {t \in ToRestock(o, e) : Tracked(t)}
        <3>1. \/ ledger' = ledger
              \/ ledger' = ledger \cup RowsBooked("commit", o, e, A)
              \/ ledger' = ledger \cup RowsBooked("commit", o, e, B)
              \/ ledger' = ledger \cup RowsBooked("restock", o, e, C)
            BY DEF ReserveOrder, ReleaseReservation, CommitLines, CommitReservation, RestockLines,
                   RowsBooked
        <3> HIDE DEF A, B, C
        <3> QED BY <3>1
    <2>2. CASE ledger' = ledger
        BY <2>2 DEF NetSales, RowsOf
    <2>3. ASSUME NEW kind, NEW T, ledger' = ledger \cup RowsBooked(kind, o, e, T)
          PROVE  NetSales(p, s)' = NetSales(p, s)
        BY <2>3, OthersSales
    <2> QED BY <2>1, <2>2, <2>3
<1>3. ASSUME NEW s \in Skus \ SkusOf(o)
      PROVE  reserved'[s] = reserved[s] /\ HeldUnits(s)' = HeldUnits(s)
    <2>0. Lines[o][s] = 0 /\ reserved[s] \in Nat /\ HeldUnits(s) \in Nat
        BY <1>0, LineUnits, HeldNat DEF SkusOf, StockTypeOK
    <2>1. CASE UNCHANGED <<reserved, holds>>
        BY <2>1 DEF HeldUnits
    <2>2. CASE ReserveOrder(o, e)
        <3>1. reserved'[s] = reserved[s] + Lines[o][s]
            BY <2>2 DEF ReserveOrder
        <3>2. \/ HeldUnits(s)' = HeldUnits(s)
              \/ HeldUnits(s)' = HeldUnits(s) + Lines[o][s]
            BY <1>0, <2>2, HeldAfterHold DEF ReserveOrder
        <3> QED BY <2>0, <3>1, <3>2
    <2>3. CASE ReleaseReservation(o) \/ CommitReservation(o, e)
        <3> DEFINE c == Cardinality(HoldsOf(o))
        <3>1. c \in Nat
            BY <1>0, HoldCount
        <3>2. HeldUnits(s)' = HeldUnits(s) - c * Lines[o][s]
            BY <1>0, <2>3, HeldAfterRemoval DEF ReleaseReservation, CommitReservation
        <3>3. CASE ReleaseReservation(o)
            <4>1. reserved'[s] = AtLeastZero(reserved[s] - c * Lines[o][s])
                BY <3>3 DEF ReleaseReservation
            <4> HIDE DEF c
            <4> QED BY <2>0, <3>1, <3>2, <4>1 DEF AtLeastZero
        <3>4. CASE CommitReservation(o, e)
            <4>1. HoldsToSell(o, e, s) = 0
                BY DEF HoldsToSell, ToSell
            <4>2. ReservedCovers(o, e, s)
                BY <2>0, <4>1 DEF ReservedCovers
            <4>3. reserved'[s] = reserved[s] - 0 * Lines[o][s]
                BY <3>4, <4>1, <4>2 DEF CommitReservation
            <4> HIDE DEF c
            <4> QED BY <2>0, <3>1, <3>2, <4>3
        <3> QED BY <2>3, <3>3, <3>4
    <2> QED BY <2>1, <2>2, <2>3 DEF CommitLines, RestockLines
<1> QED BY <1>1, <1>2, <1>3 DEF Elsewhere

-----------------------------------------------------------------------------
(* The transactions of the handlers keep F tidy, by kind.                   *)

(* One that moves no stock and leaves stock_state as it was.                *)
LEMMA LabelFits ==
    ASSUME NEW F \in SUBSET Orders, ShopTypeOK, Tidy(F), UNCHANGED <<reserved, holds, ledger>>,
           \/ UNCHANGED order
           \/ \E o \in Orders : \E doc : Set(o, doc) /\ doc.stockState = order[o].stockState
    PROVE  Tidy(F)'
<1>1. ReservedMatch(F)'
    BY DEF Tidy, ReservedMatch, HeldUnits, SkusOf
<1>2. CASE UNCHANGED order
    <2>1. HoldsFit(F)'
        BY <1>2 DEF Tidy, HoldsFit, HoldsOf
    <2>2. \A p, s : NetSales(p, s)' = NetSales(p, s)
        BY DEF NetSales, RowsOf
    <2>3. SalesMatch(F)'
        BY <1>2, <2>2 DEF Tidy, SalesMatch, SkusOf
    <2> QED BY <1>1, <2>1, <2>3 DEF Tidy
<1>3. ASSUME NEW o \in Orders, NEW doc, Set(o, doc), doc.stockState = order[o].stockState
      PROVE  Tidy(F)'
    BY <1>1, <1>3, HoldsKept, SalesKept DEF Tidy
<1> QED BY <1>2, <1>3

(* releaseReservation, with the order no longer reserved.                   *)
LEMMA ReleaseFits ==
    ASSUME NEW F \in SUBSET Orders, StockInv, ShopTypeOK, Tidy(F), NEW o \in Orders, NEW doc,
           Set(o, doc), ReleaseReservation(o), doc.stockState # "reserved",
           doc.stockState = order[o].stockState \/ doc.stockState \notin Settled
    PROVE  Tidy(F)'
<1>1. holds' = holds \ HoldsOf(o) /\ ledger' = ledger
    BY DEF ReleaseReservation
<1>2. ReservedMatch(F)'
    <2> SUFFICES ASSUME NEW s \in Skus, \A p \in Orders \ F : s \notin SkusOf(p)
                 PROVE  reserved'[s] = HeldUnits(s)'
        BY DEF ReservedMatch, SkusOf
    <2> QED BY ReleaseMatches DEF Tidy, ReservedMatch
<1> QED BY <1>1, <1>2, HoldsDropped, SalesKept DEF Tidy

(* reserveOrder, for an order that was not reserved, if it is in F.         *)
LEMMA ReserveFits ==
    ASSUME NEW F \in SUBSET Orders, Inv, Tidy(F), NEW o \in Orders, NEW doc, Set(o, doc),
           NEW e \in Epochs, ReserveOrder(o, e),
           o \in F => order[o].stockState # "reserved", doc.stockState = "reserved"
    PROVE  Tidy(F)'
<1>0. StockInv /\ ShopTypeOK
    BY DEF Inv
<1>1. CASE o \in F
    <2>1. holds' = holds \cup {[order |-> o, epoch |-> e]} /\ ledger' = ledger
        BY DEF ReserveOrder
    <2>2. HoldsOf(o) = {}
        BY <1>1 DEF Tidy, HoldsFit
    <2>3. HoldsFit(F)'
        BY <1>0, <2>1, <2>2, HoldTaken DEF Tidy
    <2>4. ReservedMatch(F)'
        <3> SUFFICES ASSUME NEW s \in Skus, \A p \in Orders \ F : s \notin SkusOf(p)
                     PROVE  reserved'[s] = HeldUnits(s)'
            BY DEF ReservedMatch, SkusOf
        <3> QED BY <1>0, <2>2, ReserveMatches DEF Tidy, ReservedMatch
    <2>5. SalesMatch(F)'
        BY <1>0, <2>1, SalesKept DEF Tidy, Settled
    <2> QED BY <2>3, <2>4, <2>5 DEF Tidy
<1>2. CASE o \notin F
    BY <1>2, TransactionElsewhere, OutsideFits
<1> QED BY <1>1, <1>2

(* commitLines, for an order without a hold whose units are all back, if it *)
(* is in F.                                                                 *)
LEMMA SaleFits ==
    ASSUME NEW F \in SUBSET Orders, Inv, Tidy(F), NEW o \in Orders, NEW doc, Set(o, doc),
           NEW e \in Epochs, CommitLines(o, e), doc.stockState = "committed",
           o \in F => /\ order[o].stockState # "reserved"
                      /\ \A s \in SkusOf(o) \cap Strict :
                            Row("commit", o, e, s) \notin ledger /\ NetSales(o, s) = 0
    PROVE  Tidy(F)'
<1>0. Typed
    BY DEF Inv, StockInv, Typed
<1>1. CASE o \in F
    <2>1. UNCHANGED <<reserved, holds>>
        BY DEF CommitLines
    <2>2. PICK T \in SUBSET SkusOf(o) : /\ SkusOf(o) \cap Strict \subseteq T
                                        /\ ledger' = ledger \cup RowsBooked("commit", o, e, T)
        BY <1>0, <1>1, CommitLinesBooks
    <2>3. HoldsFit(F)'
        BY <1>0, <1>1, <2>1, HoldsKept DEF Tidy, Typed
    <2>4. SalesMatch(F)'
        BY <1>0, <1>1, <2>2, SaleMatches DEF Tidy
    <2>5. ReservedMatch(F)'
        BY <2>1 DEF Tidy, ReservedMatch, HeldUnits, SkusOf
    <2> QED BY <2>3, <2>4, <2>5 DEF Tidy
<1>2. CASE o \notin F
    BY <1>2, TransactionElsewhere, OutsideFits
<1> QED BY <1>1, <1>2

(* A payment's sale, from the hold or from available stock.                 *)
LEMMA PaymentFits ==
    ASSUME NEW F \in SUBSET Orders, Inv, Books, ReservedHasHold, Tidy(F), NEW o \in Orders,
           NEW doc, Set(o, doc), ~order[o].stockReserved, SellOrder(o),
           doc.stockState = "committed"
    PROVE  Tidy(F)'
<1> DEFINE e == order[o].epoch
<1>0. Typed /\ StockInv /\ ShopTypeOK /\ e \in Epochs
    BY EpochOf DEF Inv, StockInv, Typed
<1>1. /\ \A s : Row("commit", o, e, s) \notin ledger
      /\ \A s : NetSales(o, s) = 0
    BY NeverSold
<1>2. CASE HasHold(o)
    <2>1. CommitReservation(o, e) /\ HoldsOf(o) # {}
        BY <1>2 DEF SellOrder, HasHold, ReservedHasHold
    <2> HIDE DEF e
    <2>2. CASE o \in F
        <3>1. PICK T \in SUBSET SkusOf(o) :
                 /\ SkusOf(o) \cap Strict \subseteq T
                 /\ ledger' = ledger \cup RowsBooked("commit", o, e, T)
            BY <1>0, <1>1, <2>1, CommitReservationBooks
        <3>2. holds' = holds \ HoldsOf(o)
            BY <2>1 DEF CommitReservation
        <3>3. HoldsFit(F)'
            BY <1>0, <3>2, HoldsDropped DEF Tidy
        <3>4. ReservedMatch(F)'
            <4> SUFFICES ASSUME NEW s \in Skus, \A p \in Orders \ F : s \notin SkusOf(p)
                         PROVE  reserved'[s] = HeldUnits(s)'
                BY DEF ReservedMatch, SkusOf
            <4>1. \A g, h \in HoldsOf(o) : g = h
                BY <2>2 DEF Tidy, HoldsFit
            <4>2. reserved[s] = HeldUnits(s)
                BY DEF Tidy, ReservedMatch
            <4> QED BY <1>0, <1>1, <2>1, <4>1, <4>2, CommitMatches
        <3>5. SalesMatch(F)'
            <4>1. \A s \in SkusOf(o) \cap Strict : /\ Row("commit", o, e, s) \notin ledger
                                                   /\ NetSales(o, s) = 0
                BY <1>1
            <4>2. Typed /\ e \in Epochs /\ SalesMatch(F)
                BY <1>0 DEF Tidy
            <4> QED BY <3>1, <4>1, <4>2, SaleMatches
        <3> QED BY <3>3, <3>4, <3>5 DEF Tidy
    <2>3. CASE o \notin F
        BY <1>0, <2>1, <2>3, TransactionElsewhere, OutsideFits
    <2> QED BY <2>2, <2>3
<1>3. CASE ~HasHold(o)
    <2>1. CommitLines(o, e) /\ order[o].stockState # "reserved"
        BY <1>3 DEF SellOrder, HasHold
    <2> HIDE DEF e
    <2> QED BY <1>0, <1>1, <2>1, SaleFits
<1> QED BY <1>2, <1>3

(* cancelOrder's restock of a committed order.                              *)
LEMMA RestockFits ==
    ASSUME NEW F \in SUBSET Orders, Inv, Books, Tidy(F), NEW o \in Orders, NEW doc, Set(o, doc),
           RestockLines(o, order[o].epoch), order[o].stockState = "committed",
           doc.stockState = "restocked"
    PROVE  Tidy(F)'
<1> DEFINE e == order[o].epoch
           T == {t \in ToRestock(o, e) : Tracked(t)}
<1>0. Typed /\ e \in Epochs
    BY EpochOf DEF Inv, StockInv, Typed
<1>1. RestockLines(o, e)
    OBVIOUS
<1>2. \A s \in SkusOf(o) \cap Strict : Row("restock", o, e, s) \notin ledger
    BY DEF Books, EpochMatchesState
<1>3. /\ UNCHANGED <<reserved, holds>> /\ T \in SUBSET SkusOf(o)
      /\ ledger' = ledger \cup RowsBooked("restock", o, e, T)
    BY DEF RestockLines, RowsBooked, ToRestock
<1>4. SkusOf(o) \cap Strict \subseteq T
    BY <1>0, <1>2 DEF ToRestock, Typed, StrictModes, Tracked
<1> HIDE DEF e, T
<1>5. HoldsFit(F)'
    BY <1>0, <1>3, HoldsKept DEF Tidy, Typed
<1>6. ReservedMatch(F)'
    BY <1>3 DEF Tidy, ReservedMatch, HeldUnits, SkusOf
<1>7. CASE o \in F
    <2>1. SalesMatch(F)'
        BY <1>0, <1>2, <1>3, <1>4, RestockMatches DEF Tidy
    <2> QED BY <1>5, <1>6, <2>1 DEF Tidy
<1>8. CASE o \notin F
    BY <1>0, <1>1, <1>8, TransactionElsewhere, OutsideFits
<1> QED BY <1>7, <1>8

(* A transaction of a handler in progress keeps F tidy, unless it acts on   *)
(* an outdated stock_state of an order in F.                                *)
LEMMA HandlerKeepsTidy ==
    ASSUME NEW F \in SUBSET Orders, Inv, Books, ReservedHasHold, Tidy(F), NEW w \in Workers,
           Handler(w), ActsOutdated(w) => req[w].order \notin F
    PROVE  Tidy(F)'
<1> DEFINE o == req[w].order
<1>0. Typed /\ StockInv /\ ShopTypeOK
    BY DEF Inv, StockInv, Typed
<1>1. o \in Orders
    BY <1>0, Doer DEF Ops, Handler, RenewExtends, RenewReserves, RenewRefused, CaptureConfirms,
       CaptureUnfulfillable, CaptureReplayed, RefundCapture, RefundCaptureTaken, ExpiryRelease,
       Cancel, CancelLost, AfterCancel, ReopenSells, ReopenRelabels, ReopenRefused, RefundClaim,
       RefundAnswer
<1>2. order[o] \in OrderDoc /\ order[o].epoch \in Epochs /\ AfterRelease(order[o]) \in OrderDoc
    BY <1>0, <1>1, EpochOf, DocTypes
<1>3. CASE RenewReserves(w)
    <2> DEFINE doc == [order[o] EXCEPT !.epoch = order[o].epoch + 1, !.stockState = "reserved"]
    <2>1. Set(o, doc) /\ ReserveOrder(o, order[o].epoch + 1) /\ order[o].epoch + 1 \in Epochs
        BY <1>0, <1>1, <1>3, EpochOf DEF RenewReserves
    <2>2. o \in F => order[o].stockState # "reserved"
        BY <1>3 DEF RenewReserves, ActsOutdated, Outdated
    <2>3. doc.stockState = "reserved"
        BY <1>2 DEF OrderDoc
    <2> HIDE DEF doc
    <2> QED BY <1>0, <1>1, <2>1, <2>2, <2>3, ReserveFits
<1>4. CASE CaptureConfirms(w)
    <2>1. SellOrder(o) /\ Set(o, PaidDoc(o)) /\ ~order[o].stockReserved
        BY <1>4 DEF CaptureConfirms, Finalizable
    <2>2. PaidDoc(o).stockState = "committed"
        BY <1>0, <1>1, DocFields
    <2> QED BY <1>0, <1>1, <2>1, <2>2, PaymentFits
<1>5. CASE RefundCapture(w)
    <2> DEFINE found == IF HasHold(o) THEN AfterRelease(order[o]) ELSE order[o]
               doc == [found EXCEPT !.pay = "paid", !.status = "cancelled", !.flag = req[w].seen]
    <2>1. Set(o, doc)
        BY <1>5 DEF RefundCapture
    <2>2. found \in OrderDoc
        BY <1>2
    <2>3. doc.stockState = found.stockState
        <3> HIDE DEF found
        <3> QED BY <2>2 DEF OrderDoc
    <2>4. CASE HasHold(o)
        <3>1. ReleaseReservation(o)
            BY <1>5, <2>4 DEF RefundCapture
        <3>2. doc.stockState # "reserved" /\ doc.stockState \notin Settled
            <4> HIDE DEF doc
            <4> QED BY <1>0, <1>1, <2>3, <2>4, DocFields DEF HasHold, Settled
        <3> HIDE DEF doc
        <3> QED BY <1>0, <1>1, <2>1, <3>1, <3>2, ReleaseFits
    <2>5. CASE ~HasHold(o)
        <3>1. UNCHANGED <<reserved, holds, ledger>>
            BY <1>5, <2>5 DEF RefundCapture, stockVars
        <3>2. doc.stockState = order[o].stockState
            BY <2>3, <2>5
        <3> HIDE DEF doc
        <3> QED BY <1>0, <1>1, <2>1, <3>1, <3>2, LabelFits
    <2> QED BY <2>4, <2>5
<1>6. CASE ExpiryRelease(w)
    <2>1. Set(o, AfterRelease(order[o])) /\ ReleaseReservation(o)
        BY <1>6 DEF ExpiryRelease
    <2>2. /\ AfterRelease(order[o]).stockState # "reserved"
          /\ \/ AfterRelease(order[o]).stockState = order[o].stockState
             \/ AfterRelease(order[o]).stockState \notin Settled
        BY <1>0, <1>1, DocFields DEF Settled
    <2> QED BY <1>0, <1>1, <2>1, <2>2, ReleaseFits
<1>7. CASE ReopenSells(w)
    <2> DEFINE e == order[o].epoch + 1
               doc == MarkCommitted([order[o] EXCEPT !.epoch = e, !.status = "confirmed"])
    <2>1. Set(o, doc) /\ CommitLines(o, e) /\ e \in Epochs
        BY <1>0, <1>1, <1>7, EpochOf DEF ReopenSells
    <2>2. o \in F => order[o].stockState = "restocked"
        BY <1>7 DEF ReopenSells, ActsOutdated, Outdated
    <2>3. doc.stockState = "committed"
        BY <1>2 DEF MarkCommitted, OrderDoc
    <2>4. e > order[o].epoch
        BY <1>2 DEF Epochs
    <2> HIDE DEF doc, e
    <2>5. \A s : Row("commit", o, e, s) \notin ledger
        BY <1>1, <1>2, <2>1, <2>4, NoRowAhead
    <2>6. o \in F => \A s \in SkusOf(o) \cap Strict : NetSales(o, s) = 0
        BY <2>2 DEF Tidy, SalesMatch
    <2> QED BY <1>0, <1>1, <2>1, <2>2, <2>3, <2>5, <2>6, SaleFits
<1>8. CASE Cancel(w)
    <2>1. CASE order[o].stockState = "reserved"
        <3> DEFINE doc == [AfterRelease(order[o]) EXCEPT !.status = "cancelled"]
        <3>1. ReleaseReservation(o) /\ Set(o, doc)
            BY <1>8, <2>1 DEF Cancel
        <3>2. doc.stockState = AfterRelease(order[o]).stockState
            BY <1>2 DEF OrderDoc
        <3> HIDE DEF doc
        <3>3. doc.stockState # "reserved" /\ doc.stockState \notin Settled
            BY <1>0, <1>1, <2>1, <3>2, DocFields DEF Settled
        <3> QED BY <1>0, <1>1, <3>1, <3>3, ReleaseFits
    <2>2. CASE order[o].stockState = "committed"
        <3> DEFINE doc == [order[o] EXCEPT !.status = "cancelled", !.stockState = "restocked",
                                           !.reverted = TRUE]
        <3>1. RestockLines(o, order[o].epoch) /\ Set(o, doc)
            BY <1>8, <2>2 DEF Cancel
        <3>2. doc.stockState = "restocked"
            BY <1>2 DEF OrderDoc
        <3> HIDE DEF doc
        <3> QED BY <1>0, <1>1, <2>2, <3>1, <3>2, RestockFits
    <2>3. CASE order[o].stockState \notin {"reserved", "committed"}
        <3> DEFINE doc == [order[o] EXCEPT !.status = "cancelled"]
        <3>1. Set(o, doc) /\ UNCHANGED <<reserved, holds, ledger>>
            BY <1>8, <2>3 DEF Cancel, stockVars
        <3>2. doc.stockState = order[o].stockState
            BY <1>2 DEF OrderDoc
        <3> HIDE DEF doc
        <3> QED BY <1>0, <1>1, <3>1, <3>2, LabelFits
    <2> QED BY <2>1, <2>2, <2>3
<1>9. CASE ReopenRelabels(w)
    <2> DEFINE doc == [order[o] EXCEPT !.status = "confirmed", !.reverted = FALSE]
    <2>1. Set(o, doc) /\ UNCHANGED <<reserved, holds, ledger>>
        BY <1>9 DEF ReopenRelabels, stockVars
    <2>2. doc.stockState = order[o].stockState
        BY <1>2 DEF OrderDoc
    <2> HIDE DEF doc
    <2> QED BY <1>0, <1>1, <2>1, <2>2, LabelFits
<1>10. CASE RefundClaim(w) \/ RefundAnswer(w)
    <2>1. UNCHANGED <<reserved, holds, ledger>>
        BY <1>10 DEF RefundClaim, RefundAnswer, stockVars
    <2>2. ASSUME NEW p, NEW r PROVE [order[o] EXCEPT !.pay = p, !.refund = r].stockState
                                        = order[o].stockState
        BY <1>2 DEF OrderDoc
    <2>3. ASSUME NEW r PROVE [order[o] EXCEPT !.refund = r].stockState = order[o].stockState
        BY <1>2 DEF OrderDoc
    <2>4. \/ UNCHANGED order
          \/ \E p, r : Set(o, [order[o] EXCEPT !.pay = p, !.refund = r])
          \/ \E r : Set(o, [order[o] EXCEPT !.refund = r])
          \/ Set(o, order[o])
        BY <1>10 DEF RefundClaim, RefundAnswer
    <2>5. UNCHANGED order \/ \E doc : Set(o, doc) /\ doc.stockState = order[o].stockState
        BY <2>2, <2>3, <2>4, Zenon
    <2> QED BY <1>0, <1>1, <2>1, <2>5, LabelFits
<1>11. CASE UNCHANGED <<reserved, holds, ledger, order>>
    BY <1>0, <1>11, LabelFits
<1> QED BY <1>3, <1>4, <1>5, <1>6, <1>7, <1>8, <1>9, <1>10, <1>11
        DEF Handler, RenewExtends, ExtendHolds, RenewRefused, CaptureUnfulfillable,
            CaptureReplayed, RefundCaptureTaken, CancelLost, AfterCancel, ReopenRefused, stockVars

(* Placement, the manual payment and the payment cron do too.               *)
LEMMA OneStepKeepsTidy ==
    ASSUME NEW F \in SUBSET Orders, Inv, Books, Papers, Tidy(F), NEW o \in Orders, OneStep(o)
    PROVE  Tidy(F)'
<1>0. Typed /\ StockInv /\ ShopTypeOK /\ ReservedHasHold
    BY DEF Inv, StockInv, Typed, Papers
<1>1. order[o] \in OrderDoc /\ AfterRelease(order[o]) \in OrderDoc /\ 0 \in Epochs
    BY <1>0, EpochOf, DocTypes
<1>2. CASE PlacePrepaid(o)
    <2> DEFINE doc == [NoOrder EXCEPT !.status = "pending", !.online = TRUE,
                                      !.stockState = "reserved"]
    <2>1. Set(o, doc) /\ ReserveOrder(o, 0) /\ order[o] = NoOrder
        BY <1>2 DEF PlacePrepaid, Papers, AbsentIsNew, Placed
    <2>2. doc.stockState = "reserved" /\ order[o].stockState # "reserved"
        BY <2>1 DEF NoOrder
    <2> HIDE DEF doc
    <2> QED BY <1>0, <1>1, <2>1, <2>2, ReserveFits
<1>3. CASE PlaceCod(o)
    <2> DEFINE doc == MarkCommitted([NoOrder EXCEPT !.status = "processing"])
    <2>1. Set(o, doc) /\ CommitLines(o, 0) /\ order[o] = NoOrder
        BY <1>3 DEF PlaceCod, Papers, AbsentIsNew, Placed
    <2>2. doc.stockState = "committed" /\ order[o].stockState # "reserved"
          /\ ~order[o].stockReserved
        BY <2>1 DEF NoOrder, MarkCommitted
    <2>3. \A s \in SkusOf(o) \cap Strict : /\ Row("commit", o, 0, s) \notin ledger
                                           /\ NetSales(o, s) = 0
        BY <2>2, NeverSold
    <2> HIDE DEF doc
    <2> QED BY <1>0, <1>1, <2>1, <2>2, <2>3, SaleFits
<1>4. CASE RecordManualPayment(o)
    <2> DEFINE doc == [PaidDoc(o) EXCEPT !.manual = TRUE]
    <2>1. SellOrder(o) /\ Set(o, doc) /\ ~order[o].stockReserved
        BY <1>4 DEF RecordManualPayment, ManualPayable
    <2>2. doc.stockState = "committed"
        <3>1. PaidDoc(o) \in OrderDoc /\ PaidDoc(o).stockState = "committed"
            BY <1>0, DocTypes, DocFields
        <3> QED BY <3>1 DEF OrderDoc
    <2> HIDE DEF doc
    <2> QED BY <1>0, <2>1, <2>2, PaymentFits
<1>5. CASE FailUnpaid(o)
    <2> DEFINE doc == [AfterRelease(order[o]) EXCEPT !.status = "failed", !.pay = "failed"]
    <2>1. Set(o, doc) /\ ReleaseReservation(o)
        BY <1>5 DEF FailUnpaid
    <2>2. doc.stockState = AfterRelease(order[o]).stockState
        BY <1>1 DEF OrderDoc
    <2> HIDE DEF doc
    <2>3. /\ doc.stockState # "reserved"
          /\ doc.stockState = order[o].stockState \/ doc.stockState \notin Settled
        BY <1>0, <2>2, DocFields DEF Settled
    <2> QED BY <1>0, <2>1, <2>3, ReleaseFits
<1>6. CASE PayAtGateway(o)
    BY <1>0, <1>6, LabelFits DEF PayAtGateway, stockVars
<1> QED BY <1>2, <1>3, <1>4, <1>5, <1>6 DEF OneStep

LEMMA StepKeepsTidy ==
    ASSUME NEW F \in SUBSET Orders, Inv, Books, Papers, Tidy(F), [Next]_vars,
           \A w \in Workers : ActsOutdated(w) => req[w].order \notin F
    PROVE  Tidy(F)'
<1>0. ShopTypeOK /\ ReservedHasHold
    BY DEF Inv, Papers
<1>1. ASSUME NEW w \in Workers, Handler(w) PROVE Tidy(F)'
    BY <1>0, <1>1, HandlerKeepsTidy
<1>2. ASSUME NEW o \in Orders, OneStep(o) PROVE Tidy(F)'
    BY <1>0, <1>2, OneStepKeepsTidy
<1>3. CASE UNCHANGED <<order, reserved, holds, ledger>>
    BY <1>0, <1>3, LabelFits
<1>4. ASSUME NEW w \in Workers, NEW o \in Orders, Start(w, o) PROVE Tidy(F)'
    BY <1>3, <1>4
       DEF Start, RetryRead, CaptureRead, ExpiryCheck, ExpiryBlind, CancelRead, ReopenRead,
           RetryRefund, stockVars
<1> QED BY <1>1, <1>2, <1>3, <1>4
        DEF Next, Crash, Adjust, AdjustStock, Edit, EditSku, Lapse, HoldLapses, vars, stockVars

-----------------------------------------------------------------------------
(* With the history: the orders that are not stale are tidy.                *)

(* The fewer orders, the less there is to keep.                             *)
LEMMA FewerFit ==
    ASSUME NEW F \in SUBSET Orders, NEW G \in SUBSET F, Tidy(F)
    PROVE  Tidy(G)
    BY DEF Tidy, HoldsFit, ReservedMatch, SalesMatch

LEMMA InitTidy ==
    ASSUME HInit
    PROVE  Tidy(Fresh)
<1>0. Init /\ Fresh = Orders
    BY DEF HInit, Fresh
<1>1. \A o \in Orders : HoldsOf(o) = {} /\ order[o] = NoOrder
    BY <1>0 DEF Init, HoldsOf
<1>2. HoldsFit(Orders)
    BY <1>1 DEF HoldsFit, NoOrder
<1>3. ReservedMatch(Orders)
    <2> SUFFICES ASSUME NEW s \in Skus PROVE reserved[s] = HeldUnits(s)
        BY DEF ReservedMatch
    <2> QED BY <1>0, SumEmpty, HeldUnitsIs DEF Init
<1>4. SalesMatch(Orders)
    <2>1. \A o \in Orders : ~order[o].stockReserved
        BY <1>1 DEF NoOrder
    <2>2. Books
        BY <1>0, InitLedger
    <2>3. \A o \in Orders, s \in Skus : NetSales(o, s) = 0
        BY <2>1, <2>2, NeverSold
    <2> QED BY <1>1, <2>3 DEF SalesMatch, NoOrder, SkusOf
<1> QED BY <1>0, <1>2, <1>3, <1>4 DEF Tidy

(* A handler that acts is done with its request.                            *)
LEMMA ActsMoves ==
    ASSUME ShopTypeOK, NEW w \in Workers, ActsOutdated(w)
    PROVE  req' # req
<1>1. req' = [req EXCEPT ![w] = Idle] /\ req[w].op \in {"renew", "reopen"}
    BY DEF ActsOutdated, RenewReserves, ReopenSells, Doing, Finish
<1>2. req'[w] = Idle
    BY <1>1 DEF ShopTypeOK
<1> QED BY <1>1, <1>2 DEF Idle

LEMMA StepKeepsFresh ==
    ASSUME Inv, Books, Papers, Tidy(Fresh), [HNext]_hvars
    PROVE  Tidy(Fresh)'
<1>1. [Next]_vars /\ (HNext \/ UNCHANGED <<vars, stale>>)
    BY DEF HNext, hvars
<1>2. PICK F \in SUBSET Orders : F = Orders \ stale'
    OBVIOUS
<1>3. stale \subseteq stale' /\ \A w \in Workers : ActsOutdated(w) => req[w].order \in stale'
    <2>1. CASE HNext
        BY <2>1 DEF HNext
    <2>2. CASE UNCHANGED <<vars, stale>>
        <3>1. ASSUME NEW w \in Workers, ActsOutdated(w) PROVE FALSE
            BY <2>2, <3>1, ActsMoves DEF vars, Inv
        <3> QED BY <2>2, <3>1
    <2> QED BY <1>1, <2>1, <2>2
<1>4. Tidy(F)
    BY <1>2, <1>3, FewerFit DEF Fresh
<1>5. Tidy(F)'
    BY <1>1, <1>2, <1>3, <1>4, StepKeepsTidy
<1> QED BY <1>2, <1>5 DEF Fresh, Tidy, HoldsFit, ReservedMatch, SalesMatch

(* The history does not change what the shop does, so all that was proved   *)
(* of Spec holds of HSpec.                                                  *)
THEOREM HistoryIsTransparent == HSpec => Spec
<1>1. HInit => Init
    BY DEF HInit
<1>2. [HNext]_hvars => [Next]_vars
    BY DEF HNext, hvars
<1> QED BY <1>1, <1>2, PTL DEF HSpec, Spec

THEOREM FreshInvariance == HSpec => []Tidy(Fresh)
<1>1. HInit => Tidy(Fresh)
    BY InitTidy
<1>2. (Inv /\ Books /\ Papers) /\ Tidy(Fresh) /\ [HNext]_hvars => Tidy(Fresh)'
    BY StepKeepsFresh
<1> QED BY HistoryIsTransparent, LedgerInvariance, <1>1, <1>2, PTL DEF HSpec

(* An order that no handler acted on with an outdated stock_state has an    *)
(* ACTIVE hold exactly while it says reserved, however many requests        *)
(* overlap: no handler releases or commits a hold and leaves the order      *)
(* reserved, or takes one for an order that has one.                        *)
THEOREM FreshOrdersHold == HSpec => []FreshHoldsMatch
<1>1. Tidy(Fresh) => FreshHoldsMatch
    BY DEF Tidy, HoldsFit, FreshHoldsMatch
<1> QED BY FreshInvariance, <1>1, PTL

(* stock-reconcile finds reserved_quantity equal to the ACTIVE holds of a   *)
(* SKU, unless an order with units of it was acted on so.                   *)
THEOREM FreshReservedIsHeld == HSpec => []FreshReservedMatches
<1>1. Tidy(Fresh) => FreshReservedMatches
    BY DEF Tidy, ReservedMatch, Fresh, FreshReservedMatches
<1> QED BY FreshInvariance, <1>1, PTL

(* No order's units are sold twice, through any number of overlapping       *)
(* cancellations, reopenings and retried payments, unless one of them acted *)
(* on an outdated stock_state.                                              *)
THEOREM FreshSoldAtMostOnce == HSpec => []FreshSoldOnce
<1>1. Tidy(Fresh) => FreshSoldOnce
    BY DEF Tidy, SalesMatch, FreshSoldOnce
<1> QED BY FreshInvariance, <1>1, PTL
=============================================================================
