------------------------ MODULE PackageStatus_proofs ------------------------
(***************************************************************************)
(* Proofs about PackageStatus for any number of workers, requests,         *)
(* packages and units: types, and the safety properties of its run.        *)
(*                                                                         *)
(* Base is what all of them rest on: types, package numbers taken in order *)
(* (a new package never lands on an old one), what a worker carries from   *)
(* one step to the next (RequestTrue), what a package document says of its *)
(* parcel (PackageTrue), and that nothing is collected before it is paid   *)
(* (Money).  It is inductive by itself (StepBase).                         *)
(*                                                                         *)
(* AllocatedOnce and the tracking property then follow from what a step    *)
(* can do to the packages: it leaves them alone, touches one, or packs one *)
(* out of units that are free (OnePackage).                                *)
(*                                                                         *)
(* OrderFollowsPackages needs most.  Order statuses are ranked by how far  *)
(* the packages must be for them (Rank); a package that goes forward never *)
(* takes the derived status back (AdvancesRank).  So, until a writer that  *)
(* checks nothing has run (Clean), neither the order nor any worker about  *)
(* to write is ahead of the packages (Follows), hence what the packages    *)
(* say can always be written (MayTell); and if the order does not say it   *)
(* yet, a worker is on its way (Told).                                     *)
(***************************************************************************)
EXTENDS PackageStatus, FiniteSetTheorems, TLAPS

Delivered(P) == UnitsIn(P, {p \in ActiveIn(P) : P[p].status \in {"delivered"}})
Out(P) == UnitsIn(P, {p \in ActiveIn(P) : P[p].status \in {"out_for_delivery"}})
Sent(P) == UnitsIn(P, {p \in ActiveIn(P) : P[p].status \in Shipped})
Packed(P) == UnitsIn(P, {p \in ActiveIn(P) : P[p].status \in PackageStatusSet})

\* How far an order status is, on the scale of what packages can make of it.
Rank(s) == CASE s = "packed" -> 1
             [] s = "partially_shipped" -> 2
             [] s = "shipped" -> 3
             [] s = "out_for_delivery" -> 4
             [] s = "partially_delivered" -> 5
             [] s = "delivered" -> 6
             [] OTHER -> 0
Derivable == {"packed", "partially_shipped", "shipped", "out_for_delivery", "partially_delivered", "delivered"}

\* The documents DerivedStatus needs: units within what was ordered.
Counted(P) == \A p \in ActiveIn(P) : P[p].status \in PackageStatusSet /\ P[p].qty \in 1 .. Units

\* Requests that are about one package, and those among them that are about
\* a parcel of the courier.
ParcelOps == {"call", "booked", "unbooked", "apply", "fetch", "recall", "drop", "report"}
CourierOps == ParcelOps \ {"drop"}
Events == {"packed", "cancelled"} \cup Shipped
RequestType ==
    [op : {"idle", "allocate", "derive", "write", "cascade"} \cup ParcelOps, p : 0 .. MaxPackages,
     status : PackageStatusSet \cup {"retry"}, at : 0 .. 4, now : 0 .. 4, to : PackageStatusSet \cup OrderStatusSet,
     allow : BOOLEAN, tries : 0 .. 2, todo : SUBSET Numbers, carrier : BOOLEAN, settle : BOOLEAN,
     seen : {"none"} \cup OrderStatusSet, pay : {"none", "pending", "paid"}]

Typed == TypeOK /\ req \in [Workers -> RequestType] /\ left \in 0 .. MaxRequests /\ override \in BOOLEAN

\* Package numbers are taken in order.
Consecutive == \E k \in 0 .. MaxPackages : Existing = 1 .. k

\* What a worker carries from one step to the next.
RequestTrue(w) ==
    /\ req[w].op \in ParcelOps => req[w].p \in Existing
    /\ req[w].op \in CourierOps => pkgs[req[w].p].mode = "shiprocket"
    /\ req[w].op \in {"booked", "fetch"} => courier[req[w].p] # "none"
    /\ req[w].op \in {"apply", "report"} => req[w].to \in Events
    /\ req[w].op = "report" => req[w].status \in PackageStatusSet /\ IsForward(req[w].status, req[w].to)
    /\ req[w].op = "cascade" =>
          req[w].todo \subseteq Existing /\ req[w].to \in {"packed", "failed"} \cup Shipped /\ override
    /\ req[w].op = "derive" => req[w].carrier \/ req[w].tries = 0
    /\ req[w].op = "write" =>
          /\ req[w].to \in Derivable /\ req[w].seen \in OrderStatusSet
          /\ req[w].settle => req[w].carrier /\ req[w].pay = "pending"
          /\ req[w].carrier \/ req[w].tries = 1 => CanTransition(req[w].seen, req[w].to)
Requests == \A w \in Workers : RequestTrue(w)

PackageTrue(p) ==
    /\ pkgs[p].status = "cancelled" => pkgs[p].gone
    /\ pkgs[p].status # "none" => pkgs[p].qty \in 1 .. Units
    /\ pkgs[p].mode \in Manual => courier[p] = "none" /\ pkgs[p].integ = "not_applicable"
    /\ pkgs[p].integ = "created" => courier[p] # "none"
Packages == \A p \in Numbers : PackageTrue(p)

Money == order.coll \/ order.remit = "awaiting" => order.pay = "paid"
BlockedForGood == (order.status = "cancelled" => order.effects) /\ (order.status = "failed" => override)

Base == Typed /\ Consecutive /\ Requests /\ Packages /\ Money /\ BlockedForGood

-----------------------------------------------------------------------------
(* Counting units.                                                          *)

LEMMA UnitsTyped ==
    ASSUME NEW P, NEW S \in SUBSET Numbers
    PROVE  /\ IsFiniteSet({u \in S \X (1 .. Units) : u[2] <= P[u[1]].qty})
           /\ UnitsIn(P, S) \in Nat
<1>1. IsFiniteSet(Numbers) /\ IsFiniteSet(1 .. Units)
    BY SizeAssumption, FS_Interval DEF Numbers
<1>2. IsFiniteSet(S)
    BY <1>1, FS_Subset
<1>3. IsFiniteSet(S \X (1 .. Units))
    BY <1>1, <1>2, FS_Product
<1>4. IsFiniteSet({u \in S \X (1 .. Units) : u[2] <= P[u[1]].qty})
    BY <1>3, FS_Subset
<1> QED BY <1>4, FS_CardinalityType DEF UnitsIn

(* More packages hold more.                                                 *)
LEMMA UnitsGrow ==
    ASSUME NEW P, NEW Q, NEW S \in SUBSET Numbers, NEW T \in SUBSET Numbers, S \subseteq T,
           \A p \in S : P[p].qty = Q[p].qty
    PROVE  UnitsIn(P, S) <= UnitsIn(Q, T)
<1> DEFINE A == {u \in S \X (1 .. Units) : u[2] <= P[u[1]].qty}
           B == {u \in T \X (1 .. Units) : u[2] <= Q[u[1]].qty}
<1>1. A \subseteq B
    OBVIOUS
<1>2. IsFiniteSet(B)
    BY UnitsTyped
<1>3. Cardinality(A) <= Cardinality(B)
    <2> HIDE DEF A, B
    <2> QED BY <1>1, <1>2, FS_Subset
<1> QED BY <1>3 DEF UnitsIn

(* One more package holds its units more.                                   *)
LEMMA UnitsAdd ==
    ASSUME NEW P, NEW S \in SUBSET Numbers, NEW p \in Numbers, p \notin S, P[p].qty \in 1 .. Units
    PROVE  UnitsIn(P, S \cup {p}) = UnitsIn(P, S) + P[p].qty
<1> DEFINE A == {u \in S \X (1 .. Units) : u[2] <= P[u[1]].qty}
           B == {p} \X (1 .. P[p].qty)
           C == {u \in (S \cup {p}) \X (1 .. Units) : u[2] <= P[u[1]].qty}
<1>1. C = A \cup B /\ A \cap B = {}
    BY SizeAssumption
<1>2. IsFiniteSet(1 .. P[p].qty) /\ Cardinality(1 .. P[p].qty) = P[p].qty
    BY FS_Interval
<1>3. IsFiniteSet({p}) /\ Cardinality({p}) = 1
    BY FS_Singleton, Zenon
<1>4. IsFiniteSet(B) /\ Cardinality(B) = 1 * P[p].qty
    BY <1>2, <1>3, FS_Product
<1>5. IsFiniteSet(A) /\ Cardinality(A) \in Nat
    BY UnitsTyped, FS_CardinalityType
<1>6. Cardinality({}) = 0
    BY FS_EmptySet, Zenon
<1>7. Cardinality(C) = Cardinality(A) + Cardinality(B) - 0
    <2> HIDE DEF A, B, C
    <2> QED BY <1>1, <1>4, <1>5, <1>6, FS_Union
<1>8. Cardinality(C) = Cardinality(A) + P[p].qty
    <2> HIDE DEF A, B, C
    <2> QED BY <1>4, <1>5, <1>7
<1> QED BY <1>8 DEF UnitsIn

(* No packages hold nothing, and a package with units holds some.           *)
LEMMA UnitsNone == ASSUME NEW P PROVE UnitsIn(P, {}) = 0
<1>1. {u \in {} \X (1 .. Units) : u[2] <= P[u[1]].qty} = {}
    OBVIOUS
<1>2. Cardinality({}) = 0
    BY FS_EmptySet, Zenon
<1> QED BY <1>1, <1>2 DEF UnitsIn

LEMMA UnitsSome ==
    ASSUME NEW P, NEW S \in SUBSET Numbers, NEW p \in S, P[p].qty \in 1 .. Units
    PROVE  UnitsIn(P, S) >= 1
<1>1. UnitsIn(P, {} \cup {p}) = UnitsIn(P, {}) + P[p].qty
    BY UnitsAdd
<1>2. UnitsIn(P, {p}) = P[p].qty
    BY <1>1, UnitsNone
<1>3. UnitsIn(P, {p}) <= UnitsIn(P, S)
    BY UnitsGrow
<1>4. UnitsIn(P, S) \in Nat
    BY UnitsTyped
<1> QED BY <1>2, <1>3, <1>4

-----------------------------------------------------------------------------
(* What the packages make of the order.                                     *)

LEMMA CountsTyped ==
    ASSUME NEW P
    PROVE  /\ Delivered(P) \in Nat /\ Out(P) \in Nat /\ Sent(P) \in Nat /\ Packed(P) \in Nat
           /\ Delivered(P) <= Sent(P) /\ Out(P) <= Sent(P) /\ Sent(P) <= Packed(P)
<1>1. ActiveIn(P) \in SUBSET Numbers
    BY DEF ActiveIn
<1> QED BY <1>1, UnitsTyped, UnitsGrow DEF Delivered, Out, Sent, Packed, Shipped, PackageStatusSet

(* The derived status in terms of the four counts.                          *)
LEMMA DerivedIs ==
    ASSUME NEW P
    PROVE  /\ DerivedStatus(P) = IF Delivered(P) >= Units THEN "delivered"
                                 ELSE IF Delivered(P) > 0 THEN "partially_delivered"
                                 ELSE IF Out(P) >= Units THEN "out_for_delivery"
                                 ELSE IF Sent(P) >= Units THEN "shipped"
                                 ELSE IF Sent(P) > 0 THEN "partially_shipped"
                                 ELSE IF Packed(P) > 0 THEN "packed" ELSE "none"
           /\ DerivedStatus(P) \in {"none"} \cup Derivable
<1> DEFINE d == Delivered(P)
           o == Out(P)
           s == Sent(P)
           t == Packed(P)
           D == CASE d >= Units -> "delivered"
                  [] d \in 1 .. Units - 1 -> "partially_delivered"
                  [] d = 0 /\ o >= Units -> "out_for_delivery"
                  [] d = 0 /\ o < Units /\ s >= Units -> "shipped"
                  [] d = 0 /\ s \in 1 .. Units - 1 -> "partially_shipped"
                  [] s = 0 /\ t > 0 -> "packed"
                  [] OTHER -> "none"
<1>1. DerivedStatus(P) = D
    BY DEF DerivedStatus, Delivered, Out, Sent, Packed
<1>2. d \in Nat /\ o \in Nat /\ s \in Nat /\ t \in Nat /\ d <= s /\ o <= s /\ s <= t /\ Units \in Nat /\ Units > 0
    BY CountsTyped, SizeAssumption
<1>3. D = IF d >= Units THEN "delivered"
          ELSE IF d > 0 THEN "partially_delivered"
          ELSE IF o >= Units THEN "out_for_delivery"
          ELSE IF s >= Units THEN "shipped"
          ELSE IF s > 0 THEN "partially_shipped"
          ELSE IF t > 0 THEN "packed" ELSE "none"
    <2> HIDE DEF d, o, s, t
    <2>1. CASE d >= Units
        BY <1>2, <2>1
    <2>2. CASE d < Units /\ d > 0
        BY <1>2, <2>2
    <2>3. CASE d = 0 /\ o >= Units
        BY <1>2, <2>3
    <2>4. CASE d = 0 /\ o < Units /\ s >= Units
        BY <1>2, <2>4
    <2>5. CASE d = 0 /\ o < Units /\ s < Units /\ s > 0
        BY <1>2, <2>5
    <2>6. CASE d = 0 /\ s = 0
        BY <1>2, <2>6
    <2> QED BY <1>2, <2>1, <2>2, <2>3, <2>4, <2>5, <2>6
<1> QED BY <1>1, <1>3 DEF Derivable

(* Something is derived exactly if a package is active.                     *)
LEMMA DerivedSome ==
    ASSUME NEW P, Counted(P)
    PROVE  DerivedStatus(P) # "none" <=> ActiveIn(P) # {}
<1>1. {p \in ActiveIn(P) : P[p].status \in PackageStatusSet} = ActiveIn(P) /\ ActiveIn(P) \in SUBSET Numbers
    BY DEF Counted, ActiveIn
<1>2. ASSUME ActiveIn(P) # {} PROVE Packed(P) >= 1
    BY <1>1, <1>2, UnitsSome DEF Packed, Counted
<1>3. ASSUME ActiveIn(P) = {} PROVE Packed(P) = 0
    BY <1>1, <1>3, UnitsNone DEF Packed
<1> QED BY <1>2, <1>3, DerivedIs, CountsTyped, SizeAssumption

(* Packages that move forward take the order forward.                       *)
Level(s) == CASE s \in {"none", "cancelled"} -> 0
              [] s \in {"packed", "failed"} -> 1
              [] s = "shipped" -> 2
              [] s = "out_for_delivery" -> 3
              [] s = "delivered" -> 4
              [] OTHER -> 0
Advances(P, Q) ==
    \A p \in Numbers :
        /\ Level(P[p].status) <= Level(Q[p].status)
        /\ P[p].status # "none" => P[p].qty = Q[p].qty

LEMMA AdvancesRank ==
    ASSUME NEW P, NEW Q, Counted(P), Counted(Q), Advances(P, Q)
    PROVE  Rank(DerivedStatus(P)) <= Rank(DerivedStatus(Q))
<1>1. \A p \in ActiveIn(P) : /\ p \in ActiveIn(Q) /\ P[p].qty = Q[p].qty
                             /\ P[p].status = "delivered" => Q[p].status = "delivered"
                             /\ P[p].status = "out_for_delivery" => Q[p].status \in {"out_for_delivery", "delivered"}
                             /\ P[p].status \in Shipped => Q[p].status \in Shipped
    BY DEF Advances, Counted, ActiveIn, Level, PackageStatusSet, Shipped
<1>2. ActiveIn(P) \in SUBSET Numbers /\ ActiveIn(Q) \in SUBSET Numbers
    BY DEF ActiveIn
<1>3. Delivered(P) <= Delivered(Q)
    BY <1>1, <1>2, UnitsGrow DEF Delivered
<1>4. Sent(P) <= Sent(Q)
    BY <1>1, <1>2, UnitsGrow DEF Sent
<1>5. Packed(P) <= Packed(Q)
    BY <1>1, <1>2, UnitsGrow DEF Packed, Counted
<1>6. Out(P) <= Out(Q) \/ Delivered(Q) > 0
    <2>1. CASE \E p \in ActiveIn(P) : P[p].status = "out_for_delivery" /\ Q[p].status = "delivered"
        <3>1. PICK p \in ActiveIn(Q) : Q[p].status = "delivered"
            BY <1>1, <2>1
        <3>2. Delivered(Q) >= 1
            BY <1>2, <3>1, UnitsSome DEF Delivered, Counted
        <3> QED BY <3>2, CountsTyped
    <2>2. CASE \A p \in ActiveIn(P) : P[p].status = "out_for_delivery" => Q[p].status = "out_for_delivery"
        BY <1>1, <1>2, <2>2, UnitsGrow DEF Out
    <2> QED BY <1>1, <2>1, <2>2
<1> QED BY <1>3, <1>4, <1>5, <1>6, DerivedIs, CountsTyped, SizeAssumption DEF Rank

(* Packages that keep out of the courier's hands leave it alone, as long as *)
(* one is active.                                                           *)
SameSent(P, Q) ==
    \A p \in Numbers :
        P[p].status \in Shipped \/ Q[p].status \in Shipped =>
            P[p].status = Q[p].status /\ P[p].qty = Q[p].qty

LEMMA SameSentCounts ==
    ASSUME NEW P, NEW Q, SameSent(P, Q)
    PROVE  Delivered(P) = Delivered(Q) /\ Out(P) = Out(Q) /\ Sent(P) = Sent(Q)
<1>1. \A S \in SUBSET Shipped : \A p \in Numbers : P[p].status \in S <=> Q[p].status \in S
    BY DEF SameSent
<1>2. \A S \in SUBSET Shipped : {p \in ActiveIn(P) : P[p].status \in S} = {p \in ActiveIn(Q) : Q[p].status \in S}
    BY <1>1 DEF ActiveIn, Shipped
<1>3. ASSUME NEW S \in SUBSET Shipped
      PROVE  UnitsIn(P, {p \in ActiveIn(P) : P[p].status \in S}) = UnitsIn(Q, {p \in ActiveIn(Q) : Q[p].status \in S})
    <2> DEFINE X == {p \in ActiveIn(P) : P[p].status \in S}
               Y == {p \in ActiveIn(Q) : Q[p].status \in S}
    <2>1. X = Y /\ X \in SUBSET Numbers /\ \A p \in X : P[p].qty = Q[p].qty
        BY <1>2 DEF ActiveIn, SameSent
    <2> HIDE DEF X, Y
    <2>2. UnitsIn(P, X) <= UnitsIn(Q, Y) /\ UnitsIn(Q, Y) <= UnitsIn(P, X)
        BY <2>1, UnitsGrow
    <2>3. UnitsIn(P, X) \in Nat /\ UnitsIn(Q, Y) \in Nat
        BY <2>1, UnitsTyped
    <2>4. UnitsIn(P, X) = UnitsIn(Q, Y)
        BY <2>2, <2>3
    <2> QED BY <2>4 DEF X, Y
<1> QED BY <1>3 DEF Delivered, Out, Sent, Shipped

LEMMA SameSentDerived ==
    ASSUME NEW P, NEW Q, Counted(P), Counted(Q), SameSent(P, Q), ActiveIn(P) # {}, ActiveIn(Q) # {}
    PROVE  DerivedStatus(P) = DerivedStatus(Q)
<1>1. DerivedStatus(P) # "none" /\ DerivedStatus(Q) # "none"
    BY DerivedSome
<1> QED BY <1>1, SameSentCounts, DerivedIs

(* With nothing sent, at most the packing shows.                            *)
LEMMA NothingSent ==
    ASSUME NEW P, \A p \in Numbers : P[p].status \notin Shipped
    PROVE  DerivedStatus(P) \in {"none", "packed"}
<1>1. \A p \in ActiveIn(P) : P[p].status \notin Shipped
    BY DEF ActiveIn
<1>2. {p \in ActiveIn(P) : P[p].status \in Shipped} = {}
    BY <1>1
<1>3. Sent(P) = 0
    BY <1>2, UnitsNone DEF Sent
<1> QED BY <1>3, CountsTyped, DerivedIs, SizeAssumption

(* With a package sent, more shows.                                         *)
LEMMA SomethingSent ==
    ASSUME NEW P, Counted(P), NEW p \in Numbers, P[p].status \in Shipped
    PROVE  Rank(DerivedStatus(P)) >= 2
<1>1. /\ {q \in ActiveIn(P) : P[q].status \in Shipped} \in SUBSET Numbers
      /\ p \in {q \in ActiveIn(P) : P[q].status \in Shipped}
      /\ P[p].qty \in 1 .. Units
    BY DEF ActiveIn, Shipped, Counted
<1>2. Sent(P) >= 1
    BY <1>1, UnitsSome DEF Sent
<1> QED BY <1>2, CountsTyped, DerivedIs, SizeAssumption DEF Rank

-----------------------------------------------------------------------------
(* The tables of the code.                                                  *)

LEMMA Ranked ==
    /\ \A s \in Derivable : Rank(s) \in 1 .. 6
    /\ \A s, t \in Derivable : Rank(s) = Rank(t) => s = t
    /\ \A s : Rank(s) \in 0 .. 6
    /\ Rank("none") = 0 /\ Rank("processing") = 0 /\ Rank("confirmed") = 0 /\ Rank("packed") = 1
    /\ \A s \in OrderStatusSet \ {"cancelled", "failed"} : Rank(s) <= 0 => s \in {"confirmed", "processing"}
    /\ \A s \in Derivable : Rank(s) <= 1 => s = "packed"
<1>1. \A s \in Derivable : Rank(s) \in 1 .. 6
    BY DEF Rank, Derivable
<1>2. \A s, t \in Derivable : Rank(s) = Rank(t) => s = t
    BY DEF Rank, Derivable
<1>3. \A s : Rank(s) \in 0 .. 6
    BY DEF Rank
<1>4. Rank("none") = 0 /\ Rank("processing") = 0 /\ Rank("confirmed") = 0 /\ Rank("packed") = 1
    BY DEF Rank
<1>5. \A s \in OrderStatusSet \ {"cancelled", "failed"} : Rank(s) <= 0 => s \in {"confirmed", "processing"}
    BY DEF Rank, OrderStatusSet
<1>6. \A s \in Derivable : Rank(s) <= 1 => s = "packed"
    BY DEF Rank, Derivable
<1> QED BY <1>1, <1>2, <1>3, <1>4, <1>5, <1>6

(* An order may go to what its packages say exactly if it is not past it.   *)
LEMMA CanTransitionRank ==
    ASSUME NEW from \in OrderStatusSet \cup {"none"}, NEW to \in Derivable
    PROVE  /\ CanTransition(from, to) => Rank(from) <= Rank(to)
           /\ from \notin {"none", "cancelled", "failed"} /\ Rank(from) <= Rank(to) => CanTransition(from, to)
<1>1. DOMAIN Allowed = {"confirmed", "processing", "packed", "partially_shipped", "shipped",
                        "out_for_delivery", "partially_delivered"}
    BY DEF Allowed
<1>2. CASE from \in {"confirmed", "processing", "packed"}
    BY <1>1, <1>2 DEF CanTransition, Allowed, Onward, Shipped, Rank, Derivable
<1>3. CASE from \in {"partially_shipped", "shipped"}
    BY <1>1, <1>3 DEF CanTransition, Allowed, Onward, Shipped, Rank, Derivable
<1>4. CASE from \in {"out_for_delivery", "partially_delivered"}
    BY <1>1, <1>4 DEF CanTransition, Allowed, Onward, Shipped, Rank, Derivable
<1>5. CASE from \in {"none", "cancelled", "failed", "delivered"}
    BY <1>1, <1>5 DEF CanTransition, Rank, Derivable
<1> QED BY <1>2, <1>3, <1>4, <1>5 DEF OrderStatusSet, Shipped

LEMMA StageIndices ==
    /\ DOMAIN Stages = 1 .. 4
    /\ StageIndex("packed") = 1 /\ StageIndex("shipped") = 2
    /\ StageIndex("out_for_delivery") = 3 /\ StageIndex("delivered") = 4
    /\ \A s : IsStage(s) <=> s \in {"packed"} \cup Shipped
<1>1. DOMAIN Stages = 1 .. 4
    BY DEF Stages
<1>2. Stages[1] = "packed" /\ Stages[2] = "shipped" /\ Stages[3] = "out_for_delivery" /\ Stages[4] = "delivered"
    BY DEF Stages
<1>3. \A s : IsStage(s) <=> s \in {"packed"} \cup Shipped
    BY <1>1, <1>2 DEF IsStage, Shipped
<1>4. ASSUME NEW i \in 1 .. 4 PROVE StageIndex(Stages[i]) = i
    <2>1. \E j \in DOMAIN Stages : Stages[j] = Stages[i]
        BY <1>1
    <2>2. StageIndex(Stages[i]) \in 1 .. 4 /\ Stages[StageIndex(Stages[i])] = Stages[i]
        BY <1>1, <2>1 DEF StageIndex
    <2> QED BY <1>2, <2>2
<1> QED BY <1>1, <1>2, <1>3, <1>4

(* A package moves forward in stage, or is cancelled before it left.        *)
LEMMA ForwardLevel ==
    ASSUME NEW from \in PackageStatusSet, NEW to \in {"packed", "cancelled"} \cup Shipped, IsForward(from, to)
    PROVE  \/ to = "cancelled" /\ from \in {"packed", "failed"}
           \/ to = "packed" /\ from \in {"none", "cancelled", "failed"}
           \/ to \in Shipped /\ Level(from) < Level(to)
    BY StageIndices DEF IsForward, Level, PackageStatusSet, Shipped

-----------------------------------------------------------------------------
(* Types.                                                                   *)

LEMMA IdleTyped == Idle \in RequestType
    BY SizeAssumption DEF Idle, RequestType, PackageStatusSet

LEMMA NewPackageTyped ==
    ASSUME NEW status \in PackageStatusSet, NEW qty \in 0 .. Units
    PROVE  [NoPackage EXCEPT !.status = status, !.qty = qty] \in PackageType
<1>1. NoPackage \in PackageType
    BY SizeAssumption DEF NoPackage, PackageType, PackageStatusSet
<1> QED BY <1>1 DEF PackageType

LEMMA InitTyped == Init => Typed
<1> SUFFICES ASSUME Init PROVE Typed
    OBVIOUS
<1>1. NoPackage \in PackageType
    BY SizeAssumption DEF NoPackage, PackageType, PackageStatusSet
<1>2. pkgs \in [Numbers -> PackageType]
    BY <1>1 DEF Init
<1>3. order \in OrderType
    BY DEF Init, OrderType, OrderStatusSet
<1>4. \A p \in Numbers : pkgs[p] = NoPackage /\ courier[p] = "none"
    BY DEF Init
<1>5. courier \in [Numbers -> {"none", "packed", "cancelled"} \cup Shipped]
    BY DEF Init
<1>6. TypeOK
    BY <1>2, <1>3, <1>4, <1>5 DEF TypeOK
<1>7. req \in [Workers -> RequestType]
    BY IdleTyped DEF Init
<1>8. left \in 0 .. MaxRequests
    BY SizeAssumption DEF Init
<1>9. override \in BOOLEAN
    BY DEF Init
<1> QED BY <1>6, <1>7, <1>8, <1>9 DEF Typed

LEMMA FinishTyped ==
    ASSUME Typed, NEW w \in Workers, Finish(w)
    PROVE  req' \in [Workers -> RequestType]
    BY IdleTyped DEF Finish, Typed

LEMMA RecomputeTyped ==
    ASSUME Typed, NEW w \in Workers, NEW carrier \in BOOLEAN, Recompute(w, carrier)
    PROVE  req' \in [Workers -> RequestType]
<1>1. [Idle EXCEPT !.op = "derive", !.carrier = carrier] \in RequestType
    BY IdleTyped DEF RequestType
<1> QED BY <1>1 DEF Recompute, Typed

LEMMA BeginTyped ==
    ASSUME Typed, NEW w \in Workers, Begin(w)
    PROVE  left' \in 0 .. MaxRequests /\ req[w].op = "idle"
    BY SizeAssumption DEF Typed, Begin, Doing

LEMMA PickNumber ==
    ASSUME Base, NEW w \in Workers, req[w].op \in ParcelOps
    PROVE  req[w].p \in Numbers /\ pkgs[req[w].p].status # "none" /\ pkgs[req[w].p] \in PackageType
    BY DEF Base, Requests, RequestTrue, Existing, Typed, TypeOK

(* A package that exists is updated.                                        *)
LEMMA UpdateTyped ==
    ASSUME TypeOK, NEW p \in Numbers, pkgs[p].status # "none", NEW d \in PackageType, d.status # "none",
           pkgs' = [pkgs EXCEPT ![p] = d], UNCHANGED courier, order' \in OrderType
    PROVE  TypeOK'
    BY DEF TypeOK

LEMMA SameTyped ==
    ASSUME TypeOK, UNCHANGED <<pkgs, courier>>, order' \in OrderType
    PROVE  TypeOK'
    BY DEF TypeOK

LEMMA TypedAskPackage ==
    ASSUME Base, NEW w \in Workers, AskPackage(w) PROVE Typed'
<1>1. req' \in [Workers -> RequestType]
    BY DEF AskPackage, Base, Typed, RequestType
<1>2. TypeOK'
    BY SameTyped DEF AskPackage, Base, Typed, TypeOK
<1> QED BY <1>1, <1>2, BeginTyped DEF AskPackage, Base, Typed

\* The number a new package gets.
NewNumber == Cardinality(Existing) + 1

LEMMA NextNumber ==
    ASSUME Base, Cardinality(Existing) < MaxPackages
    PROVE  /\ NewNumber \in Numbers
           /\ pkgs[NewNumber] = NoPackage /\ pkgs[NewNumber].status = "none" /\ courier[NewNumber] = "none"
           /\ Existing = 1 .. NewNumber - 1
<1>1. PICK k \in 0 .. MaxPackages : Existing = 1 .. k
    BY DEF Base, Consecutive
<1>2. Cardinality(Existing) = k
    BY <1>1, FS_Interval, SizeAssumption
<1>3. NewNumber = k + 1 /\ NewNumber \in Numbers /\ NewNumber \notin Existing
    BY <1>1, <1>2, SizeAssumption DEF NewNumber, Numbers
<1>4. pkgs[NewNumber].status = "none"
    BY <1>3 DEF Existing
<1>5. pkgs[NewNumber] = NoPackage /\ courier[NewNumber] = "none"
    BY <1>3, <1>4 DEF Base, Typed, TypeOK
<1> QED BY <1>1, <1>3, <1>4, <1>5

LEMMA TypedAllocate ==
    ASSUME Base, NEW w \in Workers, AllocatePackage(w) PROVE Typed'
<1>0. order' \in OrderType /\ left' \in 0 .. MaxRequests /\ override' \in BOOLEAN
    BY DEF AllocatePackage, Base, Typed, TypeOK
<1>1. CASE /\ Cardinality(Existing) < MaxPackages
           /\ \E qty \in 1 .. Units - Allocated :
                 /\ pkgs' = [pkgs EXCEPT ![NewNumber] = [NoPackage EXCEPT !.status = "packed", !.qty = qty]]
                 /\ req' = [req EXCEPT ![w].op = "call", ![w].p = NewNumber]
    <2>1. PICK qty \in 1 .. Units - Allocated :
                 /\ pkgs' = [pkgs EXCEPT ![NewNumber] = [NoPackage EXCEPT !.status = "packed", !.qty = qty]]
                 /\ req' = [req EXCEPT ![w].op = "call", ![w].p = NewNumber]
        BY <1>1
    <2>2. Allocated \in Nat
        BY UnitsTyped DEF Allocated, ActiveIn
    <2>3. qty \in 0 .. Units
        BY <2>2, SizeAssumption
    <2> DEFINE d == [NoPackage EXCEPT !.status = "packed", !.qty = qty]
    <2>4. d \in PackageType /\ d.status = "packed"
        BY <2>3, NewPackageTyped DEF NoPackage, PackageStatusSet
    <2>5. NewNumber \in Numbers
        BY <1>1, NextNumber
    <2>6. req' \in [Workers -> RequestType]
        <3>1. NewNumber \in 0 .. MaxPackages
            BY <2>5 DEF Numbers
        <3> DEFINE r == [req[w] EXCEPT !.op = "call", !.p = NewNumber]
        <3>2. r \in RequestType
            <4>1. req[w] \in RequestType
                BY DEF Base, Typed
            <4> HIDE DEF NewNumber
            <4> QED BY <3>1, <4>1 DEF RequestType, ParcelOps
        <3>3. req' = [req EXCEPT ![w] = r]
            BY <2>1 DEF Base, Typed
        <3> QED BY <3>2, <3>3 DEF Base, Typed
    <2>7. pkgs' = [pkgs EXCEPT ![NewNumber] = d] /\ courier' = courier
        BY <2>1 DEF AllocatePackage
    <2>8. TypeOK'
        <3> HIDE DEF d
        <3> QED BY <1>0, <2>4, <2>5, <2>7 DEF Base, Typed, TypeOK
    <2> QED BY <1>0, <2>6, <2>8 DEF Typed
<1>2. CASE Finish(w) /\ UNCHANGED pkgs
    <2>1. TypeOK'
        BY <1>0, <1>2, SameTyped DEF AllocatePackage, Base, Typed
    <2> QED BY <1>0, <1>2, <2>1, FinishTyped DEF Base, Typed
<1> QED BY <1>1, <1>2 DEF AllocatePackage, NewNumber

LEMMA TypedCall ==
    ASSUME Base, NEW w \in Workers, CallShiprocket(w) PROVE Typed'
<1>1. req[w].p \in Numbers /\ pkgs[req[w].p].status # "none"
    BY PickNumber DEF CallShiprocket, Doing, ParcelOps
<1>2. req' \in [Workers -> RequestType]
    BY DEF CallShiprocket, Base, Typed, RequestType, ParcelOps
<1>3. TypeOK'
    BY <1>1 DEF CallShiprocket, Base, Typed, TypeOK
<1> QED BY <1>2, <1>3 DEF CallShiprocket, Base, Typed

LEMMA TypedSaveBooked ==
    ASSUME Base, NEW w \in Workers, SaveBooked(w) PROVE Typed'
<1> DEFINE p == req[w].p
           d == [pkgs[p] EXCEPT !.integ = "created", !.status = IF req[w].status = "retry" THEN "packed" ELSE @]
<1>1. p \in Numbers /\ pkgs[p].status # "none" /\ pkgs[p] \in PackageType
    BY PickNumber DEF SaveBooked, Doing, ParcelOps
<1>2. d \in PackageType /\ d.status # "none"
    BY <1>1 DEF PackageType, PackageStatusSet
<1>3. pkgs' = [pkgs EXCEPT ![p] = d]
    BY <1>1 DEF SaveBooked, Base, Typed, TypeOK
<1>4. req' \in [Workers -> RequestType]
    BY RecomputeTyped DEF SaveBooked, Base
<1>5. TypeOK'
    <2> HIDE DEF d, p
    <2> QED BY <1>1, <1>2, <1>3, UpdateTyped DEF SaveBooked, Base, Typed, TypeOK
<1> QED BY <1>4, <1>5 DEF SaveBooked, Base, Typed, Overwrite

LEMMA TypedSaveUnbooked ==
    ASSUME Base, NEW w \in Workers, SaveUnbooked(w) PROVE Typed'
<1> DEFINE p == req[w].p
           d == [pkgs[p] EXCEPT !.integ = "unknown", !.status = "failed"]
<1>1. p \in Numbers /\ pkgs[p].status # "none" /\ pkgs[p] \in PackageType
    BY PickNumber DEF SaveUnbooked, Doing, ParcelOps
<1>2. d \in PackageType /\ d.status # "none"
    BY <1>1 DEF PackageType, PackageStatusSet
<1>3. pkgs' = [pkgs EXCEPT ![p] = d]
    BY <1>1 DEF SaveUnbooked, Base, Typed, TypeOK
<1>4. req' \in [Workers -> RequestType]
    BY FinishTyped DEF SaveUnbooked, Base
<1>5. TypeOK'
    <2> HIDE DEF d, p
    <2> QED BY <1>1, <1>2, <1>3, UpdateTyped DEF SaveUnbooked, Base, Typed, TypeOK
<1> QED BY <1>4, <1>5 DEF SaveUnbooked, Base, Typed, Overwrite

LEMMA TypedClaimRetry ==
    ASSUME Base, NEW w \in Workers, NEW p \in Numbers, ClaimRetry(w, p) PROVE Typed'
<1> DEFINE d == [pkgs[p] EXCEPT !.integ = "pending"]
           r == [req[w] EXCEPT !.op = "call", !.p = p, !.status = "retry"]
<1>1. pkgs[p] \in PackageType /\ pkgs[p].status # "none"
    BY DEF ClaimRetry, Base, Typed, TypeOK, NoPackage
<1>2. d \in PackageType /\ d.status # "none"
    BY <1>1 DEF PackageType
<1>3. pkgs' = [pkgs EXCEPT ![p] = d]
    BY <1>1 DEF ClaimRetry, Base, Typed, TypeOK
<1>4. r \in RequestType
    <2>1. req[w] \in RequestType /\ p \in 0 .. MaxPackages
        BY DEF Base, Typed, Numbers
    <2> QED BY <2>1 DEF RequestType, ParcelOps
<1>5. req' \in [Workers -> RequestType]
    <2>1. req' = [req EXCEPT ![w] = r]
        BY DEF ClaimRetry, Base, Typed
    <2> QED BY <1>4, <2>1 DEF Base, Typed
<1>6. TypeOK'
    <2> HIDE DEF d
    <2> QED BY <1>1, <1>2, <1>3, UpdateTyped DEF ClaimRetry, Base, Typed, TypeOK
<1> QED BY <1>5, <1>6, BeginTyped DEF ClaimRetry, Base, Typed

LEMMA TypedDerive ==
    ASSUME Base, NEW w \in Workers, Derive(w) PROVE Typed'
<1>1. TypeOK'
    BY SameTyped DEF Derive, Base, Typed, TypeOK
<1>2. CASE Finish(w)
    BY <1>1, <1>2, FinishTyped DEF Derive, Base, Typed
<1>3. CASE \E to \in PackageStatusSet \cup OrderStatusSet, settle \in BOOLEAN :
              req' = [req EXCEPT ![w].op = "write", ![w].to = to, ![w].settle = settle,
                                 ![w].seen = order.status, ![w].pay = order.pay]
    <2>1. PICK to \in PackageStatusSet \cup OrderStatusSet, settle \in BOOLEAN :
              req' = [req EXCEPT ![w].op = "write", ![w].to = to, ![w].settle = settle,
                                 ![w].seen = order.status, ![w].pay = order.pay]
        BY <1>3
    <2>2. order.status \in OrderStatusSet /\ order.pay \in {"pending", "paid"}
        BY DEF Base, Typed, TypeOK, OrderType
    <2> DEFINE r == [req[w] EXCEPT !.op = "write", !.to = to, !.settle = settle,
                                   !.seen = order.status, !.pay = order.pay]
    <2>3. r \in RequestType
        <3>1. req[w] \in RequestType
            BY DEF Base, Typed
        <3> QED BY <2>2, <3>1 DEF RequestType, ParcelOps
    <2>4. req' = [req EXCEPT ![w] = r]
        BY <2>1 DEF Base, Typed
    <2>5. req' \in [Workers -> RequestType]
        BY <2>3, <2>4 DEF Base, Typed
    <2> QED BY <1>1, <2>5 DEF Derive, Base, Typed
<1>4. DerivedStatus(pkgs) \in PackageStatusSet \cup OrderStatusSet /\ "none" \in PackageStatusSet
    BY DerivedIs DEF Derivable, OrderStatusSet, PackageStatusSet
<1> QED BY <1>2, <1>3, <1>4 DEF Derive

LEMMA TypedRecheck ==
    ASSUME Base, NEW w \in Workers, Recheck(w) PROVE Typed'
<1>1. TypeOK'
    BY SameTyped DEF Recheck, Base, Typed, TypeOK
<1>2. CASE Finish(w)
    BY <1>1, <1>2, FinishTyped DEF Recheck, Base, Typed
<1>3. CASE req' = [req EXCEPT ![w].seen = order.status, ![w].pay = order.pay, ![w].tries = 1]
    <2>1. order.status \in OrderStatusSet /\ order.pay \in {"pending", "paid"}
        BY DEF Base, Typed, TypeOK, OrderType
    <2> DEFINE r == [req[w] EXCEPT !.seen = order.status, !.pay = order.pay, !.tries = 1]
    <2>2. r \in RequestType
        <3>1. req[w] \in RequestType
            BY DEF Base, Typed
        <3>2. ASSUME NEW st \in OrderStatusSet, NEW pay \in {"pending", "paid"}, NEW n \in 0 .. 2
              PROVE  [req[w] EXCEPT !.seen = st, !.pay = pay, !.tries = n] \in RequestType
            BY <3>1 DEF RequestType
        <3>3. 1 \in 0 .. 2
            OBVIOUS
        <3> QED BY <2>1, <3>2, <3>3
    <2>3. req' = [req EXCEPT ![w] = r]
        BY <1>3 DEF Base, Typed
    <2>4. req' \in [Workers -> RequestType]
        BY <2>2, <2>3 DEF Base, Typed
    <2> QED BY <1>1, <2>4 DEF Recheck, Base, Typed
<1> QED BY <1>2, <1>3 DEF Recheck

LEMMA TypedWriteOrder ==
    ASSUME Base, NEW w \in Workers, WriteOrder(w) PROVE Typed'
<1>1. order' \in OrderType
    <2>1. req[w].to \in Derivable /\ order \in OrderType
        BY DEF WriteOrder, Doing, Base, Requests, RequestTrue, Typed, TypeOK
    <2>2. req[w].to \in OrderStatusSet
        BY <2>1 DEF Derivable, OrderStatusSet
    <2>3. Moved(req[w].to, req[w].settle) \in OrderType
        BY <2>1, <2>2 DEF Moved, OrderType
    <2> QED BY <2>1, <2>3 DEF WriteOrder
<1>2. TypeOK'
    BY <1>1, SameTyped DEF WriteOrder, Base, Typed
<1>3. req' \in [Workers -> RequestType] /\ override' \in BOOLEAN
    <2>1. CASE Finish(w) /\ override' \in BOOLEAN
        BY <2>1, FinishTyped DEF Base
    <2>2. CASE req' = [req EXCEPT ![w].op = "derive", ![w].tries = @ + 1] /\ req[w].tries < 2 /\ UNCHANGED override
        BY <2>2 DEF Base, Typed, RequestType
    <2> QED BY <2>1, <2>2 DEF WriteOrder, AfterConflict, Base, Typed
<1> QED BY <1>2, <1>3 DEF WriteOrder, Base, Typed

(* What the courier reports of a parcel.                                    *)
LEMMA ReportedEvents ==
    ASSUME Base, NEW p \in Numbers
    PROVE  /\ Reported(p) \subseteq Events
           /\ courier[p] # "none" => courier[p] \in Events
           /\ \A to \in Events : TimeOf(to) \in 1 .. 4 /\ to \in PackageStatusSet \ {"none"}
           /\ Reported(p) # {} => courier[p] # "none"
<1>1. courier[p] \in {"none"} \cup Events
    BY DEF Base, Typed, TypeOK, Events
<1>2. Reach \subseteq Events
    BY ReachAssumption DEF Events, Shipped
<1>3. Reported(p) \subseteq Events
    BY <1>1, <1>2 DEF Reported, Events
<1>4. \A to \in Events : TimeOf(to) \in 1 .. 4 /\ to \in PackageStatusSet \ {"none"}
    BY StageIndices DEF TimeOf, Events, Shipped, PackageStatusSet
<1> QED BY <1>1, <1>3, <1>4 DEF Reported

LEMMA BlockedBoolean == (~FulfillmentBlocked) \in BOOLEAN
    OBVIOUS

LEMMA LookTyped ==
    ASSUME Base, NEW w \in Workers, NEW op \in ParcelOps, NEW p \in Numbers, NEW now \in 0 .. 4,
           NEW to \in PackageStatusSet, Look(w, op, p, now, to)
    PROVE  req' \in [Workers -> RequestType]
<1> DEFINE r == [Idle EXCEPT !.op = op, !.p = p, !.status = pkgs[p].status, !.at = pkgs[p].at, !.now = now,
                                           !.to = to, !.allow = ~FulfillmentBlocked, !.carrier = ~FulfillmentBlocked]
<1>1. pkgs[p].status \in PackageStatusSet /\ pkgs[p].at \in 0 .. 4
    BY DEF Base, Typed, TypeOK, PackageType
<1>2. (~FulfillmentBlocked) \in BOOLEAN
    BY BlockedBoolean
<1>3. p \in 0 .. MaxPackages
    BY DEF Numbers
<1>4. r \in RequestType
    <2> HIDE DEF FulfillmentBlocked
    <2>1. ASSUME NEW b \in BOOLEAN
          PROVE [Idle EXCEPT !.op = op, !.p = p, !.status = pkgs[p].status, !.at = pkgs[p].at, !.now = now,
                                           !.to = to, !.allow = b, !.carrier = b] \in RequestType
        BY <1>1, <1>3, IdleTyped DEF RequestType
    <2> QED BY <1>2, <2>1
<1> QED BY <1>4 DEF Look, Base, Typed

LEMMA TypedWebhook ==
    ASSUME Base, NEW w \in Workers, NEW p \in Numbers, Webhook(w, p) PROVE Typed'
<1>1. PICK to \in Reported(p) : Look(w, "apply", p, TimeOf(to), to)
    BY DEF Webhook
<1>2. TimeOf(to) \in 0 .. 4 /\ to \in PackageStatusSet
    BY <1>1, ReportedEvents
<1>3. req' \in [Workers -> RequestType]
    BY <1>1, <1>2, LookTyped DEF ParcelOps
<1>4. TypeOK'
    BY SameTyped DEF Webhook, Base, Typed, TypeOK
<1> QED BY <1>3, <1>4, BeginTyped DEF Webhook, Base, Typed

LEMMA TypedSync ==
    ASSUME Base, NEW w \in Workers, NEW p \in Numbers, Sync(w, p) PROVE Typed'
<1>1. courier[p] # "none"
    BY DEF Sync, Base, Packages, PackageTrue
<1>2. TimeOf(courier[p]) \in 0 .. 4 /\ "none" \in PackageStatusSet
    BY <1>1, ReportedEvents DEF PackageStatusSet
<1>3. req' \in [Workers -> RequestType]
    <2>1. Look(w, "fetch", p, TimeOf(courier[p]), "none")
        BY DEF Sync
    <2> QED BY <1>2, <2>1, LookTyped DEF ParcelOps
<1>4. TypeOK'
    BY SameTyped DEF Sync, Base, Typed, TypeOK
<1> QED BY <1>3, <1>4, BeginTyped DEF Sync, Base, Typed

LEMMA TypedSyncUnlinked ==
    ASSUME Base, NEW w \in Workers, SyncUnlinked(w) PROVE Typed'
<1>1. req' \in [Workers -> RequestType]
    BY RecomputeTyped DEF SyncUnlinked, Base
<1>2. TypeOK'
    BY SameTyped DEF SyncUnlinked, Base, Typed, TypeOK
<1> QED BY <1>1, <1>2, BeginTyped DEF SyncUnlinked, Base, Typed

LEMMA TypedFetchStatus ==
    ASSUME Base, NEW w \in Workers, FetchStatus(w) PROVE Typed'
<1>1. req[w].p \in Numbers
    BY PickNumber DEF FetchStatus, Doing, ParcelOps
<1>2. courier[req[w].p] \in PackageStatusSet
    <2>1. courier[req[w].p] \in {"none", "packed", "cancelled"} \cup Shipped
        BY <1>1 DEF Base, Typed, TypeOK
    <2> QED BY <2>1 DEF PackageStatusSet
<1>3. (~FulfillmentBlocked) \in BOOLEAN
    BY BlockedBoolean
<1>4. req' \in [Workers -> RequestType]
    <2> DEFINE b == ~FulfillmentBlocked
               c == courier[req[w].p]
    <2>1. req' = [req EXCEPT ![w].op = "apply", ![w].to = c, ![w].allow = b]
        BY DEF FetchStatus
    <2>2. b \in BOOLEAN /\ c \in PackageStatusSet
        BY <1>2, <1>3
    <2> DEFINE r == [req[w] EXCEPT !.op = "apply", !.to = c, !.allow = b]
    <2> HIDE DEF b, c
    <2>3. r \in RequestType
        <3>1. req[w] \in RequestType
            BY DEF Base, Typed
        <3> QED BY <2>2, <3>1 DEF RequestType, ParcelOps
    <2>4. req' = [req EXCEPT ![w] = r]
        BY <2>1 DEF Base, Typed
    <2> QED BY <2>3, <2>4 DEF Base, Typed
<1>5. TypeOK'
    BY SameTyped DEF FetchStatus, Base, Typed, TypeOK
<1> QED BY <1>4, <1>5 DEF FetchStatus, Base, Typed

LEMMA TrackedTyped ==
    ASSUME Base, NEW w \in Workers, NEW pkg \in PackageType, pkg.status # "none", req[w].to \in Events
    PROVE  Tracked(pkg, w) \in PackageType /\ Tracked(pkg, w).status # "none"
<1>1. req[w].to \in PackageStatusSet \ {"none"} /\ req[w].now \in 0 .. 4
    BY DEF Events, Shipped, PackageStatusSet, Base, Typed, RequestType
<1> QED BY <1>1 DEF Tracked, PackageType

LEMMA EndTyped ==
    ASSUME Base, NEW w \in Workers, EndTracking(w)
    PROVE  req' \in [Workers -> RequestType]
    BY FinishTyped, RecomputeTyped DEF EndTracking, Base

LEMMA TypedApply ==
    ASSUME Base, NEW w \in Workers, ApplyStatus(w) PROVE Typed'
<1> DEFINE p == req[w].p
           d == Tracked(pkgs[p], w)
<1>1. p \in Numbers /\ pkgs[p].status # "none" /\ pkgs[p] \in PackageType
    BY PickNumber DEF ApplyStatus, Doing, ParcelOps
<1>2. order' \in OrderType
    BY DEF ApplyStatus, Base, Typed, TypeOK
<1>3. CASE UNCHANGED pkgs /\ req' \in [Workers -> RequestType]
    BY <1>2, <1>3, SameTyped DEF ApplyStatus, Base, Typed
<1>4. CASE pkgs' = [pkgs EXCEPT ![p] = d] /\ EndTracking(w)
    <2>1. req[w].to \in Events
        BY DEF ApplyStatus, Doing, Base, Requests, RequestTrue
    <2>2. d \in PackageType /\ d.status # "none"
        BY <1>1, <2>1, TrackedTyped
    <2>3. TypeOK'
        <3>1. pkgs' = [pkgs EXCEPT ![p] = d] /\ UNCHANGED courier
            BY <1>4 DEF ApplyStatus
        <3> HIDE DEF p, d
        <3> QED BY <1>1, <1>2, <2>2, <3>1, UpdateTyped DEF Base, Typed
    <2> QED BY <1>4, <2>3, EndTyped DEF ApplyStatus, Base, Typed
<1>5. CASE req[w].tries < 2 /\ UNCHANGED pkgs
              /\ req' = [req EXCEPT ![w].tries = @ + 1, ![w].status = pkgs[p].status, ![w].at = pkgs[p].at]
    <2>1. pkgs[p].status \in PackageStatusSet /\ pkgs[p].at \in 0 .. 4
        BY <1>1 DEF PackageType
    <2> DEFINE r == [req[w] EXCEPT !.tries = @ + 1, !.status = pkgs[p].status, !.at = pkgs[p].at]
    <2>2. r \in RequestType
        <3>1. req[w] \in RequestType
            BY DEF Base, Typed
        <3> HIDE DEF p
        <3>2. ASSUME NEW st \in PackageStatusSet, NEW at \in 0 .. 4, NEW n \in 0 .. 2
              PROVE  [req[w] EXCEPT !.tries = n, !.status = st, !.at = at] \in RequestType
            BY <3>1 DEF RequestType
        <3>3. req[w].tries + 1 \in 0 .. 2
            BY <1>5, <3>1 DEF RequestType
        <3> QED BY <2>1, <3>2, <3>3
    <2>3. req' = [req EXCEPT ![w] = r]
        BY <1>5 DEF Base, Typed
    <2>4. req' \in [Workers -> RequestType]
        BY <2>2, <2>3 DEF Base, Typed
    <2> QED BY <1>3, <1>5, <2>4
<1>6. ASSUME Finish(w) \/ EndTracking(w) PROVE req' \in [Workers -> RequestType]
    BY <1>6, EndTyped, FinishTyped DEF Base
<1> QED BY <1>1, <1>3, <1>4, <1>5, <1>6 DEF ApplyStatus, Base, Typed, TypeOK

LEMMA TypedCourierMoves ==
    ASSUME Base, NEW p \in Numbers, CourierMoves(p) PROVE Typed'
<1>1. PICK to \in Reach : StageIndex(to) > StageIndex(courier[p]) /\ courier' = [courier EXCEPT ![p] = to]
    BY DEF CourierMoves
<1>2. to \in {"none", "packed", "cancelled"} \cup Shipped
    BY ReachAssumption DEF Shipped
<1>3. courier[p] # "none"
    BY StageIndices DEF CourierMoves, Shipped
<1>4. TypeOK'
    BY <1>1, <1>2, <1>3 DEF CourierMoves, Base, Typed, TypeOK
<1> QED BY <1>4 DEF CourierMoves, Base, Typed

LEMMA TypedAskCancel ==
    ASSUME Base, NEW w \in Workers, NEW p \in Numbers, AskCancelPackage(w, p) PROVE Typed'
<1>1. PICK op \in {"recall", "drop"} : req' = [req EXCEPT ![w].op = op, ![w].p = p]
    BY DEF AskCancelPackage
<1> DEFINE r == [req[w] EXCEPT !.op = op, !.p = p]
<1>2. r \in RequestType
    <2>1. req[w] \in RequestType /\ p \in 0 .. MaxPackages
        BY DEF Base, Typed, Numbers
    <2> QED BY <2>1 DEF RequestType, ParcelOps
<1>3. req' = [req EXCEPT ![w] = r]
    BY <1>1 DEF Base, Typed
<1>4. req' \in [Workers -> RequestType]
    BY <1>2, <1>3 DEF Base, Typed
<1>5. TypeOK'
    BY SameTyped DEF AskCancelPackage, Base, Typed, TypeOK
<1> QED BY <1>4, <1>5, BeginTyped DEF AskCancelPackage, Base, Typed

LEMMA TypedRecall ==
    ASSUME Base, NEW w \in Workers, RecallParcel(w) PROVE Typed'
<1>1. req[w].p \in Numbers /\ pkgs[req[w].p].status # "none"
    BY PickNumber DEF RecallParcel, Doing, ParcelOps
<1>2. CASE Finish(w) /\ UNCHANGED courier
    <2>1. TypeOK'
        BY <1>2, SameTyped DEF RecallParcel, Base, Typed, TypeOK
    <2> QED BY <1>2, <2>1, FinishTyped DEF RecallParcel, Base, Typed
<1>3. CASE courier' = [courier EXCEPT ![req[w].p] = "cancelled"] /\ req' = [req EXCEPT ![w].op = "drop"]
    <2>1. req' \in [Workers -> RequestType]
        BY <1>3 DEF Base, Typed, RequestType, ParcelOps
    <2>2. TypeOK'
        BY <1>1, <1>3 DEF RecallParcel, Base, Typed, TypeOK
    <2> QED BY <2>1, <2>2 DEF RecallParcel, Base, Typed
<1> QED BY <1>2, <1>3 DEF RecallParcel

LEMMA TypedDrop ==
    ASSUME Base, NEW w \in Workers, DropPackage(w) PROVE Typed'
<1> DEFINE p == req[w].p
           d == [pkgs[p] EXCEPT !.status = "cancelled", !.gone = TRUE]
<1>1. p \in Numbers /\ pkgs[p].status # "none" /\ pkgs[p] \in PackageType
    BY PickNumber DEF DropPackage, Doing, ParcelOps
<1>2. d \in PackageType /\ d.status # "none"
    BY <1>1 DEF PackageType, PackageStatusSet
<1>3. pkgs' = [pkgs EXCEPT ![p] = d]
    BY <1>1 DEF DropPackage, Base, Typed, TypeOK
<1>4. req' \in [Workers -> RequestType]
    BY RecomputeTyped DEF DropPackage, Base
<1>5. TypeOK'
    <2> HIDE DEF d, p
    <2> QED BY <1>1, <1>2, <1>3, UpdateTyped DEF DropPackage, Base, Typed, TypeOK
<1> QED BY <1>4, <1>5 DEF DropPackage, Base, Typed, Overwrite

LEMMA TypedCancelOrder ==
    ASSUME Base, CancelOrder PROVE Typed'
<1>1. order' \in OrderType
    BY DEF CancelOrder, Base, Typed, TypeOK, OrderType, OrderStatusSet
<1>2. TypeOK'
    BY <1>1, SameTyped DEF CancelOrder, Base, Typed
<1> QED BY <1>2 DEF CancelOrder, Base, Typed

LEMMA TypedCorrectOrder ==
    ASSUME Base, NEW w \in Workers, CorrectOrder(w) PROVE Typed'
<1>1. PICK to \in {"processing", "packed", "failed"} \cup Shipped :
         /\ order' = [order EXCEPT !.status = to]
         /\ \/ UNCHANGED <<req, override>>
            \/ /\ req' = [req EXCEPT ![w].op = "cascade", ![w].to = to, ![w].todo = ActiveIn(pkgs)]
               /\ override' = TRUE
    BY DEF CorrectOrder
<1>2. order' \in OrderType
    BY <1>1 DEF Base, Typed, TypeOK, OrderType, OrderStatusSet, Shipped
<1>3. to \in OrderStatusSet
    BY DEF OrderStatusSet, Shipped
<1>4. req' \in [Workers -> RequestType] /\ override' \in BOOLEAN
    <2>1. CASE UNCHANGED <<req, override>>
        BY <2>1 DEF Base, Typed
    <2>2. CASE /\ req' = [req EXCEPT ![w].op = "cascade", ![w].to = to, ![w].todo = ActiveIn(pkgs)]
               /\ override' = TRUE
        <3> DEFINE A == ActiveIn(pkgs)
                   r == [req[w] EXCEPT !.op = "cascade", !.to = to, !.todo = A]
        <3>1. A \in SUBSET Numbers /\ req[w] \in RequestType
            BY DEF ActiveIn, Base, Typed
        <3>2. r \in RequestType
            <4> HIDE DEF A
            <4> QED BY <1>3, <3>1 DEF RequestType
        <3>3. req' = [req EXCEPT ![w] = r]
            BY <2>2 DEF Base, Typed
        <3> QED BY <2>2, <3>2, <3>3 DEF Base, Typed
    <2> QED BY <1>1, <2>1, <2>2
<1>5. TypeOK'
    BY <1>2, SameTyped DEF CorrectOrder, Base, Typed
<1> QED BY <1>4, <1>5, BeginTyped DEF CorrectOrder, Base, Typed

LEMMA TypedCascade ==
    ASSUME Base, NEW w \in Workers, CascadeStatus(w) PROVE Typed'
<1>1. PICK p \in req[w].todo :
         /\ pkgs' = [pkgs EXCEPT ![p].status = req[w].to, ![p].seen = @ \cup {req[w].to}]
         /\ IF req[w].todo = {p} THEN Finish(w) ELSE req' = [req EXCEPT ![w].todo = @ \ {p}]
    BY DEF CascadeStatus
<1> DEFINE to == req[w].to
           d == [pkgs[p] EXCEPT !.status = to, !.seen = @ \cup {to}]
<1>2. p \in Numbers /\ pkgs[p].status # "none" /\ to \in PackageStatusSet \ {"none"}
    BY <1>1 DEF CascadeStatus, Doing, Base, Requests, RequestTrue, Existing, PackageStatusSet, Shipped
<1>3. pkgs[p] \in PackageType
    BY <1>2 DEF Base, Typed, TypeOK
<1>4. d \in PackageType /\ d.status # "none"
    <2> HIDE DEF to
    <2> QED BY <1>2, <1>3 DEF PackageType
<1>5. pkgs' = [pkgs EXCEPT ![p] = d]
    BY <1>1, <1>2 DEF Base, Typed, TypeOK
<1>6. req' \in [Workers -> RequestType]
    <2>1. CASE Finish(w)
        BY <2>1, FinishTyped DEF Base
    <2>2. CASE req' = [req EXCEPT ![w].todo = @ \ {p}]
        BY <2>2 DEF Base, Typed, RequestType
    <2> QED BY <1>1, <2>1, <2>2
<1>7. TypeOK'
    <2> HIDE DEF d
    <2> QED BY <1>2, <1>4, <1>5, UpdateTyped DEF CascadeStatus, Base, Typed, TypeOK
<1> QED BY <1>6, <1>7 DEF CascadeStatus, Base, Typed

LEMMA TypedReadReport ==
    ASSUME Base, NEW w \in Workers, NEW p \in Numbers, ReadReport(w, p) PROVE Typed'
<1>1. PICK to \in Reported(p) :
         req' = [req EXCEPT ![w].op = "report", ![w].p = p, ![w].status = pkgs[p].status, ![w].to = to]
    BY DEF ReadReport
<1>2. to \in PackageStatusSet
    BY <1>1, ReportedEvents
<1>3. pkgs[p].status \in PackageStatusSet /\ p \in 0 .. MaxPackages
    BY DEF Base, Typed, TypeOK, PackageType, Numbers
<1> DEFINE r == [req[w] EXCEPT !.op = "report", !.p = p, !.status = pkgs[p].status, !.to = to]
<1>4. r \in RequestType
    <2>1. req[w] \in RequestType
        BY DEF Base, Typed
    <2>2. ASSUME NEW st \in PackageStatusSet
          PROVE  [req[w] EXCEPT !.op = "report", !.p = p, !.status = st, !.to = to] \in RequestType
        BY <1>2, <1>3, <2>1 DEF RequestType, ParcelOps
    <2> QED BY <1>3, <2>2
<1>5. req' = [req EXCEPT ![w] = r]
    BY <1>1 DEF Base, Typed
<1>6. req' \in [Workers -> RequestType]
    BY <1>4, <1>5 DEF Base, Typed
<1>7. TypeOK'
    BY SameTyped DEF ReadReport, Base, Typed, TypeOK
<1> QED BY <1>6, <1>7, BeginTyped DEF ReadReport, Base, Typed

LEMMA TypedSaveReport ==
    ASSUME Base, NEW w \in Workers, SaveReport(w) PROVE Typed'
<1> DEFINE p == req[w].p
           to == req[w].to
           b == pkgs[p].gone \/ to = "cancelled"
           d == [pkgs[p] EXCEPT !.status = to, !.seen = @ \cup {to}, !.gone = b]
<1>1. p \in Numbers /\ pkgs[p].status # "none" /\ pkgs[p] \in PackageType
    BY PickNumber DEF SaveReport, Doing, ParcelOps
<1>2. to \in PackageStatusSet \ {"none"}
    BY DEF SaveReport, Doing, Base, Requests, RequestTrue, Events, Shipped, PackageStatusSet
<1>3. d \in PackageType /\ d.status # "none"
    <2>1. b \in BOOLEAN
        OBVIOUS
    <2> HIDE DEF to, b
    <2> QED BY <1>1, <1>2, <2>1 DEF PackageType
<1>4. pkgs' = [pkgs EXCEPT ![p] = d]
    BY <1>1 DEF SaveReport, Base, Typed, TypeOK
<1>5. req' \in [Workers -> RequestType]
    BY RecomputeTyped DEF SaveReport, Base
<1>6. TypeOK'
    <2> HIDE DEF d, p
    <2> QED BY <1>1, <1>3, <1>4, UpdateTyped DEF SaveReport, Base, Typed, TypeOK
<1> QED BY <1>5, <1>6 DEF SaveReport, Base, Typed, Overwrite

LEMMA RecomputedTyped ==
    ASSUME Base, NEW P PROVE Recomputed(P) \in OrderType
<1>1. DerivedStatus(P) # "none" => DerivedStatus(P) \in OrderStatusSet
    BY DerivedIs DEF Derivable, OrderStatusSet
<1> DEFINE st == IF DerivedStatus(P) = "none" THEN order.status ELSE DerivedStatus(P)
<1>2. st \in OrderStatusSet /\ order \in OrderType
    BY <1>1 DEF Base, Typed, TypeOK, OrderType
<1>3. Recomputed(P) = [order EXCEPT !.status = st]
    BY DEF Recomputed
<1> HIDE DEF st
<1> QED BY <1>2, <1>3 DEF OrderType

LEMMA TypedDispatch ==
    ASSUME Base, DispatchManual PROVE Typed'
<1>1. PICK mode \in Manual, status \in {"out_for_delivery", "packed"} :
         LET d == [NoPackage EXCEPT !.status = status, !.mode = mode, !.integ = "not_applicable",
                                        !.qty = Units, !.seen = {status}]
             P == [pkgs EXCEPT ![NewNumber] = d]
         IN  pkgs' = P /\ order' = Recomputed(P)
    BY DEF DispatchManual, NewNumber
<1> DEFINE d == [NoPackage EXCEPT !.status = status, !.mode = mode, !.integ = "not_applicable",
                                        !.qty = Units, !.seen = {status}]
<1>2. d \in PackageType /\ d.status # "none"
    <2>1. NoPackage \in PackageType
        BY SizeAssumption DEF NoPackage, PackageType, PackageStatusSet
    <2>2. Units \in 0 .. Units /\ status \in PackageStatusSet \ {"none"}
        BY SizeAssumption DEF PackageStatusSet, Shipped
    <2> QED BY <2>1, <2>2 DEF PackageType
<1>3. order' \in OrderType
    BY <1>1, RecomputedTyped
<1>4. NewNumber \in Numbers
    BY NextNumber DEF DispatchManual
<1>5. pkgs' = [pkgs EXCEPT ![NewNumber] = d] /\ courier' = courier
    BY <1>1 DEF DispatchManual
<1>6. TypeOK'
    <2> HIDE DEF d
    <2> QED BY <1>2, <1>3, <1>4, <1>5 DEF Base, Typed, TypeOK
<1> QED BY <1>6 DEF DispatchManual, Base, Typed

LEMMA TypedMarkDelivered ==
    ASSUME Base, NEW p \in Numbers, MarkDelivered(p) PROVE Typed'
<1> DEFINE d == [pkgs[p] EXCEPT !.status = "delivered", !.seen = @ \cup {"delivered"}]
<1>1. pkgs[p] \in PackageType /\ pkgs[p].status # "none"
    BY DEF MarkDelivered, AwaitingHandover, Base, Typed, TypeOK
<1>2. d \in PackageType /\ d.status # "none"
    BY <1>1 DEF PackageType, PackageStatusSet, Shipped
<1>3. pkgs' = [pkgs EXCEPT ![p] = d]
    BY DEF MarkDelivered, Base, Typed, TypeOK
<1>4. order' \in OrderType
    <2>1. PICK P : order' = Recomputed(P) \/ order' = [Recomputed(P) EXCEPT !.pay = "paid", !.coll = TRUE]
        BY DEF MarkDelivered
    <2>2. Recomputed(P) \in OrderType
        BY RecomputedTyped
    <2> QED BY <2>1, <2>2 DEF OrderType
<1>5. TypeOK'
    <2> HIDE DEF d
    <2> QED BY <1>1, <1>2, <1>3, <1>4, UpdateTyped DEF MarkDelivered, Base, Typed
<1> QED BY <1>5 DEF MarkDelivered, Base, Typed

LEMMA TypedReturnToStore ==
    ASSUME Base, NEW p \in Numbers, ReturnToStore(p) PROVE Typed'
<1> DEFINE d == [pkgs[p] EXCEPT !.status = "cancelled", !.gone = TRUE]
<1>1. pkgs[p] \in PackageType /\ pkgs[p].status # "none"
    BY DEF ReturnToStore, AwaitingHandover, Base, Typed, TypeOK
<1>2. d \in PackageType /\ d.status # "none"
    BY <1>1 DEF PackageType, PackageStatusSet
<1>3. pkgs' = [pkgs EXCEPT ![p] = d]
    BY DEF ReturnToStore, Base, Typed, TypeOK
<1>4. order' \in OrderType
    BY DEF ReturnToStore, Base, Typed, TypeOK, OrderType, OrderStatusSet
<1>5. TypeOK'
    <2> HIDE DEF d
    <2> QED BY <1>1, <1>2, <1>3, <1>4, UpdateTyped DEF ReturnToStore, Base, Typed
<1> QED BY <1>5 DEF ReturnToStore, Base, Typed

LEMMA TypedCrash ==
    ASSUME Base, NEW w \in Workers, Crash(w) PROVE Typed'
<1>1. TypeOK'
    BY SameTyped DEF Crash, Base, Typed, TypeOK
<1> QED BY <1>1, FinishTyped DEF Crash, Base, Typed

LEMMA StepTyped == ASSUME Base, Next PROVE Typed'
<1>1. ASSUME NEW w \in Workers, WorkerStep(w) PROVE Typed'
    BY <1>1, TypedAskPackage, TypedAllocate, TypedCall, TypedSaveBooked, TypedSaveUnbooked, TypedDerive,
       TypedRecheck, TypedWriteOrder, TypedSyncUnlinked, TypedFetchStatus, TypedApply, TypedRecall, TypedDrop,
       TypedCorrectOrder, TypedCascade, TypedSaveReport, TypedCrash, TypedWebhook, TypedSync, TypedAskCancel,
       TypedClaimRetry, TypedReadReport DEF WorkerStep
<1> QED BY <1>1, TypedCancelOrder, TypedDispatch, TypedCourierMoves, TypedMarkDelivered, TypedReturnToStore DEF Next

-----------------------------------------------------------------------------
(* Requests, packages, money: the rest of the base.                         *)

\* Packages, and parcels, do not vanish.
Grows ==
    /\ \A p \in Numbers : pkgs[p].status # "none" =>
          pkgs'[p].status # "none" /\ pkgs'[p].mode = pkgs[p].mode /\ (courier[p] # "none" => courier'[p] # "none")
    /\ override => override'

LEMMA StillTrue ==
    ASSUME Base, Grows, NEW v \in Workers, req'[v] = req[v]
    PROVE  RequestTrue(v)'
<1>1. RequestTrue(v)
    BY DEF Base, Requests
<1> QED BY <1>1 DEF RequestTrue, Grows, Existing, CourierOps, ParcelOps

LEMMA OneWorker ==
    ASSUME Base, Grows, NEW w \in Workers, \A v \in Workers : v # w => req'[v] = req[v], RequestTrue(w)'
    PROVE  Requests'
    BY StillTrue DEF Requests

\* A request that carries nothing.
LEMMA NothingCarried ==
    ASSUME NEW w \in Workers,
           \/ req'[w].op \in {"idle", "allocate"}
           \/ req'[w].op = "derive" /\ (req'[w].carrier \/ req'[w].tries = 0)
    PROVE  RequestTrue(w)'
    BY DEF RequestTrue, ParcelOps, CourierOps

LEMMA FinishWorker ==
    ASSUME Base, NEW w \in Workers, Finish(w)
    PROVE  /\ \A v \in Workers : v # w => req'[v] = req[v]
           /\ req'[w] = Idle /\ req'[w].op = "idle" /\ RequestTrue(w)'
<1>1. req'[w] = Idle /\ \A v \in Workers : v # w => req'[v] = req[v]
    BY DEF Finish, Base, Typed
<1>2. req'[w].op = "idle"
    BY <1>1 DEF Idle
<1> QED BY <1>1, <1>2, NothingCarried

LEMMA RecomputeWorker ==
    ASSUME Base, NEW w \in Workers, NEW carrier \in BOOLEAN, Recompute(w, carrier)
    PROVE  /\ \A v \in Workers : v # w => req'[v] = req[v]
           /\ req'[w].op = "derive" /\ RequestTrue(w)'
<1>1. req'[w] = [Idle EXCEPT !.op = "derive", !.carrier = carrier] /\ \A v \in Workers : v # w => req'[v] = req[v]
    BY DEF Recompute, Base, Typed
<1>2. req'[w].op = "derive" /\ req'[w].tries = 0
    BY <1>1 DEF Idle
<1> QED BY <1>1, <1>2, NothingCarried

LEMMA SamePackages ==
    ASSUME Base, UNCHANGED <<pkgs, courier>>, override => override'
    PROVE  Grows /\ Consecutive' /\ Packages'
    BY DEF Grows, Base, Consecutive, Existing, Packages, PackageTrue

LEMMA UpdatedPackage ==
    ASSUME Base, NEW p \in Numbers, pkgs[p].status # "none", NEW d, pkgs' = [pkgs EXCEPT ![p] = d],
           UNCHANGED courier, override => override',
           d.status # "none", d.mode = pkgs[p].mode, d.qty = pkgs[p].qty, d.status = "cancelled" => d.gone,
           d.mode \in Manual => d.integ = pkgs[p].integ, d.integ = "created" => courier[p] # "none"
    PROVE  Grows /\ Consecutive' /\ Packages'
<1>1. /\ pkgs'[p] = d
      /\ \A q \in Numbers : q # p => pkgs'[q] = pkgs[q]
    BY DEF Base, Typed, TypeOK
<1>2. Grows
    BY <1>1 DEF Grows
<1>3. Existing' = Existing
    BY <1>1 DEF Existing
<1>4. Consecutive'
    BY <1>3 DEF Base, Consecutive
<1>5. ASSUME NEW q \in Numbers PROVE PackageTrue(q)'
    <2>1. PackageTrue(q) /\ PackageTrue(p)
        BY DEF Base, Packages
    <2>2. CASE q = p
        BY <1>1, <2>1, <2>2 DEF PackageTrue
    <2>3. CASE q # p
        BY <1>1, <2>1, <2>3 DEF PackageTrue
    <2> QED BY <2>2, <2>3
<1> QED BY <1>2, <1>4, <1>5 DEF Packages

LEMMA SameOrder ==
    ASSUME Base, UNCHANGED order, override => override'
    PROVE  Money' /\ BlockedForGood'
    BY DEF Base, Money, BlockedForGood

LEMMA OverwriteKeeps ==
    ASSUME NEW status, NEW expected, Overwrite(status, expected)
    PROVE  override => override'
    BY DEF Overwrite

\* All but the types of Base.
Rest == Consecutive /\ Requests /\ Packages /\ Money /\ BlockedForGood

LEMMA RestAskPackage ==
    ASSUME Base, NEW w \in Workers, AskPackage(w) PROVE Rest'
<1>1. /\ \A v \in Workers : v # w => req'[v] = req[v]
      /\ req'[w].op = "allocate"
    BY DEF AskPackage, Base, Typed, RequestType
<1>2. UNCHANGED <<pkgs, courier, order, override>>
    BY DEF AskPackage
<1> QED BY <1>1, <1>2, SamePackages, SameOrder, OneWorker, NothingCarried DEF Rest

LEMMA RestAllocate ==
    ASSUME Base, NEW w \in Workers, AllocatePackage(w) PROVE Rest'
<1>0. UNCHANGED <<order, courier, override>> /\ Money' /\ BlockedForGood'
    BY SameOrder DEF AllocatePackage
<1>1. CASE Finish(w) /\ UNCHANGED pkgs
    <2>1. Grows /\ Consecutive' /\ Packages'
        BY <1>0, <1>1, SamePackages
    <2> QED BY <1>0, <1>1, <2>1, FinishWorker, OneWorker DEF Rest
<1>2. CASE /\ Cardinality(Existing) < MaxPackages
           /\ \E qty \in 1 .. Units - Allocated :
                 /\ pkgs' = [pkgs EXCEPT ![NewNumber] = [NoPackage EXCEPT !.status = "packed", !.qty = qty]]
                 /\ req' = [req EXCEPT ![w].op = "call", ![w].p = NewNumber]
    <2>1. PICK qty \in 1 .. Units - Allocated :
                 /\ pkgs' = [pkgs EXCEPT ![NewNumber] = [NoPackage EXCEPT !.status = "packed", !.qty = qty]]
                 /\ req' = [req EXCEPT ![w].op = "call", ![w].p = NewNumber]
        BY <1>2
    <2>2. PICK n \in Numbers : /\ n = NewNumber /\ pkgs[n].status = "none" /\ Existing = 1 .. n - 1
        BY <1>2, NextNumber
    <2>3. Allocated \in Nat
        BY UnitsTyped DEF Allocated, ActiveIn
    <2>4. qty \in 1 .. Units
        BY <2>3, SizeAssumption
    <2>5. pkgs'[n] = [NoPackage EXCEPT !.status = "packed", !.qty = qty] /\ \A q \in Numbers : q # n => pkgs'[q] = pkgs[q]
        BY <2>1, <2>2 DEF Base, Typed, TypeOK
    <2>6. pkgs'[n].status = "packed" /\ pkgs'[n].qty = qty /\ pkgs'[n].mode = "shiprocket" /\ pkgs'[n].integ = "pending"
        BY <2>5 DEF NoPackage
    <2>7. Grows
        BY <1>0, <2>2, <2>5 DEF Grows
    <2>8. Consecutive'
        <3>1. Existing' = Existing \cup {n}
            BY <2>5, <2>6 DEF Existing
        <3>2. n \in 0 .. MaxPackages /\ Existing' = 1 .. n
            BY <2>2, <3>1 DEF Numbers
        <3> QED BY <3>2 DEF Consecutive
    <2>9. Packages'
        <3> SUFFICES ASSUME NEW q \in Numbers PROVE PackageTrue(q)'
            BY DEF Packages
        <3>1. CASE q = n
            BY <2>4, <2>6, <3>1 DEF PackageTrue, Manual
        <3>2. CASE q # n
            BY <1>0, <2>5, <3>2 DEF PackageTrue, Base, Packages
        <3> QED BY <3>1, <3>2
    <2>10. /\ req'[w].op = "call" /\ req'[w].p = n
           /\ \A v \in Workers : v # w => req'[v] = req[v]
        BY <2>1, <2>2 DEF Base, Typed, RequestType
    <2>11. RequestTrue(w)'
        BY <2>2, <2>6, <2>10 DEF RequestTrue, Existing, ParcelOps, CourierOps
    <2> QED BY <1>0, <2>7, <2>8, <2>9, <2>10, <2>11, OneWorker DEF Rest
<1> QED BY <1>1, <1>2 DEF AllocatePackage, NewNumber

LEMMA RestCall ==
    ASSUME Base, NEW w \in Workers, CallShiprocket(w) PROVE Rest'
<1> DEFINE p == req[w].p
<1>1. p \in Numbers /\ pkgs[p].status # "none" /\ pkgs[p].mode = "shiprocket"
    BY PickNumber DEF CallShiprocket, Doing, ParcelOps, CourierOps, Base, Requests, RequestTrue
<1>2. UNCHANGED <<order, pkgs, override>>
    BY DEF CallShiprocket
<1>3. /\ req'[w].op \in {"booked", "unbooked"} /\ req'[w].p = p
      /\ req'[w].op = "booked" => courier'[p] # "none"
      /\ \A v \in Workers : v # w => req'[v] = req[v]
    <2>1. PICK booked, answered \in BOOLEAN :
         /\ courier' = IF booked /\ courier[p] = "none" THEN [courier EXCEPT ![p] = "packed"] ELSE courier
         /\ req' = [req EXCEPT ![w].op = IF booked /\ answered THEN "booked" ELSE "unbooked"]
        BY DEF CallShiprocket
    <2>2. /\ req'[w].op = IF booked /\ answered THEN "booked" ELSE "unbooked"
          /\ req'[w].p = p /\ \A v \in Workers : v # w => req'[v] = req[v]
        BY <2>1 DEF Base, Typed, RequestType
    <2>3. booked => courier'[p] # "none"
        BY <1>1, <2>1 DEF Base, Typed, TypeOK
    <2> QED BY <2>2, <2>3
<1>4. \A q \in Numbers : courier'[q] = courier[q] \/ (q = p /\ courier'[q] = "packed")
    BY <1>1 DEF CallShiprocket, Base, Typed, TypeOK
<1>5. Grows
    BY <1>2, <1>4 DEF Grows
<1>6. Consecutive' /\ Packages'
    <2>1. Consecutive'
        BY <1>2 DEF Base, Consecutive, Existing
    <2>2. Packages'
        <3> SUFFICES ASSUME NEW q \in Numbers PROVE PackageTrue(q)'
            BY DEF Packages
        <3>1. PackageTrue(q) /\ pkgs' = pkgs
            BY <1>2 DEF Base, Packages
        <3>2. pkgs[p].mode \notin Manual
            BY <1>1 DEF Manual
        <3> HIDE DEF p
        <3> QED BY <1>4, <3>1, <3>2 DEF PackageTrue
    <2> QED BY <2>1, <2>2
<1>7. RequestTrue(w)'
    BY <1>1, <1>2, <1>3 DEF RequestTrue, Existing, ParcelOps, CourierOps
<1> QED BY <1>2, <1>3, <1>5, <1>6, <1>7, OneWorker, SameOrder DEF Rest

LEMMA RestSaveBooked ==
    ASSUME Base, NEW w \in Workers, SaveBooked(w) PROVE Rest'
<1> DEFINE p == req[w].p
           d == [pkgs[p] EXCEPT !.integ = "created", !.status = IF req[w].status = "retry" THEN "packed" ELSE @]
<1>1. p \in Numbers /\ pkgs[p].status # "none" /\ pkgs[p] \in PackageType
    BY PickNumber DEF SaveBooked, Doing, ParcelOps
<1>2. pkgs[p].mode = "shiprocket" /\ courier[p] # "none"
    BY DEF SaveBooked, Doing, ParcelOps, CourierOps, Base, Requests, RequestTrue
<1>3. pkgs' = [pkgs EXCEPT ![p] = d]
    BY <1>1 DEF SaveBooked, Base, Typed, TypeOK
<1>4. /\ d.status # "none" /\ d.mode = pkgs[p].mode /\ d.qty = pkgs[p].qty /\ d.mode \notin Manual
      /\ d.status = "cancelled" => d.gone
    <2>1. PackageTrue(p)
        BY <1>1 DEF Base, Packages
    <2> QED BY <1>1, <1>2, <2>1 DEF PackageType, PackageTrue, Manual
<1>5. UNCHANGED <<order, courier>> /\ (override => override')
    BY DEF SaveBooked, Overwrite
<1>6. Grows /\ Consecutive' /\ Packages'
    <2> HIDE DEF p, d
    <2> QED BY <1>1, <1>2, <1>3, <1>4, <1>5, UpdatedPackage
<1> QED BY <1>5, <1>6, RecomputeWorker, OneWorker, SameOrder DEF SaveBooked, Rest

LEMMA RestSaveUnbooked ==
    ASSUME Base, NEW w \in Workers, SaveUnbooked(w) PROVE Rest'
<1> DEFINE p == req[w].p
           d == [pkgs[p] EXCEPT !.integ = "unknown", !.status = "failed"]
<1>1. p \in Numbers /\ pkgs[p].status # "none" /\ pkgs[p] \in PackageType
    BY PickNumber DEF SaveUnbooked, Doing, ParcelOps
<1>2. pkgs[p].mode = "shiprocket"
    BY DEF SaveUnbooked, Doing, ParcelOps, CourierOps, Base, Requests, RequestTrue
<1>3. pkgs' = [pkgs EXCEPT ![p] = d]
    BY <1>1 DEF SaveUnbooked, Base, Typed, TypeOK
<1>4. d.status = "failed" /\ d.integ = "unknown" /\ d.mode = pkgs[p].mode /\ d.qty = pkgs[p].qty /\ d.mode \notin Manual
    BY <1>1, <1>2 DEF PackageType, Manual
<1>5. UNCHANGED <<order, courier>> /\ (override => override')
    BY DEF SaveUnbooked, Overwrite
<1>6. Grows /\ Consecutive' /\ Packages'
    <2> HIDE DEF p, d
    <2> QED BY <1>1, <1>3, <1>4, <1>5, UpdatedPackage
<1> QED BY <1>5, <1>6, FinishWorker, OneWorker, SameOrder DEF SaveUnbooked, Rest

LEMMA RestClaimRetry ==
    ASSUME Base, NEW w \in Workers, NEW p \in Numbers, ClaimRetry(w, p) PROVE Rest'
<1> DEFINE d == [pkgs[p] EXCEPT !.integ = "pending"]
<1>1. pkgs[p] \in PackageType /\ pkgs[p].status # "none" /\ PackageTrue(p) /\ pkgs[p].mode = "shiprocket"
    BY DEF ClaimRetry, Base, Typed, TypeOK, NoPackage, Packages, PackageTrue, PackageType
<1>2. pkgs' = [pkgs EXCEPT ![p] = d]
    BY <1>1 DEF ClaimRetry, Base, Typed, TypeOK
<1>3. /\ d.status = pkgs[p].status /\ d.integ = "pending" /\ d.mode = pkgs[p].mode /\ d.qty = pkgs[p].qty
      /\ d.gone = pkgs[p].gone /\ d.mode \notin Manual
    BY <1>1 DEF PackageType, Manual
<1>4. UNCHANGED <<order, courier, override>>
    BY DEF ClaimRetry
<1>5. Grows /\ Consecutive' /\ Packages'
    <2>1. d.status = "cancelled" => d.gone
        BY <1>1, <1>3 DEF PackageTrue
    <2> HIDE DEF d
    <2> QED BY <1>1, <1>2, <1>3, <1>4, <2>1, UpdatedPackage
<1>6. /\ req'[w].op = "call" /\ req'[w].p = p
      /\ \A v \in Workers : v # w => req'[v] = req[v]
    BY DEF ClaimRetry, Base, Typed, RequestType
<1>7. RequestTrue(w)'
    BY <1>1, <1>2, <1>5, <1>6 DEF RequestTrue, Existing, ParcelOps, CourierOps, Grows
<1> QED BY <1>4, <1>5, <1>6, <1>7, OneWorker, SameOrder DEF Rest

(* Steps that only look: the documents and the parcels stay.                *)
LEMMA LookingStep ==
    ASSUME Base, UNCHANGED <<order, pkgs, courier>>, override => override', NEW w \in Workers,
           \A v \in Workers : v # w => req'[v] = req[v], RequestTrue(w)'
    PROVE  Rest'
    BY SamePackages, SameOrder, OneWorker DEF Rest

LEMMA RestDerive ==
    ASSUME Base, NEW w \in Workers, Derive(w) PROVE Rest'
<1>1. UNCHANGED <<order, pkgs, courier, override>>
    BY DEF Derive
<1>2. CASE Finish(w)
    BY <1>1, <1>2, FinishWorker, LookingStep
<1>3. CASE ~Finish(w)
    <2> DEFINE derived == DerivedStatus(pkgs)
               to == IF req[w].carrier /\ (FulfillmentBlocked \/ ~CanTransition(order.status, derived))
                     THEN "none" ELSE derived
               settle == req[w].carrier /\ ~FulfillmentBlocked /\ to = "delivered" /\ AllDelivered /\ AwaitsCollection
    <2>1. /\ ~(to \in {"none", order.status} /\ ~settle)
          /\ req' = [req EXCEPT ![w].op = "write", ![w].to = to, ![w].settle = settle,
                                ![w].seen = order.status, ![w].pay = order.pay]
        BY <1>3 DEF Derive
    <2>2. to # "none" /\ to = derived /\ to \in Derivable
        BY <2>1, DerivedIs
    <2>3. req[w].carrier => CanTransition(order.status, to)
        BY <2>2
    <2>4. settle => req[w].carrier /\ order.pay = "pending"
        BY DEF AwaitsCollection
    <2>5. req[w].carrier \/ req[w].tries = 0
        BY DEF Derive, Doing, Base, Requests, RequestTrue
    <2> HIDE DEF to, settle
    <2>6. /\ req'[w].op = "write" /\ req'[w].to = to /\ req'[w].settle = settle /\ req'[w].seen = order.status
          /\ req'[w].pay = order.pay /\ req'[w].carrier = req[w].carrier /\ req'[w].tries = req[w].tries
          /\ \A v \in Workers : v # w => req'[v] = req[v]
        BY <2>1 DEF Base, Typed, RequestType
    <2>7. order.status \in OrderStatusSet
        BY DEF Base, Typed, TypeOK, OrderType
    <2>8. RequestTrue(w)'
        <3>1. ~(req'[w].op \in ParcelOps) /\ req'[w].op \notin CourierOps
            BY <2>6 DEF ParcelOps, CourierOps
        <3>2. req'[w].settle => req'[w].carrier /\ req'[w].pay = "pending"
            BY <2>4, <2>6
        <3>3. req'[w].carrier \/ req'[w].tries = 1 => CanTransition(req'[w].seen, req'[w].to)
            BY <2>3, <2>5, <2>6
        <3> QED BY <2>2, <2>6, <2>7, <3>1, <3>2, <3>3 DEF RequestTrue
    <2> QED BY <1>1, <2>6, <2>8, LookingStep
<1> QED BY <1>2, <1>3

LEMMA RestRecheck ==
    ASSUME Base, NEW w \in Workers, Recheck(w) PROVE Rest'
<1>1. UNCHANGED <<order, pkgs, courier, override>>
    BY DEF Recheck
<1>2. CASE Finish(w)
    BY <1>1, <1>2, FinishWorker, LookingStep
<1>3. CASE ~Finish(w)
    <2>1. /\ CanTransition(order.status, req[w].to)
          /\ req' = [req EXCEPT ![w].seen = order.status, ![w].pay = order.pay, ![w].tries = 1]
        BY <1>3 DEF Recheck
    <2>2. req[w].op = "write" /\ ~req[w].carrier /\ RequestTrue(w)
        BY DEF Recheck, Doing, Base, Requests
    <2>3. /\ req'[w].op = req[w].op /\ req'[w].to = req[w].to /\ req'[w].settle = req[w].settle
          /\ req'[w].seen = order.status /\ req'[w].carrier = req[w].carrier
          /\ \A v \in Workers : v # w => req'[v] = req[v]
        BY <2>1 DEF Base, Typed, RequestType
    <2>4. order.status \in OrderStatusSet
        BY DEF Base, Typed, TypeOK, OrderType
    <2>5. RequestTrue(w)'
        BY <2>1, <2>2, <2>3, <2>4 DEF RequestTrue, ParcelOps, CourierOps
    <2> QED BY <1>1, <2>3, <2>5, LookingStep
<1> QED BY <1>2, <1>3

LEMMA RestWriteOrder ==
    ASSUME Base, NEW w \in Workers, WriteOrder(w) PROVE Rest'
<1>1. UNCHANGED <<pkgs, courier>> /\ (override => override')
    BY DEF WriteOrder, AfterConflict
<1>2. Grows /\ Consecutive' /\ Packages'
    BY <1>1, SamePackages
<1>3. /\ \A v \in Workers : v # w => req'[v] = req[v]
      /\ RequestTrue(w)'
    <2>1. CASE Finish(w)
        BY <2>1, FinishWorker
    <2>2. CASE req[w].carrier /\ req' = [req EXCEPT ![w].op = "derive", ![w].tries = @ + 1]
        <3>1. /\ req'[w].op = "derive" /\ req'[w].carrier
              /\ \A v \in Workers : v # w => req'[v] = req[v]
            BY <2>2 DEF Base, Typed, RequestType
        <3> QED BY <3>1, NothingCarried
    <2> QED BY <2>1, <2>2 DEF WriteOrder, AfterConflict
<1>4. Money' /\ BlockedForGood'
    <2>1. CASE UNCHANGED order
        BY <1>1, <2>1, SameOrder
    <2>2. CASE AsRead(w) /\ order' = Moved(req[w].to, req[w].settle)
        <3>1. req[w].to \in Derivable /\ (req[w].settle => req[w].pay = "pending") /\ req[w].settle \in BOOLEAN
            BY DEF WriteOrder, Doing, Base, Requests, RequestTrue, Typed, RequestType
        <3>2. order \in OrderType /\ Money
            BY DEF Base, Typed, TypeOK
        <3>3. /\ order'.status = req[w].to /\ order'.coll = order.coll
              /\ order'.pay = IF req[w].settle THEN "paid" ELSE order.pay
              /\ order'.remit = IF req[w].settle THEN "awaiting" ELSE order.remit
            BY <2>2, <3>2 DEF Moved, OrderType
        <3>4. Money'
            BY <3>2, <3>3 DEF Money
        <3> QED BY <3>1, <3>3, <3>4 DEF BlockedForGood, Derivable
    <2> QED BY <2>1, <2>2 DEF WriteOrder
<1> QED BY <1>2, <1>3, <1>4, OneWorker DEF Rest

LEMMA LookWorker ==
    ASSUME Base, NEW w \in Workers, NEW op \in ParcelOps, NEW p, NEW now, NEW to, Look(w, op, p, now, to)
    PROVE  /\ req'[w].op = op /\ req'[w].p = p /\ req'[w].to = to /\ req'[w].carrier = ~FulfillmentBlocked
           /\ \A v \in Workers : v # w => req'[v] = req[v]
    BY DEF Look, Base, Typed, Idle

(* A package whose parcel is known to the courier is one of the courier's.  *)
LEMMA CouriersOwn ==
    ASSUME Base, NEW p \in Numbers, courier[p] # "none"
    PROVE  pkgs[p].mode = "shiprocket" /\ p \in Existing
    BY DEF Base, Packages, PackageTrue, Typed, TypeOK, PackageType, Existing

LEMMA RestWebhook ==
    ASSUME Base, NEW w \in Workers, NEW p \in Numbers, Webhook(w, p) PROVE Rest'
<1>1. PICK to \in Reported(p) : Look(w, "apply", p, TimeOf(to), to)
    BY DEF Webhook
<1>2. to \in Events /\ pkgs[p].mode = "shiprocket" /\ p \in Existing
    BY <1>1, ReportedEvents, CouriersOwn
<1>3. UNCHANGED <<order, pkgs, courier, override>>
    BY DEF Webhook
<1>4. /\ req'[w].op = "apply" /\ req'[w].p = p /\ req'[w].to = to
      /\ \A v \in Workers : v # w => req'[v] = req[v]
    BY <1>1, LookWorker DEF ParcelOps
<1>5. RequestTrue(w)'
    BY <1>2, <1>3, <1>4 DEF RequestTrue, Existing, ParcelOps, CourierOps
<1> QED BY <1>3, <1>4, <1>5, LookingStep

LEMMA RestSync ==
    ASSUME Base, NEW w \in Workers, NEW p \in Numbers, Sync(w, p) PROVE Rest'
<1>1. courier[p] # "none" /\ pkgs[p].mode = "shiprocket" /\ p \in Existing
    BY CouriersOwn DEF Sync, Base, Packages, PackageTrue
<1>2. UNCHANGED <<order, pkgs, courier, override>> /\ Look(w, "fetch", p, TimeOf(courier[p]), "none")
    BY DEF Sync
<1>3. /\ req'[w].op = "fetch" /\ req'[w].p = p
      /\ \A v \in Workers : v # w => req'[v] = req[v]
    BY <1>2, LookWorker DEF ParcelOps
<1>4. RequestTrue(w)'
    BY <1>1, <1>2, <1>3 DEF RequestTrue, Existing, ParcelOps, CourierOps
<1> QED BY <1>2, <1>3, <1>4, LookingStep

LEMMA RestSyncUnlinked ==
    ASSUME Base, NEW w \in Workers, SyncUnlinked(w) PROVE Rest'
    BY RecomputeWorker, LookingStep DEF SyncUnlinked

LEMMA RestFetchStatus ==
    ASSUME Base, NEW w \in Workers, FetchStatus(w) PROVE Rest'
<1>1. RequestTrue(w) /\ req[w].op = "fetch" /\ req[w].p \in Numbers
    BY PickNumber DEF FetchStatus, Doing, ParcelOps, Base, Requests
<1>2. courier[req[w].p] \in Events
    BY <1>1, ReportedEvents DEF RequestTrue
<1>3. UNCHANGED <<order, pkgs, courier, override>>
    BY DEF FetchStatus
<1>4. /\ req'[w].op = "apply" /\ req'[w].p = req[w].p /\ req'[w].to = courier[req[w].p]
      /\ \A v \in Workers : v # w => req'[v] = req[v]
    BY DEF FetchStatus, Base, Typed, RequestType
<1>5. RequestTrue(w)'
    BY <1>1, <1>2, <1>3, <1>4 DEF RequestTrue, Existing, ParcelOps, CourierOps
<1> QED BY <1>3, <1>4, <1>5, LookingStep

LEMMA EndWorker ==
    ASSUME Base, NEW w \in Workers, EndTracking(w)
    PROVE  /\ \A v \in Workers : v # w => req'[v] = req[v]
           /\ req'[w].op \in {"idle", "derive"} /\ (req[w].carrier => req'[w].op = "derive")
           /\ RequestTrue(w)'
    BY FinishWorker, RecomputeWorker DEF EndTracking

LEMMA RestApply ==
    ASSUME Base, NEW w \in Workers, ApplyStatus(w) PROVE Rest'
<1> DEFINE p == req[w].p
           d == Tracked(pkgs[p], w)
<1>1. p \in Numbers /\ pkgs[p].status # "none" /\ pkgs[p] \in PackageType /\ PackageTrue(p)
    BY PickNumber DEF ApplyStatus, Doing, ParcelOps, Base, Packages
<1>2. UNCHANGED <<order, courier, override>>
    BY DEF ApplyStatus
<1>3. CASE UNCHANGED pkgs /\ (Finish(w) \/ EndTracking(w))
    BY <1>2, <1>3, FinishWorker, EndWorker, LookingStep
<1>4. CASE pkgs' = [pkgs EXCEPT ![p] = d] /\ EndTracking(w)
    <2>1. req[w].to \in Events
        BY DEF ApplyStatus, Doing, Base, Requests, RequestTrue
    <2>2. /\ d.mode = pkgs[p].mode /\ d.qty = pkgs[p].qty /\ d.integ = pkgs[p].integ /\ d.status # "none"
          /\ d.status = "cancelled" => d.gone
        BY <1>1, <2>1 DEF Tracked, PackageType, PackageTrue, Events, Shipped
    <2>3. Grows /\ Consecutive' /\ Packages'
        <3>1. pkgs[p].integ = "created" => courier[p] # "none"
            BY <1>1 DEF PackageTrue
        <3> HIDE DEF p, d
        <3> QED BY <1>1, <1>2, <1>4, <2>2, <3>1, UpdatedPackage
    <2> QED BY <1>2, <1>4, <2>3, EndWorker, OneWorker, SameOrder DEF Rest
<1>5. CASE UNCHANGED pkgs
              /\ req' = [req EXCEPT ![w].tries = @ + 1, ![w].status = pkgs[p].status, ![w].at = pkgs[p].at]
    <2>1. /\ req'[w].op = "apply" /\ req'[w].p = p /\ req'[w].to = req[w].to /\ req[w].op = "apply"
          /\ \A v \in Workers : v # w => req'[v] = req[v]
        BY <1>5 DEF ApplyStatus, Doing, Base, Typed, RequestType
    <2>2. RequestTrue(w)
        BY DEF Base, Requests
    <2>3. RequestTrue(w)'
        BY <1>2, <1>5, <2>1, <2>2 DEF RequestTrue, Existing, ParcelOps, CourierOps
    <2> QED BY <1>2, <1>5, <2>1, <2>3, LookingStep
<1> QED BY <1>3, <1>4, <1>5 DEF ApplyStatus

(* Parcels move, the documents and the requests stay.                       *)
LEMMA RestCourierMoves ==
    ASSUME Base, NEW p \in Numbers, CourierMoves(p) PROVE Rest'
<1>1. UNCHANGED <<order, pkgs, req, override>>
    BY DEF CourierMoves
<1>2. courier[p] # "none" /\ courier'[p] # "none" /\ \A q \in Numbers : q # p => courier'[q] = courier[q]
    <2>1. PICK to \in Reach : courier' = [courier EXCEPT ![p] = to]
        BY DEF CourierMoves
    <2>2. to # "none"
        BY ReachAssumption
    <2>3. courier[p] # "none"
        BY StageIndices DEF CourierMoves, Shipped
    <2> QED BY <2>1, <2>2, <2>3 DEF Base, Typed, TypeOK
<1>3. Grows
    BY <1>1, <1>2 DEF Grows
<1>4. Consecutive' /\ Money' /\ BlockedForGood'
    BY <1>1 DEF Base, Consecutive, Existing, Money, BlockedForGood
<1>5. Packages'
    <2> SUFFICES ASSUME NEW q \in Numbers PROVE PackageTrue(q)'
        BY DEF Packages
    <2>1. PackageTrue(q) /\ pkgs' = pkgs
        BY <1>1 DEF Base, Packages
    <2> QED BY <1>2, <2>1 DEF PackageTrue
<1>6. Requests'
    BY <1>1, <1>3, StillTrue DEF Requests
<1> QED BY <1>4, <1>5, <1>6 DEF Rest

LEMMA RestAskCancel ==
    ASSUME Base, NEW w \in Workers, NEW p \in Numbers, AskCancelPackage(w, p) PROVE Rest'
<1>1. UNCHANGED <<order, pkgs, courier, override>> /\ p \in Existing
    BY DEF AskCancelPackage, Existing
<1>2. /\ req'[w].op = IF pkgs[p].integ = "created" THEN "recall" ELSE "drop"
      /\ req'[w].p = p /\ \A v \in Workers : v # w => req'[v] = req[v]
    BY DEF AskCancelPackage, Base, Typed, RequestType
<1>3. pkgs[p].integ = "created" => pkgs[p].mode = "shiprocket"
    BY CouriersOwn DEF Base, Packages, PackageTrue
<1>4. RequestTrue(w)'
    <2>1. req'[w].op \in ParcelOps /\ (req'[w].op \in CourierOps => pkgs[p].mode = "shiprocket")
        BY <1>2, <1>3 DEF ParcelOps, CourierOps
    <2>2. req'[w].op \in {"recall", "drop"}
        BY <1>2
    <2> QED BY <1>1, <1>2, <2>1, <2>2 DEF RequestTrue, Existing
<1> QED BY <1>1, <1>2, <1>4, LookingStep

LEMMA RestRecall ==
    ASSUME Base, NEW w \in Workers, RecallParcel(w) PROVE Rest'
<1> DEFINE p == req[w].p
<1>1. p \in Numbers /\ p \in Existing /\ pkgs[p].mode = "shiprocket"
    BY PickNumber DEF RecallParcel, Doing, ParcelOps, CourierOps, Base, Requests, RequestTrue
<1>2. UNCHANGED <<order, pkgs, override>>
    BY DEF RecallParcel
<1>3. CASE Finish(w) /\ UNCHANGED courier
    BY <1>2, <1>3, FinishWorker, LookingStep
<1>4. CASE courier' = [courier EXCEPT ![p] = "cancelled"] /\ req' = [req EXCEPT ![w].op = "drop"]
    <2>1. courier'[p] = "cancelled" /\ \A q \in Numbers : q # p => courier'[q] = courier[q]
        BY <1>1, <1>4 DEF Base, Typed, TypeOK
    <2>2. /\ req'[w].op = "drop" /\ req'[w].p = p
          /\ \A v \in Workers : v # w => req'[v] = req[v]
        BY <1>4 DEF Base, Typed, RequestType
    <2>3. Grows
        BY <1>2, <2>1 DEF Grows
    <2>4. Consecutive' /\ Money' /\ BlockedForGood'
        BY <1>2 DEF Base, Consecutive, Existing, Money, BlockedForGood
    <2>5. Packages'
        <3> SUFFICES ASSUME NEW q \in Numbers PROVE PackageTrue(q)'
            BY DEF Packages
        <3>1. PackageTrue(q) /\ pkgs' = pkgs
            BY <1>2 DEF Base, Packages
        <3>2. pkgs[p].mode \notin Manual
            BY <1>1 DEF Manual
        <3> HIDE DEF p
        <3> QED BY <2>1, <3>1, <3>2 DEF PackageTrue
    <2>6. RequestTrue(w)'
        BY <1>1, <1>2, <2>2 DEF RequestTrue, Existing, ParcelOps, CourierOps
    <2> QED BY <2>2, <2>3, <2>4, <2>5, <2>6, OneWorker DEF Rest
<1> QED BY <1>3, <1>4 DEF RecallParcel

LEMMA RestDrop ==
    ASSUME Base, NEW w \in Workers, DropPackage(w) PROVE Rest'
<1> DEFINE p == req[w].p
           d == [pkgs[p] EXCEPT !.status = "cancelled", !.gone = TRUE]
<1>1. p \in Numbers /\ pkgs[p].status # "none" /\ pkgs[p] \in PackageType /\ PackageTrue(p)
    BY PickNumber DEF DropPackage, Doing, ParcelOps, Base, Packages
<1>2. pkgs' = [pkgs EXCEPT ![p] = d]
    BY <1>1 DEF DropPackage, Base, Typed, TypeOK
<1>3. d.status = "cancelled" /\ d.gone /\ d.mode = pkgs[p].mode /\ d.qty = pkgs[p].qty /\ d.integ = pkgs[p].integ
    BY <1>1 DEF PackageType
<1>4. UNCHANGED <<order, courier>> /\ (override => override')
    BY DEF DropPackage, Overwrite
<1>5. Grows /\ Consecutive' /\ Packages'
    <2>1. pkgs[p].integ = "created" => courier[p] # "none"
        BY <1>1 DEF PackageTrue
    <2> HIDE DEF p, d
    <2> QED BY <1>1, <1>2, <1>3, <1>4, <2>1, UpdatedPackage
<1> QED BY <1>4, <1>5, RecomputeWorker, OneWorker, SameOrder DEF DropPackage, Rest

LEMMA RestCancelOrder ==
    ASSUME Base, CancelOrder PROVE Rest'
<1>1. UNCHANGED <<pkgs, courier, req, override>>
    BY DEF CancelOrder
<1>2. Grows /\ Consecutive' /\ Packages'
    BY <1>1, SamePackages
<1>3. Money' /\ BlockedForGood'
    <2>1. /\ order'.status = "cancelled" /\ order'.effects /\ order'.pay = order.pay
          /\ order'.coll = order.coll /\ order'.remit = order.remit
        BY DEF CancelOrder, Base, Typed, TypeOK, OrderType
    <2> QED BY <2>1 DEF Base, Money, BlockedForGood
<1>4. Requests'
    BY <1>1, <1>2, StillTrue DEF Requests
<1> QED BY <1>2, <1>3, <1>4 DEF Rest

LEMMA RestCorrectOrder ==
    ASSUME Base, NEW w \in Workers, CorrectOrder(w) PROVE Rest'
<1>1. PICK to \in {"processing", "packed", "failed"} \cup Shipped :
         /\ order' = [order EXCEPT !.status = to]
         /\ Cascades(to) <=> ActiveIn(pkgs) # {}
         /\ IF ~Cascades(to) THEN UNCHANGED <<req, override>>
            ELSE /\ req' = [req EXCEPT ![w].op = "cascade", ![w].to = to, ![w].todo = ActiveIn(pkgs)]
                 /\ override' = TRUE
    BY DEF CorrectOrder
<1>2. UNCHANGED <<pkgs, courier>> /\ (override => override')
    BY <1>1 DEF CorrectOrder
<1>3. Grows /\ Consecutive' /\ Packages'
    BY <1>2, SamePackages
<1>4. Money' /\ BlockedForGood'
    <2>1. /\ order'.status = to /\ order'.effects = order.effects /\ order'.pay = order.pay
          /\ order'.coll = order.coll /\ order'.remit = order.remit
        BY <1>1 DEF Base, Typed, TypeOK, OrderType
    <2>2. to # "cancelled" /\ (to = "failed" => override')
        BY <1>1 DEF Cascades, Shipped
    <2> QED BY <2>1, <2>2 DEF Base, Money, BlockedForGood
<1>5. Requests'
    <2>1. CASE UNCHANGED req
        BY <1>3, <2>1, StillTrue DEF Requests
    <2>2. CASE /\ Cascades(to) /\ override'
               /\ req' = [req EXCEPT ![w].op = "cascade", ![w].to = to, ![w].todo = ActiveIn(pkgs)]
        <3>1. /\ req'[w].op = "cascade" /\ req'[w].to = to /\ req'[w].todo = ActiveIn(pkgs)
              /\ \A v \in Workers : v # w => req'[v] = req[v]
            BY <2>2 DEF Base, Typed, RequestType
        <3>2. ActiveIn(pkgs) \subseteq Existing' /\ to \in {"packed", "failed"} \cup Shipped
            BY <1>2, <2>2 DEF ActiveIn, Existing, Cascades
        <3>3. RequestTrue(w)'
            BY <2>2, <3>1, <3>2 DEF RequestTrue, ParcelOps, CourierOps
        <3> QED BY <1>3, <3>1, <3>3, OneWorker
    <2> QED BY <1>1, <2>1, <2>2
<1> QED BY <1>3, <1>4, <1>5 DEF Rest

LEMMA RestCascade ==
    ASSUME Base, NEW w \in Workers, CascadeStatus(w) PROVE Rest'
<1>1. PICK p \in req[w].todo :
         /\ pkgs' = [pkgs EXCEPT ![p].status = req[w].to, ![p].seen = @ \cup {req[w].to}]
         /\ IF req[w].todo = {p} THEN Finish(w) ELSE req' = [req EXCEPT ![w].todo = @ \ {p}]
    BY DEF CascadeStatus
<1> DEFINE to == req[w].to
           d == [pkgs[p] EXCEPT !.status = to, !.seen = @ \cup {to}]
<1>2. /\ p \in Numbers /\ pkgs[p].status # "none" /\ to \in {"packed", "failed"} \cup Shipped
      /\ req[w].todo \subseteq Existing /\ override
    BY <1>1 DEF CascadeStatus, Doing, Base, Requests, RequestTrue, Existing
<1>3. pkgs[p] \in PackageType /\ PackageTrue(p)
    BY <1>2 DEF Base, Typed, TypeOK, Packages
<1>4. pkgs' = [pkgs EXCEPT ![p] = d]
    BY <1>1, <1>2 DEF Base, Typed, TypeOK
<1>5. d.status = to /\ d.mode = pkgs[p].mode /\ d.qty = pkgs[p].qty /\ d.integ = pkgs[p].integ
    BY <1>3 DEF PackageType
<1>6. UNCHANGED <<order, courier, override>>
    BY DEF CascadeStatus
<1>7. Grows /\ Consecutive' /\ Packages'
    <2>1. pkgs[p].integ = "created" => courier[p] # "none"
        BY <1>3 DEF PackageTrue
    <2>2. to \notin {"none", "cancelled"}
        BY <1>2 DEF Shipped
    <2> HIDE DEF to, d
    <2> QED BY <1>2, <1>4, <1>5, <1>6, <2>1, <2>2, UpdatedPackage
<1>8. /\ \A v \in Workers : v # w => req'[v] = req[v]
      /\ RequestTrue(w)'
    <2>1. CASE Finish(w)
        BY <2>1, FinishWorker
    <2>2. CASE req' = [req EXCEPT ![w].todo = @ \ {p}]
        <3>1. /\ req'[w].op = "cascade" /\ req'[w].to = to /\ req'[w].todo = req[w].todo \ {p}
              /\ \A v \in Workers : v # w => req'[v] = req[v]
            BY <2>2 DEF CascadeStatus, Doing, Base, Typed, RequestType
        <3>2. Existing \subseteq Existing'
            BY <1>7 DEF Grows, Existing
        <3>3. RequestTrue(w)'
            BY <1>2, <1>6, <3>1, <3>2 DEF RequestTrue, ParcelOps, CourierOps
        <3> QED BY <3>1, <3>3
    <2> QED BY <1>1, <2>1, <2>2
<1> QED BY <1>6, <1>7, <1>8, OneWorker, SameOrder DEF Rest

LEMMA RestReadReport ==
    ASSUME Base, NEW w \in Workers, NEW p \in Numbers, ReadReport(w, p) PROVE Rest'
<1>1. PICK to \in Reported(p) :
         /\ IsForward(pkgs[p].status, to)
         /\ req' = [req EXCEPT ![w].op = "report", ![w].p = p, ![w].status = pkgs[p].status, ![w].to = to]
    BY DEF ReadReport
<1>2. to \in Events /\ pkgs[p].mode = "shiprocket" /\ p \in Existing
    BY <1>1, ReportedEvents, CouriersOwn
<1>3. UNCHANGED <<order, pkgs, courier, override>>
    BY DEF ReadReport
<1>4. /\ req'[w].op = "report" /\ req'[w].p = p /\ req'[w].to = to /\ req'[w].status = pkgs[p].status
      /\ \A v \in Workers : v # w => req'[v] = req[v]
    BY <1>1 DEF Base, Typed, RequestType
<1>5. pkgs[p].status \in PackageStatusSet
    BY DEF Base, Typed, TypeOK, PackageType
<1>6. RequestTrue(w)'
    BY <1>1, <1>2, <1>3, <1>4, <1>5 DEF RequestTrue, Existing, ParcelOps, CourierOps
<1> QED BY <1>3, <1>4, <1>6, LookingStep

LEMMA RestSaveReport ==
    ASSUME Base, NEW w \in Workers, SaveReport(w) PROVE Rest'
<1> DEFINE p == req[w].p
           to == req[w].to
           d == [pkgs[p] EXCEPT !.status = to, !.seen = @ \cup {to}, !.gone = @ \/ to = "cancelled"]
<1>1. p \in Numbers /\ pkgs[p].status # "none" /\ pkgs[p] \in PackageType /\ PackageTrue(p)
    BY PickNumber DEF SaveReport, Doing, ParcelOps, Base, Packages
<1>2. to \in Events
    BY DEF SaveReport, Doing, Base, Requests, RequestTrue
<1>3. pkgs' = [pkgs EXCEPT ![p] = d]
    BY <1>1 DEF SaveReport, Base, Typed, TypeOK
<1>4. /\ d.status = to /\ d.mode = pkgs[p].mode /\ d.qty = pkgs[p].qty /\ d.integ = pkgs[p].integ
      /\ to = "cancelled" => d.gone
    BY <1>1 DEF PackageType
<1>5. UNCHANGED <<order, courier>> /\ (override => override')
    BY DEF SaveReport, Overwrite
<1>6. Grows /\ Consecutive' /\ Packages'
    <2>1. (pkgs[p].integ = "created" => courier[p] # "none") /\ to # "none"
        BY <1>1, <1>2 DEF PackageTrue, Events, Shipped
    <2> HIDE DEF p, to, d
    <2> QED BY <1>1, <1>3, <1>4, <1>5, <2>1, UpdatedPackage
<1> QED BY <1>5, <1>6, RecomputeWorker, OneWorker, SameOrder DEF SaveReport, Rest

LEMMA RecomputedMoney ==
    ASSUME Base, NEW P
    PROVE  /\ Recomputed(P).pay = order.pay /\ Recomputed(P).coll = order.coll /\ Recomputed(P).remit = order.remit
           /\ Recomputed(P).effects = order.effects
           /\ Recomputed(P).status = IF DerivedStatus(P) = "none" THEN order.status ELSE DerivedStatus(P)
<1> DEFINE st == IF DerivedStatus(P) = "none" THEN order.status ELSE DerivedStatus(P)
<1>1. Recomputed(P) = [order EXCEPT !.status = st]
    BY DEF Recomputed
<1>2. order \in OrderType
    BY DEF Base, Typed, TypeOK
<1>3. Recomputed(P).status = st
    <2> HIDE DEF st
    <2> QED BY <1>1, <1>2 DEF OrderType
<1>4. /\ Recomputed(P).pay = order.pay /\ Recomputed(P).coll = order.coll /\ Recomputed(P).remit = order.remit
      /\ Recomputed(P).effects = order.effects
    <2> HIDE DEF st
    <2> QED BY <1>1, <1>2 DEF OrderType
<1> QED BY <1>3, <1>4

\* The document of a parcel handed to a rider or kept at the counter.
ManualPackage(status, mode) ==
    [NoPackage EXCEPT !.status = status, !.mode = mode, !.integ = "not_applicable", !.qty = Units, !.seen = {status}]

(* What dispatchManual makes.                                               *)
LEMMA DispatchMakes ==
    ASSUME Base, DispatchManual
    PROVE  \E n \in Numbers, mode \in Manual, status \in {"out_for_delivery", "packed"} :
              /\ n = NewNumber /\ pkgs[n].status = "none" /\ courier[n] = "none" /\ Existing = 1 .. n - 1
              /\ pkgs' = [pkgs EXCEPT ![n] = ManualPackage(status, mode)]
              /\ pkgs'[n].status = status /\ pkgs'[n].mode = mode /\ pkgs'[n].qty = Units
              /\ pkgs'[n].integ = "not_applicable"
              /\ \A q \in Numbers : q # n => pkgs'[q] = pkgs[q]
              /\ CanRecompute(pkgs') /\ order' = Recomputed(pkgs')
<1>1. PICK mode \in Manual, status \in {"out_for_delivery", "packed"} :
         LET P == [pkgs EXCEPT ![NewNumber] = ManualPackage(status, mode)]
         IN  CanRecompute(P) /\ pkgs' = P /\ order' = Recomputed(P)
    BY DEF DispatchManual, NewNumber, ManualPackage
<1>2. PICK n \in Numbers : n = NewNumber /\ pkgs[n].status = "none" /\ courier[n] = "none" /\ Existing = 1 .. n - 1
    BY NextNumber DEF DispatchManual
<1>3. pkgs' = [pkgs EXCEPT ![n] = ManualPackage(status, mode)]
    BY <1>1, <1>2
<1>4. pkgs'[n] = ManualPackage(status, mode) /\ \A q \in Numbers : q # n => pkgs'[q] = pkgs[q]
    BY <1>3 DEF Base, Typed, TypeOK
<1>5. pkgs'[n].status = status /\ pkgs'[n].mode = mode /\ pkgs'[n].qty = Units /\ pkgs'[n].integ = "not_applicable"
    BY <1>4 DEF ManualPackage, NoPackage
<1>6. CanRecompute(pkgs') /\ order' = Recomputed(pkgs')
    BY <1>1
<1> QED BY <1>2, <1>3, <1>4, <1>5, <1>6

LEMMA RestDispatch ==
    ASSUME Base, DispatchManual PROVE Rest'
<1>1. PICK n \in Numbers, mode \in Manual, status \in {"out_for_delivery", "packed"} :
              /\ n = NewNumber /\ pkgs[n].status = "none" /\ courier[n] = "none" /\ Existing = 1 .. n - 1
              /\ pkgs'[n].status = status /\ pkgs'[n].mode = mode /\ pkgs'[n].qty = Units
              /\ pkgs'[n].integ = "not_applicable"
              /\ \A q \in Numbers : q # n => pkgs'[q] = pkgs[q]
              /\ order' = Recomputed(pkgs')
    BY DispatchMakes
<1>2. UNCHANGED <<courier, req, override>> /\ ~FulfillmentBlocked
    BY DEF DispatchManual
<1>3. Grows
    BY <1>1, <1>2 DEF Grows
<1>4. Consecutive'
    <2>1. Existing' = Existing \cup {n}
        BY <1>1 DEF Existing
    <2>2. n \in 0 .. MaxPackages /\ Existing' = 1 .. n
        BY <1>1, <2>1 DEF Numbers
    <2> QED BY <2>2 DEF Consecutive
<1>5. Packages'
    <2> SUFFICES ASSUME NEW q \in Numbers PROVE PackageTrue(q)'
        BY DEF Packages
    <2>1. CASE q = n
        <3>1. Units \in 1 .. Units
            BY SizeAssumption
        <3> QED BY <1>1, <1>2, <2>1, <3>1 DEF PackageTrue
    <2>2. CASE q # n
        BY <1>1, <1>2, <2>2 DEF PackageTrue, Base, Packages
    <2> QED BY <2>1, <2>2
<1>6. Money' /\ BlockedForGood'
    <2>1. /\ order'.pay = order.pay /\ order'.coll = order.coll /\ order'.remit = order.remit
          /\ order'.status = order.status \/ order'.status \in Derivable
        BY <1>1, RecomputedMoney, DerivedIs
    <2>2. order'.status \notin {"cancelled", "failed"}
        BY <1>2, <2>1 DEF FulfillmentBlocked, Derivable
    <2> QED BY <2>1, <2>2 DEF Base, Money, BlockedForGood
<1>7. Requests'
    BY <1>2, <1>3, StillTrue DEF Requests
<1> QED BY <1>4, <1>5, <1>6, <1>7 DEF Rest

(* What markManualDelivered makes.                                          *)
LEMMA DeliveryMakes ==
    ASSUME Base, NEW p \in Numbers, MarkDelivered(p)
    PROVE  /\ pkgs[p].status \in {"packed", "out_for_delivery"} /\ pkgs[p].mode \in Manual /\ ~FulfillmentBlocked
           /\ pkgs'[p].status = "delivered" /\ pkgs'[p].mode = pkgs[p].mode /\ pkgs'[p].qty = pkgs[p].qty
           /\ pkgs'[p].integ = pkgs[p].integ
           /\ \A q \in Numbers : q # p => pkgs'[q] = pkgs[q]
           /\ CanRecompute(pkgs') /\ order'.status = Recomputed(pkgs').status
           /\ order'.effects = order.effects /\ order'.remit = order.remit
           /\ AwaitsCollection => order'.pay = "paid"
           /\ ~AwaitsCollection => order'.pay = order.pay /\ order'.coll = order.coll
<1> DEFINE d == [pkgs[p] EXCEPT !.status = "delivered", !.seen = @ \cup {"delivered"}]
<1>1. pkgs[p] \in PackageType
    BY DEF Base, Typed, TypeOK
<1>2. pkgs' = [pkgs EXCEPT ![p] = d]
    BY DEF MarkDelivered, Base, Typed, TypeOK
<1>3. pkgs'[p] = d /\ \A q \in Numbers : q # p => pkgs'[q] = pkgs[q]
    <2> HIDE DEF d
    <2> QED BY <1>2 DEF Base, Typed, TypeOK
<1>4. d.status = "delivered" /\ d.mode = pkgs[p].mode /\ d.qty = pkgs[p].qty /\ d.integ = pkgs[p].integ
    BY <1>1 DEF PackageType
<1>5. /\ CanRecompute(pkgs')
      /\ order' = IF AwaitsCollection THEN [Recomputed(pkgs') EXCEPT !.pay = "paid", !.coll = TRUE]
                  ELSE Recomputed(pkgs')
    BY DEF MarkDelivered
<1>6. PICK r \in OrderType : r = Recomputed(pkgs')
    BY RecomputedTyped
<1>7. /\ order'.status = r.status /\ order'.effects = r.effects /\ order'.remit = r.remit
      /\ AwaitsCollection => order'.pay = "paid"
      /\ ~AwaitsCollection => order'.pay = r.pay /\ order'.coll = r.coll
    BY <1>5, <1>6 DEF OrderType
<1>8. r.effects = order.effects /\ r.remit = order.remit /\ r.pay = order.pay /\ r.coll = order.coll
    BY <1>6, RecomputedMoney
<1>9. pkgs[p].status \in {"packed", "out_for_delivery"} /\ pkgs[p].mode \in Manual /\ ~FulfillmentBlocked
    BY DEF MarkDelivered, AwaitingHandover
<1> QED BY <1>3, <1>4, <1>5, <1>6, <1>7, <1>8, <1>9

LEMMA RestMarkDelivered ==
    ASSUME Base, NEW p \in Numbers, MarkDelivered(p) PROVE Rest'
<1>1. UNCHANGED <<courier, req, override>>
    BY DEF MarkDelivered
<1>2. Grows /\ Existing' = Existing
    BY <1>1, DeliveryMakes DEF Grows, Existing
<1>3. Consecutive'
    BY <1>2 DEF Base, Consecutive
<1>4. Packages'
    <2> SUFFICES ASSUME NEW q \in Numbers PROVE PackageTrue(q)'
        BY DEF Packages
    <2>1. PackageTrue(q)
        BY DEF Base, Packages
    <2>2. CASE q = p
        BY <1>1, <2>1, <2>2, DeliveryMakes DEF PackageTrue
    <2>3. CASE q # p
        BY <1>1, <2>1, <2>3, DeliveryMakes DEF PackageTrue
    <2> QED BY <2>2, <2>3
<1>5. Money'
    BY DeliveryMakes DEF Base, Money
<1>6. BlockedForGood'
    <2>1. order'.status = order.status \/ order'.status \in Derivable
        BY DeliveryMakes, RecomputedMoney, DerivedIs
    <2>2. order'.status \notin {"cancelled", "failed"}
        BY <2>1, DeliveryMakes DEF FulfillmentBlocked, Derivable
    <2> QED BY <2>2 DEF BlockedForGood
<1>7. Requests'
    BY <1>1, <1>2, StillTrue DEF Requests
<1> QED BY <1>3, <1>4, <1>5, <1>6, <1>7 DEF Rest

LEMMA RestReturnToStore ==
    ASSUME Base, NEW p \in Numbers, ReturnToStore(p) PROVE Rest'
<1> DEFINE d == [pkgs[p] EXCEPT !.status = "cancelled", !.gone = TRUE]
<1>1. pkgs[p] \in PackageType /\ pkgs[p].status # "none" /\ PackageTrue(p)
    BY DEF ReturnToStore, AwaitingHandover, Base, Typed, TypeOK, Packages
<1>2. pkgs' = [pkgs EXCEPT ![p] = d]
    BY DEF ReturnToStore, Base, Typed, TypeOK
<1>3. d.status = "cancelled" /\ d.gone /\ d.mode = pkgs[p].mode /\ d.qty = pkgs[p].qty /\ d.integ = pkgs[p].integ
    BY <1>1 DEF PackageType
<1>4. UNCHANGED <<courier, req, override>>
    BY DEF ReturnToStore
<1>5. Grows /\ Consecutive' /\ Packages'
    <2>1. pkgs[p].integ = "created" => courier[p] # "none"
        BY <1>1 DEF PackageTrue
    <2> HIDE DEF d
    <2> QED BY <1>1, <1>2, <1>3, <1>4, <2>1, UpdatedPackage
<1>6. Money' /\ BlockedForGood'
    <2>1. /\ order'.status = "processing" /\ order'.pay = order.pay
          /\ order'.coll = order.coll /\ order'.remit = order.remit
        BY DEF ReturnToStore, Base, Typed, TypeOK, OrderType
    <2> QED BY <2>1 DEF Base, Money, BlockedForGood
<1>7. Requests'
    BY <1>4, <1>5, StillTrue DEF Requests
<1> QED BY <1>5, <1>6, <1>7 DEF Rest

LEMMA RestCrash ==
    ASSUME Base, NEW w \in Workers, Crash(w) PROVE Rest'
    BY FinishWorker, LookingStep DEF Crash

LEMMA StepBase == ASSUME Base, Next PROVE Base'
<1>1. ASSUME NEW w \in Workers, WorkerStep(w) PROVE Rest'
    BY <1>1, RestAskPackage, RestAllocate, RestCall, RestSaveBooked, RestSaveUnbooked, RestDerive,
       RestRecheck, RestWriteOrder, RestSyncUnlinked, RestFetchStatus, RestApply, RestRecall, RestDrop,
       RestCorrectOrder, RestCascade, RestSaveReport, RestCrash, RestWebhook, RestSync, RestAskCancel,
       RestClaimRetry, RestReadReport DEF WorkerStep
<1>2. Rest'
    BY <1>1, RestCancelOrder, RestDispatch, RestCourierMoves, RestMarkDelivered, RestReturnToStore DEF Next
<1> QED BY <1>2, StepTyped DEF Base, Rest

-----------------------------------------------------------------------------
(* What a step does to the packages.                                        *)

\* One package gets a status, and keeps what it is.
Touches(p, status, at) ==
    /\ pkgs[p].status # "none"
    /\ pkgs'[p].status = status /\ pkgs'[p].at = at
    /\ pkgs'[p].mode = pkgs[p].mode /\ pkgs'[p].qty = pkgs[p].qty
    /\ pkgs[p].gone => pkgs'[p].gone
    /\ \A q \in Numbers : q # p => pkgs'[q] = pkgs[q]

\* A new package takes units that are free.
Packs(n) ==
    /\ pkgs[n].status = "none" /\ pkgs'[n].at = 0
    /\ pkgs'[n].qty \in 1 .. Units /\ Allocated + pkgs'[n].qty <= Units
    /\ \A q \in Numbers : q # n => pkgs'[q] = pkgs[q]

LEMMA UpdateTouches ==
    ASSUME Base, NEW p \in Numbers, pkgs[p].status # "none", NEW d,
           pkgs' = [pkgs EXCEPT ![p] = d], d.mode = pkgs[p].mode, d.qty = pkgs[p].qty, pkgs[p].gone => d.gone
    PROVE  Touches(p, d.status, d.at)
<1>1. pkgs'[p] = d /\ \A q \in Numbers : q # p => pkgs'[q] = pkgs[q]
    BY DEF Base, Typed, TypeOK
<1> QED BY <1>1 DEF Touches

LEMMA BookedTouches ==
    ASSUME Base, NEW w \in Workers, SaveBooked(w)
    PROVE  \E p \in Numbers : /\ p = req[w].p /\ pkgs[p].mode = "shiprocket"
                              /\ Touches(p, IF req[w].status = "retry" THEN "packed" ELSE pkgs[p].status, pkgs[p].at)
<1> DEFINE st == IF req[w].status = "retry" THEN "packed" ELSE pkgs[req[w].p].status
<1>1. PICK p \in Numbers : p = req[w].p /\ pkgs[p].status # "none" /\ pkgs[p] \in PackageType /\ pkgs[p].mode = "shiprocket"
    BY PickNumber DEF SaveBooked, Doing, ParcelOps, CourierOps, Base, Requests, RequestTrue
<1> DEFINE d == [pkgs[p] EXCEPT !.integ = "created", !.status = st]
<1>2. pkgs' = [pkgs EXCEPT ![p] = d]
    BY <1>1 DEF SaveBooked, Base, Typed, TypeOK
<1>3. d.mode = pkgs[p].mode /\ d.qty = pkgs[p].qty /\ d.gone = pkgs[p].gone /\ d.status = st /\ d.at = pkgs[p].at
    <2> HIDE DEF st
    <2> QED BY <1>1 DEF PackageType
<1>4. Touches(p, st, pkgs[p].at)
    <2> HIDE DEF d, st
    <2> QED BY <1>1, <1>2, <1>3, UpdateTouches
<1> QED BY <1>1, <1>4

LEMMA UnbookedTouches ==
    ASSUME Base, NEW w \in Workers, SaveUnbooked(w)
    PROVE  \E p \in Numbers : p = req[w].p /\ pkgs[p].mode = "shiprocket" /\ Touches(p, "failed", pkgs[p].at)
<1>1. PICK p \in Numbers : p = req[w].p /\ pkgs[p].status # "none" /\ pkgs[p] \in PackageType /\ pkgs[p].mode = "shiprocket"
    BY PickNumber DEF SaveUnbooked, Doing, ParcelOps, CourierOps, Base, Requests, RequestTrue
<1> DEFINE d == [pkgs[p] EXCEPT !.integ = "unknown", !.status = "failed"]
<1>2. pkgs' = [pkgs EXCEPT ![p] = d]
    BY <1>1 DEF SaveUnbooked, Base, Typed, TypeOK
<1>3. d.mode = pkgs[p].mode /\ d.qty = pkgs[p].qty /\ d.gone = pkgs[p].gone /\ d.status = "failed" /\ d.at = pkgs[p].at
    BY <1>1 DEF PackageType
<1>4. Touches(p, "failed", pkgs[p].at)
    <2> HIDE DEF d
    <2> QED BY <1>1, <1>2, <1>3, UpdateTouches
<1> QED BY <1>1, <1>4

LEMMA RetryTouches ==
    ASSUME Base, NEW w \in Workers, NEW p \in Numbers, ClaimRetry(w, p)
    PROVE  Touches(p, pkgs[p].status, pkgs[p].at)
<1>1. pkgs[p] \in PackageType /\ pkgs[p].status # "none"
    BY DEF ClaimRetry, Base, Typed, TypeOK, NoPackage
<1> DEFINE d == [pkgs[p] EXCEPT !.integ = "pending"]
<1>2. pkgs' = [pkgs EXCEPT ![p] = d]
    BY <1>1 DEF ClaimRetry, Base, Typed, TypeOK
<1>3. d.mode = pkgs[p].mode /\ d.qty = pkgs[p].qty /\ d.gone = pkgs[p].gone /\ d.status = pkgs[p].status /\ d.at = pkgs[p].at
    BY <1>1 DEF PackageType
<1> HIDE DEF d
<1> QED BY <1>1, <1>2, <1>3, UpdateTouches

LEMMA DropTouches ==
    ASSUME Base, NEW w \in Workers, DropPackage(w)
    PROVE  \E p \in Numbers : p = req[w].p /\ Touches(p, "cancelled", pkgs[p].at)
<1>1. PICK p \in Numbers : p = req[w].p /\ pkgs[p].status # "none" /\ pkgs[p] \in PackageType
    BY PickNumber DEF DropPackage, Doing, ParcelOps
<1> DEFINE d == [pkgs[p] EXCEPT !.status = "cancelled", !.gone = TRUE]
<1>2. pkgs' = [pkgs EXCEPT ![p] = d]
    BY <1>1 DEF DropPackage, Base, Typed, TypeOK
<1>3. d.mode = pkgs[p].mode /\ d.qty = pkgs[p].qty /\ d.gone /\ d.status = "cancelled" /\ d.at = pkgs[p].at
    BY <1>1 DEF PackageType
<1>4. Touches(p, "cancelled", pkgs[p].at)
    <2> HIDE DEF d
    <2> QED BY <1>1, <1>2, <1>3, UpdateTouches
<1> QED BY <1>1, <1>4

LEMMA CascadeTouches ==
    ASSUME Base, NEW w \in Workers, CascadeStatus(w)
    PROVE  \E p \in Numbers : Touches(p, req[w].to, pkgs[p].at)
<1>1. PICK p \in req[w].todo : pkgs' = [pkgs EXCEPT ![p].status = req[w].to, ![p].seen = @ \cup {req[w].to}]
    BY DEF CascadeStatus
<1>2. p \in Numbers /\ pkgs[p].status # "none" /\ pkgs[p] \in PackageType
    BY <1>1 DEF CascadeStatus, Doing, Base, Requests, RequestTrue, Existing, Typed, TypeOK
<1> DEFINE d == [pkgs[p] EXCEPT !.status = req[w].to, !.seen = @ \cup {req[w].to}]
<1>3. pkgs' = [pkgs EXCEPT ![p] = d]
    BY <1>1, <1>2 DEF Base, Typed, TypeOK
<1>4. d.mode = pkgs[p].mode /\ d.qty = pkgs[p].qty /\ d.gone = pkgs[p].gone /\ d.status = req[w].to /\ d.at = pkgs[p].at
    BY <1>2 DEF PackageType
<1>5. Touches(p, req[w].to, pkgs[p].at)
    <2> HIDE DEF d
    <2> QED BY <1>2, <1>3, <1>4, UpdateTouches
<1> QED BY <1>2, <1>5

LEMMA ReportTouches ==
    ASSUME Base, NEW w \in Workers, SaveReport(w)
    PROVE  \E p \in Numbers : /\ p = req[w].p /\ pkgs[p].mode = "shiprocket"
                              /\ Touches(p, req[w].to, pkgs[p].at)
<1>1. PICK p \in Numbers : p = req[w].p /\ pkgs[p].status # "none" /\ pkgs[p] \in PackageType /\ pkgs[p].mode = "shiprocket"
    BY PickNumber DEF SaveReport, Doing, ParcelOps, CourierOps, Base, Requests, RequestTrue
<1> DEFINE to == req[w].to
           d == [pkgs[p] EXCEPT !.status = to, !.seen = @ \cup {to}, !.gone = @ \/ to = "cancelled"]
<1>2. pkgs' = [pkgs EXCEPT ![p] = d]
    BY <1>1 DEF SaveReport, Base, Typed, TypeOK
<1>3. d.mode = pkgs[p].mode /\ d.qty = pkgs[p].qty /\ (pkgs[p].gone => d.gone) /\ d.status = to /\ d.at = pkgs[p].at
    <2> HIDE DEF to
    <2> QED BY <1>1 DEF PackageType
<1>4. Touches(p, to, pkgs[p].at)
    <2> HIDE DEF to, d
    <2> QED BY <1>1, <1>2, <1>3, UpdateTouches
<1> QED BY <1>1, <1>4

(* A tracking step: nothing but the time, or the status it looked at goes   *)
(* forward.                                                                 *)
LEMMA ApplyTouches ==
    ASSUME Base, NEW w \in Workers, ApplyStatus(w)
    PROVE  \/ UNCHANGED pkgs
           \/ \E p \in Numbers :
                 /\ p = req[w].p /\ pkgs[p].mode = "shiprocket" /\ EndTracking(w)
                 /\ req[w].now >= pkgs[p].at
                 /\ \/ Touches(p, pkgs[p].status, req[w].now)
                    \/ /\ Touches(p, req[w].to, req[w].now)
                       /\ pkgs[p].status # "cancelled" /\ IsForward(pkgs[p].status, req[w].to)
<1> SUFFICES ASSUME pkgs' # pkgs
             PROVE  \E p \in Numbers :
                 /\ p = req[w].p /\ pkgs[p].mode = "shiprocket" /\ EndTracking(w)
                 /\ req[w].now >= pkgs[p].at
                 /\ \/ Touches(p, pkgs[p].status, req[w].now)
                    \/ /\ Touches(p, req[w].to, req[w].now)
                       /\ pkgs[p].status # "cancelled" /\ IsForward(pkgs[p].status, req[w].to)
    OBVIOUS
<1>1. PICK p \in Numbers : p = req[w].p /\ pkgs[p].status # "none" /\ pkgs[p] \in PackageType /\ pkgs[p].mode = "shiprocket"
    BY PickNumber DEF ApplyStatus, Doing, ParcelOps, CourierOps, Base, Requests, RequestTrue
<1> DEFINE d == Tracked(pkgs[p], w)
<1>2. ~Stale(w) /\ AsLooked(w) /\ pkgs' = [pkgs EXCEPT ![p] = d] /\ EndTracking(w)
    BY <1>1 DEF ApplyStatus, Base, Typed, TypeOK
<1>3. pkgs[p].at = req[w].at /\ pkgs[p].status = req[w].status /\ req[w].at \in 0 .. 4 /\ req[w].now \in 0 .. 4
    BY <1>1, <1>2 DEF AsLooked, Base, Typed, RequestType
<1>4. req[w].now >= pkgs[p].at
    BY <1>2, <1>3 DEF Stale
<1>5. /\ d.mode = pkgs[p].mode /\ d.qty = pkgs[p].qty /\ d.at = req[w].now /\ (pkgs[p].gone => d.gone)
      /\ \/ d.status = pkgs[p].status
         \/ d.status = req[w].to /\ req[w].status # "cancelled" /\ IsForward(req[w].status, req[w].to)
    BY <1>1 DEF Tracked, PackageType
<1>6. Touches(p, d.status, d.at)
    <2> HIDE DEF d
    <2> QED BY <1>1, <1>2, <1>5, UpdateTouches
<1>7. \/ Touches(p, pkgs[p].status, req[w].now)
      \/ /\ Touches(p, req[w].to, req[w].now)
         /\ pkgs[p].status # "cancelled" /\ IsForward(pkgs[p].status, req[w].to)
    <2> HIDE DEF d
    <2> QED BY <1>3, <1>5, <1>6
<1> QED BY <1>1, <1>2, <1>4, <1>7

LEMMA DeliveryTouches ==
    ASSUME Base, NEW p \in Numbers, MarkDelivered(p)
    PROVE  Touches(p, "delivered", pkgs[p].at)
<1> DEFINE d == [pkgs[p] EXCEPT !.status = "delivered", !.seen = @ \cup {"delivered"}]
<1>1. pkgs[p] \in PackageType /\ pkgs[p].status # "none"
    BY DEF MarkDelivered, AwaitingHandover, Base, Typed, TypeOK
<1>2. pkgs' = [pkgs EXCEPT ![p] = d]
    BY DEF MarkDelivered, Base, Typed, TypeOK
<1>3. d.mode = pkgs[p].mode /\ d.qty = pkgs[p].qty /\ d.gone = pkgs[p].gone /\ d.status = "delivered" /\ d.at = pkgs[p].at
    BY <1>1 DEF PackageType
<1> HIDE DEF d
<1> QED BY <1>1, <1>2, <1>3, UpdateTouches

LEMMA ReturnTouches ==
    ASSUME Base, NEW p \in Numbers, ReturnToStore(p)
    PROVE  Touches(p, "cancelled", pkgs[p].at)
<1> DEFINE d == [pkgs[p] EXCEPT !.status = "cancelled", !.gone = TRUE]
<1>1. pkgs[p] \in PackageType /\ pkgs[p].status # "none"
    BY DEF ReturnToStore, AwaitingHandover, Base, Typed, TypeOK
<1>2. pkgs' = [pkgs EXCEPT ![p] = d]
    BY DEF ReturnToStore, Base, Typed, TypeOK
<1>3. d.mode = pkgs[p].mode /\ d.qty = pkgs[p].qty /\ d.gone /\ d.status = "cancelled" /\ d.at = pkgs[p].at
    BY <1>1 DEF PackageType
<1> HIDE DEF d
<1> QED BY <1>1, <1>2, <1>3, UpdateTouches

LEMMA AllocatePacks ==
    ASSUME Base, NEW w \in Workers, AllocatePackage(w)
    PROVE  \/ UNCHANGED pkgs /\ Finish(w)
           \/ \E n \in Numbers : /\ Packs(n) /\ pkgs'[n].status = "packed" /\ pkgs'[n].mode = "shiprocket"
                                 /\ req' = [req EXCEPT ![w].op = "call", ![w].p = n]
<1> SUFFICES ASSUME Cardinality(Existing) < MaxPackages,
                    NEW qty \in 1 .. Units - Allocated,
                    pkgs' = [pkgs EXCEPT ![NewNumber] = [NoPackage EXCEPT !.status = "packed", !.qty = qty]],
                    req' = [req EXCEPT ![w].op = "call", ![w].p = NewNumber]
             PROVE  \E n \in Numbers : /\ Packs(n) /\ pkgs'[n].status = "packed" /\ pkgs'[n].mode = "shiprocket"
                                       /\ req' = [req EXCEPT ![w].op = "call", ![w].p = n]
    BY DEF AllocatePackage, NewNumber
<1>1. PICK n \in Numbers : n = NewNumber /\ pkgs[n].status = "none"
    BY NextNumber
<1>2. pkgs'[n] = [NoPackage EXCEPT !.status = "packed", !.qty = qty] /\ \A q \in Numbers : q # n => pkgs'[q] = pkgs[q]
    BY <1>1 DEF Base, Typed, TypeOK
<1>3. pkgs'[n].status = "packed" /\ pkgs'[n].qty = qty /\ pkgs'[n].mode = "shiprocket" /\ pkgs'[n].at = 0
    <2> DEFINE d == [NoPackage EXCEPT !.status = "packed", !.qty = qty]
    <2>1. d.status = "packed" /\ d.qty = qty /\ d.mode = "shiprocket" /\ d.at = 0
        BY DEF NoPackage
    <2> HIDE DEF d
    <2> QED BY <1>2, <2>1 DEF d
<1>4. Allocated \in Nat
    BY UnitsTyped DEF Allocated, ActiveIn
<1>5. qty \in 1 .. Units /\ Allocated + qty <= Units
    <2> HIDE DEF Allocated
    <2> QED BY <1>4, SizeAssumption
<1>6. Packs(n)
    BY <1>1, <1>2, <1>3, <1>5 DEF Packs
<1> QED BY <1>1, <1>3, <1>6

LEMMA DispatchPacks ==
    ASSUME Base, DispatchManual PROVE \E n \in Numbers : Packs(n)
<1>1. PICK n \in Numbers, mode \in Manual, status \in {"out_for_delivery", "packed"} :
              /\ pkgs[n].status = "none"
              /\ pkgs' = [pkgs EXCEPT ![n] = ManualPackage(status, mode)]
              /\ pkgs'[n].qty = Units
              /\ \A q \in Numbers : q # n => pkgs'[q] = pkgs[q]
    BY DispatchMakes
<1>2. pkgs'[n].at = 0
    <2>1. pkgs'[n] = ManualPackage(status, mode)
        BY <1>1 DEF Base, Typed, TypeOK
    <2> QED BY <2>1 DEF ManualPackage, NoPackage
<1>3. Allocated = 0
    BY UnitsNone DEF DispatchManual, Allocated
<1>4. Units \in 1 .. Units /\ 0 + Units <= Units
    BY SizeAssumption
<1> QED BY <1>1, <1>2, <1>3, <1>4 DEF Packs

(* Every step leaves the packages alone, touches one or packs one.          *)
OnePackage ==
    \/ UNCHANGED pkgs
    \/ \E p \in Numbers : \E status, at :
          /\ Touches(p, status, at)
          /\ \/ at = pkgs[p].at
             \/ \E now \in 0 .. 4 : /\ at = now /\ now >= pkgs[p].at
                                    /\ status = pkgs[p].status \/ IsForward(pkgs[p].status, status)
    \/ \E n \in Numbers : Packs(n)

LEMMA StepPackages == ASSUME Base, Next PROVE OnePackage
<1>1. ASSUME NEW p \in Numbers, NEW status, Touches(p, status, pkgs[p].at) PROVE OnePackage
    BY <1>1 DEF OnePackage
<1>2. ASSUME NEW w \in Workers, ApplyStatus(w) PROVE OnePackage
    <2>1. req[w].now \in 0 .. 4
        BY DEF Base, Typed, RequestType
    <2> QED BY <1>2, <2>1, ApplyTouches DEF OnePackage
<1>3. UNCHANGED pkgs => OnePackage
    BY DEF OnePackage
<1>4. ASSUME NEW n \in Numbers, Packs(n) PROVE OnePackage
    BY <1>4 DEF OnePackage
<1>5. ASSUME NEW w \in Workers, WorkerStep(w) PROVE OnePackage
    <2>1. CASE \/ AskPackage(w) \/ CallShiprocket(w) \/ Derive(w) \/ Recheck(w) \/ WriteOrder(w) \/ SyncUnlinked(w)
               \/ FetchStatus(w) \/ RecallParcel(w) \/ CorrectOrder(w) \/ Crash(w)
        BY <1>3, <2>1 DEF AskPackage, CallShiprocket, Derive, Recheck, WriteOrder, SyncUnlinked, FetchStatus,
                          RecallParcel, CorrectOrder, Crash
    <2>2. CASE \E p \in Numbers : Webhook(w, p) \/ Sync(w, p) \/ AskCancelPackage(w, p) \/ ReadReport(w, p)
        BY <1>3, <2>2 DEF Webhook, Sync, AskCancelPackage, ReadReport
    <2>3. CASE AllocatePackage(w)
        BY <1>3, <1>4, <2>3, AllocatePacks
    <2>4. CASE SaveBooked(w)
        BY <1>1, <2>4, BookedTouches
    <2>5. CASE SaveUnbooked(w)
        BY <1>1, <2>5, UnbookedTouches
    <2>6. CASE \E p \in Numbers : ClaimRetry(w, p)
        BY <1>1, <2>6, RetryTouches
    <2>7. CASE ApplyStatus(w)
        BY <1>2, <2>7
    <2>8. CASE DropPackage(w)
        BY <1>1, <2>8, DropTouches
    <2>9. CASE CascadeStatus(w)
        BY <1>1, <2>9, CascadeTouches
    <2>10. CASE SaveReport(w)
        BY <1>1, <2>10, ReportTouches
    <2> QED BY <1>5, <2>1, <2>2, <2>3, <2>4, <2>5, <2>6, <2>7, <2>8, <2>9, <2>10 DEF WorkerStep
<1>6. ASSUME NEW p \in Numbers, MarkDelivered(p) \/ ReturnToStore(p) PROVE OnePackage
    BY <1>1, <1>6, DeliveryTouches, ReturnTouches
<1>7. CASE CancelOrder \/ \E p \in Numbers : CourierMoves(p)
    BY <1>3, <1>7 DEF CancelOrder, CourierMoves
<1>8. CASE DispatchManual
    BY <1>4, <1>8, DispatchPacks
<1>9. CASE \E p \in Numbers : MarkDelivered(p) \/ ReturnToStore(p)
    BY <1>6, <1>9
<1>10. CASE \E w \in Workers : WorkerStep(w)
    BY <1>5, <1>10
<1> QED BY <1>7, <1>8, <1>9, <1>10 DEF Next

-----------------------------------------------------------------------------
(* The units and the tracking.                                              *)

(* Units that no cancellation freed stay within what was ordered.           *)
LEMMA StepAllocated ==
    ASSUME Base, AllocatedOnce, OnePackage
    PROVE  AllocatedOnce'
<1> DEFINE H == {p \in Existing : ~pkgs[p].gone}
           G == {p \in Existing' : ~pkgs'[p].gone}
<1>1. H \in SUBSET Numbers /\ G \in SUBSET Numbers /\ ActiveIn(pkgs) \in SUBSET Numbers /\ H \subseteq ActiveIn(pkgs)
    BY DEF Existing, ActiveIn, Base, Packages, PackageTrue
<1>2. UnitsIn(pkgs, H) <= Units /\ UnitsIn(pkgs, H) \in Nat /\ UnitsIn(pkgs', G) \in Nat /\ Units \in Nat
    BY <1>1, UnitsTyped, SizeAssumption DEF AllocatedOnce
<1>3. UnitsIn(pkgs', G) <= Units
    <2>1. CASE UNCHANGED pkgs
        <3>1. G = H
            BY <2>1 DEF Existing
        <3> QED BY <1>2, <2>1, <3>1
    <2>2. CASE \E p \in Numbers : \E status, at : Touches(p, status, at)
        <3>1. PICK p \in Numbers : \E status, at : Touches(p, status, at)
            BY <2>2
        <3>2. G \subseteq H /\ \A q \in G : pkgs'[q].qty = pkgs[q].qty
            BY <3>1 DEF Touches, Existing
        <3>3. UnitsIn(pkgs', G) <= UnitsIn(pkgs, H)
            <4> HIDE DEF G, H
            <4> QED BY <1>1, <3>2, UnitsGrow
        <3> QED BY <1>2, <3>3
    <2>3. CASE \E n \in Numbers : Packs(n)
        <3> DEFINE A == ActiveIn(pkgs)
        <3>1. PICK n \in Numbers : Packs(n)
            BY <2>3
        <3>2. n \notin A /\ \A q \in A : pkgs'[q] = pkgs[q]
            BY <3>1 DEF Packs, ActiveIn
        <3>3. G \subseteq A \cup {n}
            <4> SUFFICES ASSUME NEW q \in G, q # n PROVE q \in A
                OBVIOUS
            <4>1. pkgs'[q] = pkgs[q]
                BY <1>1, <3>1 DEF Packs
            <4>2. q \in H
                BY <4>1 DEF Existing
            <4> QED BY <1>1, <4>2
        <3>4. UnitsIn(pkgs', G) <= UnitsIn(pkgs', A \cup {n})
            <4> HIDE DEF G, A
            <4> QED BY <1>1, <3>3, UnitsGrow DEF A
        <3>5. UnitsIn(pkgs', A \cup {n}) = UnitsIn(pkgs', A) + pkgs'[n].qty
            <4>1. pkgs'[n].qty \in 1 .. Units
                BY <3>1 DEF Packs
            <4> HIDE DEF A
            <4> QED BY <1>1, <3>2, <4>1, UnitsAdd DEF A
        <3>6. UnitsIn(pkgs', A) <= UnitsIn(pkgs, A)
            <4> HIDE DEF A
            <4> QED BY <1>1, <3>2, UnitsGrow DEF A
        <3>7. UnitsIn(pkgs, A) + pkgs'[n].qty <= Units /\ pkgs'[n].qty \in Nat
            BY <3>1, SizeAssumption DEF Packs, Allocated
        <3>8. /\ UnitsIn(pkgs', A) \in Nat /\ UnitsIn(pkgs, A) \in Nat
              /\ UnitsIn(pkgs', A \cup {n}) \in Nat
            BY <1>1, UnitsTyped
        <3> HIDE DEF A, G, H
        <3> QED BY <1>2, <3>4, <3>5, <3>6, <3>7, <3>8
    <2> QED BY <2>1, <2>2, <2>3 DEF OnePackage
<1> QED BY <1>3 DEF AllocatedOnce

LEMMA StepTracking ==
    ASSUME Base, OnePackage
    PROVE  \A p \in Numbers :
              /\ pkgs'[p].at >= pkgs[p].at
              /\ (pkgs'[p].at # pkgs[p].at /\ pkgs'[p].status # pkgs[p].status)
                     => IsForward(pkgs[p].status, pkgs'[p].status)
<1> SUFFICES ASSUME NEW p \in Numbers
             PROVE  /\ pkgs'[p].at >= pkgs[p].at
                    /\ (pkgs'[p].at # pkgs[p].at /\ pkgs'[p].status # pkgs[p].status)
                           => IsForward(pkgs[p].status, pkgs'[p].status)
    OBVIOUS
<1>1. pkgs[p].at \in 0 .. 4 /\ (pkgs[p].status = "none" => pkgs[p].at = 0)
    BY DEF Base, Typed, TypeOK, PackageType, NoPackage
<1>2. CASE pkgs'[p] = pkgs[p]
    BY <1>1, <1>2
<1>3. CASE Packs(p)
    BY <1>1, <1>3 DEF Packs
<1>4. ASSUME NEW status, NEW at, Touches(p, status, at),
             \/ at = pkgs[p].at
             \/ \E now \in 0 .. 4 : /\ at = now /\ now >= pkgs[p].at
                                    /\ status = pkgs[p].status \/ IsForward(pkgs[p].status, status)
      PROVE  /\ pkgs'[p].at >= pkgs[p].at
             /\ (pkgs'[p].at # pkgs[p].at /\ pkgs'[p].status # pkgs[p].status)
                    => IsForward(pkgs[p].status, pkgs'[p].status)
    <2>1. pkgs'[p].at = at /\ pkgs'[p].status = status
        BY <1>4 DEF Touches
    <2>2. at >= pkgs[p].at
        BY <1>1, <1>4
    <2> QED BY <1>4, <2>1, <2>2
<1>5. CASE UNCHANGED pkgs
    BY <1>2, <1>5
<1>6. CASE \E q \in Numbers : Packs(q)
    BY <1>2, <1>3, <1>6 DEF Packs
<1>7. CASE \E q \in Numbers : \E status, at :
          /\ Touches(q, status, at)
          /\ \/ at = pkgs[q].at
             \/ \E now \in 0 .. 4 : /\ at = now /\ now >= pkgs[q].at
                                    /\ status = pkgs[q].status \/ IsForward(pkgs[q].status, status)
    <2>1. PICK q \in Numbers : \E status, at :
          /\ Touches(q, status, at)
          /\ \/ at = pkgs[q].at
             \/ \E now \in 0 .. 4 : /\ at = now /\ now >= pkgs[q].at
                                    /\ status = pkgs[q].status \/ IsForward(pkgs[q].status, status)
        BY <1>7
    <2>2. CASE q = p
        BY <1>4, <2>1, <2>2
    <2>3. CASE q # p
        BY <1>2, <2>1, <2>3 DEF Touches
    <2> QED BY <2>2, <2>3
<1> QED BY <1>5, <1>6, <1>7 DEF OnePackage

-----------------------------------------------------------------------------
(* The first order is pending or paid, and has no packages.                 *)
LEMMA InitBase == Init => Base /\ AllocatedOnce /\ CollectedOnce
<1> SUFFICES ASSUME Init PROVE Base /\ AllocatedOnce /\ CollectedOnce
    OBVIOUS
<1>1. \A p \in Numbers : pkgs[p] = NoPackage
    BY DEF Init
<1>2. \A p \in Numbers : pkgs[p].status = "none" /\ pkgs[p].mode = "shiprocket" /\ pkgs[p].integ = "pending"
    BY <1>1 DEF NoPackage
<1>3. Existing = {}
    BY <1>2 DEF Existing
<1>4. Consecutive
    <2>1. Existing = 1 .. 0 /\ 0 \in 0 .. MaxPackages
        BY <1>3, SizeAssumption
    <2> QED BY <2>1 DEF Consecutive
<1>5. Requests
    <2>1. \A w \in Workers : req[w].op = "idle"
        BY DEF Init, Idle
    <2> QED BY <2>1 DEF Requests, RequestTrue, ParcelOps, CourierOps
<1>6. Packages
    BY <1>2 DEF Packages, PackageTrue, Manual
<1>7. ~order.coll /\ order.status \notin {"cancelled", "failed"} /\ order.remit = "none"
    BY DEF Init
<1>8. Money /\ BlockedForGood /\ CollectedOnce
    BY <1>7 DEF Money, BlockedForGood, CollectedOnce
<1>9. AllocatedOnce
    <2>1. {p \in Existing : ~pkgs[p].gone} = {}
        BY <1>3
    <2> QED BY <2>1, UnitsNone, SizeAssumption DEF AllocatedOnce
<1> QED BY <1>4, <1>5, <1>6, <1>8, <1>9, InitTyped DEF Base

LEMMA Unchanged ==
    ASSUME UNCHANGED vars
    PROVE  /\ Base => Base'
           /\ AllocatedOnce => AllocatedOnce'
           /\ CollectedOnce => CollectedOnce'
<1> USE DEF vars
<1>1. Typed => Typed'
    BY DEF Typed, TypeOK
<1>2. Consecutive /\ Requests /\ Packages => Consecutive' /\ Requests' /\ Packages'
    BY DEF Consecutive, Requests, RequestTrue, Packages, PackageTrue, Existing
<1>3. Money /\ BlockedForGood => Money' /\ BlockedForGood'
    BY DEF Money, BlockedForGood
<1>4. Base => Base'
    BY <1>1, <1>2, <1>3 DEF Base
<1>5. AllocatedOnce => AllocatedOnce'
    BY DEF AllocatedOnce, Existing
<1>6. CollectedOnce => CollectedOnce'
    BY DEF CollectedOnce
<1> QED BY <1>4, <1>5, <1>6

(* What is collected at the door is collected once: either writer finds the *)
(* payment pending, and whoever came first has left it paid.                *)
LEMMA StepCollected ==
    ASSUME Base, CollectedOnce, Next
    PROVE  CollectedOnce'
<1>1. order \in OrderType /\ Money
    BY DEF Base, Typed, TypeOK
<1>2. ASSUME order'.coll = order.coll, order'.remit = order.remit PROVE CollectedOnce'
    BY <1>2 DEF CollectedOnce
<1>3. UNCHANGED order => CollectedOnce'
    BY <1>2
<1>4. ASSUME NEW w \in Workers, WriteOrder(w) PROVE CollectedOnce'
    <2>1. CASE UNCHANGED order
        BY <1>3, <2>1
    <2>2. CASE AsRead(w) /\ order' = Moved(req[w].to, req[w].settle)
        <3>1. (req[w].settle => req[w].pay = "pending") /\ req[w].settle \in BOOLEAN
            BY <1>4 DEF WriteOrder, Doing, Base, Requests, RequestTrue, Typed, RequestType
        <3>2. /\ order'.coll = order.coll
              /\ order'.remit = IF req[w].settle THEN "awaiting" ELSE order.remit
            BY <1>1, <2>2 DEF Moved, OrderType
        <3>3. CASE req[w].settle
            <4>1. ~order.coll
                BY <1>1, <2>2, <3>1, <3>3 DEF AsRead, Money
            <4> QED BY <3>2, <4>1 DEF CollectedOnce
        <3>4. CASE ~req[w].settle
            BY <1>2, <3>2, <3>4
        <3> QED BY <3>3, <3>4
    <2> QED BY <1>4, <2>1, <2>2 DEF WriteOrder
<1>5. ASSUME NEW w \in Workers, CorrectOrder(w) PROVE CollectedOnce'
    <2>1. PICK to : order' = [order EXCEPT !.status = to]
        BY <1>5 DEF CorrectOrder
    <2> QED BY <1>1, <1>2, <2>1 DEF OrderType
<1>6. ASSUME NEW w \in Workers, WorkerStep(w) PROVE CollectedOnce'
    <2>1. WriteOrder(w) \/ CorrectOrder(w) \/ UNCHANGED order
        BY <1>6 DEF WorkerStep, AskPackage, AllocatePackage, CallShiprocket, SaveBooked, SaveUnbooked, ClaimRetry,
           Derive, Recheck, SyncUnlinked, FetchStatus, ApplyStatus, Webhook, Sync, AskCancelPackage, RecallParcel,
           DropPackage, CascadeStatus, ReadReport, SaveReport, Crash
    <2> QED BY <1>3, <1>4, <1>5, <1>6, <2>1
<1>7. CASE CancelOrder
    <2>1. order'.coll = order.coll /\ order'.remit = order.remit
        BY <1>1, <1>7 DEF CancelOrder, OrderType
    <2> QED BY <1>2, <2>1
<1>8. CASE DispatchManual
    <2>1. order' = Recomputed(pkgs')
        BY <1>8, DispatchMakes
    <2>2. order'.coll = order.coll /\ order'.remit = order.remit
        BY <2>1, RecomputedMoney
    <2> QED BY <1>2, <2>2
<1>9. ASSUME NEW p \in Numbers, MarkDelivered(p) PROVE CollectedOnce'
    <2>1. CASE AwaitsCollection
        <3>1. order'.remit = order.remit /\ order.remit # "awaiting"
            BY <1>1, <1>9, <2>1, DeliveryMakes DEF Money, AwaitsCollection
        <3> QED BY <3>1 DEF CollectedOnce
    <2>2. CASE ~AwaitsCollection
        BY <1>2, <1>9, <2>2, DeliveryMakes
    <2> QED BY <2>1, <2>2
<1>10. ASSUME NEW p \in Numbers, ReturnToStore(p) PROVE CollectedOnce'
    <2>1. order'.coll = order.coll /\ order'.remit = order.remit
        BY <1>1, <1>10 DEF ReturnToStore, OrderType
    <2> QED BY <1>2, <2>1
<1>11. ASSUME NEW p \in Numbers, CourierMoves(p) PROVE CollectedOnce'
    BY <1>3, <1>11 DEF CourierMoves
<1> QED BY <1>6, <1>7, <1>8, <1>9, <1>10, <1>11 DEF Next

-----------------------------------------------------------------------------
(* The order follows its packages.                                          *)

\* No writer that checks nothing has run, and the order is not blocked.
Clean == ~override /\ ~FulfillmentBlocked

ManualActive(P) == \E p \in ActiveIn(P) : P[p].mode \in Manual
CourierShipped(P) == \E p \in Numbers : P[p].mode = "shiprocket" /\ P[p].status \in Shipped
ManualDelivered(P) == \E p \in Numbers : P[p].mode \in Manual /\ P[p].status = "delivered"

\* An order status that is not ahead of the packages P: while the courier has
\* moved none of them, staff's own transactions keep the order in step.
Behind(P, status) ==
    IF CourierShipped(P) THEN Rank(status) <= Rank(DerivedStatus(P))
    ELSE IF ManualActive(P) THEN status = DerivedStatus(P) ELSE Rank(status) <= 1

\* A status a worker read off the packages a while ago and is about to write.
Within(P, status) ==
    IF CourierShipped(P) THEN Rank(status) <= Rank(DerivedStatus(P)) ELSE status = "packed"

Follows ==
    /\ Behind(pkgs, order.status)
    /\ \A w \in Workers : req[w].op = "write" => Within(pkgs, req[w].to)
    /\ \A w \in Workers : req[w].op \in {"apply", "fetch"} => req[w].carrier
    /\ ManualDelivered(pkgs) => ~AwaitsCollection

\* A worker that is going to tell the order what its packages say.
Pending(w) ==
    \/ req[w].op \in {"call", "booked", "unbooked", "derive"}
    \/ req[w].op = "write" /\ req[w].to = DerivedStatus(pkgs)
Told ==
    (\A p \in Numbers : pkgs[p].status # "failed") /\ DerivedStatus(pkgs) # "none" =>
        order.status = DerivedStatus(pkgs) \/ \E w \in Workers : Pending(w)

\* The step to show: from a clean state to a clean state.
Calm == Base /\ Base' /\ Clean /\ Clean' /\ Follows /\ Told

(* What is blocked or overridden stays so.                                  *)
LEMMA StayClean ==
    ASSUME Base, Next, Clean'
    PROVE  Clean
<1>1. order \in OrderType /\ override \in BOOLEAN /\ BlockedForGood
    BY DEF Base, Typed, TypeOK
<1>2. override => override'
    <2>1. ASSUME NEW w \in Workers, WorkerStep(w) PROVE override => override'
        BY <2>1 DEF WorkerStep, AskPackage, AllocatePackage, CallShiprocket, SaveBooked, SaveUnbooked, ClaimRetry,
           Derive, Recheck, SyncUnlinked, FetchStatus, ApplyStatus, Webhook, Sync, AskCancelPackage, RecallParcel,
           DropPackage, CascadeStatus, ReadReport, SaveReport, Crash, WriteOrder, CorrectOrder, AfterConflict, Overwrite
    <2> QED BY <2>1 DEF Next, CancelOrder, DispatchManual, CourierMoves, MarkDelivered, ReturnToStore
<1>3. order.effects => order'.effects
    <2>1. ASSUME NEW w \in Workers, WriteOrder(w) PROVE order'.effects = order.effects
        BY <1>1, <2>1 DEF WriteOrder, Moved, OrderType
    <2>2. ASSUME NEW w \in Workers, CorrectOrder(w) PROVE order'.effects = order.effects
        <3>1. PICK to : order' = [order EXCEPT !.status = to]
            BY <2>2 DEF CorrectOrder
        <3> QED BY <1>1, <3>1 DEF OrderType
    <2>3. ASSUME NEW w \in Workers, WorkerStep(w) PROVE order'.effects = order.effects
        <3>1. WriteOrder(w) \/ CorrectOrder(w) \/ UNCHANGED order
            BY <2>3 DEF WorkerStep, AskPackage, AllocatePackage, CallShiprocket, SaveBooked, SaveUnbooked, ClaimRetry,
               Derive, Recheck, SyncUnlinked, FetchStatus, ApplyStatus, Webhook, Sync, AskCancelPackage, RecallParcel,
               DropPackage, CascadeStatus, ReadReport, SaveReport, Crash
        <3> QED BY <2>1, <2>2, <2>3, <3>1
    <2>4. CASE CancelOrder
        BY <1>1, <2>4 DEF CancelOrder, OrderType
    <2>5. CASE DispatchManual
        <3>1. order' = Recomputed(pkgs')
            BY <2>5, DispatchMakes
        <3> QED BY <3>1, RecomputedMoney
    <2>6. ASSUME NEW p \in Numbers, MarkDelivered(p) PROVE order'.effects = order.effects
        BY <2>6, DeliveryMakes
    <2>7. ASSUME NEW p \in Numbers, ReturnToStore(p) PROVE order'.effects = order.effects
        BY <1>1, <2>7 DEF ReturnToStore, OrderType
    <2>8. ASSUME NEW p \in Numbers, CourierMoves(p) PROVE order'.effects = order.effects
        BY <2>8 DEF CourierMoves
    <2> QED BY <2>3, <2>4, <2>5, <2>6, <2>7, <2>8 DEF Next
<1> QED BY <1>1, <1>2, <1>3 DEF Clean, FulfillmentBlocked, BlockedForGood

LEMMA BothCounted ==
    ASSUME Base, Base'
    PROVE  Counted(pkgs) /\ Counted(pkgs')
<1>1. Counted(pkgs)
    BY DEF Base, Typed, TypeOK, PackageType, Packages, PackageTrue, Counted, ActiveIn
<1>2. Counted(pkgs')
    BY DEF Base, Typed, TypeOK, PackageType, Packages, PackageTrue, Counted, ActiveIn
<1> QED BY <1>1, <1>2

(* No status the order or a worker has is ahead of what the packages say.   *)
LEMMA Reachable ==
    ASSUME NEW P, Counted(P), DerivedStatus(P) # "none"
    PROVE  /\ DerivedStatus(P) \in Derivable
           /\ \A s : Behind(P, s) \/ Within(P, s) => Rank(s) <= Rank(DerivedStatus(P))
<1>1. DerivedStatus(P) \in Derivable
    BY DerivedIs
<1>2. Rank(DerivedStatus(P)) \in 1 .. 6
    BY <1>1, Ranked
<1> QED BY <1>1, <1>2, Ranked DEF Behind, Within

\* Packages change without the courier or a rider taking one along.
Quiet(P, Q) ==
    /\ SameSent(P, Q)
    /\ \A p \in Numbers : /\ Q[p].mode \in {"shiprocket"} \cup Manual
                          /\ P[p].status # "none" => Q[p].mode = P[p].mode
                          /\ Q[p].mode \in Manual /\ p \in ActiveIn(Q) => p \in ActiveIn(P)

LEMMA QuietBehind ==
    ASSUME NEW P, NEW Q, Counted(P), Counted(Q), Quiet(P, Q)
    PROVE  /\ \A s : Behind(P, s) => Behind(Q, s)
           /\ \A s : Within(P, s) => Within(Q, s)
           /\ ManualDelivered(Q) => ManualDelivered(P)
<1>1. \A p \in Numbers : P[p].status \in Shipped \/ Q[p].status \in Shipped =>
          P[p].status = Q[p].status /\ P[p].mode = Q[p].mode
    BY DEF Quiet, SameSent, Shipped
<1>2. CourierShipped(P) <=> CourierShipped(Q)
    BY <1>1 DEF CourierShipped
<1>3. ManualDelivered(Q) => ManualDelivered(P)
    BY <1>1 DEF ManualDelivered, Shipped
<1>4. ManualActive(Q) => ManualActive(P)
    BY DEF ManualActive, Quiet, ActiveIn
<1>5. CourierShipped(P) => ActiveIn(P) # {} /\ ActiveIn(Q) # {}
    BY <1>1 DEF CourierShipped, ActiveIn, Shipped
<1>6. ManualActive(Q) => ActiveIn(P) # {} /\ ActiveIn(Q) # {}
    BY <1>4 DEF ManualActive
<1>7. CourierShipped(P) \/ ManualActive(Q) => DerivedStatus(P) = DerivedStatus(Q)
    BY <1>5, <1>6, SameSentDerived DEF Quiet
<1>8. ASSUME ~CourierShipped(P), ~ManualActive(Q) PROVE DerivedStatus(P) \in {"none", "packed"}
    <2>1. \A p \in Numbers : Q[p].status \notin Shipped
        <3> SUFFICES ASSUME NEW p \in Numbers, Q[p].status \in Shipped PROVE FALSE
            OBVIOUS
        <3>1. p \in ActiveIn(P) /\ P[p].status \in Shipped /\ p \in ActiveIn(Q)
            BY <1>1 DEF ActiveIn, Shipped
        <3> QED BY <1>1, <1>8, <3>1 DEF CourierShipped, ManualActive, Quiet
    <2> QED BY <1>1, <2>1, NothingSent
<1> QED BY <1>2, <1>3, <1>4, <1>7, <1>8, Ranked DEF Behind, Within

(* The courier takes a package along, and with it the order.                *)
LEMMA AdvanceBehind ==
    ASSUME NEW P, NEW Q, Counted(P), Counted(Q), Advances(P, Q),
           NEW n \in Numbers, Q[n].mode = "shiprocket", Q[n].status \in Shipped
    PROVE  /\ \A s : Behind(P, s) => Behind(Q, s)
           /\ \A s : Within(P, s) => Within(Q, s)
<1>1. CourierShipped(Q)
    BY DEF CourierShipped
<1>2. Rank(DerivedStatus(P)) <= Rank(DerivedStatus(Q)) /\ Rank(DerivedStatus(Q)) >= 2
    BY AdvancesRank, SomethingSent
<1>3. /\ \A s : Rank(s) \in 0 .. 6
      /\ Rank("packed") = 1
    BY Ranked
<1> QED BY <1>1, <1>2, <1>3 DEF Behind, Within

-----------------------------------------------------------------------------
(* Steps that leave the order alone.                                        *)

LEMMA SamePackagesQuiet ==
    ASSUME Base, UNCHANGED pkgs
    PROVE  Quiet(pkgs, pkgs')
    BY DEF Quiet, SameSent, Base, Typed, TypeOK, PackageType

\* A worker that is not about to write, or to track.
Aside(w) ==
    /\ \A v \in Workers : v # w => req'[v] = req[v]
    /\ req'[w].op \notin {"write", "apply", "fetch"}

LEMMA OrderKept ==
    ASSUME Calm, UNCHANGED order, Quiet(pkgs, pkgs'),
           \A v \in Workers : /\ req'[v].op = "write" => req[v].op = "write" /\ req'[v].to = req[v].to
                              /\ req'[v].op \in {"apply", "fetch"} => req'[v].carrier
    PROVE  Follows'
<1>1. /\ \A s : Behind(pkgs, s) => Behind(pkgs', s)
      /\ \A s : Within(pkgs, s) => Within(pkgs', s)
      /\ ManualDelivered(pkgs') => ManualDelivered(pkgs)
    BY BothCounted, QuietBehind DEF Calm
<1>2. Behind(pkgs', order'.status)
    BY <1>1 DEF Calm, Follows
<1>3. ASSUME NEW v \in Workers, req'[v].op = "write" PROVE Within(pkgs', req'[v].to)
    BY <1>1, <1>3 DEF Calm, Follows
<1>4. ManualDelivered(pkgs') => ~AwaitsCollection'
    BY <1>1 DEF Calm, Follows, AwaitsCollection
<1> QED BY <1>2, <1>3, <1>4 DEF Follows

LEMMA AsideFollows ==
    ASSUME Calm, UNCHANGED order, Quiet(pkgs, pkgs'), NEW w \in Workers, Aside(w)
    PROVE  Follows'
<1>1. \A v \in Workers : req[v].op \in {"apply", "fetch"} => req[v].carrier
    BY DEF Calm, Follows
<1> QED BY <1>1, OrderKept DEF Aside

LEMMA PendingTold ==
    ASSUME NEW w \in Workers, req'[w].op \in {"call", "booked", "unbooked", "derive"}
    PROVE  Told'
    BY DEF Told, Pending

LEMMA SameTold ==
    ASSUME Calm, UNCHANGED <<order, pkgs>>, NEW w \in Workers, \A v \in Workers : v # w => req'[v] = req[v],
           Pending(w) => Pending(w)'
    PROVE  Told'
<1>1. ASSUME NEW v \in Workers, Pending(v) PROVE Pending(v)'
    BY <1>1 DEF Pending
<1> QED BY <1>1 DEF Calm, Told

\* What a step has to leave behind.
Kept == Follows' /\ Told'

LEMMA AsideKeeps ==
    ASSUME Calm, UNCHANGED <<order, pkgs>>, NEW w \in Workers, Aside(w), ~Pending(w)
    PROVE  Kept
    BY SamePackagesQuiet, AsideFollows, SameTold DEF Calm, Aside, Kept

LEMMA BusyKeeps ==
    ASSUME Calm, UNCHANGED order, Quiet(pkgs, pkgs'), NEW w \in Workers, \A v \in Workers : v # w => req'[v] = req[v],
           req'[w].op \in {"call", "booked", "unbooked", "derive"}
    PROVE  Kept
    BY AsideFollows, PendingTold DEF Aside, Kept

LEMMA TouchQuiet ==
    ASSUME Base, Base', NEW p \in Numbers, NEW status, NEW at, Touches(p, status, at),
           \/ status = pkgs[p].status
           \/ /\ pkgs[p].status \notin Shipped /\ status \notin Shipped
              /\ pkgs[p].mode = "shiprocket" \/ status = "cancelled"
    PROVE  Quiet(pkgs, pkgs')
<1>1. SameSent(pkgs, pkgs')
    BY DEF SameSent, Touches
<1>2. \A q \in Numbers : pkgs'[q].mode \in {"shiprocket"} \cup Manual /\ pkgs'[q].mode = pkgs[q].mode
    BY DEF Touches, Base, Typed, TypeOK, PackageType
<1>3. ASSUME NEW q \in Numbers, pkgs'[q].mode \in Manual, q \in ActiveIn(pkgs') PROVE q \in ActiveIn(pkgs)
    BY <1>2, <1>3 DEF Touches, ActiveIn, Manual
<1> QED BY <1>1, <1>2, <1>3 DEF Quiet

LEMMA KeptAskPackage ==
    ASSUME Calm, NEW w \in Workers, AskPackage(w) PROVE Kept
<1>1. req'[w].op = "allocate" /\ \A v \in Workers : v # w => req'[v] = req[v]
    BY DEF AskPackage, Calm, Base, Typed, RequestType
<1>2. ~Pending(w)
    BY DEF AskPackage, Begin, Doing, Pending
<1> QED BY <1>1, <1>2, AsideKeeps DEF Aside, AskPackage

LEMMA KeptAllocate ==
    ASSUME Calm, NEW w \in Workers, AllocatePackage(w) PROVE Kept
<1>1. CASE UNCHANGED pkgs /\ Finish(w)
    <2>1. ~Pending(w)
        BY DEF AllocatePackage, Doing, Pending
    <2> QED BY <1>1, <2>1, FinishWorker, AsideKeeps DEF Aside, AllocatePackage, Calm
<1>2. ASSUME NEW n \in Numbers, Packs(n), pkgs'[n].status = "packed", pkgs'[n].mode = "shiprocket",
             req' = [req EXCEPT ![w].op = "call", ![w].p = n]
      PROVE  Kept
    <2>1. req'[w].op = "call" /\ \A v \in Workers : v # w => req'[v] = req[v]
        BY <1>2 DEF Calm, Base, Typed, RequestType
    <2>2. SameSent(pkgs, pkgs')
        BY <1>2 DEF SameSent, Packs, Shipped
    <2>3. ASSUME NEW p \in Numbers
          PROVE  /\ pkgs'[p].mode \in {"shiprocket"} \cup Manual
                 /\ pkgs[p].status # "none" => pkgs'[p].mode = pkgs[p].mode
                 /\ pkgs'[p].mode \in Manual /\ p \in ActiveIn(pkgs') => p \in ActiveIn(pkgs)
        <3>1. CASE p = n
            BY <1>2, <3>1 DEF Packs, Manual
        <3>2. CASE p # n
            BY <1>2, <3>2 DEF Packs, ActiveIn, Calm, Base, Typed, TypeOK, PackageType
        <3> QED BY <3>1, <3>2
    <2>4. Quiet(pkgs, pkgs')
        BY <2>2, <2>3 DEF Quiet
    <2> QED BY <2>1, <2>4, BusyKeeps DEF AllocatePackage
<1> QED BY <1>1, <1>2, AllocatePacks DEF Calm

LEMMA KeptCall ==
    ASSUME Calm, NEW w \in Workers, CallShiprocket(w) PROVE Kept
<1>1. req'[w].op \in {"booked", "unbooked"} /\ \A v \in Workers : v # w => req'[v] = req[v]
    BY DEF CallShiprocket, Calm, Base, Typed, RequestType
<1> QED BY <1>1, BusyKeeps, SamePackagesQuiet DEF CallShiprocket, Calm

LEMMA KeptSaveBooked ==
    ASSUME Calm, NEW w \in Workers, SaveBooked(w) PROVE Kept
<1>1. PICK p \in Numbers : /\ p = req[w].p /\ pkgs[p].mode = "shiprocket"
                           /\ Touches(p, IF req[w].status = "retry" THEN "packed" ELSE pkgs[p].status, pkgs[p].at)
    BY BookedTouches DEF Calm
<1>2. req[w].status = "retry" => pkgs[p].status \in {"packed", "failed"}
    BY <1>1 DEF SaveBooked, Overwrite, Calm, Clean
<1>3. Quiet(pkgs, pkgs')
    <2>1. CASE req[w].status = "retry"
        <3>1. Touches(p, "packed", pkgs[p].at)
            BY <1>1, <2>1
        <3> QED BY <1>1, <1>2, <2>1, <3>1, TouchQuiet DEF Calm, Shipped
    <2>2. CASE req[w].status # "retry"
        <3>1. Touches(p, pkgs[p].status, pkgs[p].at)
            BY <1>1, <2>2
        <3> QED BY <3>1, TouchQuiet DEF Calm
    <2> QED BY <2>1, <2>2
<1> QED BY <1>3, RecomputeWorker, BusyKeeps DEF SaveBooked, Calm

LEMMA KeptSaveUnbooked ==
    ASSUME Calm, NEW w \in Workers, SaveUnbooked(w) PROVE Kept
<1>1. PICK p \in Numbers : p = req[w].p /\ pkgs[p].mode = "shiprocket" /\ Touches(p, "failed", pkgs[p].at)
    BY UnbookedTouches DEF Calm
<1>2. pkgs[p].status \in {"packed", "failed"}
    BY <1>1 DEF SaveUnbooked, Overwrite, Calm, Clean
<1>3. Quiet(pkgs, pkgs')
    BY <1>1, <1>2, TouchQuiet DEF Calm, Shipped
<1>4. Follows'
    BY <1>3, FinishWorker, AsideFollows DEF SaveUnbooked, Aside, Calm
<1>5. Told'
    BY <1>1 DEF Touches, Told
<1> QED BY <1>4, <1>5 DEF Kept

LEMMA KeptClaimRetry ==
    ASSUME Calm, NEW w \in Workers, NEW p \in Numbers, ClaimRetry(w, p) PROVE Kept
<1>1. Quiet(pkgs, pkgs')
    BY RetryTouches, TouchQuiet DEF Calm
<1>2. req'[w].op = "call" /\ \A v \in Workers : v # w => req'[v] = req[v]
    BY DEF ClaimRetry, Calm, Base, Typed, RequestType
<1> QED BY <1>1, <1>2, BusyKeeps DEF ClaimRetry

LEMMA KeptSyncUnlinked ==
    ASSUME Calm, NEW w \in Workers, SyncUnlinked(w) PROVE Kept
    BY RecomputeWorker, SamePackagesQuiet, BusyKeeps DEF SyncUnlinked, Calm

LEMMA KeptRecall ==
    ASSUME Calm, NEW w \in Workers, RecallParcel(w) PROVE Kept
<1>1. ~Pending(w)
    BY DEF RecallParcel, Doing, Pending
<1>2. Aside(w)
    <2>1. CASE Finish(w)
        BY <2>1, FinishWorker DEF Aside, Calm
    <2>2. CASE req' = [req EXCEPT ![w].op = "drop"]
        BY <2>2 DEF Aside, Calm, Base, Typed, RequestType
    <2> QED BY <2>1, <2>2 DEF RecallParcel
<1> QED BY <1>1, <1>2, AsideKeeps DEF RecallParcel

LEMMA KeptDrop ==
    ASSUME Calm, NEW w \in Workers, DropPackage(w) PROVE Kept
<1>1. PICK p \in Numbers : p = req[w].p /\ Touches(p, "cancelled", pkgs[p].at)
    BY DropTouches DEF Calm
<1>2. pkgs[p].status \in {"packed", "failed"}
    BY <1>1 DEF DropPackage, Overwrite, Calm, Clean
<1>3. Quiet(pkgs, pkgs')
    BY <1>1, <1>2, TouchQuiet DEF Calm, Shipped
<1> QED BY <1>3, RecomputeWorker, BusyKeeps DEF DropPackage, Calm

LEMMA KeptAskCancel ==
    ASSUME Calm, NEW w \in Workers, NEW p \in Numbers, AskCancelPackage(w, p) PROVE Kept
<1>1. req'[w].op \in {"recall", "drop"} /\ \A v \in Workers : v # w => req'[v] = req[v]
    BY DEF AskCancelPackage, Calm, Base, Typed, RequestType
<1>2. ~Pending(w)
    BY DEF AskCancelPackage, Begin, Doing, Pending
<1> QED BY <1>1, <1>2, AsideKeeps DEF Aside, AskCancelPackage

LEMMA KeptReadReport ==
    ASSUME Calm, NEW w \in Workers, NEW p \in Numbers, ReadReport(w, p) PROVE Kept
<1>1. req'[w].op = "report" /\ \A v \in Workers : v # w => req'[v] = req[v]
    BY DEF ReadReport, Calm, Base, Typed, RequestType
<1>2. ~Pending(w)
    BY DEF ReadReport, Begin, Doing, Pending
<1> QED BY <1>1, <1>2, AsideKeeps DEF Aside, ReadReport

LEMMA KeptCourierMoves ==
    ASSUME Calm, NEW p \in Numbers, CourierMoves(p) PROVE Kept
<1>1. UNCHANGED <<order, pkgs, req>>
    BY DEF CourierMoves
<1>2. Follows'
    <2>1. \A v \in Workers : req[v].op \in {"apply", "fetch"} => req[v].carrier
        BY DEF Calm, Follows
    <2> QED BY <1>1, <2>1, SamePackagesQuiet, OrderKept DEF Calm
<1>3. Told'
    BY <1>1 DEF Calm, Told, Pending
<1> QED BY <1>2, <1>3 DEF Kept

(* Tracking.                                                                *)
LEMMA LookKeeps ==
    ASSUME Calm, NEW w \in Workers, NEW op \in {"apply", "fetch"}, NEW p, NEW now, NEW to, Look(w, op, p, now, to),
           Doing(w, "idle"), UNCHANGED <<order, pkgs>>
    PROVE  Kept
<1>1. /\ req'[w].op = op /\ req'[w].carrier
      /\ \A v \in Workers : v # w => req'[v] = req[v]
    <2>1. op \in ParcelOps
        BY DEF ParcelOps
    <2>2. req'[w].op = op /\ req'[w].carrier = ~FulfillmentBlocked /\ \A v \in Workers : v # w => req'[v] = req[v]
        BY <2>1, LookWorker DEF Calm
    <2>3. (~FulfillmentBlocked) = TRUE
        BY DEF Calm, Clean
    <2>4. req'[w].carrier = TRUE
        BY <2>2, <2>3
    <2> QED BY <2>2, <2>4
<1>2. ~Pending(w)
    BY DEF Doing, Pending
<1>3. Told'
    BY <1>1, <1>2, SameTold
<1>4. \A v \in Workers : req[v].op \in {"apply", "fetch"} => req[v].carrier
    BY DEF Calm, Follows
<1>5. Follows'
    BY <1>1, <1>4, SamePackagesQuiet, OrderKept DEF Calm
<1> QED BY <1>3, <1>5 DEF Kept

LEMMA KeptWebhook ==
    ASSUME Calm, NEW w \in Workers, NEW p \in Numbers, Webhook(w, p) PROVE Kept
<1>1. PICK to \in Reported(p) : Look(w, "apply", p, TimeOf(to), to)
    BY DEF Webhook
<1> QED BY <1>1, LookKeeps DEF Webhook, Begin

LEMMA KeptSync ==
    ASSUME Calm, NEW w \in Workers, NEW p \in Numbers, Sync(w, p) PROVE Kept
    BY LookKeeps DEF Sync, Begin

LEMMA KeptFetchStatus ==
    ASSUME Calm, NEW w \in Workers, FetchStatus(w) PROVE Kept
<1>1. /\ req'[w].op = "apply" /\ req'[w].carrier = req[w].carrier
      /\ \A v \in Workers : v # w => req'[v] = req[v]
    BY DEF FetchStatus, Calm, Base, Typed, RequestType
<1>2. ~Pending(w)
    BY DEF FetchStatus, Doing, Pending
<1>3. Told'
    BY <1>1, <1>2, SameTold DEF FetchStatus
<1>4. \A v \in Workers : req[v].op \in {"apply", "fetch"} => req[v].carrier
    BY DEF Calm, Follows
<1>5. req'[w].carrier
    BY <1>1, <1>4 DEF FetchStatus, Doing
<1>6. Follows'
    BY <1>1, <1>4, <1>5, SamePackagesQuiet, OrderKept DEF Calm, FetchStatus
<1> QED BY <1>3, <1>6 DEF Kept

(* A package goes forward, and a worker is about to tell the order.         *)
LEMMA ForwardKeeps ==
    ASSUME Calm, UNCHANGED order, NEW w \in Workers, \A v \in Workers : v # w => req'[v] = req[v],
           req'[w].op = "derive",
           NEW p \in Numbers, pkgs[p].mode = "shiprocket", NEW status \in Events, NEW at, Touches(p, status, at),
           IsForward(pkgs[p].status, status)
    PROVE  Kept
<1>1. pkgs[p].status \in PackageStatusSet /\ pkgs'[p].status = status /\ pkgs'[p].mode = "shiprocket"
    BY DEF Calm, Base, Typed, TypeOK, PackageType, Touches
<1>2. CASE status \in {"cancelled", "packed"}
    <2>1. pkgs[p].status \notin Shipped
        BY <1>1, <1>2, ForwardLevel DEF Events, Shipped
    <2>2. Quiet(pkgs, pkgs')
        BY <1>2, <2>1, TouchQuiet DEF Calm, Shipped
    <2> QED BY <2>2, BusyKeeps
<1>3. CASE status \in Shipped
    <2>1. Level(pkgs[p].status) < Level(status)
        BY <1>1, <1>3, ForwardLevel DEF Events, Shipped
    <2>2. Level(pkgs[p].status) \in Nat /\ Level(status) \in Nat /\ \A s : Level(s) \in Nat
        BY DEF Level
    <2>3. Advances(pkgs, pkgs')
        BY <1>1, <2>1, <2>2 DEF Advances, Touches
    <2>4. /\ \A s : Behind(pkgs, s) => Behind(pkgs', s)
          /\ \A s : Within(pkgs, s) => Within(pkgs', s)
        BY <1>1, <1>3, <2>3, BothCounted, AdvanceBehind DEF Calm
    <2>5. ManualDelivered(pkgs') => ~AwaitsCollection'
        <3>1. ManualDelivered(pkgs') => ManualDelivered(pkgs)
            BY <1>1 DEF ManualDelivered, Touches, Manual
        <3> QED BY <3>1 DEF Calm, Follows, AwaitsCollection
    <2>6. Behind(pkgs', order'.status)
        BY <2>4 DEF Calm, Follows
    <2>7. ASSUME NEW v \in Workers, req'[v].op = "write" PROVE Within(pkgs', req'[v].to)
        BY <2>4, <2>7 DEF Calm, Follows
    <2>8. \A v \in Workers : req'[v].op \in {"apply", "fetch"} => req'[v].carrier
        BY DEF Calm, Follows
    <2> QED BY <2>5, <2>6, <2>7, <2>8, PendingTold DEF Follows, Kept
<1> QED BY <1>2, <1>3 DEF Events

LEMMA KeptSaveReport ==
    ASSUME Calm, NEW w \in Workers, SaveReport(w) PROVE Kept
<1>1. PICK p \in Numbers : p = req[w].p /\ pkgs[p].mode = "shiprocket" /\ Touches(p, req[w].to, pkgs[p].at)
    BY ReportTouches DEF Calm
<1>2. pkgs[p].status = req[w].status
    BY <1>1 DEF SaveReport, Overwrite, Calm, Clean
<1>3. req[w].to \in Events /\ IsForward(req[w].status, req[w].to)
    BY DEF SaveReport, Doing, Calm, Base, Requests, RequestTrue
<1> QED BY <1>1, <1>2, <1>3, RecomputeWorker, ForwardKeeps DEF SaveReport, Calm

LEMMA EndingWorker ==
    ASSUME Calm, NEW w \in Workers, Doing(w, "apply"), EndTracking(w)
    PROVE  req'[w].op = "derive" /\ \A v \in Workers : v # w => req'[v] = req[v]
<1>1. req[w].carrier
    BY DEF Calm, Follows, Doing
<1> QED BY <1>1, RecomputeWorker DEF EndTracking, Calm

LEMMA KeptApply ==
    ASSUME Calm, NEW w \in Workers, ApplyStatus(w) PROVE Kept
<1> USE DEF Doing
<1>1. req[w].op = "apply" /\ req[w].to \in Events
    BY DEF ApplyStatus, Calm, Base, Requests, RequestTrue
<1>2. CASE UNCHANGED pkgs
    <2>1. CASE EndTracking(w)
        BY <1>1, <1>2, <2>1, EndingWorker, SamePackagesQuiet, BusyKeeps DEF Calm, ApplyStatus
    <2>2. CASE Finish(w)
        <3>1. ~Pending(w)
            BY <1>1 DEF Pending
        <3> QED BY <1>2, <2>2, <3>1, FinishWorker, AsideKeeps DEF Aside, Calm, ApplyStatus
    <2>3. CASE req' = [req EXCEPT ![w].tries = @ + 1, ![w].status = pkgs[req[w].p].status, ![w].at = pkgs[req[w].p].at]
        <3>1. /\ req'[w].op = "apply" /\ req'[w].carrier = req[w].carrier
              /\ \A v \in Workers : v # w => req'[v] = req[v]
            BY <1>1, <2>3 DEF Calm, Base, Typed, RequestType
        <3>2. ~Pending(w)
            BY <1>1 DEF Pending
        <3>3. Told'
            BY <1>2, <3>1, <3>2, SameTold DEF ApplyStatus
        <3>4. \A v \in Workers : req[v].op \in {"apply", "fetch"} => req[v].carrier
            BY DEF Calm, Follows
        <3>5. req'[w].carrier
            BY <1>1, <3>1, <3>4
        <3>6. Follows'
            BY <1>2, <3>1, <3>4, <3>5, SamePackagesQuiet, OrderKept DEF Calm, ApplyStatus
        <3> QED BY <3>3, <3>6 DEF Kept
    <2> QED BY <2>1, <2>2, <2>3 DEF ApplyStatus
<1>3. ASSUME NEW p \in Numbers, pkgs[p].mode = "shiprocket", EndTracking(w), Touches(p, pkgs[p].status, req[w].now)
      PROVE  Kept
    BY <1>1, <1>3, EndingWorker, TouchQuiet, BusyKeeps DEF Calm, ApplyStatus
<1>4. ASSUME NEW p \in Numbers, pkgs[p].mode = "shiprocket", EndTracking(w), Touches(p, req[w].to, req[w].now),
             IsForward(pkgs[p].status, req[w].to)
      PROVE  Kept
    BY <1>1, <1>4, EndingWorker, ForwardKeeps DEF ApplyStatus
<1> QED BY <1>2, <1>3, <1>4, ApplyTouches DEF Calm

-----------------------------------------------------------------------------
(* Recomputations.                                                          *)

(* What the packages say can be written.                                    *)
LEMMA MayTell ==
    ASSUME Calm, DerivedStatus(pkgs) # "none"
    PROVE  CanTransition(order.status, DerivedStatus(pkgs))
<1>1. DerivedStatus(pkgs) \in Derivable /\ Rank(order.status) <= Rank(DerivedStatus(pkgs))
    BY BothCounted, Reachable DEF Calm, Follows
<1>2. order.status \in OrderStatusSet /\ order.status \notin {"none", "cancelled", "failed"}
    BY DEF Calm, Clean, FulfillmentBlocked, Base, Typed, TypeOK, OrderType, OrderStatusSet
<1> QED BY <1>1, <1>2, CanTransitionRank

(* Cash still to be collected is not in a rider's hands.                    *)
LEMMA SettledByCourier ==
    ASSUME Calm, AllDelivered, AwaitsCollection
    PROVE  CourierShipped(pkgs)
<1>1. PICK p \in ActiveIn(pkgs) : pkgs[p].status = "delivered"
    BY DEF AllDelivered
<1>2. p \in Numbers /\ pkgs[p].mode \notin Manual /\ pkgs[p] \in PackageType
    BY <1>1 DEF ActiveIn, Calm, Follows, ManualDelivered, Base, Typed, TypeOK
<1>3. pkgs[p].mode = "shiprocket"
    BY <1>2 DEF PackageType
<1> QED BY <1>1, <1>2, <1>3 DEF CourierShipped, Shipped

(* What a recomputation reads off is not ahead of the packages, and needs   *)
(* no writing if staff's transactions keep the order in step.               *)
LEMMA DerivedWithin ==
    ASSUME Calm, DerivedStatus(pkgs) # "none",
           \/ DerivedStatus(pkgs) # order.status
           \/ AllDelivered /\ AwaitsCollection
    PROVE  Within(pkgs, DerivedStatus(pkgs))
<1>1. CASE CourierShipped(pkgs)
    <2>1. Rank(DerivedStatus(pkgs)) \in 0 .. 6
        BY Ranked
    <2> QED BY <1>1, <2>1 DEF Within
<1>2. CASE ~CourierShipped(pkgs)
    <2>1. DerivedStatus(pkgs) # order.status /\ ~ManualActive(pkgs)
        BY <1>2, SettledByCourier DEF Calm, Follows, Behind
    <2>2. ASSUME NEW p \in Numbers, pkgs[p].status \in Shipped PROVE FALSE
        <3>1. pkgs[p].mode \in {"shiprocket"} \cup Manual /\ p \in ActiveIn(pkgs)
            BY <2>2 DEF Calm, Base, Typed, TypeOK, PackageType, ActiveIn, Shipped
        <3> QED BY <1>2, <2>1, <2>2, <3>1 DEF CourierShipped, ManualActive
    <2>3. DerivedStatus(pkgs) \in {"none", "packed"}
        BY <2>2, NothingSent
    <2> QED BY <1>2, <2>3 DEF Within
<1> QED BY <1>1, <1>2

LEMMA KeptDerive ==
    ASSUME Calm, NEW w \in Workers, Derive(w) PROVE Kept
<1> DEFINE derived == DerivedStatus(pkgs)
           to == IF req[w].carrier /\ (FulfillmentBlocked \/ ~CanTransition(order.status, derived))
                 THEN "none" ELSE derived
           settle == req[w].carrier /\ ~FulfillmentBlocked /\ to = "delivered" /\ AllDelivered /\ AwaitsCollection
<1>1. UNCHANGED <<order, pkgs>> /\ IF to \in {"none", order.status} /\ ~settle
           THEN Finish(w)
           ELSE req' = [req EXCEPT ![w].op = "write", ![w].to = to, ![w].settle = settle,
                                   ![w].seen = order.status, ![w].pay = order.pay]
    BY DEF Derive
<1>2. to = derived
    <2>1. CASE derived = "none"
        BY <2>1
    <2>2. CASE derived # "none"
        <3>1. CanTransition(order.status, derived)
            BY <2>2, MayTell
        <3> QED BY <3>1 DEF Calm, Clean
    <2> QED BY <2>1, <2>2
<1>3. settle => AllDelivered /\ AwaitsCollection /\ to = "delivered"
    OBVIOUS
<1>4. CASE to \in {"none", order.status} /\ ~settle
    <2>1. Finish(w)
        BY <1>1, <1>4
    <2>2. Follows'
        BY <1>1, <2>1, FinishWorker, SamePackagesQuiet, AsideFollows DEF Aside, Calm
    <2>3. Told'
        BY <1>1, <1>2, <1>4 DEF Told
    <2> QED BY <2>2, <2>3 DEF Kept
<1>5. CASE ~(to \in {"none", order.status} /\ ~settle)
    <2>1. req' = [req EXCEPT ![w].op = "write", ![w].to = to, ![w].settle = settle,
                             ![w].seen = order.status, ![w].pay = order.pay]
        BY <1>1, <1>5
    <2>2. derived # "none" /\ (derived # order.status \/ (AllDelivered /\ AwaitsCollection))
        <3>1. CASE settle
            <4>1. AllDelivered /\ AwaitsCollection /\ to = "delivered"
                BY <1>3, <3>1
            <4> HIDE DEF to, settle, derived
            <4> QED BY <1>2, <4>1
        <3>2. CASE ~settle
            <4>1. to \notin {"none", order.status}
                BY <1>5, <3>2
            <4> HIDE DEF to, settle, derived
            <4> QED BY <1>2, <4>1
        <3> QED BY <3>1, <3>2
    <2>3. Within(pkgs, derived)
        BY <2>2, DerivedWithin
    <2>4. req'[w].op = "write" /\ req'[w].to = derived /\ \A v \in Workers : v # w => req'[v] = req[v]
        <3> HIDE DEF to, settle, derived
        <3> QED BY <1>2, <2>1 DEF Calm, Base, Typed, RequestType
    <2>5. Told'
        <3>1. Pending(w)'
            BY <1>1, <2>4 DEF Pending
        <3> QED BY <3>1 DEF Told
    <2>6. Behind(pkgs', order'.status) /\ (ManualDelivered(pkgs') => ~AwaitsCollection')
        BY <1>1 DEF Calm, Follows, AwaitsCollection
    <2>7. ASSUME NEW v \in Workers, req'[v].op = "write" PROVE Within(pkgs', req'[v].to)
        BY <1>1, <2>3, <2>4, <2>7 DEF Calm, Follows
    <2>8. ASSUME NEW v \in Workers, req'[v].op \in {"apply", "fetch"} PROVE req'[v].carrier
        BY <2>4, <2>8 DEF Calm, Follows
    <2> QED BY <2>5, <2>6, <2>7, <2>8 DEF Follows, Kept
<1> QED BY <1>4, <1>5

LEMMA KeptRecheck ==
    ASSUME Calm, NEW w \in Workers, Recheck(w) PROVE Kept
<1>1. UNCHANGED <<order, pkgs>>
    BY DEF Recheck
<1>2. CASE CanTransition(order.status, req[w].to)
    <2>1. /\ req'[w].op = "write" /\ req[w].op = "write" /\ req'[w].to = req[w].to
          /\ \A v \in Workers : v # w => req'[v] = req[v]
        BY <1>2 DEF Recheck, Doing, Calm, Base, Typed, RequestType
    <2>2. Told'
        <3>1. Pending(w) => Pending(w)'
            BY <1>1, <2>1 DEF Pending
        <3> QED BY <1>1, <2>1, <3>1, SameTold
    <2>3. \A v \in Workers : req[v].op \in {"apply", "fetch"} => req[v].carrier
        BY DEF Calm, Follows
    <2>4. Follows'
        BY <1>1, <2>1, <2>3, SamePackagesQuiet, OrderKept DEF Calm
    <2> QED BY <2>2, <2>4 DEF Kept
<1>3. CASE ~CanTransition(order.status, req[w].to)
    <2>1. Finish(w) /\ req[w].op = "write"
        BY <1>3 DEF Recheck, Doing
    <2>2. Follows'
        BY <1>1, <2>1, FinishWorker, SamePackagesQuiet, AsideFollows DEF Aside, Calm
    <2>3. Told'
        <3>1. CASE DerivedStatus(pkgs) = "none"
            BY <1>1, <3>1 DEF Told
        <3>2. CASE DerivedStatus(pkgs) # "none"
            <4>1. ~Pending(w)
                BY <1>3, <2>1, <3>2, MayTell DEF Pending
            <4> QED BY <1>1, <2>1, <4>1, FinishWorker, SameTold DEF Calm
        <3> QED BY <3>1, <3>2
    <2> QED BY <2>2, <2>3 DEF Kept
<1> QED BY <1>2, <1>3

(* A write takes the order no further than its packages, and past nothing.  *)
LEMMA WriteKeeps ==
    ASSUME Calm, NEW w \in Workers, req[w].op = "write", CanTransition(order.status, req[w].to), Finish(w),
           UNCHANGED pkgs, order' = Moved(req[w].to, req[w].settle)
    PROVE  Kept
<1> DEFINE derived == DerivedStatus(pkgs)
<1>1. /\ req'[w].op = "idle"
      /\ \A v \in Workers : v # w => req'[v] = req[v]
    BY FinishWorker DEF Calm
<1>2. req[w].to \in Derivable /\ Within(pkgs, req[w].to)
    BY DEF Calm, Follows, Base, Requests, RequestTrue
<1>3. order'.status = req[w].to /\ (order'.pay = order.pay \/ order'.pay = "paid")
    BY DEF Moved, Calm, Base, Typed, TypeOK, OrderType
<1>4. order.status \in OrderStatusSet /\ Behind(pkgs, order.status)
    BY DEF Calm, Follows, Base, Typed, TypeOK, OrderType
<1>5. Rank(order.status) <= Rank(req[w].to)
    BY <1>2, <1>4, CanTransitionRank
<1>6. derived # "none" => derived \in Derivable /\ Rank(req[w].to) <= Rank(derived)
    BY <1>2, BothCounted, Reachable DEF Calm
<1>7. \A s : Rank(s) \in 0 .. 6
    BY Ranked
<1>8. order.status = derived /\ derived # "none" => req[w].to = derived
    <2> HIDE DEF derived
    <2> QED BY <1>2, <1>5, <1>6, <1>7, Ranked
<1>9. Behind(pkgs, req[w].to)
    <2>1. CASE CourierShipped(pkgs)
        BY <1>2, <2>1 DEF Within, Behind
    <2>2. CASE ~CourierShipped(pkgs) /\ ManualActive(pkgs)
        <3>1. derived # "none"
            BY <2>2, BothCounted, DerivedSome DEF Calm, ManualActive
        <3>2. order.status = derived
            BY <1>4, <2>2 DEF Behind
        <3> QED BY <1>8, <2>2, <3>1, <3>2 DEF Behind
    <2>3. CASE ~CourierShipped(pkgs) /\ ~ManualActive(pkgs)
        <3>1. req[w].to = "packed"
            BY <1>2, <2>3 DEF Within
        <3> QED BY <2>3, <3>1, Ranked DEF Behind
    <2> QED BY <2>1, <2>2, <2>3
<1>10. ManualDelivered(pkgs') => ~AwaitsCollection'
    BY <1>3 DEF Calm, Follows, AwaitsCollection
<1>11. \A v \in Workers : req'[v].op = "write" => Within(pkgs', req'[v].to)
    BY <1>1 DEF Calm, Follows
<1>12. \A v \in Workers : req'[v].op \in {"apply", "fetch"} => req'[v].carrier
    BY <1>1 DEF Calm, Follows
<1>13. Follows'
    BY <1>3, <1>9, <1>10, <1>11, <1>12 DEF Follows
<1>14. Told'
    <2>1. SUFFICES ASSUME \A p \in Numbers : pkgs[p].status # "failed", derived # "none", req[w].to # derived
                   PROVE  \E v \in Workers : Pending(v)'
        BY <1>3 DEF Told
    <2>2. PICK v \in Workers : Pending(v)
        BY <1>8, <2>1 DEF Calm, Told
    <2>3. v # w
        BY <2>1, <2>2 DEF Pending
    <2>4. Pending(v)'
        BY <1>1, <2>2, <2>3 DEF Pending
    <2> QED BY <2>4
<1> QED BY <1>13, <1>14 DEF Kept

LEMMA KeptWriteOrder ==
    ASSUME Calm, NEW w \in Workers, WriteOrder(w) PROVE Kept
<1>1. CASE AsRead(w)
    <2>1. CanTransition(req[w].seen, req[w].to)
        BY DEF WriteOrder, Doing, Calm, Base, Requests, RequestTrue
    <2>2. order.status = req[w].seen
        BY <1>1 DEF AsRead
    <2> QED BY <1>1, <2>1, <2>2, WriteKeeps DEF WriteOrder, Doing
<1>2. CASE ~AsRead(w)
    <2>1. req' = [req EXCEPT ![w].op = "derive", ![w].tries = @ + 1]
        BY <1>2 DEF WriteOrder, AfterConflict, Calm, Clean
    <2>2. req'[w].op = "derive" /\ \A v \in Workers : v # w => req'[v] = req[v]
        BY <2>1 DEF Calm, Base, Typed, RequestType
    <2> QED BY <1>2, <2>2, SamePackagesQuiet, BusyKeeps DEF WriteOrder, Calm
<1> QED BY <1>1, <1>2

-----------------------------------------------------------------------------
(* Staff.                                                                   *)

(* Nothing active, nothing sent.                                            *)
LEMMA NoneActive ==
    ASSUME NEW P, ActiveIn(P) = {}
    PROVE  ~CourierShipped(P) /\ ~ManualActive(P) /\ ~ManualDelivered(P)
<1>1. \A p \in Numbers : P[p].status \in {"none", "cancelled"}
    BY DEF ActiveIn
<1> QED BY <1>1 DEF CourierShipped, ManualActive, ManualDelivered, Shipped, ActiveIn

LEMMA KeptCorrectOrder ==
    ASSUME Calm, NEW w \in Workers, CorrectOrder(w) PROVE Kept
<1>1. PICK to : /\ Cascades(to) <=> ActiveIn(pkgs) # {}
                /\ order' = [order EXCEPT !.status = to]
                /\ IF ~Cascades(to) THEN UNCHANGED <<req, override>> ELSE override' = TRUE
    BY DEF CorrectOrder
<1>2. ~Cascades(to) /\ UNCHANGED <<req, pkgs>>
    BY <1>1 DEF Calm, Clean, CorrectOrder
<1>3. to = "processing" /\ ActiveIn(pkgs) = {}
    BY <1>1, <1>2 DEF Cascades
<1>4. order'.status = "processing"
    BY <1>1, <1>3 DEF Calm, Base, Typed, TypeOK, OrderType
<1>5. Behind(pkgs', order'.status)
    BY <1>2, <1>3, <1>4, NoneActive, Ranked DEF Behind
<1>6. ~ManualDelivered(pkgs')
    BY <1>2, <1>3, NoneActive
<1>7. Follows'
    BY <1>2, <1>5, <1>6 DEF Calm, Follows
<1>8. DerivedStatus(pkgs') = "none"
    BY <1>2, <1>3, BothCounted, DerivedSome DEF Calm
<1>9. Told'
    BY <1>8 DEF Told
<1> QED BY <1>7, <1>9 DEF Kept

LEMMA KeptReturnToStore ==
    ASSUME Calm, NEW p \in Numbers, ReturnToStore(p) PROVE Kept
<1>1. Touches(p, "cancelled", pkgs[p].at)
    BY ReturnTouches DEF Calm
<1>2. ActiveIn(pkgs) = {p} /\ pkgs[p].mode \in Manual /\ UNCHANGED req
    BY DEF ReturnToStore, AwaitingHandover
<1>3. ActiveIn(pkgs') = {}
    BY <1>1, <1>2 DEF ActiveIn, Touches
<1>4. order'.status = "processing"
    BY DEF ReturnToStore, Calm, Base, Typed, TypeOK, OrderType
<1>5. Behind(pkgs', order'.status)
    BY <1>3, <1>4, NoneActive, Ranked DEF Behind
<1>6. ~CourierShipped(pkgs)
    <2>1. \A q \in Numbers : pkgs[q].status \in Shipped => q = p
        BY <1>2 DEF ActiveIn, Shipped
    <2> QED BY <1>2, <2>1 DEF CourierShipped, Manual
<1>7. \A v \in Workers : req'[v].op = "write" => Within(pkgs', req'[v].to)
    BY <1>2, <1>3, <1>6, NoneActive DEF Calm, Follows, Within
<1>8. Follows'
    BY <1>2, <1>3, <1>5, <1>7, NoneActive DEF Calm, Follows
<1>9. DerivedStatus(pkgs') = "none"
    BY <1>3, BothCounted, DerivedSome DEF Calm
<1>10. Told'
    BY <1>9 DEF Told
<1> QED BY <1>8, <1>10 DEF Kept

LEMMA KeptDispatch ==
    ASSUME Calm, DispatchManual PROVE Kept
<1>1. PICK n \in Numbers, mode \in Manual, status \in {"out_for_delivery", "packed"} :
              /\ pkgs[n].status = "none" /\ pkgs'[n].status = status /\ pkgs'[n].mode = mode
              /\ \A q \in Numbers : q # n => pkgs'[q] = pkgs[q]
              /\ order' = Recomputed(pkgs')
    BY DispatchMakes DEF Calm
<1>2. ActiveIn(pkgs) = {} /\ UNCHANGED req
    BY DEF DispatchManual
<1>3. n \in ActiveIn(pkgs')
    BY <1>1 DEF ActiveIn
<1>4. DerivedStatus(pkgs') # "none"
    BY <1>3, BothCounted, DerivedSome DEF Calm
<1>5. order'.status = DerivedStatus(pkgs') /\ order'.pay = order.pay
    BY <1>1, <1>4, RecomputedMoney DEF Calm
<1>6. ~CourierShipped(pkgs') /\ ~ManualDelivered(pkgs')
    <2>1. \A q \in Numbers : q # n => pkgs'[q].status \in {"none", "cancelled"}
        BY <1>1, <1>2 DEF ActiveIn
    <2> QED BY <1>1, <2>1 DEF CourierShipped, ManualDelivered, Shipped, Manual
<1>7. ManualActive(pkgs')
    BY <1>1, <1>3 DEF ManualActive
<1>8. Behind(pkgs', order'.status)
    BY <1>5, <1>6, <1>7 DEF Behind
<1>9. \A v \in Workers : req'[v].op = "write" => Within(pkgs', req'[v].to)
    BY <1>2, <1>6, NoneActive DEF Calm, Follows, Within
<1>10. Follows'
    BY <1>2, <1>6, <1>8, <1>9 DEF Calm, Follows
<1>11. Told'
    BY <1>5 DEF Told
<1> QED BY <1>10, <1>11 DEF Kept

LEMMA KeptMarkDelivered ==
    ASSUME Calm, NEW p \in Numbers, MarkDelivered(p) PROVE Kept
<1>1. /\ pkgs[p].status \in {"packed", "out_for_delivery"} /\ pkgs[p].mode \in Manual
      /\ pkgs'[p].status = "delivered" /\ pkgs'[p].mode = pkgs[p].mode /\ pkgs'[p].qty = pkgs[p].qty
      /\ \A q \in Numbers : q # p => pkgs'[q] = pkgs[q]
      /\ order'.status = Recomputed(pkgs').status
      /\ AwaitsCollection => order'.pay = "paid"
      /\ ~AwaitsCollection => order'.pay = order.pay
    BY DeliveryMakes DEF Calm
<1>2. UNCHANGED req
    BY DEF MarkDelivered
<1>3. p \in ActiveIn(pkgs')
    BY <1>1 DEF ActiveIn
<1>4. order'.status = DerivedStatus(pkgs')
    <2>1. DerivedStatus(pkgs') # "none"
        BY <1>3, BothCounted, DerivedSome DEF Calm
    <2> QED BY <1>1, <2>1, RecomputedMoney DEF Calm
<1>5. CourierShipped(pkgs') <=> CourierShipped(pkgs)
    BY <1>1 DEF CourierShipped, Manual
<1>6. Rank(DerivedStatus(pkgs)) <= Rank(DerivedStatus(pkgs'))
    <2>1. Advances(pkgs, pkgs')
        <3>1. \A s : Level(s) \in Nat
            BY DEF Level
        <3>2. Level("packed") = 1 /\ Level("out_for_delivery") = 3 /\ Level("delivered") = 4
            BY DEF Level, Shipped
        <3> QED BY <1>1, <3>1, <3>2 DEF Advances
    <2> QED BY <2>1, BothCounted, AdvancesRank DEF Calm
<1>7. \A s : Rank(s) \in 0 .. 6
    BY Ranked
<1>8. Behind(pkgs', order'.status)
    <2>1. ManualActive(pkgs')
        BY <1>1, <1>3 DEF ManualActive
    <2> QED BY <1>4, <1>7, <2>1 DEF Behind
<1>9. \A v \in Workers : req'[v].op = "write" => Within(pkgs', req'[v].to)
    BY <1>2, <1>5, <1>6, <1>7 DEF Calm, Follows, Within
<1>10. ~AwaitsCollection'
    BY <1>1 DEF AwaitsCollection
<1>11. Follows'
    BY <1>2, <1>8, <1>9, <1>10 DEF Calm, Follows
<1>12. Told'
    BY <1>4 DEF Told
<1> QED BY <1>11, <1>12 DEF Kept

-----------------------------------------------------------------------------
(* Every step.                                                              *)
LEMMA StepKept ==
    ASSUME Calm, Next PROVE Kept
<1>1. ASSUME NEW w \in Workers, CascadeStatus(w) PROVE FALSE
    BY <1>1 DEF CascadeStatus, Doing, Calm, Clean, Base, Requests, RequestTrue
<1>2. ASSUME NEW w \in Workers, Crash(w) PROVE FALSE
    BY <1>2 DEF Crash, Calm, Clean
<1>3. ~CancelOrder
    BY DEF CancelOrder, Calm, Clean, FulfillmentBlocked, Base, Typed, TypeOK, OrderType
<1>4. ASSUME NEW w \in Workers, WorkerStep(w) PROVE Kept
    BY <1>1, <1>2, <1>4, KeptAskPackage, KeptAllocate, KeptCall, KeptSaveBooked, KeptSaveUnbooked, KeptDerive,
       KeptRecheck, KeptWriteOrder, KeptSyncUnlinked, KeptFetchStatus, KeptApply, KeptRecall, KeptDrop,
       KeptCorrectOrder, KeptSaveReport, KeptWebhook, KeptSync, KeptAskCancel, KeptClaimRetry, KeptReadReport
       DEF WorkerStep
<1> QED BY <1>3, <1>4, KeptDispatch, KeptCourierMoves, KeptMarkDelivered, KeptReturnToStore DEF Next

(* The invariant: while it is clean, the order is not ahead of its packages *)
(* and, if it is behind them, a worker is on its way to tell it.            *)
InStep == Clean => Follows /\ Told

LEMMA InitInStep == Init => InStep
<1> SUFFICES ASSUME Init PROVE Follows /\ Told
    BY DEF InStep
<1>1. \A p \in Numbers : pkgs[p] = NoPackage
    BY DEF Init
<1>2. ActiveIn(pkgs) = {}
    BY <1>1 DEF ActiveIn, NoPackage
<1>3. \A w \in Workers : req[w].op = "idle"
    BY DEF Init, Idle
<1>4. order.status \in {"confirmed", "processing"}
    BY DEF Init
<1>5. Behind(pkgs, order.status)
    BY <1>2, <1>4, NoneActive, Ranked DEF Behind
<1>6. Follows
    BY <1>2, <1>3, <1>5, NoneActive DEF Follows
<1>7. Counted(pkgs)
    BY <1>2 DEF Counted
<1>8. Told
    BY <1>2, <1>7, DerivedSome DEF Told
<1> QED BY <1>6, <1>8

LEMMA StepInStep ==
    ASSUME Base, Base', InStep, Next PROVE InStep'
<1> SUFFICES ASSUME Clean' PROVE Kept
    BY DEF InStep, Kept
<1>1. Clean
    BY StayClean
<1> QED BY <1>1, StepKept DEF Calm, InStep

LEMMA UnchangedInStep ==
    ASSUME UNCHANGED vars, InStep PROVE InStep'
<1> USE DEF vars
<1>1. Clean' <=> Clean
    BY DEF Clean, FulfillmentBlocked
<1>2. Follows => Follows'
    BY DEF Follows, AwaitsCollection
<1>3. Told => Told'
    BY DEF Told, Pending
<1> QED BY <1>1, <1>2, <1>3 DEF InStep

(* With nobody under way, nobody is left to tell.                           *)
LEMMA InStepFollows == Base /\ InStep => OrderFollowsPackages
<1> SUFFICES ASSUME Base, InStep, \A w \in Workers : Doing(w, "idle"), ~FulfillmentBlocked, ~override,
                    \A p \in Numbers : pkgs[p].status # "failed", DerivedStatus(pkgs) # "none"
             PROVE  order.status = DerivedStatus(pkgs)
    BY DEF OrderFollowsPackages
<1>1. Told
    BY DEF InStep, Clean
<1>2. \A w \in Workers : ~Pending(w)
    BY DEF Pending, Doing
<1> QED BY <1>1, <1>2 DEF Told

-----------------------------------------------------------------------------
(* The theorems.                                                            *)

(* The inductive invariant: the base, the allocation, the collection, and   *)
(* the order in step with its packages.                                     *)
THEOREM Invariance == Spec => [](Base /\ AllocatedOnce /\ CollectedOnce /\ InStep)
<1> DEFINE I == Base /\ AllocatedOnce /\ CollectedOnce /\ InStep
<1>1. Init => I
    BY InitBase, InitInStep
<1>2. I /\ [Next]_vars => I'
    <2> SUFFICES ASSUME I, [Next]_vars PROVE I'
        OBVIOUS
    <2>1. CASE Next
        <3>1. Base' /\ AllocatedOnce' /\ CollectedOnce'
            BY <2>1, StepBase, StepPackages, StepAllocated, StepCollected
        <3> QED BY <2>1, <3>1, StepInStep
    <2>2. CASE UNCHANGED vars
        BY <2>2, Unchanged, UnchangedInStep
    <2> QED BY <2>1, <2>2
<1> QED BY <1>1, <1>2, PTL DEF Spec

(* The documents hold the statuses the models declare                       *)
(* (models/Package.js:26-35).                                               *)
THEOREM TypeCorrect == Spec => []TypeOK
<1>1. Base => TypeOK
    BY DEF Base, Typed
<1> QED BY <1>1, Invariance, PTL

(* Units that no cancellation freed are in packages once                    *)
(* (createAndShipPackage.js:85-86).                                         *)
THEOREM UnitsAllocatedOnce == Spec => []AllocatedOnce
<1> QED BY Invariance, PTL

(* What a rider collected is not awaited from the courier as well           *)
(* (codRemittance.js:21-31, manualFulfillment.js:246).                      *)
THEOREM CashCollectedOnce == Spec => []CollectedOnce
<1> QED BY Invariance, PTL

(* With nothing under way the order says what its packages say              *)
(* (recomputeOrderStatus.js:43-56).                                         *)
THEOREM OrderAlwaysFollows == Spec => []OrderFollowsPackages
<1> QED BY InStepFollows, Invariance, PTL

(* A tracking step never takes a package back                               *)
(* (applyShiprocketShipment.js:62, 84-87).                                  *)
THEOREM NeverTakenBack == Spec => TrackingMovesForward
<1> DEFINE Goes == \A p \in Numbers :
         /\ pkgs'[p].at >= pkgs[p].at
         /\ (pkgs'[p].at # pkgs[p].at /\ pkgs'[p].status # pkgs[p].status)
                => IsForward(pkgs[p].status, pkgs'[p].status)
<1>1. Base /\ [Next]_vars => [Goes]_vars
    BY StepPackages, StepTracking
<1> QED BY <1>1, Invariance, PTL DEF Spec, TrackingMovesForward
=============================================================================
