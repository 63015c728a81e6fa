-------------------------- MODULE ReturnFlow_proofs --------------------------
(***************************************************************************)
(* Proofs about ReturnFlow for any number of returns, workers and refunds, *)
(* any amounts and any delivered order, with or without a refund of its    *)
(* own: types, and the four invariants of its run.                         *)
(*                                                                         *)
(* None is inductive alone.  What the provider has and what the request    *)
(* says of it must agree (Trail): then a refund that is settled twice, by  *)
(* a handler, the cron and the webhook, is settled the same way.  That a   *)
(* request has one refund rests on the worker that is about to call        *)
(* Razorpay: it is the only one, and there is no refund yet (TaskTrue,     *)
(* CalledOnce).  What a worker carries from one step to the next stays     *)
(* true while others move (StillTrue).  The total rests on the documents:  *)
(* only an inspection promises money, under the order's lock (PromiseFits),*)
(* no later step changes an amount (MoneyFollows), and the order's own     *)
(* refund may only fail afterwards (OwnKept).                              *)
(***************************************************************************)
EXTENDS ReturnFlow, FiniteSetTheorems, TLAPS

\* A ReturnRequest document is consistent with itself.
DocFits(d) ==
    /\ d.refund = "not_required" => d.amount = 0 /\ d.ref = 0 /\ ~d.attempted
    /\ d.refund \in Reserving => d.type = "refund" /\ d.amount > 0
    /\ d.status = "refund_pending" <=> d.refund = "pending"
    /\ d.status = "manual_action_required" <=> d.refund = "manual_required"
    /\ d.status = "refund_failed" <=> d.refund = "failed"
    /\ d.refund = "processed" => d.status = "completed"
    /\ d.status \in {"requested", "approved", "received"} => d.quantity > 0
    /\ d.status \in {"replacement_pending", "replacement_shipped"} => d.type = "replacement"
Docs == \A r \in Returns : DocFits(returns[r])

\* What the provider has, the request accounts for, and the other way round.
Final == {"processed", "failed"}
Follows(d, n) ==
    \/ d.refund = "pending"
    \/ d.refund \in Final /\ d.refund = gateway[n].status
Trail ==
    /\ \A r \in Returns : \A n \in RefundsOf(r) :
          /\ returns[r].attempted
          /\ returns[r].amount = gateway[n].amount
          /\ Follows(returns[r], n)
    /\ \A r \in Returns : \A n, m \in RefundsOf(r) : n = m
    /\ \A r \in Returns : returns[r].ref # 0 => returns[r].ref \in RefundsOf(r)
    /\ \A r \in Returns : returns[r].refund = "failed" => RefundsOf(r) # {}

\* Only replacements have parcels, and they complete by their delivery.
ParcelFits(d, parcel) ==
    /\ parcel.sent = 0 <=> parcel.at = "none"
    /\ parcel.sent # 0 => d.type = "replacement" /\ d.status # "none"
    /\ d.type = "replacement" /\ d.status = "completed" => parcel.at = "delivered"
ParcelsFit == \A r \in Returns : ParcelFits(returns[r], parcels[r])

\* What a worker carries from one step to the next is still so.
TaskTrue(t) ==
    /\ t.op \in {"note", "adopt", "settle", "fetch", "hook", "hookorder"} =>
          /\ t.id \in RefundsOf(t.ret)
          /\ t.result \in Final => gateway[t.id].status = t.result
    /\ t.op \in {"hook", "hookorder"} => t.result \in Final
    /\ t.op = "hookorder" => returns[t.ret].refund = t.result
    /\ t.op = "call" =>
          RefundsOf(t.ret) = {} /\ returns[t.ret].attempted /\ returns[t.ret].refund = "pending"
    /\ t.op = "sync" =>
          /\ t.result \in {"shipped", "delivered"}
          /\ t.result = "delivered" => parcels[t.ret].at = "delivered"
    /\ t.op = "ownhook" => t.result \in Final /\ order.sent = t.result
TasksTrue == \A w \in Workers : TaskTrue(req[w])
CalledOnce ==
    \A v, w \in Workers : Doing(v, "call") /\ Doing(w, "call") /\ req[v].ret = req[w].ret => v = w

LabelIsReal ==
    order.pay = "refunded" => order.sent = "processed" \/ Sum(Amounts, Processed) >= GrandTotal

Papers == Docs /\ Trail /\ ParcelsFit
Money == RefundsWithinTotal /\ LabelIsReal
Inv == TypeOK /\ Papers /\ TasksTrue /\ CalledOnce /\ Money

Tasks == Task \cup OwnTask \cup {Idle}
\* What Razorpay made of the order's own refund is final.
SentStays == order.sent \in Final => order'.sent = order.sent
StillTrue == \A t \in Tasks : TaskTrue(t) => TaskTrue(t)'

-----------------------------------------------------------------------------
(* Steps by what they change.  First a worker that only moves on.           *)

Turn(w, t) == req' = [req EXCEPT ![w] = t]

LEMMA AtTask ==
    ASSUME TypeOK, NEW w \in Workers, NEW op \in Ops, Doing(w, op)
    PROVE  req[w] \in Task /\ req[w].ret \in Returns /\ req[w].id \in {0} \cup Refunds
           /\ req[w].result \in Results
<1>1. req[w] \in Task \cup OwnTask \cup {Idle}
    BY DEF TypeOK
<1>2. req[w] # Idle /\ req[w] \notin OwnTask
    BY DEF Doing, Idle, Ops, OwnTask
<1> QED BY <1>1, <1>2 DEF Task

LEMMA NewTask ==
    ASSUME NEW op \in Ops, NEW r \in Returns, NEW n \in {0} \cup Refunds, NEW result \in Results
    PROVE  [op |-> op, ret |-> r, id |-> n, result |-> result] \in Tasks
    BY DEF Tasks, Task

(* The tasks stay true if the step keeps them true and the next one is.     *)
LEMMA TasksTurn ==
    ASSUME TypeOK, TasksTrue, CalledOnce, NEW w \in Workers, NEW t \in Tasks, Turn(w, t),
           \A u \in Tasks : TaskTrue(u) /\ (\E v \in Workers \ {w} : u = req[v]) => TaskTrue(u)',
           TaskTrue(t)', t.op # "call"
    PROVE  TasksTrue' /\ CalledOnce' /\ req' \in [Workers -> Tasks]
<1>1. req \in [Workers -> Tasks]
    BY DEF TypeOK, Tasks
<1>2. req' \in [Workers -> Tasks] /\ req'[w] = t /\ \A v \in Workers \ {w} : req'[v] = req[v]
    BY <1>1 DEF Turn
<1>3. ASSUME NEW v \in Workers PROVE TaskTrue(req[v])'
    <2>1. CASE v = w
        BY <1>2, <2>1
    <2>2. CASE v # w
        <3> DEFINE u == req[v]
        <3>1. TaskTrue(u) /\ u \in Tasks
            BY <1>1 DEF TasksTrue
        <3>2. PICK c \in Tasks : c = u
            BY <3>1
        <3>3. TaskTrue(c)'
            BY <2>2, <3>1, <3>2
        <3>4. req'[v] = c
            BY <1>2, <2>2, <3>2
        <3> QED BY <3>3, <3>4
    <2> QED BY <2>1, <2>2
<1>4. TasksTrue'
    BY <1>3 DEF TasksTrue
<1>5. CalledOnce'
    BY <1>2 DEF CalledOnce, Doing
<1> QED BY <1>2, <1>4, <1>5

(* A webhook about the order's own refund goes on with what it was told.    *)
LEMMA OwnKept ==
    ASSUME NEW t \in OwnTask, TaskTrue(t), SentStays
    PROVE  TaskTrue(t)'
<1>1. t.op = "ownhook"
    BY DEF OwnTask
<1> QED BY <1>1 DEF TaskTrue, SentStays

(* The documents and the money of a step that leaves them alone.            *)
LEMMA PapersKept ==
    ASSUME Papers, UNCHANGED <<returns, gateway, parcels>>, SentStays
    PROVE  Papers' /\ StillTrue
<1>1. \A r : RefundsOf(r)' = RefundsOf(r)
    BY DEF RefundsOf
<1>2. Docs'
    BY DEF Papers, Docs
<1>3. Trail'
    BY <1>1 DEF Papers, Trail, Follows
<1>4. ParcelsFit'
    BY DEF Papers, ParcelsFit
<1>5. StillTrue
    BY <1>1 DEF StillTrue, TaskTrue, SentStays
<1> QED BY <1>2, <1>3, <1>4, <1>5 DEF Papers

LEMMA MoneyUnmoved ==
    ASSUME Money, UNCHANGED <<returns, order>>
    PROVE  Money'
    BY DEF Money, RefundsWithinTotal, LabelIsReal, Promised, Promises, Informed, Amounts, Processed,
           OwnBack

LEMMA TurnOnly ==
    ASSUME Inv, NEW w \in Workers, NEW t \in Tasks, Turn(w, t), TaskTrue(t), t.op # "call",
           UNCHANGED <<order, returns, stock, parcels, gateway>>, told' \in SUBSET ({0} \cup Refunds)
    PROVE  Inv'
<1>1. Papers' /\ StillTrue
    BY PapersKept DEF Inv, SentStays
<1>2. TasksTrue' /\ CalledOnce' /\ req' \in [Workers -> Tasks]
    BY <1>1, TasksTurn DEF Inv, StillTrue
<1>3. Money'
    BY MoneyUnmoved DEF Inv
<1>4. TypeOK'
    BY <1>2 DEF Inv, TypeOK, Tasks
<1> QED BY <1>1, <1>2, <1>3, <1>4 DEF Inv

LEMMA IdleIsTask == Idle \in Tasks /\ TaskTrue(Idle) /\ TaskTrue(Idle)' /\ Idle.op # "call"
    BY DEF Tasks, Idle, TaskTrue

-----------------------------------------------------------------------------
(* One document of a return is edited.                                      *)

Edit(r, d) == returns' = [returns EXCEPT ![r] = d]

\* What every edit respects of the refunds and the parcels of the return.
FollowsOn(r, d) ==
    LET c == returns[r]
    IN  /\ c.attempted => d.attempted
        /\ d.ref # 0 => d.ref \in RefundsOf(r)
        /\ RefundsOf(r) = {} =>
              d.refund # "failed" /\ (c.refund = "pending" => d.refund = "pending")
        /\ \A n \in RefundsOf(r) :
              /\ d.amount = c.amount
              /\ \/ c.refund = "pending" /\ d.refund = "pending"
                 \/ d.refund \in Final /\ d.refund = gateway[n].status
        /\ ParcelFits(d, parcels[r])

LEMMA EditOf ==
    ASSUME returns \in [Returns -> Request], NEW r \in Returns, NEW d \in Request, Edit(r, d)
    PROVE  /\ returns' \in [Returns -> Request]
           /\ returns'[r] = d
           /\ \A s \in Returns : s # r => returns'[s] = returns[s]
    BY DEF Edit

LEMMA EditFollows ==
    ASSUME TypeOK, Papers, NEW r \in Returns, NEW d \in Request, Edit(r, d), DocFits(d),
           FollowsOn(r, d), UNCHANGED <<gateway, parcels>>, SentStays
    PROVE  Papers' /\ StillTrue /\ returns' \in [Returns -> Request]
<1>1. /\ returns' \in [Returns -> Request]
      /\ returns'[r] = d
      /\ \A s \in Returns : s # r => returns'[s] = returns[s]
    BY EditOf DEF TypeOK
<1>2. \A s : RefundsOf(s)' = RefundsOf(s)
    BY DEF RefundsOf
<1>3. Docs'
    BY <1>1 DEF Papers, Docs
<1>4. Trail'
    <2>1. ASSUME NEW s \in Returns, NEW n \in RefundsOf(s)
          PROVE  /\ returns'[s].attempted
                 /\ returns'[s].amount = gateway[n].amount
                 /\ Follows(returns[s], n)'
        <3>1. CASE s = r
            BY <1>1, <3>1 DEF Papers, Trail, FollowsOn, Follows
        <3>2. CASE s # r
            BY <1>1, <3>2 DEF Papers, Trail, Follows
        <3> QED BY <3>1, <3>2
    <2>2. ASSUME NEW s \in Returns
          PROVE  /\ returns'[s].ref # 0 => returns'[s].ref \in RefundsOf(s)
                 /\ returns'[s].refund = "failed" => RefundsOf(s) # {}
        <3>1. CASE s = r
            BY <1>1, <3>1 DEF FollowsOn
        <3>2. CASE s # r
            BY <1>1, <3>2 DEF Papers, Trail
        <3> QED BY <3>1, <3>2
    <2>3. \A s \in Returns : \A n, m \in RefundsOf(s) : n = m
        BY DEF Papers, Trail
    <2> QED BY <1>2, <2>1, <2>2, <2>3 DEF Trail
<1>5. ParcelsFit'
    BY <1>1 DEF Papers, ParcelsFit, FollowsOn
<1>6. StillTrue
    <2> SUFFICES ASSUME NEW t \in Tasks, TaskTrue(t) PROVE TaskTrue(t)'
        BY DEF StillTrue
    <2>1. CASE t = Idle
        BY <2>1, IdleIsTask
    <2>2. CASE t \in Task
        <3>1. t.ret \in Returns
            BY <2>2 DEF Task
        <3>2. CASE t.ret = r
            <4>1. t.op = "hookorder" => d.refund = t.result
                BY <3>1, <3>2 DEF TaskTrue, FollowsOn, Final
            <4>2. t.op = "call" => d.attempted /\ d.refund = "pending"
                BY <3>2 DEF TaskTrue, FollowsOn
            <4> QED BY <1>1, <1>2, <3>2, <4>1, <4>2 DEF TaskTrue, SentStays
        <3>3. CASE t.ret # r
            BY <1>1, <1>2, <3>1, <3>3 DEF TaskTrue, SentStays
        <3> QED BY <3>2, <3>3
    <2>3. CASE t \in OwnTask
        BY <2>3, OwnKept
    <2> QED BY <2>1, <2>2, <2>3 DEF Tasks
<1> QED BY <1>1, <1>3, <1>4, <1>5, <1>6 DEF Papers

-----------------------------------------------------------------------------
(* Sums of amounts.                                                         *)

NatOn(f, S) == \A x \in S : f[x] \in Nat
\* What Sum counts.
Ones(f, S) == UNION {{x} \X (1 .. f[x]) : x \in S}

LEMMA OnesFinite ==
    ASSUME NEW f, NEW S, IsFiniteSet(S), NatOn(f, S)
    PROVE  IsFiniteSet(Ones(f, S)) /\ Sum(f, S) \in Nat /\ Sum(f, S) = Cardinality(Ones(f, S))
<1> DEFINE Part(x) == {x} \X (1 .. f[x])
<1>1. ASSUME NEW x \in S PROVE IsFiniteSet(Part(x))
    <2>1. IsFiniteSet({x})
        BY FS_Singleton, Zenon
    <2>2. f[x] \in Nat
        BY DEF NatOn
    <2>3. IsFiniteSet(1 .. f[x])
        BY <2>2, FS_Interval
    <2> QED BY <2>1, <2>3, FS_Product
<1>2. IsFiniteSet({Part(x) : x \in S})
    <2> DEFINE parts == [x \in S |-> Part(x)]
    <2>1. parts \in [S -> {Part(x) : x \in S}]
        OBVIOUS
    <2>2. \A T \in {Part(x) : x \in S} : \E x \in S : parts[x] = T
        OBVIOUS
    <2>3. parts \in Surjection(S, {Part(x) : x \in S})
        <3> HIDE DEF parts
        <3> QED BY <2>1, <2>2 DEF Surjection
    <2> HIDE DEF parts, Part
    <2> QED BY <2>3, FS_Surjection
<1>3. \A T \in {Part(x) : x \in S} : IsFiniteSet(T)
    BY <1>1
<1>4. IsFiniteSet(UNION {Part(x) : x \in S})
    <2> HIDE DEF Part
    <2> QED BY <1>2, <1>3, FS_UNION
<1>5. IsFiniteSet(Ones(f, S)) /\ Sum(f, S) = Cardinality(Ones(f, S))
    BY <1>4 DEF Ones, Sum
<1> QED BY <1>5, FS_CardinalityType

LEMMA SumEmpty == ASSUME NEW f PROVE Sum(f, {}) = 0
<1>1. Ones(f, {}) = {}
    BY DEF Ones
<1>2. Cardinality({}) = 0
    BY FS_EmptySet, Zenon
<1> QED BY <1>1, <1>2 DEF Sum, Ones

(* A new element adds its value.                                            *)
LEMMA SumInsert ==
    ASSUME NEW f, NEW S, IsFiniteSet(S), NEW x, x \notin S, NatOn(f, S \cup {x})
    PROVE  /\ Sum(f, S) \in Nat
           /\ Sum(f, S \cup {x}) = f[x] + Sum(f, S)
<1> DEFINE New == {x} \X (1 .. f[x])
<1>1. IsFiniteSet(S \cup {x}) /\ NatOn(f, S) /\ f[x] \in Nat
    BY FS_AddElement DEF NatOn
<1>2. /\ IsFiniteSet(Ones(f, S)) /\ Sum(f, S) \in Nat /\ Sum(f, S) = Cardinality(Ones(f, S))
      /\ Sum(f, S \cup {x}) = Cardinality(Ones(f, S \cup {x}))
    BY <1>1, OnesFinite
<1>3. Ones(f, S \cup {x}) = Ones(f, S) \cup New /\ Ones(f, S) \cap New = {}
    BY DEF Ones
<1>4. IsFiniteSet({x}) /\ Cardinality({x}) = 1
    BY FS_Singleton, Zenon
<1>5. IsFiniteSet(1 .. f[x]) /\ Cardinality(1 .. f[x]) = f[x]
    <2>1. PICK n \in Nat : n = f[x]
        BY <1>1
    <2>2. IsFiniteSet(1 .. n) /\ Cardinality(1 .. n) = n
        BY FS_Interval
    <2> QED BY <2>1, <2>2
<1>6. IsFiniteSet(New) /\ Cardinality(New) = f[x]
    <2>1. IsFiniteSet(New) /\ Cardinality(New) = Cardinality({x}) * Cardinality(1 .. f[x])
        BY <1>4, <1>5, FS_Product, Zenon
    <2>2. Cardinality(New) = 1 * f[x]
        <3> HIDE DEF New
        <3> QED BY <1>4, <1>5, <2>1, Zenon
    <2> HIDE DEF New
    <2> QED BY <1>1, <2>1, <2>2
<1>7. Cardinality({}) = 0
    BY FS_EmptySet, Zenon
<1>8. Cardinality(Ones(f, S) \cup New) = Cardinality(Ones(f, S)) + Cardinality(New) - 0
    <2> HIDE DEF New
    <2>1. Cardinality(Ones(f, S) \cap New) = 0
        BY <1>3, <1>7
    <2>2. Cardinality(Ones(f, S) \cup New)
              = Cardinality(Ones(f, S)) + Cardinality(New) - Cardinality(Ones(f, S) \cap New)
        BY <1>2, <1>6, FS_Union, Zenon
    <2> HIDE DEF New
    <2> QED BY <2>1, <2>2
<1> HIDE DEF New
<1>9. Sum(f, S \cup {x}) = Cardinality(Ones(f, S) \cup New)
    BY <1>2, <1>3, Zenon
<1>10. Sum(f, S \cup {x}) = Sum(f, S) + f[x] - 0
    BY <1>2, <1>6, <1>8, <1>9, Zenon
<1> QED BY <1>1, <1>2, <1>10

(* Any element may be taken out first.                                      *)
LEMMA SumRemove ==
    ASSUME NEW f, NEW S, IsFiniteSet(S), NatOn(f, S), NEW x \in S
    PROVE  Sum(f, S) = f[x] + Sum(f, S \ {x})
<1>1. IsFiniteSet(S \ {x}) /\ x \notin S \ {x} /\ (S \ {x}) \cup {x} = S
    BY FS_RemoveElement
<1> QED BY <1>1, SumInsert

(* Functions that agree on a set have the same sum over it.                 *)
LEMMA SumSame ==
    ASSUME NEW f, NEW g, NEW S, \A x \in S : f[x] = g[x]
    PROVE  Sum(f, S) = Sum(g, S)
<1>1. {{x} \X (1 .. f[x]) : x \in S} = {{x} \X (1 .. g[x]) : x \in S}
    OBVIOUS
<1> QED BY <1>1 DEF Sum

(* A sum is at least that over a subset.                                    *)
LEMMA SumGrows ==
    ASSUME NEW f, NEW S, IsFiniteSet(S), NatOn(f, S), NEW R \in SUBSET S
    PROVE  Sum(f, R) \in Nat /\ Sum(f, S) \in Nat /\ Sum(f, R) <= Sum(f, S)
<1>1. IsFiniteSet(R) /\ NatOn(f, R)
    BY FS_Subset DEF NatOn
<1>2. Ones(f, R) \subseteq Ones(f, S)
    BY DEF Ones
<1> QED BY <1>1, <1>2, OnesFinite, FS_Subset

LEMMA AmountsType ==
    ASSUME TypeOK
    PROVE  /\ \A S \in SUBSET Returns : IsFiniteSet(S) /\ NatOn(Amounts, S) /\ Sum(Amounts, S) \in Nat
           /\ \A r \in Returns : Amounts[r] = returns[r].amount /\ Amounts[r] \in Nat
           /\ \A S, R \in SUBSET Returns : R \subseteq S => Sum(Amounts, R) <= Sum(Amounts, S)
<1>1. \A r \in Returns : Amounts[r] = returns[r].amount /\ Amounts[r] \in Nat
    BY DEF TypeOK, Amounts, Request
<1>2. ASSUME NEW S \in SUBSET Returns PROVE IsFiniteSet(S) /\ NatOn(Amounts, S)
    BY <1>1, ReturnsAssumption, FS_Subset DEF NatOn
<1>3. ASSUME NEW S \in SUBSET Returns, NEW R \in SUBSET S
      PROVE  Sum(Amounts, S) \in Nat /\ Sum(Amounts, R) <= Sum(Amounts, S)
    BY <1>1, <1>2, SumGrows
<1> QED BY <1>1, <1>2, <1>3

(* An edit that keeps the amount keeps all amounts.                         *)
LEMMA AmountsKept ==
    ASSUME TypeOK, NEW r \in Returns, NEW d \in Request, Edit(r, d), d.amount = returns[r].amount
    PROVE  Amounts' = Amounts
<1>1. \A s \in Returns : returns'[s].amount = returns[s].amount
    BY EditOf DEF TypeOK
<1> QED BY <1>1 DEF Amounts

LEMMA MoneyFollows ==
    ASSUME TypeOK, Money, NEW r \in Returns, NEW d \in Request, Edit(r, d),
           d.amount = returns[r].amount,
           d.refund \in Reserving <=> returns[r].refund \in Reserving,
           d.refund \in Reserving => d.overlooked = returns[r].overlooked,
           returns[r].refund = "processed" => d.refund = "processed",
           \/ order' = order
           \/ /\ d.refund = "processed"
              /\ order' = [order EXCEPT !.pay = PaidBack(Processed \cup {r})]
    PROVE  Money'
<1>1. Amounts' = Amounts
    BY AmountsKept
<1>2. /\ returns' \in [Returns -> Request]
      /\ returns'[r] = d
      /\ \A s \in Returns : s # r => returns'[s] = returns[s]
    BY EditOf DEF TypeOK
<1>3. Promises' = Promises /\ Informed' = Informed
    BY <1>2 DEF Promises, Informed
<1>4. Sum(Amounts', Promises') = Sum(Amounts, Promises) /\ Sum(Amounts', Informed') = Sum(Amounts, Informed)
    BY <1>1, <1>3
<1>5. order'.sent = order.sent /\ OwnBack' = OwnBack
    BY DEF TypeOK, OrderDoc, OwnBack
<1>6. RefundsWithinTotal'
    BY <1>4, <1>5 DEF Money, RefundsWithinTotal, Promised
<1>7. Processed \subseteq Processed' /\ Processed' \subseteq Returns
    BY <1>2 DEF Processed
<1>8. /\ Sum(Amounts, Processed) \in Nat /\ Sum(Amounts, Processed') \in Nat
      /\ Sum(Amounts, Processed) <= Sum(Amounts, Processed')
    BY <1>7, AmountsType
<1>9. LabelIsReal'
    <2>1. CASE order' = order
        <3>1. order'.pay = "refunded" => order'.sent = "processed" \/ Sum(Amounts, Processed') >= GrandTotal
            BY <1>5, <1>8, <2>1, MoneyAssumption DEF Money, LabelIsReal
        <3> QED BY <1>1, <3>1 DEF LabelIsReal
    <2>2. CASE d.refund = "processed" /\ order' = [order EXCEPT !.pay = PaidBack(Processed \cup {r})]
        <3>1. Processed' = Processed \cup {r}
            BY <1>2, <2>2 DEF Processed
        <3>2. order'.pay = PaidBack(Processed \cup {r})
            BY <2>2 DEF TypeOK, OrderDoc
        <3>3. order'.pay = "refunded" => Sum(Amounts, Processed') >= GrandTotal
            BY <3>1, <3>2 DEF PaidBack
        <3> QED BY <1>1, <3>3 DEF LabelIsReal
    <2> QED BY <2>1, <2>2
<1> QED BY <1>6, <1>9 DEF Money

(* Every edit that keeps the amount, by a worker or by staff.               *)
LEMMA EditByStaff ==
    ASSUME Inv, NEW r \in Returns, NEW d \in Request, Edit(r, d), DocFits(d), FollowsOn(r, d),
           d.amount = returns[r].amount,
           d.refund \in Reserving <=> returns[r].refund \in Reserving,
           d.refund \in Reserving => d.overlooked = returns[r].overlooked,
           returns[r].refund = "processed" => d.refund = "processed",
           \/ order' = order
           \/ /\ d.refund = "processed"
              /\ order' = [order EXCEPT !.pay = PaidBack(Processed \cup {r})],
           stock' \in Nat, UNCHANGED <<gateway, parcels, told>>
    PROVE  /\ Papers' /\ StillTrue /\ Money'
           /\ req' \in [Workers -> Tasks] => TypeOK'
           /\ req' = req => Inv'
<1>0. order' \in OrderDoc /\ order'.sent = order.sent
    BY DEF Inv, TypeOK, OrderDoc, PaymentStatus, PaidBack
<1>1. Papers' /\ StillTrue /\ returns' \in [Returns -> Request]
    BY <1>0, EditFollows DEF Inv, SentStays
<1>2. Money'
    BY MoneyFollows DEF Inv
<1>3. order' \in OrderDoc
    BY <1>0
<1>4. req' \in [Workers -> Tasks] => TypeOK'
    BY <1>1, <1>3 DEF Inv, TypeOK, Tasks
<1>5. ASSUME req' = req PROVE Inv'
    <2>1. req \in [Workers -> Tasks]
        BY DEF Inv, TypeOK, Tasks
    <2>2. TasksTrue'
        BY <1>1, <1>5, <2>1 DEF Inv, TasksTrue, StillTrue
    <2>3. CalledOnce'
        BY <1>5 DEF Inv, CalledOnce, Doing
    <2> QED BY <1>1, <1>2, <1>4, <1>5, <2>1, <2>2, <2>3 DEF Inv
<1> QED BY <1>1, <1>2, <1>4, <1>5

LEMMA EditByWorker ==
    ASSUME Inv, NEW w \in Workers, NEW t \in Tasks, Turn(w, t), t.op # "call", TaskTrue(t)',
           Papers', StillTrue, Money', req' \in [Workers -> Tasks] => TypeOK'
    PROVE  Inv'
<1>1. TasksTrue' /\ CalledOnce' /\ req' \in [Workers -> Tasks]
    BY TasksTurn DEF Inv, StillTrue
<1> QED BY <1>1 DEF Inv

-----------------------------------------------------------------------------
(* An edit that leaves the refund of the return as it is.                   *)

SameRefund(c, d) ==
    /\ d.refund = c.refund /\ d.amount = c.amount /\ d.attempted = c.attempted /\ d.ref = c.ref
    /\ d.refund \in Reserving => d.overlooked = c.overlooked

LEMMA Relabel ==
    ASSUME Inv, NEW r \in Returns, NEW d \in Request, Edit(r, d), DocFits(d),
           SameRefund(returns[r], d), ParcelFits(d, parcels[r]),
           stock' \in Nat, UNCHANGED <<order, gateway, parcels, told>>
    PROVE  /\ Papers' /\ StillTrue /\ Money'
           /\ req' \in [Workers -> Tasks] => TypeOK'
           /\ req' = req => Inv'
<1>1. FollowsOn(r, d)
    BY DEF FollowsOn, SameRefund, Inv, Papers, Trail, Follows
<1> QED BY <1>1, EditByStaff DEF SameRefund

(* A document, its fields and what it says of itself.                       *)
LEMMA Document ==
    ASSUME Inv, NEW r \in Returns
    PROVE  returns[r] \in Request /\ DocFits(returns[r]) /\ ParcelFits(returns[r], parcels[r])
    BY DEF Inv, TypeOK, Papers, Docs, ParcelsFit

-----------------------------------------------------------------------------
(* The handlers that only move a document on.                               *)

LEMMA ReviewKeeps == ASSUME Inv, NEW r \in Returns, Review(r) PROVE Inv'
<1>1. PICK status \in {"approved", "rejected"} : Edit(r, [returns[r] EXCEPT !.status = status])
    BY DEF Review, Edit
<1> DEFINE c == returns[r]
           d == [c EXCEPT !.status = status]
<1>2. c \in Request /\ c.status = "requested" /\ DocFits(c) /\ ParcelFits(c, parcels[r])
    BY Document DEF Review
<1>3. d \in Request /\ d.status = status /\ SameRefund(c, d) /\ d.type = c.type /\ d.quantity = c.quantity
    BY <1>2 DEF Request, Status, SameRefund
<1>4. DocFits(d) /\ ParcelFits(d, parcels[r])
    BY <1>2, <1>3 DEF DocFits, ParcelFits, SameRefund
<1>5. req' = req /\ UNCHANGED <<order, gateway, parcels, told>> /\ stock' \in Nat
    BY DEF Review, Inv, TypeOK
<1> HIDE DEF d
<1> QED BY <1>1, <1>3, <1>4, <1>5, Relabel DEF d

LEMMA ReceiveKeeps == ASSUME Inv, NEW r \in Returns, Receive(r) PROVE Inv'
<1> DEFINE c == returns[r]
           d == [c EXCEPT !.status = "received"]
<1>1. Edit(r, d)
    BY DEF Receive, Edit
<1>2. c \in Request /\ c.status = "approved" /\ DocFits(c) /\ ParcelFits(c, parcels[r])
    BY Document DEF Receive
<1>3. /\ d \in Request /\ d.status = "received" /\ SameRefund(c, d)
      /\ d.type = c.type /\ d.quantity = c.quantity
    BY <1>2 DEF Request, Status, SameRefund
<1>4. DocFits(d) /\ ParcelFits(d, parcels[r])
    BY <1>2, <1>3 DEF DocFits, ParcelFits, SameRefund
<1>5. req' = req /\ UNCHANGED <<order, gateway, parcels, told>> /\ stock' \in Nat
    BY DEF Receive, Inv, TypeOK
<1> HIDE DEF d
<1> QED BY <1>1, <1>3, <1>4, <1>5, Relabel

(* createReturnRequest asks for units that are left, for what they are worth. *)
LEMMA Divides ==
    ASSUME NEW a \in Nat, NEW q \in Nat \ {0}
    PROVE  a \div q \in Nat
    OBVIOUS

LEMMA UnitsType ==
    ASSUME TypeOK
    PROVE  /\ Sum(Quantities, Live) \in Nat /\ Sum(Shares, Live) \in Nat
           /\ EligibleQuantity \in Units
<1>1. Live \in SUBSET Returns /\ IsFiniteSet(Live)
    BY ReturnsAssumption, FS_Subset DEF Live
<1>2. \A r \in Live : Quantities[r] \in Nat /\ Shares[r] \in Nat
    BY UnitsAssumption DEF TypeOK, Live, Quantities, Shares, Request, Units
<1>3. Sum(Quantities, Live) \in Nat /\ Sum(Shares, Live) \in Nat
    BY <1>1, <1>2, OnesFinite DEF NatOn
<1>4. EligibleQuantity \in Units
    BY <1>3, UnitsAssumption DEF EligibleQuantity, Most, Units
<1> QED BY <1>3, <1>4

LEMMA ShareType ==
    ASSUME NEW quantity \in Nat, NEW available \in Nat, NEW taken \in Nat
    PROVE  RequestAmount(quantity, available, taken) \in Nat
<1>1. LinePaise \in Nat /\ LinePaise \div Purchased \in Nat
    BY MoneyAssumption, UnitsAssumption, Divides
<1>2. (LinePaise \div Purchased) * quantity \in Nat
    BY <1>1
<1> DEFINE part == (LinePaise \div Purchased) * quantity
<1>3. RequestAmount(quantity, available, taken) =
        Most(0, Least(LinePaise - taken, IF quantity = available THEN LinePaise - taken ELSE part))
    BY DEF RequestAmount
<1> HIDE DEF part
<1> QED BY <1>1, <1>2, <1>3 DEF Most, Least, part

\* The document of a new request.
Asked(status, type, quantity, share) ==
    [NoRequest EXCEPT !.status = status, !.type = type, !.quantity = quantity, !.share = share]

LEMMA AskedIs ==
    ASSUME NEW status \in Status, NEW type \in {"refund", "replacement"}, NEW quantity \in Units,
           NEW share \in Nat
    PROVE  LET d == Asked(status, type, quantity, share)
           IN  /\ d \in Request /\ d.status = status /\ d.type = type /\ d.quantity = quantity
               /\ d.refund = "not_required" /\ d.amount = 0 /\ d.ref = 0 /\ ~d.attempted
<1>1. /\ NoRequest \in Request /\ NoRequest.refund = "not_required" /\ NoRequest.amount = 0
      /\ NoRequest.ref = 0 /\ ~NoRequest.attempted
    BY UnitsAssumption DEF NoRequest, Request, Status, RefundStatus, Units
<1> QED BY <1>1 DEF Asked, Request

LEMMA CreateKeeps == ASSUME Inv, NEW r \in Returns, Create(r) PROVE Inv'
<1> DEFINE Priced(quantity) ==
             RequestAmount(quantity, EligibleQuantity, Sum(Shares, Live))
<1>1. PICK quantity \in 1 .. EligibleQuantity, type \in {"refund", "replacement"},
           status \in {"requested", "approved"} :
               Edit(r, Asked(status, type, quantity, Priced(quantity)))
    BY DEF Create, Edit, Asked
<1> DEFINE c == returns[r]
           share == Priced(quantity)
           d == Asked(status, type, quantity, share)
<1>2. c \in Request /\ c.status = "none" /\ DocFits(c) /\ ParcelFits(c, parcels[r])
    BY Document DEF Create
<1>3. quantity \in Units /\ quantity > 0 /\ share \in Nat
    <2>1. EligibleQuantity \in Units /\ Sum(Shares, Live) \in Nat
        BY UnitsType DEF Inv
    <2>2. quantity \in Units /\ quantity > 0 /\ quantity \in Nat /\ EligibleQuantity \in Nat
        BY <2>1, UnitsAssumption DEF Units
    <2> QED BY <2>1, <2>2, ShareType
<1>4. /\ d \in Request /\ d.status = status /\ d.type = type /\ d.quantity = quantity
      /\ d.refund = "not_required" /\ d.amount = 0 /\ d.ref = 0 /\ ~d.attempted
    <2> HIDE DEF share
    <2> QED BY <1>1, <1>3, AskedIs DEF Status
<1>5. SameRefund(c, d)
    <2>1. c.refund = "not_required" /\ c.amount = 0 /\ c.ref = 0 /\ ~c.attempted
        BY <1>2 DEF DocFits, Request, RefundStatus
    <2> QED BY <1>2, <1>4, <2>1 DEF SameRefund, Request, Reserving
<1>6. DocFits(d) /\ ParcelFits(d, parcels[r])
    BY <1>2, <1>3, <1>4 DEF DocFits, ParcelFits, Reserving
<1>7. req' = req /\ UNCHANGED <<order, gateway, parcels, told>> /\ stock' \in Nat
    BY DEF Create, Inv, TypeOK
<1>8. Edit(r, d)
    BY <1>1
<1> HIDE DEF d, share
<1> QED BY <1>4, <1>5, <1>6, <1>7, <1>8, Relabel

(* transitionOrder's sync of a replacement that moved.                      *)
LEMMA SyncKeeps == ASSUME Inv, NEW w \in Workers, SyncReplacement(w) PROVE Inv'
<1> DEFINE r == req[w].ret
           c == returns[r]
           status == IF req[w].result = "delivered" THEN "completed" ELSE "replacement_shipped"
           d == [c EXCEPT !.status = status]
<1>1. /\ Doing(w, "sync") /\ Turn(w, Idle) /\ UNCHANGED <<order, stock, parcels, gateway, told>>
      /\ \/ returns' = returns
         \/ /\ Edit(r, d)
            /\ c.status \in {"replacement_pending", "replacement_shipped"}
    BY DEF SyncReplacement, Turn, Finish, Edit
<1>2. r \in Returns /\ TaskTrue(req[w])
    BY <1>1, AtTask DEF Inv, Ops, TasksTrue
<1>3. CASE returns' = returns
    BY <1>1, <1>3, IdleIsTask, TurnOnly DEF Inv, TypeOK
<1>4. CASE Edit(r, d) /\ c.status \in {"replacement_pending", "replacement_shipped"}
    <2>1. c \in Request /\ DocFits(c) /\ ParcelFits(c, parcels[r])
        BY <1>2, Document
    <2>2. /\ d \in Request /\ d.status = status /\ SameRefund(c, d)
          /\ d.type = c.type /\ d.quantity = c.quantity
        BY <2>1 DEF Request, Status, SameRefund
    <2>3. d.type = "replacement" /\ c.refund = "not_required"
        BY <1>4, <2>1, <2>2 DEF DocFits, Request, RefundStatus
    <2>4. DocFits(d)
        BY <2>1, <2>2, <2>3 DEF DocFits, SameRefund, Reserving
    <2>5. ParcelFits(d, parcels[r])
        BY <1>1, <1>2, <2>1, <2>2, <2>3 DEF ParcelFits, TaskTrue, Doing
    <2> HIDE DEF d, status
    <2>6. /\ Papers' /\ StillTrue /\ Money'
          /\ req' \in [Workers -> Tasks] => TypeOK'
        BY <1>1, <1>2, <1>4, <2>2, <2>4, <2>5, Relabel DEF Inv, TypeOK
    <2> QED BY <1>1, <2>6, IdleIsTask, EditByWorker
<1> QED BY <1>1, <1>3, <1>4

-----------------------------------------------------------------------------
(* The refund.                                                              *)

(* processReturnRefund claims the one submission of a pending refund.       *)
LEMMA ClaimKeeps == ASSUME Inv, NEW w \in Workers, Claim(w) PROVE Inv'
<1> DEFINE r == req[w].ret
           c == returns[r]
           d == [c EXCEPT !.attempted = TRUE]
           t == [op |-> "call", ret |-> r, id |-> 0, result |-> "none"]
<1>1. /\ Doing(w, "claim") /\ UNCHANGED <<order, stock, parcels, gateway, told>>
      /\ \/ returns' = returns /\ Turn(w, Idle)
         \/ /\ Edit(r, d) /\ Turn(w, t)
            /\ c.status = "refund_pending" /\ ~c.attempted /\ c.ref = 0
    BY DEF Claim, Turn, Finish, Edit, Do
<1>2. r \in Returns
    BY <1>1, AtTask DEF Inv, Ops
<1>3. CASE returns' = returns /\ Turn(w, Idle)
    BY <1>1, <1>3, IdleIsTask, TurnOnly DEF Inv, TypeOK
<1>4. CASE /\ Edit(r, d) /\ Turn(w, t)
           /\ c.status = "refund_pending" /\ ~c.attempted /\ c.ref = 0
    <2>1. c \in Request /\ DocFits(c) /\ ParcelFits(c, parcels[r])
        BY <1>2, Document
    <2>2. /\ d \in Request /\ d.status = c.status /\ d.type = c.type /\ d.quantity = c.quantity
          /\ d.refund = c.refund /\ d.amount = c.amount /\ d.ref = c.ref /\ d.attempted
          /\ d.overlooked = c.overlooked
        BY <2>1 DEF Request
    <2>3. RefundsOf(r) = {} /\ c.refund = "pending"
        BY <1>2, <1>4, <2>1 DEF Inv, Papers, Trail, DocFits
    <2>4. DocFits(d) /\ ParcelFits(d, parcels[r])
        BY <2>1, <2>2, <2>3 DEF DocFits, ParcelFits
    <2>5. FollowsOn(r, d)
        BY <1>4, <2>2, <2>3, <2>4 DEF FollowsOn
    <2> HIDE DEF d
    <2>6. /\ Papers' /\ StillTrue /\ Money'
          /\ req' \in [Workers -> Tasks] => TypeOK'
        BY <1>1, <1>2, <1>4, <2>2, <2>4, <2>5, EditByStaff DEF Inv, TypeOK
    <2>7. returns'[r] = d
        BY <1>2, <1>4, <2>2, EditOf DEF Inv, TypeOK
    <2>8. PICK u \in Tasks : u = t
        BY <1>2, NewTask DEF Ops, Results
    <2>9. ASSUME NEW v \in Workers, v # w PROVE ~(Doing(v, "call") /\ req[v].ret = r)
        BY <1>4 DEF Inv, TasksTrue, TaskTrue, Doing
    <2>10. TaskTrue(u)'
        <3>1. PICK s \in Returns : s = r
            BY <1>2
        <3>2. RefundsOf(s)' = {}
            BY <1>1, <2>3, <3>1 DEF RefundsOf
        <3>3. returns'[s].attempted /\ returns'[s].refund = "pending"
            BY <2>2, <2>3, <2>7, <3>1
        <3>4. u.op = "call" /\ u.ret = s
            BY <2>8, <3>1
        <3> QED BY <3>2, <3>3, <3>4 DEF TaskTrue
    <2>11. /\ req \in [Workers -> Tasks] /\ req' \in [Workers -> Tasks] /\ req'[w] = u
           /\ \A v \in Workers : v # w => req'[v] = req[v]
        BY <1>4, <2>8 DEF Inv, TypeOK, Tasks, Turn
    <2>12. u.op = "call" /\ u.ret = r
        BY <2>8
    <2> HIDE DEF t
    <2>13. TasksTrue'
        <3> SUFFICES ASSUME NEW v \in Workers PROVE TaskTrue(req[v])'
            BY DEF TasksTrue
        <3>1. PICK x \in Tasks : x = req[v]
            BY <2>11
        <3>2. TaskTrue(x)'
            BY <2>6, <3>1 DEF Inv, TasksTrue, StillTrue
        <3>3. v # w => req'[v] = x
            BY <2>11, <3>1
        <3>4. v = w => req'[v] = u
            BY <2>11
        <3> QED BY <2>10, <3>2, <3>3, <3>4
    <2>14. CalledOnce'
        BY <2>9, <2>11, <2>12 DEF Inv, CalledOnce, Doing
    <2> QED BY <2>6, <2>11, <2>13, <2>14 DEF Inv
<1> QED BY <1>1, <1>3, <1>4

(* The answer of Razorpay is noted, or what it holds adopted.               *)
LEMMA RefNoted ==
    ASSUME Inv, NEW w \in Workers, NEW op \in {"note", "adopt"}, Doing(w, op),
           Do(w, "settle", req[w].ret, req[w].id, req[w].result),
           \/ returns' = returns
           \/ Edit(req[w].ret, [returns[req[w].ret] EXCEPT !.ref = req[w].id]),
           UNCHANGED <<order, stock, parcels, gateway, told>>
    PROVE  Inv'
<1>1. PICK r \in Returns : r = req[w].ret
    BY AtTask DEF Inv, Ops
<1>2. req[w].id \in {0} \cup Refunds /\ req[w].result \in Results /\ TaskTrue(req[w])
    BY AtTask DEF Inv, Ops, TasksTrue
<1> DEFINE n == req[w].id
           c == returns[r]
           d == [c EXCEPT !.ref = n]
<1>3. PICK t \in Tasks : t = [op |-> "settle", ret |-> r, id |-> n, result |-> req[w].result]
    BY <1>1, <1>2, NewTask DEF Ops
<1>4. Turn(w, t) /\ t.op # "call" /\ TaskTrue(t) /\ n \in RefundsOf(r)
    BY <1>1, <1>2, <1>3 DEF TaskTrue, Doing, Do, Turn
<1>5. CASE returns' = returns
    BY <1>4, <1>5, TurnOnly DEF Inv, TypeOK
<1>6. CASE Edit(r, d)
    <2>1. c \in Request /\ DocFits(c) /\ ParcelFits(c, parcels[r])
        BY <1>2, Document
    <2>2. /\ d \in Request /\ d.status = c.status /\ d.type = c.type /\ d.quantity = c.quantity
          /\ d.refund = c.refund /\ d.amount = c.amount /\ d.ref = n /\ d.attempted = c.attempted
          /\ d.overlooked = c.overlooked
        BY <1>2, <2>1 DEF Request
    <2>3. Follows(c, n) /\ \A m \in RefundsOf(r) : m = n
        BY <1>2, <1>4 DEF Inv, Papers, Trail
    <2>4. DocFits(d) /\ ParcelFits(d, parcels[r])
        BY <2>1, <2>2, <2>3 DEF DocFits, ParcelFits, Follows, Final
    <2>5. FollowsOn(r, d)
        BY <1>4, <2>2, <2>3, <2>4 DEF FollowsOn, Follows
    <2> HIDE DEF d
    <2>6. /\ Papers' /\ StillTrue /\ Money'
          /\ req' \in [Workers -> Tasks] => TypeOK'
        BY <1>2, <1>6, <2>2, <2>4, <2>5, EditByStaff DEF Inv, TypeOK
    <2>7. TaskTrue(t)'
        BY <1>4, <2>6 DEF StillTrue
    <2> QED BY <1>4, <2>6, <2>7, EditByWorker
<1> QED BY <1>1, <1>5, <1>6

LEMMA NoteKeeps == ASSUME Inv, NEW w \in Workers, Note(w) PROVE Inv'
<1>1. \/ returns' = returns
      \/ Edit(req[w].ret, [returns[req[w].ret] EXCEPT !.ref = req[w].id])
    BY AtTask DEF Note, Inv, TypeOK, Request, Edit, Ops
<1> QED BY <1>1, RefNoted DEF Note

LEMMA AdoptKeeps == ASSUME Inv, NEW w \in Workers, Adopt(w) PROVE Inv'
<1>1. \/ returns' = returns
      \/ Edit(req[w].ret, [returns[req[w].ret] EXCEPT !.ref = req[w].id])
    BY AtTask DEF Adopt, Inv, TypeOK, Request, Edit, Ops
<1> QED BY <1>1, RefNoted DEF Adopt

\* The document of a refund whose end is known.
Ended(c, result, ref) ==
    [c EXCEPT !.status = IF result = "processed" THEN "completed" ELSE "refund_failed",
              !.refund = IF result = "processed" THEN "processed" ELSE "failed",
              !.ref = ref]

(* A refund that ended at Razorpay ends the return it was for.              *)
LEMMA OutcomeFits ==
    ASSUME Inv, NEW r \in Returns, NEW n \in RefundsOf(r), NEW result \in Final,
           gateway[n].status = result, NEW d, d = Ended(returns[r], result, n)
    PROVE  /\ d \in Request /\ DocFits(d) /\ FollowsOn(r, d) /\ d.amount = returns[r].amount
           /\ d.refund \in Reserving /\ returns[r].refund \in Reserving
           /\ returns[r].refund = "processed" => d.refund = "processed"
           /\ d.refund = result /\ d.overlooked = returns[r].overlooked
<1> DEFINE c == returns[r]
<1>1. c \in Request /\ DocFits(c) /\ ParcelFits(c, parcels[r])
    BY Document
<1>2. n \in Refunds
    BY DEF RefundsOf
<1>3. /\ d \in Request /\ d.refund = result /\ d.ref = n
      /\ d.status = IF result = "processed" THEN "completed" ELSE "refund_failed"
      /\ d.type = c.type /\ d.quantity = c.quantity /\ d.amount = c.amount
      /\ d.attempted = c.attempted /\ d.overlooked = c.overlooked
    BY <1>1, <1>2 DEF Ended, Request, Status, RefundStatus, Final
<1>4. /\ c.attempted /\ Follows(c, n) /\ \A m \in RefundsOf(r) : m = n
    BY DEF Inv, Papers, Trail
<1>5. c.refund \in Reserving /\ d.refund \in Reserving /\ c.type = "refund" /\ c.amount > 0
    BY <1>1, <1>3, <1>4 DEF Follows, Final, Reserving, DocFits
<1>6. DocFits(d)
    BY <1>3, <1>4, <1>5 DEF DocFits, Final, Reserving
<1>7. ParcelFits(d, parcels[r])
    BY <1>1, <1>3, <1>5 DEF ParcelFits
<1>8. FollowsOn(r, d)
    BY <1>3, <1>4, <1>7 DEF FollowsOn, Follows
<1>9. c.refund = "processed" => d.refund = "processed"
    BY <1>3, <1>4 DEF Follows, Final
<1> QED BY <1>3, <1>5, <1>6, <1>8, <1>9

(* settleReturnRefund.                                                      *)
LEMMA SettleKeeps == ASSUME Inv, NEW w \in Workers, Settle(w) PROVE Inv'
<1>1. Doing(w, "settle") /\ Turn(w, Idle) /\ UNCHANGED <<stock, parcels, gateway, told>>
    BY DEF Settle, Finish, Turn
<1>2. PICK r \in Returns : r = req[w].ret
    BY <1>1, AtTask DEF Inv, Ops
<1>3. req[w].id \in RefundsOf(r) /\ (req[w].result \in Final => gateway[req[w].id].status = req[w].result)
    BY <1>1, <1>2 DEF Inv, TasksTrue, TaskTrue, Doing
<1>4. CASE ~Settles(w)
    BY <1>1, <1>4, IdleIsTask, TurnOnly DEF Settle, Inv, TypeOK
<1>5. CASE Settles(w)
    <2>1. PICK n \in RefundsOf(r), result \in Final : n = req[w].id /\ result = req[w].result
        BY <1>3, <1>5 DEF Settles, Final
    <2>2. PICK d : d = Ended(returns[r], result, n)
        OBVIOUS
    <2>3. n \in Refunds /\ returns[r].ref = n /\ gateway[n].status = result
        BY <1>2, <1>3, <1>5, <2>1 DEF Settles, RefundsOf
    <2>4. Edit(r, d)
        <3>1. returns' = Settled(r, result) /\ returns \in [Returns -> Request] /\ n \in {0} \cup Refunds
            BY <1>2, <1>5, <2>1, <2>3 DEF Settle, Inv, TypeOK
        <3>2. Settled(r, result) = [returns EXCEPT ![r] = Ended(returns[r], result, n)]
            <4>1. CASE result = "processed"
                BY <4>1, <2>3, <3>1 DEF Settled, Ended, Request
            <4>2. CASE result = "failed"
                BY <4>2, <2>3, <3>1 DEF Settled, Ended, Request
            <4> QED BY <2>1, <4>1, <4>2 DEF Final
        <3> QED BY <2>2, <3>1, <3>2 DEF Edit
    <2>5. /\ d \in Request /\ DocFits(d) /\ FollowsOn(r, d) /\ d.amount = returns[r].amount
          /\ d.refund \in Reserving /\ returns[r].refund \in Reserving
          /\ returns[r].refund = "processed" => d.refund = "processed"
          /\ d.refund = result /\ d.overlooked = returns[r].overlooked
        BY <2>1, <2>2, <2>3, OutcomeFits
    <2>6. \/ order' = order
          \/ d.refund = "processed" /\ order' = [order EXCEPT !.pay = PaidBack(Processed \cup {r})]
        BY <1>2, <1>5, <2>1, <2>5 DEF Settle
    <2>7. /\ Papers' /\ StillTrue /\ Money'
          /\ req' \in [Workers -> Tasks] => TypeOK'
        BY <1>1, <2>4, <2>5, <2>6, EditByStaff DEF Inv, TypeOK
    <2> QED BY <1>1, <2>7, IdleIsTask, EditByWorker
<1> QED BY <1>4, <1>5

(* razorpayWebhook saves the request its event is about.                    *)
LEMMA HookSaveKeeps == ASSUME Inv, NEW w \in Workers, HookSave(w) PROVE Inv'
<1>1. Doing(w, "hook") /\ UNCHANGED <<order, stock, parcels, gateway, told>>
    BY DEF HookSave
<1>2. PICK r \in Returns : r = req[w].ret
    BY <1>1, AtTask DEF Inv, Ops
<1>3. /\ req[w].id \in RefundsOf(r) /\ req[w].result \in Final
      /\ gateway[req[w].id].status = req[w].result
    BY <1>1, <1>2 DEF Inv, TasksTrue, TaskTrue, Doing
<1>4. PICK n \in RefundsOf(r), result \in Final : n = req[w].id /\ result = req[w].result
    BY <1>3
<1>5. PICK d : d = Ended(returns[r], result, n)
    OBVIOUS
<1>6. n \in Refunds /\ gateway[n].status = result /\ result \in Results
    BY <1>3, <1>4 DEF RefundsOf, Final, Results
<1>7. Edit(r, d)
    <2>1. /\ returns' = [Settled(r, result) EXCEPT ![r].ref = n]
          /\ returns \in [Returns -> Request] /\ n \in {0} \cup Refunds
        BY <1>2, <1>4, <1>6 DEF HookSave, Inv, TypeOK
    <2>2. [Settled(r, result) EXCEPT ![r].ref = n] = [returns EXCEPT ![r] = Ended(returns[r], result, n)]
        <3>1. CASE result = "processed"
            BY <3>1, <1>6, <2>1 DEF Settled, Ended, Request
        <3>2. CASE result = "failed"
            BY <3>2, <1>6, <2>1 DEF Settled, Ended, Request
        <3> QED BY <1>4, <3>1, <3>2 DEF Final
    <2> QED BY <1>5, <2>1, <2>2 DEF Edit
<1>8. /\ d \in Request /\ DocFits(d) /\ FollowsOn(r, d) /\ d.amount = returns[r].amount
      /\ d.refund \in Reserving /\ returns[r].refund \in Reserving
      /\ returns[r].refund = "processed" => d.refund = "processed"
      /\ d.refund = result /\ d.overlooked = returns[r].overlooked
    BY <1>4, <1>5, <1>6, OutcomeFits
<1>9. PICK t \in Tasks : t = [op |-> "hookorder", ret |-> r, id |-> n, result |-> result]
    BY <1>6, NewTask DEF Ops
<1>10. Turn(w, t) /\ t.op # "call"
    BY <1>2, <1>4, <1>9 DEF HookSave, Do, Turn
<1>11. /\ Papers' /\ StillTrue /\ Money'
       /\ req' \in [Workers -> Tasks] => TypeOK'
    BY <1>1, <1>7, <1>8, EditByStaff DEF Inv, TypeOK
<1>12. TaskTrue(t)'
    <2>1. returns'[r].refund = result
        BY <1>7, <1>8, EditOf DEF Inv, TypeOK
    <2>2. n \in RefundsOf(r)' /\ gateway'[n].status = result
        BY <1>1, <1>6 DEF RefundsOf
    <2>3. t.op = "hookorder" /\ t.ret = r /\ t.id = n /\ t.result = result
        BY <1>9
    <2> QED BY <2>1, <2>2, <2>3, <1>4 DEF TaskTrue
<1> QED BY <1>10, <1>11, <1>12, EditByWorker

(* completeManualReturnRefund.                                              *)
LEMMA CompleteManualKeeps == ASSUME Inv, NEW r \in Returns, CompleteManual(r) PROVE Inv'
<1> DEFINE c == returns[r]
           d == [c EXCEPT !.status = "completed", !.refund = "processed"]
<1>1. c \in Request /\ DocFits(c) /\ ParcelFits(c, parcels[r]) /\ c.status = "manual_action_required"
    BY Document DEF CompleteManual
<1>2. Edit(r, d)
    BY <1>1 DEF CompleteManual, Edit, Inv, TypeOK, Request
<1>3. /\ d \in Request /\ d.status = "completed" /\ d.refund = "processed" /\ d.type = c.type
      /\ d.quantity = c.quantity /\ d.amount = c.amount /\ d.ref = c.ref /\ d.attempted = c.attempted
      /\ d.overlooked = c.overlooked
    BY <1>1 DEF Request, Status, RefundStatus
<1>4. c.refund = "manual_required" /\ c.type = "refund" /\ RefundsOf(r) = {}
    <2>1. c.refund = "manual_required" /\ c.type = "refund"
        BY <1>1 DEF DocFits, Reserving
    <2>2. \A n \in RefundsOf(r) : Follows(c, n)
        BY DEF Inv, Papers, Trail
    <2> QED BY <2>1, <2>2 DEF Follows, Final
<1>5. DocFits(d) /\ ParcelFits(d, parcels[r])
    BY <1>1, <1>3, <1>4 DEF DocFits, ParcelFits, Reserving
<1>6. FollowsOn(r, d)
    BY <1>3, <1>4, <1>5 DEF FollowsOn, Inv, Papers, Trail
<1> HIDE DEF d
<1>7. /\ d.refund \in Reserving /\ c.refund \in Reserving /\ d.refund = "processed"
      /\ order' = [order EXCEPT !.pay = PaidBack(Processed \cup {r})]
      /\ stock' \in Nat /\ UNCHANGED <<gateway, parcels, told>> /\ req' = req
    BY <1>3, <1>4 DEF Reserving, CompleteManual, Inv, TypeOK
<1> QED BY <1>2, <1>3, <1>5, <1>6, <1>7, EditByStaff

-----------------------------------------------------------------------------
(* The inspection promises what is left of the total, and no more.          *)

LEMMA WorthType ==
    ASSUME TypeOK, NEW r \in Returns, returns[r].quantity > 0, NEW accepted \in Nat
    PROVE  Worth(r, accepted) \in Nat
<1>1. returns[r].share \in Nat /\ returns[r].quantity \in Nat \ {0}
    BY UnitsAssumption DEF TypeOK, Request, Units
<1>2. returns[r].share * accepted \in Nat
    BY <1>1
<1> QED BY <1>1, <1>2, Divides DEF Worth

LEMMA MoneyType ==
    ASSUME TypeOK
    PROVE  /\ Promises \in SUBSET Returns /\ Informed \in SUBSET Promises /\ Informed \in SUBSET Returns
           /\ Promised \in Nat /\ Sum(Amounts, Informed) \in Nat /\ Sum(Amounts, Informed) <= Promised
           /\ OwnBack \in Nat /\ OwnCounted \in Nat /\ GrandTotal \in Nat
<1>1. Promises \in SUBSET Returns /\ Informed \in SUBSET Promises /\ Informed \in SUBSET Returns
    BY DEF Promises, Informed
<1>2. GrandTotal \in Nat /\ order.recorded \in {0, GrandTotal}
    BY MoneyAssumption DEF TypeOK, OrderDoc
<1> QED BY <1>1, <1>2, AmountsType DEF Promised, OwnBack, OwnCounted

LEMMA PromiseFits ==
    ASSUME Inv, NEW r \in Returns, returns[r].status = "received", NEW accepted \in Nat
    PROVE  /\ Used(r) = OwnCounted + Promised /\ Used(r) \in Nat
           /\ RefundOf(r, accepted) \in Int
           /\ RefundOf(r, accepted) + Used(r) <= GrandTotal
<1>1. returns[r].refund \notin Reserving /\ returns[r].quantity > 0
    BY Document DEF DocFits, Reserving
<1>2. {s \in Returns \ {r} : returns[s].refund \in Reserving} = Promises
    BY <1>1 DEF Promises
<1>3. Used(r) = OwnCounted + Promised
    BY <1>2 DEF Used, Promised
<1>4. Promised \in Nat /\ OwnCounted \in Nat /\ GrandTotal \in Nat
    BY MoneyType DEF Inv
<1>5. Worth(r, accepted) \in Nat
    BY <1>1, WorthType DEF Inv
<1> DEFINE W == Worth(r, accepted)
           U == Used(r)
<1>6. RefundOf(r, accepted) = W - Most(0, W + U - GrandTotal)
    BY DEF RefundOf, Overage
<1>7. W \in Nat /\ U \in Nat
    BY <1>3, <1>4, <1>5
<1> HIDE DEF W, U
<1>8. RefundOf(r, accepted) \in Int /\ RefundOf(r, accepted) + U <= GrandTotal
    BY <1>4, <1>6, <1>7 DEF Most
<1> QED BY <1>3, <1>4, <1>7, <1>8 DEF U

LEMMA MoneyPromised ==
    ASSUME Inv, NEW r \in Returns, NEW d \in Request, Edit(r, d), returns[r].status = "received",
           d.refund \in {"pending", "manual_required"}, NEW accepted \in Nat,
           d.amount = RefundOf(r, accepted), d.overlooked = (OwnCounted < OwnBack), order' = order
    PROVE  Money'
<1>1. /\ returns' \in [Returns -> Request]
      /\ returns'[r] = d
      /\ \A s \in Returns : s # r => returns'[s] = returns[s]
    BY EditOf DEF Inv, TypeOK
<1>2. returns[r].refund = "not_required"
    BY Document DEF DocFits, Request, RefundStatus
<1>3. Promises' = Promises \cup {r} /\ r \notin Promises /\ Processed' = Processed
    BY <1>1, <1>2 DEF Promises, Processed, Reserving
<1>4. \A s \in Returns : Amounts'[s] = returns'[s].amount /\ returns'[s].amount \in Nat
    BY <1>1 DEF Amounts, Request
<1>5. \A s \in Returns : s # r => Amounts'[s] = Amounts[s]
    BY <1>1, <1>4 DEF Amounts
<1>6. /\ Processed \in SUBSET Returns /\ r \notin Processed /\ r \notin Informed
    BY <1>2, <1>3 DEF Processed, Informed
<1>7. \A S \in SUBSET Returns : r \notin S => Sum(Amounts', S) = Sum(Amounts, S)
    <2> TAKE S \in SUBSET Returns
    <2> HAVE r \notin S
    <2>1. IsFiniteSet(S) /\ NatOn(Amounts, S) /\ \A s \in S : Amounts[s] = Amounts'[s]
        BY <1>5, AmountsType DEF Inv
    <2> QED BY <2>1, SumSame
<1>8. ASSUME NEW S \in SUBSET Returns, r \notin S
      PROVE  Sum(Amounts', S \cup {r}) = d.amount + Sum(Amounts, S)
    <2>1. IsFiniteSet(S) /\ NatOn(Amounts', S \cup {r})
        BY <1>4, AmountsType DEF Inv, NatOn
    <2>2. Sum(Amounts', S \cup {r}) = Amounts'[r] + Sum(Amounts', S)
        BY <1>8, <2>1, SumInsert
    <2>3. Amounts'[r] = d.amount
        BY <1>1, <1>4
    <2> QED BY <1>7, <1>8, <2>2, <2>3
<1>9. /\ Promised \in Nat /\ Sum(Amounts, Informed) \in Nat /\ Sum(Amounts, Informed) <= Promised
      /\ OwnBack \in Nat /\ OwnCounted \in Nat /\ GrandTotal \in Nat /\ d.amount \in Nat
      /\ Promises \in SUBSET Returns /\ Informed \in SUBSET Returns
    BY MoneyType DEF Inv, Request
<1>10. OwnCounted + Promised + d.amount <= GrandTotal /\ OwnBack + Sum(Amounts, Informed) <= GrandTotal
    <2>1. Used(r) = OwnCounted + Promised /\ d.amount + Used(r) <= GrandTotal
        BY PromiseFits
    <2>2. OwnBack + Sum(Amounts, Informed) <= GrandTotal
        BY DEF Inv, Money, RefundsWithinTotal
    <2> QED BY <1>9, <2>1, <2>2
<1>11. Promised' <= GrandTotal
    <2>1. Promised' = d.amount + Promised
        BY <1>3, <1>8, <1>9 DEF Promised
    <2> QED BY <1>9, <1>10, <2>1
<1>12. OwnBack' + Sum(Amounts', Informed') <= GrandTotal
    <2>1. OwnBack' = OwnBack
        BY DEF OwnBack
    <2>2. CASE d.overlooked = TRUE
        <3>1. Informed' = Informed
            <4>1. ASSUME NEW s \in Returns PROVE s \in Informed' <=> s \in Informed
                <5>1. CASE s = r
                    BY <1>1, <1>3, <2>2, <5>1 DEF Informed
                <5>2. CASE s # r
                    BY <1>1, <1>3, <5>2 DEF Informed
                <5> QED BY <5>1, <5>2
            <4> QED BY <4>1 DEF Informed, Promises
        <3>2. Sum(Amounts', Informed') = Sum(Amounts, Informed)
            BY <1>6, <1>7, <1>9, <3>1
        <3> QED BY <1>10, <2>1, <3>2
    <2>3. CASE d.overlooked = FALSE
        <3>1. Informed' = Informed \cup {r}
            <4>1. ASSUME NEW s \in Returns PROVE s \in Informed' <=> s \in Informed \cup {r}
                <5>1. CASE s = r
                    BY <1>1, <1>3, <2>3, <5>1 DEF Informed
                <5>2. CASE s # r
                    BY <1>1, <1>3, <5>2 DEF Informed
                <5> QED BY <5>1, <5>2
            <4> QED BY <4>1 DEF Informed, Promises
        <3>2. Sum(Amounts', Informed') = d.amount + Sum(Amounts, Informed)
            BY <1>6, <1>8, <1>9, <3>1
        <3>3. ~(OwnCounted < OwnBack)
            BY <2>3
        <3>4. OwnBack <= OwnCounted
            BY <1>9, <3>3
        <3> QED BY <1>9, <1>10, <2>1, <3>2, <3>4
    <2> QED BY <2>2, <2>3 DEF Request
<1>13. LabelIsReal'
    <2>1. Sum(Amounts', Processed') = Sum(Amounts, Processed)
        BY <1>3, <1>6, <1>7
    <2>2. order'.pay = "refunded" => order'.sent = "processed" \/ Sum(Amounts', Processed') >= GrandTotal
        BY <2>1 DEF Inv, Money, LabelIsReal
    <2> QED BY <2>2 DEF LabelIsReal
<1> QED BY <1>11, <1>12, <1>13 DEF Money, RefundsWithinTotal

\* What an inspection leaves: no refund, or the promise of one.
Judged(r, accepted, d) ==
    /\ d \in Request /\ DocFits(d) /\ ~d.attempted /\ d.ref = 0
    /\ d.type = returns[r].type
    /\ d.status # "none"
    /\ d.status = "completed" => d.type = "refund"
    /\ \/ SameRefund(returns[r], d)
       \/ /\ d.refund \in {"pending", "manual_required"} /\ d.amount = RefundOf(r, accepted)
          /\ d.overlooked = (OwnCounted < OwnBack)

LEMMA CheckedIs ==
    ASSUME Inv, NEW r \in Returns, returns[r].status = "received",
           NEW accepted \in 0 .. returns[r].quantity, NEW d, d = Checked(r, accepted),
           accepted > 0 /\ returns[r].type = "refund" => RefundOf(r, accepted) >= 0
    PROVE  Judged(r, accepted, d) /\ accepted \in Nat
<1> DEFINE c == returns[r]
           amount == RefundOf(r, accepted)
<1>1. c \in Request /\ DocFits(c)
    BY Document
<1>2. /\ c.refund = "not_required" /\ c.amount = 0 /\ c.ref = 0 /\ ~c.attempted /\ c.quantity > 0
      /\ c.type \in {"refund", "replacement"}
    BY <1>1 DEF DocFits, Request, RefundStatus
<1>3. accepted \in Units /\ accepted \in Nat
    BY <1>1, UnitsAssumption DEF Request, Units
<1>0. PICK blind \in BOOLEAN : blind = (OwnCounted < OwnBack)
    <2>1. CASE OwnCounted < OwnBack
        BY <2>1, Zenon
    <2>2. CASE ~(OwnCounted < OwnBack)
        <3>1. OwnCounted \in Nat /\ OwnBack \in Nat
            BY MoneyType DEF Inv
        <3>2. FALSE = (OwnCounted < OwnBack)
            BY <2>2, <3>1
        <3> QED BY <3>2
    <2> QED BY <2>1, <2>2
<1> DEFINE e == [c EXCEPT !.accepted = accepted, !.overlooked = blind]
<1>4. /\ e \in Request /\ e.type = c.type /\ e.quantity = c.quantity /\ SameRefund(c, e)
      /\ e.overlooked = blind
    BY <1>1, <1>2, <1>3 DEF Request, SameRefund, Reserving
<1>5. amount \in Int /\ (accepted > 0 /\ c.type = "refund" => amount \in Nat)
    BY <1>3, PromiseFits
<1> HIDE DEF e, amount
<1>6. \/ d = [e EXCEPT !.status = "qc_failed"]
      \/ e.type = "replacement" /\ d = [e EXCEPT !.status = "replacement_pending"]
      \/ e.type = "refund" /\ d = [e EXCEPT !.status = "completed"]
      \/ /\ e.type = "refund" /\ amount > 0
         /\ d = [e EXCEPT !.status = "refund_pending", !.refund = "pending", !.amount = amount]
      \/ /\ e.type = "refund" /\ amount > 0
         /\ d = [e EXCEPT !.status = "manual_action_required", !.refund = "manual_required",
                         !.amount = amount]
    BY <1>0, <1>2, <1>3, <1>4, <1>5 DEF Checked, e, amount
<1>7. CASE \E status \in {"qc_failed", "replacement_pending", "completed"} :
              /\ d = [e EXCEPT !.status = status]
              /\ status = "replacement_pending" => e.type = "replacement"
              /\ status = "completed" => e.type = "refund"
    <2>1. PICK status \in {"qc_failed", "replacement_pending", "completed"} :
              /\ d = [e EXCEPT !.status = status]
              /\ status = "replacement_pending" => e.type = "replacement"
              /\ status = "completed" => e.type = "refund"
        BY <1>7
    <2>2. /\ d \in Request /\ d.status = status /\ d.type = e.type /\ SameRefund(e, d)
        BY <1>4, <2>1 DEF Request, Status, SameRefund
    <2>3. DocFits(d)
        BY <1>2, <1>4, <2>1, <2>2 DEF DocFits, SameRefund, Reserving
    <2> QED BY <1>2, <1>3, <1>4, <2>1, <2>2, <2>3 DEF Judged, SameRefund
<1>8. CASE /\ e.type = "refund" /\ amount > 0
           /\ \/ d = [e EXCEPT !.status = "refund_pending", !.refund = "pending", !.amount = amount]
              \/ d = [e EXCEPT !.status = "manual_action_required", !.refund = "manual_required",
                              !.amount = amount]
    <2>1. /\ d \in Request /\ d.type = e.type /\ d.attempted = e.attempted /\ d.ref = e.ref
          /\ d.amount = amount /\ d.overlooked = blind
          /\ \/ d.status = "refund_pending" /\ d.refund = "pending"
             \/ d.status = "manual_action_required" /\ d.refund = "manual_required"
        <3>1. amount \in Nat
            BY <1>5, <1>8
        <3>2. CASE d = [e EXCEPT !.status = "refund_pending", !.refund = "pending", !.amount = amount]
            BY <1>4, <3>1, <3>2 DEF Request, Status, RefundStatus
        <3>3. CASE d = [e EXCEPT !.status = "manual_action_required", !.refund = "manual_required",
                                !.amount = amount]
            BY <1>4, <3>1, <3>3 DEF Request, Status, RefundStatus
        <3> QED BY <1>8, <3>2, <3>3
    <2>2. DocFits(d)
        BY <1>8, <2>1 DEF DocFits, Reserving
    <2> QED BY <1>0, <1>2, <1>3, <1>4, <2>1, <2>2 DEF Judged, SameRefund, amount
<1> QED BY <1>6, <1>7, <1>8

LEMMA InspectKeeps ==
    ASSUME Inv, NEW w \in Workers, NEW r \in Returns, Inspect(w, r)
    PROVE  Inv'
<1>1. PICK accepted \in 0 .. returns[r].quantity, restock \in BOOLEAN :
         /\ returns' = [returns EXCEPT ![r] = Checked(r, accepted)]
         /\ stock' = IF restock THEN stock + accepted ELSE stock
         /\ accepted > 0 /\ returns[r].type = "refund" => RefundOf(r, accepted) >= 0
    BY DEF Inspect
<1>2. PICK d : d = Checked(r, accepted)
    OBVIOUS
<1>3. returns[r].status = "received" /\ UNCHANGED <<order, parcels, gateway, told>>
    BY DEF Inspect
<1>4. Judged(r, accepted, d) /\ accepted \in Nat
    BY <1>1, <1>2, <1>3, CheckedIs
<1>5. Edit(r, d) /\ d \in Request
    BY <1>1, <1>2, <1>4 DEF Edit, Judged
<1>6. /\ returns[r].refund = "not_required" /\ ~returns[r].attempted /\ ParcelFits(returns[r], parcels[r])
      /\ returns[r].amount = 0 /\ returns[r] \in Request
    BY <1>3, Document DEF DocFits, Request, RefundStatus
<1>7. RefundsOf(r) = {}
    BY <1>6 DEF Inv, Papers, Trail, Follows, Final
<1>8. ParcelFits(d, parcels[r])
    <2>1. /\ parcels[r].sent = 0 <=> parcels[r].at = "none"
          /\ parcels[r].sent # 0 => d.type = "replacement" /\ d.status # "none"
        BY <1>4, <1>6 DEF ParcelFits, Judged
    <2>2. ~(d.type = "replacement" /\ d.status = "completed")
        BY <1>4 DEF Judged
    <2> QED BY <2>1, <2>2 DEF ParcelFits
<1>9. FollowsOn(r, d)
    BY <1>4, <1>6, <1>7, <1>8 DEF FollowsOn, Judged, SameRefund
<1>10. Papers' /\ StillTrue /\ returns' \in [Returns -> Request]
    BY <1>3, <1>4, <1>5, <1>9, EditFollows DEF Inv, Judged, SentStays
<1>11. Money'
    <2>1. CASE SameRefund(returns[r], d)
        BY <1>3, <1>5, <2>1, MoneyFollows DEF Inv, SameRefund
    <2>2. CASE /\ d.refund \in {"pending", "manual_required"} /\ d.amount = RefundOf(r, accepted)
               /\ d.overlooked = (OwnCounted < OwnBack)
        BY <1>3, <1>4, <1>5, <2>2, MoneyPromised
    <2> QED BY <1>4, <2>1, <2>2 DEF Judged
<1>12. stock' \in Nat
    BY <1>1, <1>4 DEF Inv, TypeOK
<1>13. req' \in [Workers -> Tasks] => TypeOK'
    BY <1>3, <1>10, <1>12 DEF Inv, TypeOK, Tasks
<1>14. \/ req' = req
       \/ \E op \in {"claim", "replace"} : Do(w, op, r, 0, "none")
    BY DEF Inspect
<1>15. CASE req' = req
    <2>1. req \in [Workers -> Tasks]
        BY DEF Inv, TypeOK, Tasks
    <2>2. TasksTrue'
        BY <1>10, <1>15, <2>1 DEF Inv, TasksTrue, StillTrue
    <2>3. CalledOnce'
        BY <1>15 DEF Inv, CalledOnce, Doing
    <2> QED BY <1>10, <1>11, <1>13, <1>15, <2>1, <2>2, <2>3 DEF Inv
<1>16. CASE \E op \in {"claim", "replace"} : Do(w, op, r, 0, "none")
    <2>1. PICK op \in {"claim", "replace"} : Do(w, op, r, 0, "none")
        BY <1>16
    <2>2. PICK t \in Tasks : t = [op |-> op, ret |-> r, id |-> 0, result |-> "none"]
        BY <2>1, NewTask DEF Ops, Results
    <2>3. Turn(w, t) /\ t.op # "call" /\ TaskTrue(t)'
        BY <2>1, <2>2 DEF Do, Turn, TaskTrue
    <2> QED BY <1>10, <1>11, <1>13, <2>3, EditByWorker
<1> QED BY <1>14, <1>15, <1>16

-----------------------------------------------------------------------------
(* Razorpay accepts a refund, and settles it.                               *)

LEMMA CallAcceptedKeeps == ASSUME Inv, NEW w \in Workers, CallAccepted(w) PROVE Inv'
<1>1. Doing(w, "call") /\ UNCHANGED <<order, returns, stock, parcels, told>>
    BY DEF CallAccepted
<1>2. PICK r \in Returns : r = req[w].ret
    BY <1>1, AtTask DEF Inv, Ops
<1>3. PICK n \in Refunds, result \in {"pending", "processed"}, lost \in BOOLEAN :
         /\ gateway[n].status = "none"
         /\ gateway' = [gateway EXCEPT ![n] =
                          [ret |-> r, amount |-> returns[r].amount, status |-> result]]
         /\ IF lost THEN Finish(w) ELSE Do(w, "note", r, n, result)
    BY <1>2 DEF CallAccepted
<1>4. RefundsOf(r) = {} /\ returns[r].attempted /\ returns[r].refund = "pending"
    BY <1>1, <1>2 DEF Inv, TasksTrue, TaskTrue, Doing
<1>5. /\ gateway' \in [Refunds -> [ret : Returns, amount : Nat,
                                  status : {"none", "pending", "processed", "failed"}]]
      /\ gateway'[n].ret = r /\ gateway'[n].amount = returns[r].amount /\ gateway'[n].status = result
      /\ \A m \in Refunds : m # n => gateway'[m] = gateway[m]
    <2>1. returns[r].amount \in Nat
        BY DEF Inv, TypeOK, Request
    <2> QED BY <1>3, <2>1 DEF Inv, TypeOK
<1>6. RefundsOf(r)' = {n} /\ \A s \in Returns : s # r => RefundsOf(s)' = RefundsOf(s)
    <2>1. RefundsOf(r)' = {n}
        BY <1>3, <1>4, <1>5 DEF RefundsOf
    <2>2. ASSUME NEW s \in Returns, s # r PROVE RefundsOf(s)' = RefundsOf(s)
        BY <1>3, <1>5, <2>2 DEF RefundsOf
    <2> QED BY <2>1, <2>2
<1>7. \A s \in Returns : n \notin RefundsOf(s)
    BY <1>3 DEF RefundsOf
<1>8. Docs' /\ ParcelsFit'
    BY <1>1 DEF Inv, Papers, Docs, ParcelsFit
<1>9. Trail'
    <2>1. ASSUME NEW s \in Returns
          PROVE  /\ \A m \in RefundsOf(s)' :
                       returns[s].attempted /\ returns[s].amount = gateway'[m].amount
                       /\ Follows(returns[s], m)'
                 /\ \A m, k \in RefundsOf(s)' : m = k
                 /\ returns[s].ref # 0 => returns[s].ref \in RefundsOf(s)'
                 /\ returns[s].refund = "failed" => RefundsOf(s)' # {}
        <3>1. CASE s = r
            BY <1>1, <1>4, <1>5, <1>6, <3>1 DEF Inv, Papers, Trail, Follows
        <3>2. CASE s # r
            <4>1. \A m \in RefundsOf(s) : gateway'[m] = gateway[m]
                BY <1>5, <1>7 DEF RefundsOf
            <4>2. RefundsOf(s)' = RefundsOf(s)
                BY <1>6, <3>2
            <4> QED BY <1>1, <4>1, <4>2 DEF Inv, Papers, Trail, Follows
        <3> QED BY <3>1, <3>2
    <2> QED BY <1>1, <2>1 DEF Trail
<1>10. PICK t \in Tasks :
         \/ lost /\ t = Idle
         \/ ~lost /\ t = [op |-> "note", ret |-> r, id |-> n, result |-> result]
    <2>1. result \in Results /\ n \in {0} \cup Refunds
        BY <1>3 DEF Results
    <2> QED BY <2>1, IdleIsTask, NewTask DEF Ops
<1>11. Turn(w, t) /\ t.op # "call"
    BY <1>3, <1>10 DEF Finish, Do, Turn, Idle
<1>12. TaskTrue(t)'
    <2>1. CASE t = Idle
        BY <2>1, IdleIsTask
    <2>2. CASE t = [op |-> "note", ret |-> r, id |-> n, result |-> result]
        BY <1>5, <1>6, <2>2 DEF TaskTrue
    <2> QED BY <1>10, <2>1, <2>2
<1>13. ASSUME NEW u \in Tasks, TaskTrue(u), NEW v \in Workers \ {w}, u = req[v] PROVE TaskTrue(u)'
    <2>1. CASE u = Idle
        BY <2>1, IdleIsTask
    <2>2. CASE u \in Task
        <3>1. u.ret \in Returns
            BY <2>2 DEF Task
        <3>2. u.op = "call" => u.ret # r
            BY <1>1, <1>2, <1>13 DEF Inv, CalledOnce, Doing
        <3>3. u.id \in RefundsOf(u.ret) => u.id \in RefundsOf(u.ret)' /\ gateway'[u.id] = gateway[u.id]
            BY <1>4, <1>5, <1>6, <1>7, <3>1 DEF RefundsOf
        <3>4. u.op = "call" => RefundsOf(u.ret)' = RefundsOf(u.ret)
            BY <1>6, <3>1, <3>2
        <3> QED BY <1>1, <1>13, <3>3, <3>4 DEF TaskTrue
    <2>3. CASE u \in OwnTask
        BY <1>1, <1>13, <2>3, OwnKept DEF SentStays
    <2> QED BY <2>1, <2>2, <2>3 DEF Tasks
<1>14. TasksTrue' /\ CalledOnce' /\ req' \in [Workers -> Tasks]
    BY <1>11, <1>12, <1>13, TasksTurn DEF Inv
<1>15. Money'
    BY <1>1, MoneyUnmoved DEF Inv
<1>16. TypeOK'
    BY <1>1, <1>5, <1>14 DEF Inv, TypeOK, Tasks
<1> QED BY <1>8, <1>9, <1>14, <1>15, <1>16 DEF Inv, Papers

LEMMA GatewaySettlesKeeps == ASSUME Inv, NEW n \in Refunds, GatewaySettles(n) PROVE Inv'
<1>1. gateway[n].status = "pending" /\ UNCHANGED <<order, returns, stock, parcels, told, req>>
    BY DEF GatewaySettles
<1>2. PICK result \in Final : gateway' = [gateway EXCEPT ![n].status = result]
    BY DEF GatewaySettles, Final
<1>3. /\ gateway' \in [Refunds -> [ret : Returns, amount : Nat,
                                  status : {"none", "pending", "processed", "failed"}]]
      /\ gateway'[n].ret = gateway[n].ret /\ gateway'[n].amount = gateway[n].amount
      /\ gateway'[n].status = result
      /\ \A m \in Refunds : m # n => gateway'[m] = gateway[m]
    BY <1>2 DEF Inv, TypeOK, Final
<1>4. ASSUME NEW s PROVE RefundsOf(s)' = RefundsOf(s)
    BY <1>1, <1>2, <1>3 DEF RefundsOf, Final
<1>5. \A s \in Returns : \A m \in RefundsOf(s) :
         gateway'[m].amount = gateway[m].amount /\ Follows(returns[s], m)'
    <2> SUFFICES ASSUME NEW s \in Returns, NEW m \in RefundsOf(s)
                 PROVE  gateway'[m].amount = gateway[m].amount /\ Follows(returns[s], m)'
        OBVIOUS
    <2>1. m \in Refunds /\ Follows(returns[s], m)
        BY DEF Inv, Papers, Trail, RefundsOf
    <2> QED BY <1>1, <1>3, <2>1 DEF Follows, Final
<1>6. Trail'
    BY <1>1, <1>4, <1>5 DEF Inv, Papers, Trail
<1>7. Docs' /\ ParcelsFit'
    BY <1>1 DEF Inv, Papers, Docs, ParcelsFit
<1>8. ASSUME NEW v \in Workers PROVE TaskTrue(req[v])'
    <2>1. PICK u \in Tasks : u = req[v] /\ TaskTrue(u)
        BY DEF Inv, TypeOK, TasksTrue, Tasks
    <2>2. u.id \in RefundsOf(u.ret) /\ (u.result \in Final => gateway[u.id].status = u.result)
            => (u.result \in Final => gateway'[u.id].status = u.result)
        BY <1>1, <1>3 DEF RefundsOf, Final
    <2>3. TaskTrue(u)'
        BY <1>1, <1>4, <2>1, <2>2 DEF TaskTrue
    <2>4. req'[v] = u
        BY <1>1, <2>1
    <2> QED BY <2>3, <2>4
<1>9. TasksTrue' /\ CalledOnce'
    BY <1>1, <1>8 DEF Inv, TasksTrue, CalledOnce, Doing
<1>10. Money'
    BY <1>1, MoneyUnmoved DEF Inv
<1>11. TypeOK'
    BY <1>1, <1>3 DEF Inv, TypeOK
<1> QED BY <1>6, <1>7, <1>9, <1>10, <1>11 DEF Inv, Papers

-----------------------------------------------------------------------------
(* Replacements.                                                            *)

(* A parcel changes; the document and what the worker does next fit it.     *)
LEMMA ParcelMoves ==
    ASSUME Inv, NEW w \in Workers, NEW r \in Returns, NEW t \in Tasks, Turn(w, t),
           NEW p \in [sent : {0, 1}, at : {"none", "confirmed", "shipped", "delivered"}],
           parcels' = [parcels EXCEPT ![r] = p], ParcelFits(returns[r], p),
           parcels[r].at # "delivered", t.op # "call", TaskTrue(t)', stock' \in Nat,
           UNCHANGED <<order, returns, gateway, told>>
    PROVE  Inv'
<1>1. /\ parcels' \in [Returns -> [sent : {0, 1}, at : {"none", "confirmed", "shipped", "delivered"}]]
      /\ parcels'[r] = p /\ \A s \in Returns : s # r => parcels'[s] = parcels[s]
    BY DEF Inv, TypeOK
<1>2. ASSUME NEW s PROVE RefundsOf(s)' = RefundsOf(s)
    BY DEF RefundsOf
<1>3. Docs' /\ Trail'
    BY <1>2 DEF Inv, Papers, Docs, Trail, Follows
<1>4. ParcelsFit'
    BY <1>1 DEF Inv, Papers, ParcelsFit
<1>5. StillTrue
    <2> SUFFICES ASSUME NEW u \in Tasks, TaskTrue(u) PROVE TaskTrue(u)'
        BY DEF StillTrue
    <2>1. CASE u = Idle
        BY <2>1, IdleIsTask
    <2>2. CASE u \in Task
        <3>1. u.ret \in Returns
            BY <2>2 DEF Task
        <3>2. parcels[u.ret].at = "delivered" => parcels'[u.ret].at = "delivered"
            BY <1>1, <3>1
        <3> QED BY <1>2, <3>2 DEF TaskTrue
    <2>3. CASE u \in OwnTask
        BY <2>3, OwnKept DEF SentStays
    <2> QED BY <2>1, <2>2, <2>3 DEF Tasks
<1>6. Money'
    BY MoneyUnmoved DEF Inv
<1>7. req' \in [Workers -> Tasks] => TypeOK'
    BY <1>1 DEF Inv, TypeOK, Tasks
<1> QED BY <1>3, <1>4, <1>5, <1>6, <1>7, EditByWorker DEF Papers

LEMMA ReplaceKeeps == ASSUME Inv, NEW w \in Workers, Replace(w) PROVE Inv'
<1>1. Doing(w, "replace") /\ Turn(w, Idle) /\ UNCHANGED <<order, returns, gateway, told>>
    BY DEF Replace, Finish, Turn
<1>2. PICK r \in Returns : r = req[w].ret
    BY <1>1, AtTask DEF Inv, Ops
<1>3. CASE ~Replaceable(r)
    BY <1>1, <1>2, <1>3, IdleIsTask, TurnOnly DEF Replace, Inv, TypeOK
<1>4. CASE Replaceable(r)
    <2>1. /\ returns[r].status = "replacement_pending" /\ parcels[r].sent = 0
          /\ stock >= returns[r].accepted
        BY <1>4 DEF Replaceable
    <2>2. returns[r] \in Request /\ DocFits(returns[r]) /\ ParcelFits(returns[r], parcels[r])
        BY Document
    <2>3. PICK p \in [sent : {0, 1}, at : {"none", "confirmed", "shipped", "delivered"}] :
             p = [sent |-> 1, at |-> "confirmed"]
        OBVIOUS
    <2>4. parcels' = [parcels EXCEPT ![r] = p]
        BY <1>2, <1>4, <2>1, <2>3 DEF Replace
    <2>5. ParcelFits(returns[r], p)
        BY <2>1, <2>2, <2>3 DEF ParcelFits, DocFits
    <2>6. stock' \in Nat
        BY <1>2, <1>4, <2>1, <2>2, UnitsAssumption DEF Replace, Inv, TypeOK, Request, Units
    <2>7. parcels[r].at # "delivered"
        BY <2>1, <2>2 DEF ParcelFits
    <2> QED BY <1>1, <2>4, <2>5, <2>6, <2>7, IdleIsTask, ParcelMoves
<1> QED BY <1>3, <1>4

LEMMA MoveReplacementKeeps ==
    ASSUME Inv, NEW w \in Workers, NEW r \in Returns, MoveReplacement(w, r)
    PROVE  Inv'
<1>1. /\ returns[r] \in Request /\ DocFits(returns[r]) /\ ParcelFits(returns[r], parcels[r])
      /\ parcels[r] \in [sent : {0, 1}, at : {"none", "confirmed", "shipped", "delivered"}]
    BY Document DEF Inv, TypeOK
<1>2. PICK at \in {"shipped", "delivered"} :
         /\ parcels' = [parcels EXCEPT ![r].at = at]
         /\ parcels[r].at \in {"confirmed", "shipped"}
    BY DEF MoveReplacement
<1>3. PICK p \in [sent : {0, 1}, at : {"none", "confirmed", "shipped", "delivered"}] :
         p = [parcels[r] EXCEPT !.at = at]
    BY <1>1
<1>4. p.sent = parcels[r].sent /\ p.at = at
    BY <1>1, <1>3
<1>5. parcels' = [parcels EXCEPT ![r] = p] /\ parcels'[r] = p
    BY <1>2, <1>3 DEF Inv, TypeOK
<1>6. ParcelFits(returns[r], p)
    BY <1>1, <1>2, <1>4 DEF ParcelFits
<1>7. PICK t \in Tasks : t = [op |-> "sync", ret |-> r, id |-> 0, result |-> at]
    BY <1>2, NewTask DEF Ops, Results
<1>8. Turn(w, t) /\ t.op # "call"
    BY <1>4, <1>5, <1>7 DEF MoveReplacement, Do, Turn
<1>9. TaskTrue(t)'
    BY <1>2, <1>4, <1>5, <1>7 DEF TaskTrue
<1>10. stock' \in Nat /\ UNCHANGED <<order, returns, gateway, told>>
    BY DEF MoveReplacement, Inv, TypeOK
<1> QED BY <1>2, <1>5, <1>6, <1>8, <1>9, <1>10, ParcelMoves

-----------------------------------------------------------------------------
(* The steps that only move a worker on.                                    *)

LEMMA StartsKeep ==
    ASSUME Inv, NEW w \in Workers, NEW r \in Returns, Reconcile(w, r) \/ RetryReplacement(w, r)
    PROVE  Inv'
<1>1. /\ \/ Do(w, "fetch", r, returns[r].ref, "none") /\ returns[r].ref # 0
         \/ \E op \in {"search", "claim", "replace"} : Do(w, op, r, 0, "none")
      /\ UNCHANGED <<order, returns, stock, parcels, gateway, told>>
    BY DEF Reconcile, RetryReplacement
<1>2. CASE Do(w, "fetch", r, returns[r].ref, "none") /\ returns[r].ref # 0
    <2>1. returns[r].ref \in RefundsOf(r) /\ returns[r].ref \in {0} \cup Refunds
        BY <1>2 DEF Inv, Papers, Trail, RefundsOf
    <2>2. PICK n \in {0} \cup Refunds : n = returns[r].ref
        BY <2>1
    <2>3. PICK t \in Tasks : t = [op |-> "fetch", ret |-> r, id |-> n, result |-> "none"]
        BY NewTask DEF Ops, Results
    <2>4. Turn(w, t) /\ TaskTrue(t) /\ t.op # "call"
        BY <1>2, <2>1, <2>2, <2>3 DEF Do, Turn, TaskTrue, Final
    <2> QED BY <1>1, <2>4, TurnOnly DEF Inv, TypeOK
<1>3. CASE \E op \in {"search", "claim", "replace"} : Do(w, op, r, 0, "none")
    <2>1. PICK op \in {"search", "claim", "replace"} : Do(w, op, r, 0, "none")
        BY <1>3
    <2>2. PICK t \in Tasks : t = [op |-> op, ret |-> r, id |-> 0, result |-> "none"]
        BY <2>1, NewTask DEF Ops, Results
    <2>3. Turn(w, t) /\ TaskTrue(t) /\ t.op # "call"
        BY <2>1, <2>2 DEF Do, Turn, TaskTrue
    <2> QED BY <1>1, <2>3, TurnOnly DEF Inv, TypeOK
<1> QED BY <1>1, <1>2, <1>3

LEMMA FetchKeeps == ASSUME Inv, NEW w \in Workers, Fetch(w) PROVE Inv'
<1>1. Doing(w, "fetch") /\ UNCHANGED <<order, returns, stock, parcels, gateway, told>>
    BY DEF Fetch
<1>2. PICK r \in Returns : r = req[w].ret
    BY <1>1, AtTask DEF Inv, Ops
<1>3. req[w].id \in RefundsOf(r)
    BY <1>1, <1>2 DEF Inv, TasksTrue, TaskTrue, Doing
<1>4. PICK n \in Refunds : n = req[w].id
    BY <1>3 DEF RefundsOf
<1>5. PICK result \in Results : result = gateway[n].status
    BY DEF Inv, TypeOK, Results
<1>6. PICK t \in Tasks : t = [op |-> "settle", ret |-> r, id |-> n, result |-> result]
    BY NewTask DEF Ops
<1>7. Turn(w, t) /\ TaskTrue(t) /\ t.op # "call"
    BY <1>2, <1>3, <1>4, <1>5, <1>6 DEF Fetch, Do, Turn, TaskTrue
<1> QED BY <1>1, <1>7, TurnOnly DEF Inv, TypeOK

LEMMA SearchKeeps == ASSUME Inv, NEW w \in Workers, Search(w) PROVE Inv'
<1>1. Doing(w, "search") /\ UNCHANGED <<order, returns, stock, parcels, gateway, told>>
    BY DEF Search
<1>2. PICK r \in Returns : r = req[w].ret
    BY <1>1, AtTask DEF Inv, Ops
<1>3. CASE Turn(w, Idle)
    BY <1>1, <1>3, IdleIsTask, TurnOnly DEF Inv, TypeOK
<1>4. CASE \E n \in Refunds : Found(r, n) /\ Do(w, "adopt", r, n, gateway[n].status)
    <2>1. PICK n \in Refunds : Found(r, n) /\ Do(w, "adopt", r, n, gateway[n].status)
        BY <1>4
    <2>2. PICK result \in Results : result = gateway[n].status
        BY DEF Inv, TypeOK, Results
    <2>3. PICK t \in Tasks : t = [op |-> "adopt", ret |-> r, id |-> n, result |-> result]
        BY NewTask DEF Ops
    <2>4. Turn(w, t) /\ TaskTrue(t) /\ t.op # "call"
        BY <2>1, <2>2, <2>3 DEF Do, Turn, TaskTrue, Found, RefundsOf
    <2> QED BY <1>1, <2>4, TurnOnly DEF Inv, TypeOK
<1> QED BY <1>2, <1>3, <1>4 DEF Search, Finish, Turn

LEMMA HookClaimKeeps ==
    ASSUME Inv, NEW w \in Workers, NEW n \in Refunds, HookClaim(w, n)
    PROVE  Inv'
<1>1. /\ gateway[n].status \in Final /\ UNCHANGED <<order, returns, stock, parcels, gateway>>
      /\ told' \in SUBSET ({0} \cup Refunds) /\ Do(w, "hook", gateway[n].ret, n, gateway[n].status)
    BY DEF HookClaim, Final, Inv, TypeOK
<1>2. PICK r \in Returns, result \in Results : r = gateway[n].ret /\ result = gateway[n].status
    BY DEF Inv, TypeOK, Results
<1>3. PICK t \in Tasks : t = [op |-> "hook", ret |-> r, id |-> n, result |-> result]
    BY NewTask DEF Ops
<1>4. Turn(w, t) /\ TaskTrue(t) /\ t.op # "call"
    BY <1>1, <1>2, <1>3 DEF Do, Turn, TaskTrue, RefundsOf, Final
<1> QED BY <1>1, <1>4, TurnOnly

LEMMA EndsKeep ==
    ASSUME Inv, NEW w \in Workers, CallFails(w) \/ HookFails(w) \/ Crash(w)
    PROVE  Inv'
<1>1. /\ Turn(w, Idle) /\ UNCHANGED <<order, returns, stock, parcels, gateway>>
      /\ told' \in SUBSET ({0} \cup Refunds)
    BY DEF CallFails, HookFails, Crash, Finish, Turn, Inv, TypeOK
<1> QED BY <1>1, IdleIsTask, TurnOnly

(* The webhook labels the order after the refund it saved.                  *)
LEMMA HookOrderKeeps == ASSUME Inv, NEW w \in Workers, HookOrder(w) PROVE Inv'
<1>1. /\ Doing(w, "hookorder") /\ Turn(w, Idle) /\ UNCHANGED <<returns, stock, parcels, gateway, told>>
      /\ order' = [order EXCEPT !.pay = HookLabel(req[w].ret, req[w].result)]
    BY DEF HookOrder, Finish, Turn
<1>2. PICK r \in Returns : r = req[w].ret
    BY <1>1, AtTask DEF Inv, Ops
<1>3. req[w].result \in Final /\ returns[r].refund = req[w].result
    BY <1>1, <1>2 DEF Inv, TasksTrue, TaskTrue, Doing
<1>6. order'.sent = order.sent /\ order'.pay = HookLabel(r, req[w].result)
    BY <1>1, <1>2 DEF Inv, TypeOK, OrderDoc
<1>4. Papers' /\ StillTrue
    BY <1>1, <1>6, PapersKept DEF Inv, SentStays
<1>5. TasksTrue' /\ CalledOnce' /\ req' \in [Workers -> Tasks]
    BY <1>1, <1>4, IdleIsTask, TasksTurn DEF Inv, StillTrue
<1>7. TypeOK'
    BY <1>1, <1>5 DEF Inv, TypeOK, OrderDoc, PaymentStatus, Tasks, HookLabel
<1>8. RefundsWithinTotal'
    BY <1>1, <1>6 DEF Inv, Money, RefundsWithinTotal, Promised, Promises, Informed, Amounts, OwnBack
<1>9. LabelIsReal'
    <2>1. SUFFICES ASSUME order'.pay = "refunded"
                   PROVE  Sum(Amounts, Processed) >= GrandTotal
        BY <1>1, <1>6 DEF LabelIsReal, Amounts, Processed
    <2>2. returns[r].refund = "processed" /\ returns[r].amount >= GrandTotal
        BY <1>3, <1>6, <2>1 DEF HookLabel, Final
    <2>3. r \in Processed /\ Processed \in SUBSET Returns
        BY <2>2 DEF Processed
    <2>4. Sum(Amounts, Processed) \in Nat /\ Sum(Amounts, Processed) >= Amounts[r] /\ Amounts[r] = returns[r].amount
        <3>1. IsFiniteSet(Processed) /\ NatOn(Amounts, Processed) /\ Processed \ {r} \in SUBSET Returns
            BY <2>3, AmountsType DEF Inv
        <3>2. Sum(Amounts, Processed) = Amounts[r] + Sum(Amounts, Processed \ {r})
            BY <2>3, <3>1, SumRemove
        <3>3. Sum(Amounts, Processed \ {r}) \in Nat /\ Amounts[r] \in Nat /\ Amounts[r] = returns[r].amount
            BY <3>1, AmountsType DEF Inv
        <3> QED BY <3>2, <3>3
    <2>5. GrandTotal \in Nat /\ returns[r].amount \in Nat
        BY MoneyAssumption DEF Inv, TypeOK, Request
    <2> QED BY <2>2, <2>4, <2>5
<1> QED BY <1>4, <1>5, <1>7, <1>8, <1>9 DEF Inv, Money

-----------------------------------------------------------------------------
(* The order's own refund: Razorpay settles it, the webhook writes it.      *)

LEMMA OwnHookClaimKeeps == ASSUME Inv, NEW w \in Workers, OwnHookClaim(w) PROVE Inv'
<1>1. /\ order.sent \in Final /\ UNCHANGED <<order, returns, stock, parcels, gateway>>
      /\ told' \in SUBSET ({0} \cup Refunds)
    BY DEF OwnHookClaim, Final, Inv, TypeOK
<1>2. PICK t \in OwnTask :
         t = [op |-> "ownhook", id |-> 0, pay |-> order.pay, result |-> order.sent]
    BY <1>1 DEF OwnTask, Final, Inv, TypeOK, OrderDoc
<1>3. Turn(w, t) /\ t \in Tasks /\ TaskTrue(t) /\ t.op # "call"
    BY <1>1, <1>2 DEF OwnHookClaim, Turn, Tasks, TaskTrue
<1> QED BY <1>1, <1>3, TurnOnly

(* The order changes, and with it only its own refund.                      *)
LEMMA OwnMoves ==
    ASSUME Inv, UNCHANGED <<returns, stock, parcels, gateway, told>>, order' \in OrderDoc,
           SentStays, OwnBack' <= OwnBack,
           order'.pay = "refunded" => order'.sent = "processed" \/ order.pay = "refunded",
           req' = req \/ \E w \in Workers : Turn(w, Idle)
    PROVE  Inv'
<1>1. Papers' /\ StillTrue
    BY PapersKept DEF Inv
<1>2. TasksTrue' /\ CalledOnce' /\ req' \in [Workers -> Tasks]
    <2>1. CASE req' = req
        <3>1. req \in [Workers -> Tasks]
            BY DEF Inv, TypeOK, Tasks
        <3>2. TasksTrue'
            BY <1>1, <2>1, <3>1 DEF Inv, TasksTrue, StillTrue
        <3> QED BY <2>1, <3>1, <3>2 DEF Inv, CalledOnce, Doing
    <2>2. CASE \E w \in Workers : Turn(w, Idle)
        BY <1>1, <2>2, IdleIsTask, TasksTurn DEF Inv, StillTrue
    <2> QED BY <2>1, <2>2
<1>3. Promised' = Promised /\ Sum(Amounts, Informed)' = Sum(Amounts, Informed)
      /\ Sum(Amounts, Processed)' = Sum(Amounts, Processed)
    BY DEF Promised, Promises, Informed, Amounts, Processed
<1>4. RefundsWithinTotal'
    <2>1. OwnBack \in Nat /\ OwnBack' \in Nat /\ GrandTotal \in Nat /\ Sum(Amounts, Informed) \in Nat
        BY MoneyType, MoneyAssumption DEF Inv, OwnBack
    <2>2. Promised <= GrandTotal /\ OwnBack + Sum(Amounts, Informed) <= GrandTotal
        BY DEF Inv, Money, RefundsWithinTotal
    <2>3. OwnBack' + Sum(Amounts, Informed) <= GrandTotal
        BY <2>1, <2>2
    <2> QED BY <1>3, <2>2, <2>3 DEF RefundsWithinTotal
<1>5. LabelIsReal'
    BY <1>3 DEF Inv, Money, LabelIsReal, SentStays, Final
<1>6. TypeOK'
    BY <1>2 DEF Inv, TypeOK, Tasks
<1> QED BY <1>1, <1>2, <1>4, <1>5, <1>6 DEF Inv, Money

LEMMA OwnSettlesKeeps == ASSUME Inv, OwnSettles PROVE Inv'
<1>1. PICK result \in Final : order' = [order EXCEPT !.sent = result]
    BY DEF OwnSettles, Final
<1>2. /\ order.sent = "pending" /\ UNCHANGED <<returns, stock, parcels, gateway, told, req>>
      /\ order' \in OrderDoc /\ order'.pay = order.pay /\ order'.sent = result
    BY <1>1 DEF OwnSettles, Inv, TypeOK, OrderDoc, Final, Sent
<1>3. OwnBack' <= OwnBack
    BY <1>2, MoneyAssumption DEF OwnBack
<1> QED BY <1>2, <1>3, OwnMoves DEF SentStays, Final

LEMMA OwnHookSaveKeeps == ASSUME Inv, NEW w \in Workers, OwnHookSave(w) PROVE Inv'
<1>1. Doing(w, "ownhook") /\ Turn(w, Idle) /\ UNCHANGED <<returns, stock, parcels, gateway, told>>
    BY DEF OwnHookSave, Finish, Turn
<1>2. req[w].result \in Final /\ order.sent = req[w].result
    BY <1>1 DEF Inv, TasksTrue, TaskTrue, Doing
<1>3. /\ order' \in OrderDoc /\ order'.sent = order.sent
      /\ order'.pay = "refunded" => order.sent = "processed" \/ order.pay = "refunded"
    BY <1>2 DEF OwnHookSave, OwnLabel, Inv, TypeOK, OrderDoc, PaymentStatus, Final
<1>4. OwnBack' <= OwnBack
    BY <1>3, MoneyAssumption DEF OwnBack
<1> QED BY <1>1, <1>3, <1>4, OwnMoves DEF SentStays

-----------------------------------------------------------------------------
(* The invariant.                                                           *)

LEMMA InitInv == Init => Inv
<1> SUFFICES ASSUME Init PROVE Inv
    OBVIOUS
<1>0. order \in OrderDoc /\ (order.pay = "refunded" => order.sent = "processed")
    <2>1. \/ order \in Unrefunded
          \/ \E pay \in {"refunded", "refund_pending", "refund_failed"}, own \in {"processed", "processing", "failed"},
                recorded \in {0, GrandTotal}, sent \in {{"processed"}, {"pending"}, {"none", "pending"}} :
                order \in Cancelled(pay, own, recorded, sent) /\ (pay = "refunded" => sent = {"processed"})
        BY DEF Init, Delivered
    <2> QED BY <2>1 DEF Unrefunded, Cancelled, OrderDoc, PaymentStatus, Sent
<1>1. /\ \A r \in Returns : returns[r] = NoRequest
      /\ \A n \in Refunds : gateway[n].status = "none"
      /\ \A r \in Returns : parcels[r].sent = 0 /\ parcels[r].at = "none"
      /\ \A w \in Workers : req[w] = Idle
    BY DEF Init
<1>2. NoRequest \in Request /\ DocFits(NoRequest) /\ NoRequest.ref = 0 /\ NoRequest.refund = "not_required"
      /\ NoRequest.amount = 0 /\ NoRequest.status = "none"
    BY UnitsAssumption DEF NoRequest, Request, Status, RefundStatus, Units, DocFits, Reserving
<1>3. \A s : RefundsOf(s) = {}
    BY <1>1 DEF RefundsOf
<1>4. TypeOK
    <2>1. order \in OrderDoc
        BY <1>0
    <2>2. gateway \in [Refunds -> [ret : Returns, amount : Nat,
                                  status : {"none", "pending", "processed", "failed"}]]
        <3>1. (CHOOSE r \in Returns : TRUE) \in Returns
            BY ReturnsAssumption
        <3> QED BY <3>1 DEF Init
    <2>3. returns \in [Returns -> Request]
        BY <1>2 DEF Init
    <2>4. parcels \in [Returns -> [sent : {0, 1}, at : {"none", "confirmed", "shipped", "delivered"}]]
        BY DEF Init
    <2> QED BY <2>1, <2>2, <2>3, <2>4 DEF Init, TypeOK
<1>5. Papers
    <2>1. Docs
        BY <1>1, <1>2 DEF Docs
    <2>2. Trail
        BY <1>1, <1>2, <1>3 DEF Trail
    <2>3. ParcelsFit
        BY <1>1, <1>2 DEF ParcelsFit, ParcelFits
    <2> QED BY <2>1, <2>2, <2>3 DEF Papers
<1>6. TasksTrue /\ CalledOnce
    BY <1>1 DEF TasksTrue, TaskTrue, CalledOnce, Doing, Idle
<1>7. Money
    <2>1. Promises = {} /\ Informed = {}
        BY <1>1, <1>2 DEF Promises, Informed, Reserving
    <2>2. Promised = 0 /\ Sum(Amounts, Informed) = 0
        BY <2>1, SumEmpty DEF Promised
    <2>3. OwnBack \in {0, GrandTotal} /\ GrandTotal \in Nat
        BY MoneyAssumption DEF OwnBack
    <2> QED BY <1>0, <2>2, <2>3 DEF Money, RefundsWithinTotal, LabelIsReal
<1> QED BY <1>4, <1>5, <1>6, <1>7 DEF Inv

LEMMA NextInv == Inv /\ [Next]_vars => Inv'
<1> SUFFICES ASSUME Inv, [Next]_vars PROVE Inv'
    OBVIOUS
<1>1. ASSUME NEW r \in Returns, Create(r) \/ Review(r) \/ Receive(r) \/ CompleteManual(r) PROVE Inv'
    BY <1>1, CreateKeeps, ReviewKeeps, ReceiveKeeps, CompleteManualKeeps
<1>2. ASSUME NEW n \in Refunds, GatewaySettles(n) PROVE Inv'
    BY <1>2, GatewaySettlesKeeps
<1>3. ASSUME NEW w \in Workers, NEW r \in Returns, Start(w, r) PROVE Inv'
    BY <1>3, InspectKeeps, StartsKeep, MoveReplacementKeeps DEF Start
<1>4. ASSUME NEW w \in Workers, NEW n \in Refunds, HookClaim(w, n) PROVE Inv'
    BY <1>4, HookClaimKeeps
<1>5. ASSUME NEW w \in Workers, Handler(w) PROVE Inv'
    BY <1>5, ClaimKeeps, CallAcceptedKeeps, EndsKeep, NoteKeeps, SettleKeeps, FetchKeeps, SearchKeeps,
       AdoptKeeps, HookSaveKeeps, HookOrderKeeps, OwnHookSaveKeeps, ReplaceKeeps, SyncKeeps DEF Handler
<1>6. ASSUME NEW w \in Workers, OwnHookClaim(w) \/ HookFails(w) \/ Crash(w) PROVE Inv'
    BY <1>6, EndsKeep, OwnHookClaimKeeps
<1>8. ASSUME OwnSettles PROVE Inv'
    BY <1>8, OwnSettlesKeeps
<1>7. ASSUME UNCHANGED vars PROVE Inv'
    <2>1. Papers' /\ Money'
        BY <1>7, PapersKept, MoneyUnmoved DEF Inv, vars, SentStays
    <2>2. \A s : RefundsOf(s)' = RefundsOf(s)
        BY <1>7 DEF vars, RefundsOf
    <2>3. TypeOK' /\ TasksTrue' /\ CalledOnce'
        BY <1>7, <2>2 DEF Inv, vars, TypeOK, TasksTrue, TaskTrue, CalledOnce, Doing
    <2> QED BY <2>1, <2>3 DEF Inv
<1> QED BY <1>1, <1>2, <1>3, <1>4, <1>5, <1>6, <1>7, <1>8 DEF Next

THEOREM Invariance == Spec => []Inv
    BY InitInv, NextInv, PTL DEF Spec

(* Every document, task, refund and parcel keeps its type: in particular a  *)
(* refund is never negative and a return gets at most one replacement.      *)
THEOREM TypeCorrect == Spec => []TypeOK
<1>1. Inv => TypeOK
    BY DEF Inv
<1> QED BY <1>1, Invariance, PTL

(* RETURN_MODULE.md:48: refunds promised, made or settled by hand stay      *)
(* within what the order was charged, for any number of returns, and so     *)
(* they do together with the order's own refund, whether that is under way, *)
(* done, recorded or not, but for the requests whose inspection counted it  *)
(* for less (returnRequest.js:165).                                         *)
THEOREM RefundsStayWithinTotal == Spec => []RefundsWithinTotal
<1>1. Inv => RefundsWithinTotal
    BY DEF Inv, Money
<1> QED BY <1>1, Invariance, PTL

(* A return is compensated once: one refund, or one settlement by hand, or  *)
(* one replacement order (refund.js:37, replacement.js:15).                 *)
THEOREM CompensatedOnce == Spec => []OneOutcome
<1>1. ASSUME Inv PROVE OneOutcome
    <2> SUFFICES ASSUME NEW r \in Returns
                 PROVE  /\ \A n, m \in RefundsOf(r) : n = m
                        /\ RefundsOf(r) # {} => parcels[r].sent = 0
                        /\ ByHand(r) => parcels[r].sent = 0
        BY DEF OneOutcome
    <2>1. DocFits(returns[r]) /\ ParcelFits(returns[r], parcels[r])
        BY <1>1, Document
    <2>2. \A n, m \in RefundsOf(r) : n = m
        BY <1>1 DEF Inv, Papers, Trail
    <2>3. returns[r].refund \in Reserving => parcels[r].sent = 0
        BY <2>1 DEF DocFits, ParcelFits
    <2>4. RefundsOf(r) # {} => returns[r].refund \in Reserving
        BY <1>1 DEF Inv, Papers, Trail, Follows, Final, Reserving
    <2> QED BY <2>2, <2>3, <2>4 DEF ByHand, Reserving
<1> QED BY <1>1, Invariance, PTL

(* A status that says how the customer was compensated is true, and an      *)
(* order reads refunded only when its whole total went back (refund.js:22,  *)
(* razorpayWebhook.js:47, replacement.js:53).                               *)
THEOREM StatusAlwaysReal == Spec => []StatusIsReal
<1>1. ASSUME Inv PROVE StatusIsReal
    <2>1. ASSUME NEW r \in Returns, returns[r].status = "completed" PROVE Compensated(r)
        <3>1. returns[r] \in Request /\ DocFits(returns[r]) /\ ParcelFits(returns[r], parcels[r])
            BY <1>1, Document
        <3>2. CASE returns[r].type = "replacement"
            BY <2>1, <3>1, <3>2 DEF ParcelFits, Compensated
        <3>3. CASE returns[r].type = "refund" /\ returns[r].refund = "not_required"
            BY <3>1, <3>3 DEF DocFits, Compensated
        <3>4. CASE returns[r].refund = "processed"
            BY <1>1, <3>4 DEF Inv, Papers, Trail, Follows, Final, Compensated, ByHand
        <3> QED BY <2>1, <3>1, <3>2, <3>3, <3>4 DEF DocFits, Request, RefundStatus
    <2>2. ASSUME NEW r \in Returns, returns[r].status = "refund_failed"
          PROVE  \E n \in RefundsOf(r) : gateway[n].status = "failed"
        <3>1. returns[r].refund = "failed"
            BY <1>1, <2>2, Document DEF DocFits
        <3> QED BY <1>1, <3>1 DEF Inv, Papers, Trail, Follows
    <2> QED BY <1>1, <2>1, <2>2 DEF StatusIsReal, Inv, Money, LabelIsReal
<1> QED BY <1>1, Invariance, PTL

(* A refund that Razorpay accepted is never lost to its return              *)
(* (refund.js:59).                                                          *)
THEOREM AcceptedAlwaysFindable == Spec => []AcceptedIsFindable
<1>1. ASSUME Inv PROVE AcceptedIsFindable
    <2> SUFFICES ASSUME NEW r \in Returns, NEW n \in RefundsOf(r)
                 PROVE  /\ returns[r].attempted
                        /\ returns[r].ref \in {0} \cup RefundsOf(r)
                        /\ Found(r, n) /\ n \in Refunds
        BY DEF AcceptedIsFindable
    <2> QED BY <1>1 DEF Inv, Papers, Trail, Found, RefundsOf
<1> QED BY <1>1, Invariance, PTL
=============================================================================
