--------------------------- MODULE ZohoExport_proofs ---------------------------
(***************************************************************************)
(* Proofs about ZohoExport, for any number of servers, attempts, versions  *)
(* and crashes.                                                            *)
(***************************************************************************)
EXTENDS ZohoExport, TLAPS

OrderDoc == [version : 0 .. MaxVersion, cancelled : BOOLEAN, completed : 0 .. MaxVersion,
             sync : {"none"} \cup Outcomes, linked : BOOLEAN]
JobDoc == [status : JobStatus, revision : Nat \ {0}, source : 0 .. MaxVersion,
           attempts : 0 .. MaxAttempts, owner : Servers \cup {Free}]
Leases == [worker : Servers \cup {Free, Orphan}, mapping : Servers \cup {Free, Orphan}]
Remote == [orders : Nat, version : 0 .. MaxVersion]
Runs == [Servers -> Run \cup {Idle}]

Posting(s) == run[s].at \in {"post", "unclaim"}
Knows(s) == run[s].at \in {"update", "put", "map"}

\* The mark "creating" has one worker behind it, and nobody takes an order
\* for created that is not.
Once ==
    /\ remote.orders \in {0, 1}
    /\ mapping = "mapped" => remote.orders = 1
    /\ mapping = "new" => remote.orders = 0
    /\ \A s \in Servers : Posting(s) => mapping = "creating" /\ remote.orders = 0
    /\ \A s, t \in Servers : Posting(s) /\ Posting(t) => s = t
    /\ \A s \in Servers : Knows(s) => remote.orders = 1

\* While no process outlived its lease, a worker runs alone, and the versions
\* it read, wrote and reports are ordered.
Alone == \A s \in Servers : run[s] # Idle => lease.worker = s

Versions ==
    /\ order.completed <= order.version
    /\ job.source <= order.version
    /\ remote.version <= order.version
    /\ order.sync = "synced" => remote.orders = 1 /\ order.completed <= remote.version

HasRead(s) == run[s].at \in {"lease", "lookup", "update", "put", "assert", "claim", "post"}
Wrote(s) ==
    \/ At(s, "map")
    \/ run[s].at \in {"unlock", "link", "settle", "report"} /\ run[s].outcome = "synced"

Checked(s) ==
    /\ At(s, "enqueue") => run[s].read <= order.version
    /\ HasRead(s) =>
          /\ run[s].source <= run[s].read /\ run[s].read <= order.version
          /\ order.completed <= run[s].read /\ remote.version <= run[s].read
    /\ Wrote(s) =>
          /\ remote.orders = 1 /\ remote.version = run[s].read
          /\ run[s].source <= run[s].read /\ order.completed <= run[s].read

\* A job was queued for a version that the order had.
Due(s) == run[s] # Idle => run[s].source <= order.version

Serial == ~suspended => Alone /\ Versions /\ \A s \in Servers : Checked(s) /\ Due(s)

IInv == TypeOK /\ Once /\ Serial

-----------------------------------------------------------------------------
LEMMA Types ==
    TypeOK <=> /\ order \in OrderDoc /\ job \in JobDoc /\ mapping \in {"new", "creating", "mapped"}
               /\ lease \in Leases /\ remote \in Remote /\ run \in Runs
               /\ events \in 0 .. MaxEvents /\ suspended \in BOOLEAN
  BY DEF TypeOK, OrderDoc, JobDoc, Leases, Remote, Runs

LEMMA Bounds ==
    /\ MaxVersion \in Nat /\ MaxAttempts \in Nat /\ MaxEvents \in Nat
    /\ 0 \in 0 .. MaxVersion /\ 0 \in 0 .. MaxAttempts /\ 0 \in 0 .. MaxEvents
  BY AttemptsAssumption, BoundsAssumption

LEMMA LargerIsOne == \A a, b : Larger(a, b) \in {a, b}
  BY DEF Larger

OnlyRun(s) == run' \in Runs /\ \A t \in Servers \ {s} : run'[t] = run[t]

LEMMA AtWork ==
    ASSUME TypeOK, NEW s \in Servers, NEW step \in Steps, At(s, step) PROVE run[s] \in Run /\ run[s] # Idle
  <1>1. run[s] # Idle
    <2>1. "idle" \notin Steps
      BY DEF Steps
    <2> QED
      BY <2>1 DEF At, Idle
  <1> QED
    BY <1>1 DEF TypeOK

LEMMA NewRun ==
    ASSUME TypeOK, NEW s \in Servers, NEW r \in Run \cup {Idle}, run' = [run EXCEPT ![s] = r]
    PROVE  OnlyRun(s) /\ run'[s] = r
  BY DEF TypeOK, OnlyRun, Runs

LEMMA GotoTyped ==
    ASSUME TypeOK, NEW s \in Servers, NEW step \in Steps, run[s] \in Run, Goto(s, step)
    PROVE  /\ OnlyRun(s) /\ run'[s].at = step /\ run'[s] # Idle
           /\ run'[s].read = run[s].read /\ run'[s].source = run[s].source
           /\ run'[s].outcome = run[s].outcome
  <1> DEFINE r == [run[s] EXCEPT !.at = step]
  <1>1. /\ r \in Run /\ r.at = step
        /\ r.read = run[s].read /\ r.source = run[s].source /\ r.outcome = run[s].outcome
    BY DEF Run
  <1>2. run' = [run EXCEPT ![s] = r]
    BY DEF Goto
  <1>3. r # Idle
    BY <1>1 DEF Idle, Steps
  <1> HIDE DEF r
  <1> QED
    BY <1>1, <1>2, <1>3, NewRun

LEMMA FailsTyped ==
    ASSUME TypeOK, NEW s \in Servers, NEW step \in Steps, NEW outcome \in Outcomes,
           run[s] \in Run, Fails(s, step, outcome)
    PROVE  /\ OnlyRun(s) /\ run'[s].at = step /\ run'[s] # Idle
           /\ run'[s].read = run[s].read /\ run'[s].source = run[s].source
           /\ run'[s].outcome = outcome
  <1> DEFINE r == [run[s] EXCEPT !.at = step, !.outcome = outcome]
  <1>1. /\ r \in Run /\ r.at = step
        /\ r.read = run[s].read /\ r.source = run[s].source /\ r.outcome = outcome
    BY DEF Run
  <1>2. run' = [run EXCEPT ![s] = r]
    BY DEF Fails
  <1>3. r # Idle
    BY <1>1 DEF Idle, Steps
  <1> HIDE DEF r
  <1> QED
    BY <1>1, <1>2, <1>3, NewRun

LEMMA LeaveTyped ==
    ASSUME TypeOK, NEW s \in Servers, NEW step \in Steps, Leave(s, step)
    PROVE  OnlyRun(s) /\ run'[s].at = step /\ run'[s] # Idle /\ run'[s].source = 0
  <1> DEFINE r == [Tick EXCEPT !.at = step]
  <1>1. r \in Run /\ r.at = step /\ r.source = 0
    BY Bounds DEF Tick, Run, Outcomes
  <1>2. run' = [run EXCEPT ![s] = r]
    BY DEF Leave
  <1>3. r # Idle
    BY <1>1 DEF Idle, Steps
  <1> HIDE DEF r
  <1> QED
    BY <1>1, <1>2, <1>3, NewRun

LEMMA RetryTyped ==
    \A s \in Servers : /\ RetryOutcome(s) \in Outcomes \ {"synced"}
                       /\ Refusals(s) \subseteq Outcomes \ {"synced"}
                       /\ Failures(s) \subseteq Outcomes \ {"synced"}
  BY DEF RetryOutcome, Refusals, Failures, Outcomes

\* A step of s that leaves the mapping and the orders at Zoho as they are.
LEMMA OnceStays ==
    ASSUME Once, NEW s \in Servers, OnlyRun(s), mapping' = mapping, remote'.orders = remote.orders,
           Posting(s)' => Posting(s), Knows(s)' => remote.orders = 1
    PROVE  Once'
  BY DEF Once, OnlyRun, Posting, Knows

\* A step of a worker, which runs alone.
LEMMA SerialStays ==
    ASSUME Serial, NEW s \in Servers, run[s] # Idle, OnlyRun(s), suspended' = suspended,
           run'[s] # Idle => lease'.worker = lease.worker,
           ~suspended /\ Versions /\ Checked(s) /\ Due(s) => Versions' /\ Checked(s)' /\ Due(s)'
    PROVE  Serial'
  <1> SUFFICES ASSUME ~suspended
               PROVE  Alone' /\ Versions' /\ \A t \in Servers : Checked(t)' /\ Due(t)'
    BY DEF Serial
  <1>1. Alone /\ Versions /\ Checked(s) /\ Due(s)
    BY DEF Serial
  <1>2. \A t \in Servers \ {s} : run'[t] = run[t] /\ run[t] = Idle
    BY <1>1 DEF Alone, OnlyRun
  <1>3. Alone'
    BY <1>1, <1>2 DEF Alone
  <1>4. \A t \in Servers \ {s} : Checked(t)' /\ Due(t)'
    BY <1>2 DEF Checked, At, HasRead, Wrote, Due, Idle
  <1> QED
    BY <1>1, <1>3, <1>4

-----------------------------------------------------------------------------
LEMMA DueStays ==
    ASSUME TypeOK, NEW s \in Servers, run[s] # Idle, run'[s].source \in {run[s].source, 0},
           order'.version = order.version
    PROVE  Due(s) => Due(s)'
  <1>1. 0 <= order.version
    BY Types DEF OrderDoc
  <1> QED
    BY <1>1 DEF Due

\* The steps that only move the worker.
LEMMA MoveStep ==
    ASSUME IInv, NEW s \in Servers, run[s] \in Run, run[s] # Idle, OnlyRun(s), run'[s] # Idle,
           UNCHANGED <<order, job, mapping, remote, suspended>>,
           lease' \in Leases, lease'.worker = lease.worker, events' \in 0 .. MaxEvents,
           ~Posting(s)' , Knows(s)' => remote.orders = 1, run'[s].source \in {run[s].source, 0},
           ~suspended /\ Versions /\ Checked(s) /\ Due(s) => Checked(s)'
    PROVE  IInv'
  <1>1. Once'
    BY OnceStays DEF IInv
  <1>2. Due(s) => Due(s)'
    BY DueStays DEF IInv
  <1>3. Versions => Versions'
    BY DEF Versions
  <1>4. Serial'
    BY <1>2, <1>3, SerialStays DEF IInv
  <1>5. TypeOK'
    BY Types DEF IInv, OnlyRun, OrderDoc, JobDoc, Remote, Leases, Runs, TypeOK
  <1> QED
    BY <1>1, <1>4, <1>5 DEF IInv

LEMMA Goes ==
    ASSUME IInv, NEW s \in Servers, run[s] \in Run, run[s] # Idle,
           NEW step \in {"loop", "release", "packed"}, Leave(s, step) \/ Goto(s, step)
    PROVE  /\ OnlyRun(s) /\ run'[s] # Idle /\ ~Posting(s)' /\ ~Knows(s)' /\ Checked(s)'
           /\ run'[s].source \in {run[s].source, 0}
  <1>1. OnlyRun(s) /\ run'[s].at = step /\ run'[s] # Idle /\ run'[s].source \in {run[s].source, 0}
    BY LeaveTyped, GotoTyped DEF IInv, Steps
  <1> QED
    BY <1>1 DEF Posting, Knows, Checked, HasRead, Wrote, At

LEMMA EndTickStep == ASSUME IInv, NEW s \in Servers, EndTick(s) \/ Stop(s) PROVE IInv'
  <1>0. TypeOK /\ lease \in Leases /\ events \in 0 .. MaxEvents
    BY Types DEF IInv
  <1>1. run[s] \in Run /\ run[s] # Idle
    BY <1>0, AtWork DEF EndTick, Stop, Steps
  <1>2. UNCHANGED <<order, job, mapping, lease, remote, events, suspended>>
    BY DEF EndTick, Stop
  <1>3. /\ OnlyRun(s) /\ run'[s] # Idle /\ ~Posting(s)' /\ ~Knows(s)' /\ Checked(s)'
        /\ run'[s].source \in {run[s].source, 0}
    BY <1>1, Goes DEF EndTick, Stop
  <1> QED
    BY <1>0, <1>1, <1>2, <1>3, MoveStep

LEMMA PackedStep == ASSUME IInv, NEW s \in Servers, Packed(s) PROVE IInv'
  <1>0. TypeOK /\ lease \in Leases /\ events \in 0 .. MaxEvents /\ order \in OrderDoc
    BY Types DEF IInv
  <1>1. run[s] \in Run /\ run[s] # Idle
    BY <1>0, AtWork DEF Packed, Steps
  <1>2. UNCHANGED <<order, job, mapping, lease, remote, events, suspended>>
    BY DEF Packed
  <1>3. /\ OnlyRun(s) /\ run'[s] # Idle /\ ~Posting(s)' /\ ~Knows(s)' /\ Checked(s)'
        /\ run'[s].source \in {run[s].source, 0}
    <2>1. CASE order.version > order.completed
      <3> DEFINE r == [run[s] EXCEPT !.at = "enqueue", !.read = order.version]
      <3>1. r \in Run /\ r.at = "enqueue" /\ r.read = order.version /\ r.source = run[s].source
        BY <1>0, <1>1 DEF Run, OrderDoc, Steps
      <3>2. run' = [run EXCEPT ![s] = r]
        BY <2>1 DEF Packed
      <3>3. r # Idle
        BY <3>1 DEF Idle
      <3> HIDE DEF r
      <3>4. OnlyRun(s) /\ run'[s] = r
        BY <1>0, <3>1, <3>2, NewRun
      <3>5. order'.version = order.version /\ order.version <= order.version
        BY <1>0, <1>2, Bounds DEF OrderDoc
      <3> QED
        BY <3>1, <3>3, <3>4, <3>5 DEF Posting, Knows, Checked, HasRead, Wrote, At
    <2>2. CASE ~(order.version > order.completed)
      BY <1>1, <2>2, Goes DEF Packed
    <2> QED
      BY <2>1, <2>2
  <1> QED
    BY <1>0, <1>1, <1>2, <1>3, MoveStep

LEMMA EventTyped == ASSUME TypeOK, Event \/ UNCHANGED events PROVE events' \in 0 .. MaxEvents
  BY Bounds DEF TypeOK, Event

LEMMA FailsSafe ==
    ASSUME IInv, NEW s \in Servers, run[s] \in Run, NEW step \in {"settle", "unlock"},
           NEW outcome \in Outcomes \ {"synced"}, Fails(s, step, outcome)
    PROVE  /\ OnlyRun(s) /\ run'[s] # Idle /\ ~Posting(s)' /\ ~Knows(s)' /\ Checked(s)'
           /\ run'[s].source \in {run[s].source, 0}
  <1>1. /\ OnlyRun(s) /\ run'[s].at = step /\ run'[s] # Idle /\ run'[s].outcome # "synced"
        /\ run'[s].source = run[s].source
    <2>1. step \in Steps /\ outcome \in Outcomes /\ TypeOK
      BY DEF Steps, IInv
    <2> QED
      BY <2>1, FailsTyped
  <1> QED
    BY <1>1 DEF Posting, Knows, Checked, HasRead, Wrote, At

LEMMA ReviewSafe == "review" \in Outcomes \ {"synced"}
  BY DEF Outcomes

LEMMA ReadOrderStep == ASSUME IInv, NEW s \in Servers, ReadOrder(s) PROVE IInv'
  <1>0. TypeOK /\ lease \in Leases /\ events' \in 0 .. MaxEvents /\ order \in OrderDoc
    BY Types, EventTyped DEF IInv, ReadOrder
  <1>1. run[s] \in Run /\ run[s] # Idle /\ At(s, "read")
    BY <1>0, AtWork DEF ReadOrder, Steps
  <1>2. UNCHANGED <<order, job, mapping, lease, remote, suspended>>
    BY DEF ReadOrder
  <1>3. /\ OnlyRun(s) /\ run'[s] # Idle /\ ~Posting(s)' /\ ~Knows(s)'
        /\ run'[s].source \in {run[s].source, 0}
        /\ Versions /\ Checked(s) /\ Due(s) => Checked(s)'
    <2>1. CASE run' = [run EXCEPT ![s].at = "lease", ![s].read = order.version]
      <3> DEFINE r == [run[s] EXCEPT !.at = "lease", !.read = order.version]
      <3>1. r \in Run /\ r.at = "lease" /\ r.read = order.version /\ r.source = run[s].source
        BY <1>0, <1>1 DEF Run, OrderDoc, Steps
      <3>2. run' = [run EXCEPT ![s] = r]
        BY <2>1
      <3>3. r # Idle
        BY <3>1 DEF Idle
      <3> HIDE DEF r
      <3>4. OnlyRun(s) /\ run'[s] = r
        BY <1>0, <3>1, <3>2, <3>3, NewRun
      <3>5. ~Posting(s)' /\ ~Knows(s)'
        BY <3>1, <3>4 DEF Posting, Knows
      <3>6. order.version <= order.version
        BY <1>0, Bounds DEF OrderDoc
      <3>7. Versions /\ Checked(s) /\ Due(s) => Checked(s)'
        BY <1>1, <1>2, <3>1, <3>4, <3>6 DEF Versions, Checked, Due, HasRead, Wrote, At
      <3> QED
        BY <3>1, <3>3, <3>4, <3>5, <3>7
    <2>2. ASSUME NEW outcome \in Outcomes \ {"synced"}, Fails(s, "settle", outcome)
          PROVE  /\ OnlyRun(s) /\ run'[s] # Idle /\ ~Posting(s)' /\ ~Knows(s)' /\ Checked(s)'
           /\ run'[s].source \in {run[s].source, 0}
      BY <1>1, <2>2, FailsSafe
    <2> QED
      BY <2>1, <2>2, RetryTyped, ReviewSafe DEF ReadOrder
  <1> QED
    BY <1>0, <1>1, <1>2, <1>3, MoveStep

LEMMA LeaseMappingStep == ASSUME IInv, NEW s \in Servers, LeaseMapping(s) PROVE IInv'
  <1>0. TypeOK /\ lease \in Leases /\ events' \in 0 .. MaxEvents
    BY Types, EventTyped DEF IInv, LeaseMapping
  <1>1. run[s] \in Run /\ run[s] # Idle /\ At(s, "lease")
    BY <1>0, AtWork DEF LeaseMapping, Steps
  <1>2. UNCHANGED <<order, job, mapping, remote, suspended>>
    BY DEF LeaseMapping
  <1>3. lease' \in Leases /\ lease'.worker = lease.worker
    BY <1>0 DEF LeaseMapping, Leases
  <1>4. /\ OnlyRun(s) /\ run'[s] # Idle /\ ~Posting(s)' /\ ~Knows(s)'
        /\ run'[s].source \in {run[s].source, 0}
        /\ Versions /\ Checked(s) => Checked(s)'
    <2>1. CASE Goto(s, "lookup")
      <3>1. /\ OnlyRun(s) /\ run'[s] # Idle /\ run'[s].at = "lookup"
            /\ run'[s].read = run[s].read /\ run'[s].source = run[s].source
        BY <1>0, <1>1, <2>1, GotoTyped DEF Steps
      <3> QED
        BY <1>1, <1>2, <3>1 DEF Posting, Knows, Checked, HasRead, Wrote, At
    <2>2. ASSUME NEW outcome \in Outcomes \ {"synced"}, Fails(s, "settle", outcome)
          PROVE  /\ OnlyRun(s) /\ run'[s] # Idle /\ ~Posting(s)' /\ ~Knows(s)' /\ Checked(s)'
           /\ run'[s].source \in {run[s].source, 0}
      BY <1>1, <2>2, FailsSafe
    <2> QED
      BY <2>1, <2>2, RetryTyped, ReviewSafe DEF LeaseMapping
  <1> QED
    BY <1>0, <1>1, <1>2, <1>3, <1>4, MoveStep

LEMMA AssertStep ==
    ASSUME IInv, NEW s \in Servers, BeforeUpdate(s) \/ BeforeCreate(s) PROVE IInv'
  <1>0. TypeOK /\ lease \in Leases /\ events' \in 0 .. MaxEvents
    BY Types, EventTyped DEF IInv, BeforeUpdate, BeforeCreate, AssertLease
  <1>1. run[s] \in Run /\ run[s] # Idle
    BY <1>0, AtWork DEF BeforeUpdate, BeforeCreate, AssertLease, Steps
  <1>2. UNCHANGED <<order, job, mapping, lease, remote, suspended>>
    BY DEF BeforeUpdate, BeforeCreate, AssertLease
  <1>3. /\ OnlyRun(s) /\ run'[s] # Idle /\ ~Posting(s)' /\ (Knows(s)' => remote.orders = 1)
        /\ run'[s].source \in {run[s].source, 0}
        /\ Versions /\ Checked(s) => Checked(s)'
    <2>1. CASE \/ At(s, "update") /\ Goto(s, "put")
               \/ At(s, "assert") /\ Goto(s, "claim")
      <3>1. /\ OnlyRun(s) /\ run'[s] # Idle
            /\ \/ At(s, "update") /\ run'[s].at = "put"
               \/ At(s, "assert") /\ run'[s].at = "claim"
            /\ run'[s].read = run[s].read /\ run'[s].source = run[s].source
        BY <1>0, <1>1, <2>1, GotoTyped DEF Steps
      <3>2. Knows(s)' => Knows(s)
        BY <3>1 DEF Knows, At
      <3>3. Versions /\ Checked(s) => Checked(s)'
        BY <1>1, <1>2, <3>1 DEF Checked, HasRead, Wrote, At
      <3> QED
        BY <3>1, <3>2, <3>3 DEF Posting, At, IInv, Once
    <2>2. CASE Fails(s, "unlock", RetryOutcome(s))
      BY <1>1, <2>2, FailsSafe, RetryTyped
    <2> QED
      BY <2>1, <2>2 DEF BeforeUpdate, BeforeCreate, AssertLease
  <1> QED
    BY <1>0, <1>1, <1>2, <1>3, MoveStep

LEMMA UnlockStep == ASSUME IInv, NEW s \in Servers, Unlock(s) PROVE IInv'
  <1>0. TypeOK /\ lease \in Leases /\ events' \in 0 .. MaxEvents
    BY Types, EventTyped DEF IInv, Unlock
  <1>1. run[s] \in Run /\ run[s] # Idle /\ At(s, "unlock")
    BY <1>0, AtWork DEF Unlock, Steps
  <1>2. UNCHANGED <<order, job, mapping, remote, suspended>>
    BY DEF Unlock
  <1>3. lease' \in Leases /\ lease'.worker = lease.worker
    BY <1>0 DEF Unlock, Released, Leases
  <1>4. /\ OnlyRun(s) /\ run'[s] # Idle /\ run'[s].at \in {"link", "settle"}
        /\ run'[s].read = run[s].read /\ run'[s].source = run[s].source
        /\ run'[s].outcome = run[s].outcome
    BY <1>0, <1>1, GotoTyped DEF Unlock, Steps
  <1>5. ~Posting(s)' /\ ~Knows(s)'
    BY <1>4 DEF Posting, Knows
  <1>6. Checked(s) => Checked(s)'
    BY <1>1, <1>2, <1>4 DEF Checked, HasRead, Wrote, At
  <1> QED
    BY <1>0, <1>1, <1>2, <1>3, <1>4, <1>5, <1>6, MoveStep

\* The steps that write the order or the job.
LEMMA WriteStep ==
    ASSUME IInv, NEW s \in Servers, run[s] \in Run, run[s] # Idle, OnlyRun(s), run'[s] # Idle,
           UNCHANGED <<mapping, lease, remote, suspended>>,
           order' \in OrderDoc, job' \in JobDoc, events' \in 0 .. MaxEvents,
           ~Posting(s)' , ~Knows(s)',
           ~suspended /\ Versions /\ Checked(s) /\ Due(s) => Versions' /\ Checked(s)' /\ Due(s)'
    PROVE  IInv'
  <1>1. Once'
    BY OnceStays DEF IInv
  <1>2. Serial'
    BY SerialStays DEF IInv
  <1>3. TypeOK'
    BY Types DEF IInv, OnlyRun, OrderDoc, JobDoc, Remote, Leases, Runs, TypeOK
  <1> QED
    BY <1>1, <1>2, <1>3 DEF IInv

LEMMA LifecycleStep == ASSUME IInv, NEW s \in Servers, Lifecycle(s) PROVE IInv'
  <1>0. TypeOK /\ order \in OrderDoc /\ job \in JobDoc
    BY Types DEF IInv
  <1>1. run[s] \in Run /\ run[s] # Idle
    BY <1>0, AtWork DEF Lifecycle, Steps
  <1>2. UNCHANGED <<job, mapping, lease, remote, events, suspended>>
    BY DEF Lifecycle
  <1>3. /\ order' \in OrderDoc /\ order'.version = order.version /\ order'.completed = order.completed
        /\ order'.sync \in {order.sync, "review"}
    BY <1>0 DEF Lifecycle, OrderDoc, Outcomes
  <1>4. /\ OnlyRun(s) /\ run'[s] # Idle /\ run'[s].at \in {"review job", "packed"}
        /\ run'[s].source = run[s].source
    BY <1>0, <1>1, GotoTyped DEF Lifecycle, Steps
  <1>5. ~Posting(s)' /\ ~Knows(s)' /\ Checked(s)'
    BY <1>4 DEF Posting, Knows, Checked, HasRead, Wrote, At
  <1>6. Versions => Versions'
    BY <1>2, <1>3 DEF Versions
  <1> QED
    BY <1>0, <1>1, <1>2, <1>3, <1>4, <1>5, <1>6, DueStays, WriteStep DEF TypeOK

LEMMA ReviewJobStep == ASSUME IInv, NEW s \in Servers, ReviewJob(s) PROVE IInv'
  <1>0. TypeOK /\ order \in OrderDoc /\ job \in JobDoc
    BY Types DEF IInv
  <1>1. run[s] \in Run /\ run[s] # Idle
    BY <1>0, AtWork DEF ReviewJob, Steps
  <1>2. UNCHANGED <<order, mapping, lease, remote, events, suspended>>
    BY DEF ReviewJob
  <1>3. job' \in JobDoc /\ job'.source = job.source
    <2>1. "review" \in JobStatus
      BY DEF JobStatus, Outcomes
    <2>2. job.revision + 1 \in Nat \ {0}
      BY <1>0 DEF JobDoc
    <2> QED
      BY <1>0, <2>1, <2>2 DEF ReviewJob, JobDoc
  <1>4. /\ OnlyRun(s) /\ run'[s] # Idle /\ run'[s].at = "packed"
        /\ run'[s].source = run[s].source
    BY <1>0, <1>1, GotoTyped DEF ReviewJob, Steps
  <1>5. ~Posting(s)' /\ ~Knows(s)' /\ Checked(s)'
    BY <1>4 DEF Posting, Knows, Checked, HasRead, Wrote, At
  <1>6. Versions => Versions'
    BY <1>2, <1>3 DEF Versions
  <1> QED
    BY <1>0, <1>1, <1>2, <1>3, <1>4, <1>5, <1>6, DueStays, WriteStep DEF TypeOK

LEMMA QueuedTyped ==
    ASSUME TypeOK, NEW version \in 0 .. MaxVersion
    PROVE  /\ Queued(version) \in JobDoc /\ Enqueued(version) \in JobDoc
           /\ Queued(version).source = Larger(job.source, version)
           /\ Enqueued(version).source \in {job.source, version, Larger(job.source, version)}
  <1>1. "queued" \in JobStatus /\ job \in JobDoc
    BY Types DEF JobStatus
  <1>2. job.revision + 1 \in Nat \ {0} /\ Larger(job.source, version) \in 0 .. MaxVersion
    <2>1. job.revision \in Nat /\ job.source \in 0 .. MaxVersion
      BY <1>1 DEF JobDoc
    <2> QED
      BY <2>1, LargerIsOne
  <1>3. Queued(version) \in JobDoc /\ Queued(version).source = Larger(job.source, version)
    BY <1>1, <1>2, Bounds DEF Queued, JobDoc
  <1>4. /\ [job EXCEPT !.status = "queued", !.source = version] \in JobDoc
        /\ [job EXCEPT !.status = "queued", !.source = version].source = version
    BY <1>1 DEF JobDoc
  <1> QED
    BY <1>1, <1>3, <1>4 DEF Enqueued

LEMMA EnqueueStep == ASSUME IInv, NEW s \in Servers, Enqueue(s) PROVE IInv'
  <1>0. TypeOK /\ order \in OrderDoc /\ job \in JobDoc
    BY Types DEF IInv
  <1>1. run[s] \in Run /\ run[s] # Idle /\ At(s, "enqueue")
    BY <1>0, AtWork DEF Enqueue, Steps
  <1>2. UNCHANGED <<mapping, lease, remote, events, suspended>>
    BY DEF Enqueue
  <1>3. run[s].read \in 0 .. MaxVersion
    BY <1>1 DEF Run
  <1>4. /\ OnlyRun(s) /\ run'[s] # Idle /\ ~Posting(s)' /\ ~Knows(s)' /\ Checked(s)'
        /\ run'[s].source \in {run[s].source, 0}
    BY <1>1, Goes DEF Enqueue
  <1>5. CASE Eligible
    <2>1. order' = order /\ job' = Enqueued(run[s].read)
      BY <1>5 DEF Enqueue
    <2>2. job' \in JobDoc /\ job'.source \in {job.source, run[s].read, Larger(job.source, run[s].read)}
      BY <1>0, <1>3, <2>1, QueuedTyped
    <2>3. Versions /\ Checked(s) => job'.source <= order.version
      BY <1>0, <1>1, <1>3, <2>2, LargerIsOne DEF Versions, Checked
    <2>4. Versions /\ Checked(s) => Versions'
      BY <1>2, <2>1, <2>3 DEF Versions
    <2> QED
      BY <1>0, <1>1, <1>2, <1>4, <2>1, <2>2, <2>4, DueStays, WriteStep DEF TypeOK
  <1>6. CASE ~Eligible
    <2>1. job' = job
      BY <1>6 DEF Enqueue
    <2>2. Larger(order.completed, run[s].read) \in 0 .. MaxVersion
      BY <1>0, <1>3, LargerIsOne DEF OrderDoc
    <2>3. /\ order' \in OrderDoc /\ order'.version = order.version /\ order'.sync = "review"
          /\ order'.completed = Larger(order.completed, run[s].read)
      BY <1>0, <1>6, <2>2 DEF Enqueue, OrderDoc, Outcomes
    <2>4. Versions /\ Checked(s) => order'.completed <= order.version
      BY <1>0, <1>1, <1>3, <2>3, LargerIsOne DEF Versions, Checked
    <2>5. Versions /\ Checked(s) => Versions'
      BY <1>2, <2>1, <2>3, <2>4 DEF Versions
    <2> QED
      BY <1>0, <1>1, <1>2, <1>4, <2>1, <2>3, <2>5, DueStays, WriteStep DEF TypeOK
  <1> QED
    BY <1>5, <1>6

LEMMA ClaimStep == ASSUME IInv, NEW s \in Servers, Claim(s) PROVE IInv'
  <1>0. TypeOK /\ order \in OrderDoc /\ job \in JobDoc
    BY Types DEF IInv
  <1>1. run[s] \in Run /\ run[s] # Idle
    BY <1>0, AtWork DEF Claim, Steps
  <1>2. UNCHANGED <<order, mapping, lease, remote, events, suspended>>
    BY DEF Claim
  <1> DEFINE n == IF job.attempts < MaxAttempts THEN job.attempts + 1 ELSE MaxAttempts
             r == [run[s] EXCEPT !.at = "read", !.revision = job.revision, !.source = job.source, !.attempts = n]
  <1>3. n \in 0 .. MaxAttempts
    BY <1>0, Bounds DEF JobDoc
  <1>4. /\ job' = [job EXCEPT !.status = "running", !.owner = s, !.attempts = n]
        /\ run' = [run EXCEPT ![s] = r]
    BY DEF Claim
  <1> HIDE DEF n
  <1>5. job' \in JobDoc /\ job'.source = job.source
    <2>1. "running" \in JobStatus
      BY DEF JobStatus
    <2> QED
      BY <1>0, <1>3, <1>4, <2>1 DEF JobDoc
  <1>6. r \in Run /\ r.at = "read" /\ r.source = job.source
    BY <1>0, <1>1, <1>3 DEF Run, JobDoc, Steps
  <1>7. r # Idle
    BY <1>6 DEF Idle
  <1> HIDE DEF r
  <1>8. OnlyRun(s) /\ run'[s] = r
    BY <1>0, <1>4, <1>6, NewRun
  <1>9. ~Posting(s)' /\ ~Knows(s)'
    BY <1>6, <1>8 DEF Posting, Knows
  <1>10. Versions => Versions' /\ Checked(s)' /\ Due(s)'
    BY <1>2, <1>5, <1>6, <1>8 DEF Versions, Checked, Due, HasRead, Wrote, At
  <1> QED
    BY <1>0, <1>1, <1>2, <1>5, <1>7, <1>8, <1>9, <1>10, WriteStep DEF TypeOK

LEMMA SettleStep == ASSUME IInv, NEW s \in Servers, Settle(s) PROVE IInv'
  <1>0. TypeOK /\ order \in OrderDoc /\ job \in JobDoc
    BY Types DEF IInv
  <1>1. run[s] \in Run /\ run[s] # Idle /\ At(s, "settle")
    BY <1>0, AtWork DEF Settle, Steps
  <1>2. UNCHANGED <<order, mapping, lease, remote, events, suspended>>
    BY DEF Settle
  <1>3. job' \in JobDoc /\ job'.source = job.source
    <2>1. run[s].outcome \in JobStatus
      BY <1>1 DEF Run, JobStatus
    <2> QED
      BY <1>0, <2>1 DEF Settle, JobDoc
  <1>4. /\ OnlyRun(s) /\ run'[s] # Idle /\ ~Posting(s)' /\ ~Knows(s)' /\ (Checked(s) => Checked(s)')
        /\ run'[s].source \in {run[s].source, 0}
    <2>1. CASE Fenced(s)
      <3>1. /\ OnlyRun(s) /\ run'[s] # Idle /\ run'[s].at = "report"
            /\ run'[s].read = run[s].read /\ run'[s].source = run[s].source
            /\ run'[s].outcome = run[s].outcome
        BY <1>0, <1>1, <2>1, GotoTyped DEF Settle, Steps
      <3> QED
        BY <1>1, <1>2, <3>1 DEF Posting, Knows, Checked, HasRead, Wrote, At
    <2>2. CASE ~Fenced(s)
      BY <1>1, <2>2, Goes DEF Settle, AfterJob
    <2> QED
      BY <2>1, <2>2
  <1>5. Versions => Versions'
    BY <1>2, <1>3 DEF Versions
  <1> QED
    BY <1>0, <1>1, <1>2, <1>3, <1>4, <1>5, DueStays, WriteStep DEF TypeOK

LEMMA ReportStep == ASSUME IInv, NEW s \in Servers, Report(s) PROVE IInv'
  <1>0. TypeOK /\ order \in OrderDoc /\ job \in JobDoc /\ remote \in Remote
    BY Types DEF IInv
  <1>1. run[s] \in Run /\ run[s] # Idle /\ At(s, "report")
    BY <1>0, AtWork DEF Report, Steps
  <1>2. UNCHANGED <<job, mapping, lease, remote, events, suspended>>
    BY DEF Report
  <1>3. /\ OnlyRun(s) /\ run'[s] # Idle /\ ~Posting(s)' /\ ~Knows(s)' /\ Checked(s)'
        /\ run'[s].source \in {run[s].source, 0}
    BY <1>1, Goes DEF Report, AfterJob
  <1> DEFINE done == IF run[s].outcome = "retrying" THEN order.completed
                     ELSE Larger(order.completed, run[s].source)
  <1>4. run[s].source \in 0 .. MaxVersion /\ run[s].outcome \in Outcomes /\ run[s].read \in 0 .. MaxVersion
    BY <1>1 DEF Run
  <1>5. done \in 0 .. MaxVersion
    BY <1>0, <1>4, LargerIsOne DEF OrderDoc
  <1>6. order' = [order EXCEPT !.sync = run[s].outcome, !.completed = done]
    BY DEF Report
  <1> HIDE DEF done
  <1>7. /\ order' \in OrderDoc /\ order'.version = order.version
        /\ order'.sync = run[s].outcome /\ order'.completed = done
    BY <1>0, <1>4, <1>5, <1>6 DEF OrderDoc
  <1>8. done \in {order.completed, run[s].source}
    BY LargerIsOne DEF done
  <1>9. Versions /\ Checked(s) /\ Due(s) => Versions'
    BY <1>1, <1>2, <1>4, <1>7, <1>8 DEF Versions, Checked, Due, Wrote, At
  <1> QED
    BY <1>0, <1>1, <1>2, <1>3, <1>7, <1>9, DueStays, WriteStep DEF TypeOK

LEMMA LinkStep == ASSUME IInv, NEW s \in Servers, Link(s) PROVE IInv'
  <1>0. TypeOK /\ order \in OrderDoc /\ job \in JobDoc
    BY Types DEF IInv
  <1>1. run[s] \in Run /\ run[s] # Idle /\ At(s, "link")
    BY <1>0, AtWork DEF Link, Steps
  <1>2. UNCHANGED <<job, mapping, lease, remote, suspended>> /\ events' \in 0 .. MaxEvents
    BY <1>0, EventTyped DEF Link
  <1>3. /\ order' \in OrderDoc /\ order'.version = order.version
        /\ order'.completed = order.completed /\ order'.sync = order.sync
    BY <1>0 DEF Link, OrderDoc
  <1>4. /\ OnlyRun(s) /\ run'[s] # Idle /\ ~Posting(s)' /\ ~Knows(s)' /\ (Checked(s) => Checked(s)')
        /\ run'[s].source \in {run[s].source, 0}
    <2>1. CASE Goto(s, "settle")
      <3>1. /\ OnlyRun(s) /\ run'[s] # Idle /\ run'[s].at = "settle"
            /\ run'[s].read = run[s].read /\ run'[s].source = run[s].source
            /\ run'[s].outcome = run[s].outcome
        BY <1>0, <1>1, <2>1, GotoTyped DEF Steps
      <3> QED
        BY <1>1, <1>2, <1>3, <3>1 DEF Posting, Knows, Checked, HasRead, Wrote, At
    <2>2. ASSUME NEW outcome \in Outcomes \ {"synced"}, Fails(s, "settle", outcome)
          PROVE  /\ OnlyRun(s) /\ run'[s] # Idle /\ ~Posting(s)' /\ ~Knows(s)' /\ Checked(s)'
                 /\ run'[s].source \in {run[s].source, 0}
      BY <1>1, <2>2, FailsSafe
    <2> QED
      BY <2>1, <2>2, RetryTyped, ReviewSafe DEF Link
  <1>5. Versions => Versions'
    BY <1>2, <1>3 DEF Versions
  <1> QED
    BY <1>0, <1>1, <1>2, <1>3, <1>4, <1>5, DueStays, WriteStep

-----------------------------------------------------------------------------
\* The steps that write the mapping or call Zoho.
LEMMA CallStep ==
    ASSUME IInv, NEW s \in Servers, run[s] \in Run, run[s] # Idle, OnlyRun(s), run'[s] # Idle,
           UNCHANGED <<order, job, lease, suspended>>, events' \in 0 .. MaxEvents,
           mapping' \in {"new", "creating", "mapped"}, remote' \in Remote,
           run'[s].source = run[s].source, Once',
           ~suspended /\ Versions /\ Checked(s) => Versions' /\ Checked(s)'
    PROVE  IInv'
  <1>1. Due(s) => Due(s)'
    BY DueStays DEF IInv
  <1>2. Serial'
    BY <1>1, SerialStays DEF IInv
  <1>3. TypeOK'
    BY Types DEF IInv, OnlyRun, OrderDoc, JobDoc, Remote, Leases, Runs, TypeOK
  <1> QED
    BY <1>2, <1>3 DEF IInv

LEMMA LookupStep == ASSUME IInv, NEW s \in Servers, Lookup(s) PROVE IInv'
  <1>0. TypeOK /\ remote \in Remote /\ mapping \in {"new", "creating", "mapped"} /\ Once
    BY Types DEF IInv
  <1>1. run[s] \in Run /\ run[s] # Idle /\ At(s, "lookup")
    BY <1>0, AtWork DEF Lookup, Steps
  <1>2. UNCHANGED <<order, job, lease, remote, suspended>> /\ events' \in 0 .. MaxEvents
    BY <1>0, EventTyped DEF Lookup
  <1>3. CASE (mapping = "mapped" \/ remote.orders = 1) /\ mapping' = "mapped" /\ Goto(s, "update")
    <2>1. /\ OnlyRun(s) /\ run'[s] # Idle /\ run'[s].at = "update"
          /\ run'[s].read = run[s].read /\ run'[s].source = run[s].source
      BY <1>0, <1>1, <1>3, GotoTyped DEF Steps
    <2>2. remote.orders = 1
      BY <1>0, <1>3 DEF Once
    <2>3. Once'
      BY <1>0, <1>2, <1>3, <2>1, <2>2 DEF Once, OnlyRun, Posting, Knows
    <2>4. Versions /\ Checked(s) => Versions' /\ Checked(s)'
      BY <1>1, <1>2, <2>1 DEF Versions, Checked, HasRead, Wrote, At
    <2> QED
      BY <1>0, <1>1, <1>2, <1>3, <2>1, <2>3, <2>4, CallStep
  <1>4. CASE mapping' = mapping /\ Goto(s, "assert")
    <2>1. /\ OnlyRun(s) /\ run'[s] # Idle /\ run'[s].at = "assert"
          /\ run'[s].read = run[s].read /\ run'[s].source = run[s].source
      BY <1>0, <1>1, <1>4, GotoTyped DEF Steps
    <2>2. Once'
      BY <1>0, <1>2, <1>4, <2>1, OnceStays DEF Posting, Knows
    <2>3. Versions /\ Checked(s) => Versions' /\ Checked(s)'
      BY <1>1, <1>2, <2>1 DEF Versions, Checked, HasRead, Wrote, At
    <2> QED
      BY <1>0, <1>1, <1>2, <1>4, <2>1, <2>2, <2>3, CallStep
  <1>5. ASSUME NEW outcome \in Outcomes \ {"synced"}, Fails(s, "unlock", outcome), mapping' = mapping
        PROVE  IInv'
    <2>1. /\ OnlyRun(s) /\ run'[s] # Idle /\ run'[s].at = "unlock"
          /\ run'[s].source = run[s].source /\ run'[s].outcome # "synced"
      BY <1>0, <1>1, <1>5, FailsTyped DEF Steps
    <2>2. Once'
      BY <1>0, <1>2, <1>5, <2>1, OnceStays DEF Posting, Knows
    <2>3. Versions => Versions' /\ Checked(s)'
      BY <1>2, <2>1 DEF Versions, Checked, HasRead, Wrote, At
    <2> QED
      BY <1>0, <1>1, <1>2, <1>5, <2>1, <2>2, <2>3, CallStep
  <1> QED
    BY <1>3, <1>4, <1>5, RetryTyped, ReviewSafe DEF Lookup

LEMMA PutStep == ASSUME IInv, NEW s \in Servers, Put(s) PROVE IInv'
  <1>0. TypeOK /\ remote \in Remote /\ mapping \in {"new", "creating", "mapped"} /\ Once
    BY Types DEF IInv
  <1>1. run[s] \in Run /\ run[s] # Idle /\ At(s, "put") /\ run[s].read \in 0 .. MaxVersion
    BY <1>0, AtWork DEF Put, Steps, Run
  <1>2. UNCHANGED <<order, job, mapping, lease, suspended>> /\ events' \in 0 .. MaxEvents
    BY <1>0, EventTyped DEF Put
  <1>3. remote' = remote \/ remote' = [remote EXCEPT !.version = run[s].read]
    BY DEF Put
  <1>4. /\ remote' \in Remote /\ remote'.orders = remote.orders
        /\ remote'.version \in {remote.version, run[s].read}
    BY <1>0, <1>1, <1>3 DEF Remote
  <1>5. remote.orders = 1
    BY <1>0, <1>1 DEF Once, Knows, At
  <1>6. Versions /\ Checked(s) => Versions'
    BY <1>0, <1>1, <1>2, <1>4, <1>5, Types, Bounds
    DEF Versions, Checked, HasRead, At, Remote, OrderDoc
  <1>7. CASE remote' = [remote EXCEPT !.version = run[s].read] /\ Goto(s, "map")
    <2>1. /\ OnlyRun(s) /\ run'[s] # Idle /\ run'[s].at = "map"
          /\ run'[s].read = run[s].read /\ run'[s].source = run[s].source
      BY <1>0, <1>1, <1>7, GotoTyped DEF Steps
    <2>2. Once'
      BY <1>0, <1>2, <1>4, <1>5, <2>1, OnceStays DEF Posting
    <2>3. remote'.version = run[s].read
      BY <1>0, <1>7 DEF Remote
    <2>4. Checked(s) => Checked(s)'
      BY <1>1, <1>2, <1>4, <1>5, <2>1, <2>3 DEF Checked, HasRead, Wrote, At
    <2> QED
      BY <1>0, <1>1, <1>2, <1>4, <1>6, <2>1, <2>2, <2>4, CallStep
  <1>8. ASSUME NEW outcome \in Outcomes \ {"synced"}, Fails(s, "unlock", outcome)
        PROVE  IInv'
    <2>1. /\ OnlyRun(s) /\ run'[s] # Idle /\ run'[s].at = "unlock"
          /\ run'[s].source = run[s].source /\ run'[s].outcome # "synced"
      BY <1>0, <1>1, <1>8, FailsTyped DEF Steps
    <2>2. Once'
      BY <1>0, <1>2, <1>4, <2>1, OnceStays DEF Posting, Knows
    <2>3. Checked(s)'
      BY <2>1 DEF Checked, HasRead, Wrote, At
    <2> QED
      BY <1>0, <1>1, <1>2, <1>4, <1>6, <2>1, <2>2, <2>3, CallStep
  <1> QED
    BY <1>7, <1>8, RetryTyped, ReviewSafe DEF Put

\* A failed call ends in an outcome that is not success.
LEMMA FailedCall ==
    ASSUME IInv, NEW s \in Servers, run[s] \in Run, run[s] # Idle,
           NEW outcome \in Outcomes \ {"synced"}, Fails(s, "unlock", outcome)
    PROVE  /\ OnlyRun(s) /\ run'[s] # Idle /\ run'[s].source = run[s].source
           /\ ~Posting(s)' /\ ~Knows(s)' /\ Checked(s)'
  <1>1. outcome \in Outcomes /\ "unlock" \in Steps /\ TypeOK
    BY DEF Steps, IInv
  <1>2. /\ OnlyRun(s) /\ run'[s].at = "unlock" /\ run'[s] # Idle
        /\ run'[s].source = run[s].source /\ run'[s].outcome = outcome
    BY <1>1, FailsTyped
  <1> QED
    BY <1>2 DEF Posting, Knows, Checked, HasRead, Wrote, At

LEMMA ClaimMappingStep == ASSUME IInv, NEW s \in Servers, ClaimMapping(s) PROVE IInv'
  <1>0. TypeOK /\ remote \in Remote /\ mapping \in {"new", "creating", "mapped"} /\ Once
    BY Types DEF IInv
  <1>1. run[s] \in Run /\ run[s] # Idle /\ At(s, "claim")
    BY <1>0, AtWork DEF ClaimMapping, Steps
  <1>2. UNCHANGED <<order, job, lease, remote, suspended, events>> /\ events' \in 0 .. MaxEvents
    BY <1>0, EventTyped DEF ClaimMapping
  <1>3. Versions => Versions'
    BY <1>2 DEF Versions
  <1>4. CASE mapping = "new"
    <2>1. mapping' = "creating" /\ Goto(s, "post")
      BY <1>4 DEF ClaimMapping
    <2>2. /\ OnlyRun(s) /\ run'[s] # Idle /\ run'[s].at = "post"
          /\ run'[s].read = run[s].read /\ run'[s].source = run[s].source
      BY <1>0, <1>1, <2>1, GotoTyped DEF Steps
    <2>3. remote.orders = 0 /\ \A t \in Servers : ~Posting(t)
      BY <1>0, <1>4 DEF Once
    <2>4. Once'
      BY <1>0, <1>2, <2>1, <2>2, <2>3 DEF Once, OnlyRun, Posting, Knows
    <2>5. Checked(s) => Checked(s)'
      BY <1>1, <1>2, <2>2 DEF Checked, HasRead, Wrote, At
    <2> QED
      BY <1>0, <1>1, <1>2, <1>3, <2>1, <2>2, <2>4, <2>5, CallStep
  <1>5. CASE mapping # "new"
    <2>1. mapping' = mapping /\ Fails(s, "unlock", "review")
      BY <1>5 DEF ClaimMapping
    <2>2. /\ OnlyRun(s) /\ run'[s] # Idle /\ run'[s].source = run[s].source
          /\ ~Posting(s)' /\ ~Knows(s)' /\ Checked(s)'
      BY <1>1, <2>1, FailedCall, ReviewSafe
    <2>3. Once'
      BY <1>0, <1>2, <2>1, <2>2, OnceStays
    <2> QED
      BY <1>0, <1>1, <1>2, <1>3, <2>1, <2>2, <2>3, CallStep
  <1> QED
    BY <1>4, <1>5

\* The create: whoever posts is alone with the mark, so there was no order.
LEMMA PostStep == ASSUME IInv, NEW s \in Servers, Post(s) PROVE IInv'
  <1>0. TypeOK /\ remote \in Remote /\ mapping \in {"new", "creating", "mapped"} /\ Once
    BY Types DEF IInv
  <1>1. run[s] \in Run /\ run[s] # Idle /\ At(s, "post") /\ run[s].read \in 0 .. MaxVersion
    BY <1>0, AtWork DEF Post, Steps, Run
  <1>2. UNCHANGED <<order, job, mapping, lease, suspended>> /\ events' \in 0 .. MaxEvents
    BY <1>0, EventTyped DEF Post
  <1>3. /\ mapping = "creating" /\ remote.orders = 0
        /\ \A t \in Servers \ {s} : ~Posting(t)
        /\ \A t \in Servers : ~Knows(t)
    BY <1>0, <1>1 DEF Once, Posting, Knows, At
  <1>4. /\ Created(s) \in Remote /\ Created(s).orders = 1 /\ Created(s).version = run[s].read
    BY <1>1, <1>3 DEF Created, Remote
  <1>5. remote' \in {remote, Created(s)}
    BY DEF Post
  <1>6. /\ remote' \in Remote /\ remote'.orders \in {0, 1}
        /\ remote'.version \in {remote.version, run[s].read}
    BY <1>0, <1>3, <1>4, <1>5
  <1>7. Versions /\ Checked(s) => Versions'
    BY <1>1, <1>2, <1>3, <1>4, <1>5 DEF Versions, Checked, HasRead, At
  <1>8. CASE remote' = Created(s) /\ Goto(s, "map")
    <2>1. /\ OnlyRun(s) /\ run'[s] # Idle /\ run'[s].at = "map"
          /\ run'[s].read = run[s].read /\ run'[s].source = run[s].source
      BY <1>0, <1>1, <1>8, GotoTyped DEF Steps
    <2>2. Once'
      BY <1>0, <1>2, <1>3, <1>4, <1>8, <2>1 DEF Once, OnlyRun, Posting, Knows
    <2>3. Checked(s) => Checked(s)'
      BY <1>1, <1>2, <1>4, <1>8, <2>1 DEF Checked, HasRead, Wrote, At
    <2> QED
      BY <1>0, <1>1, <1>2, <1>6, <1>7, <2>1, <2>2, <2>3, CallStep
  <1>9. CASE remote' = remote /\ Goto(s, "unclaim")
    <2>1. /\ OnlyRun(s) /\ run'[s] # Idle /\ run'[s].at = "unclaim"
          /\ run'[s].read = run[s].read /\ run'[s].source = run[s].source
      BY <1>0, <1>1, <1>9, GotoTyped DEF Steps
    <2>2. Once'
      BY <1>0, <1>1, <1>2, <1>9, <2>1, OnceStays DEF Posting, Knows, At
    <2>3. Checked(s)'
      BY <2>1 DEF Checked, HasRead, Wrote, At
    <2> QED
      BY <1>0, <1>1, <1>2, <1>6, <1>7, <2>1, <2>2, <2>3, CallStep
  <1>10. CASE Fails(s, "unlock", "review")
    <2>1. /\ OnlyRun(s) /\ run'[s] # Idle /\ run'[s].source = run[s].source
          /\ ~Posting(s)' /\ ~Knows(s)' /\ Checked(s)'
      BY <1>1, <1>10, FailedCall, ReviewSafe
    <2>2. Once'
      BY <1>0, <1>2, <1>3, <1>6, <2>1 DEF Once, OnlyRun, Posting, Knows
    <2> QED
      BY <1>0, <1>1, <1>2, <1>6, <1>7, <2>1, <2>2, CallStep
  <1> QED
    BY <1>8, <1>9, <1>10 DEF Post

LEMMA UnclaimStep == ASSUME IInv, NEW s \in Servers, Unclaim(s) PROVE IInv'
  <1>0. TypeOK /\ remote \in Remote /\ Once
    BY Types DEF IInv
  <1>1. run[s] \in Run /\ run[s] # Idle /\ At(s, "unclaim")
    BY <1>0, AtWork DEF Unclaim, Steps
  <1>2. UNCHANGED <<order, job, lease, remote, suspended, events>> /\ events' \in 0 .. MaxEvents
    BY <1>0, EventTyped DEF Unclaim
  <1>3. /\ mapping = "creating" /\ remote.orders = 0
        /\ \A t \in Servers \ {s} : ~Posting(t)
        /\ \A t \in Servers : ~Knows(t)
    BY <1>0, <1>1 DEF Once, Posting, Knows, At
  <1>4. mapping' = "new"
    BY <1>3 DEF Unclaim
  <1>5. /\ OnlyRun(s) /\ run'[s] # Idle /\ run'[s].source = run[s].source
        /\ ~Posting(s)' /\ ~Knows(s)' /\ Checked(s)'
    BY <1>1, FailedCall, RetryTyped DEF Unclaim
  <1>6. Once'
    BY <1>2, <1>3, <1>4, <1>5 DEF Once, OnlyRun, Posting, Knows
  <1>7. Versions => Versions'
    BY <1>2 DEF Versions
  <1> QED
    BY <1>0, <1>1, <1>2, <1>4, <1>5, <1>6, <1>7, CallStep

LEMMA SaveMappingStep == ASSUME IInv, NEW s \in Servers, SaveMapping(s) PROVE IInv'
  <1>0. TypeOK /\ remote \in Remote /\ Once
    BY Types DEF IInv
  <1>1. run[s] \in Run /\ run[s] # Idle /\ At(s, "map")
    BY <1>0, AtWork DEF SaveMapping, Steps
  <1>2. UNCHANGED <<order, job, lease, remote, suspended, events>> /\ events' \in 0 .. MaxEvents
        /\ mapping' = "mapped"
    BY <1>0, EventTyped DEF SaveMapping
  <1>3. remote.orders = 1
    BY <1>0, <1>1 DEF Once, Knows, At
  <1>4. /\ OnlyRun(s) /\ run'[s].at = "unlock" /\ run'[s] # Idle
        /\ run'[s].read = run[s].read /\ run'[s].source = run[s].source
    <2>1. "unlock" \in Steps /\ "synced" \in Outcomes
      BY DEF Steps, Outcomes
    <2> QED
      BY <1>0, <1>1, <2>1, FailsTyped DEF SaveMapping
  <1>5. Once'
    BY <1>0, <1>2, <1>3, <1>4 DEF Once, OnlyRun, Posting, Knows
  <1>6. Versions /\ Checked(s) => Versions' /\ Checked(s)'
    BY <1>1, <1>2, <1>4 DEF Versions, Checked, HasRead, Wrote, At
  <1> QED
    BY <1>0, <1>1, <1>2, <1>4, <1>5, <1>6, CallStep

-----------------------------------------------------------------------------
\* A worker begins, ends or dies.
LEMMA EndStep == ASSUME IInv, NEW s \in Servers, Acquire(s) \/ Release(s) \/ Crash(s) PROVE IInv'
  <1>0. TypeOK /\ lease \in Leases /\ Once
    BY Types DEF IInv
  <1>1. UNCHANGED <<order, job, mapping, remote, suspended>> /\ events' \in 0 .. MaxEvents
    BY <1>0, EventTyped DEF Acquire, Release, Crash
  <1>2. lease' \in Leases
    BY <1>0 DEF Acquire, Release, Released, Crash, Leases
  <1>3. /\ OnlyRun(s) /\ ~Posting(s)' /\ ~Knows(s)' /\ Checked(s)'
        /\ \/ Acquire(s) /\ run'[s] # Idle /\ run'[s].source = 0
           \/ ~Acquire(s) /\ run'[s] = Idle
    <2>1. CASE Acquire(s)
      <3>1. Tick \in Run /\ Tick # Idle /\ Tick.at = "lifecycle" /\ Tick.source = 0
        BY Bounds DEF Tick, Run, Steps, Outcomes, Idle
      <3>2. OnlyRun(s) /\ run'[s] = Tick
        BY <1>0, <2>1, <3>1, NewRun DEF Acquire
      <3> QED
        BY <2>1, <3>1, <3>2 DEF Posting, Knows, Checked, HasRead, Wrote, At
    <2>2. CASE ~Acquire(s)
      <3>1. OnlyRun(s) /\ run'[s] = Idle
        BY <1>0, <2>2, NewRun DEF Release, Crash
      <3> QED
        BY <2>2, <3>1 DEF Posting, Knows, Checked, HasRead, Wrote, At, Idle
    <2> QED
      BY <2>1, <2>2
  <1>4. Once'
    BY <1>0, <1>1, <1>3, OnceStays
  <1>5. ASSUME ~suspended PROVE Alone'
    <2>1. Alone
      BY <1>5 DEF IInv, Serial
    <2>2. CASE Acquire(s)
      BY <1>3, <2>1, <2>2, ServersAssumption DEF Alone, Acquire, OnlyRun
    <2>3. CASE ~Acquire(s)
      <3>1. \A t \in Servers \ {s} : run'[t] # Idle => lease.worker = t /\ lease'.worker = t
        BY <1>0, <1>3, <2>1, <2>3 DEF Alone, OnlyRun, Release, Released, Crash, Leases
      <3> QED
        BY <1>3, <2>3, <3>1 DEF Alone
    <2> QED
      BY <2>2, <2>3
  <1>6. ASSUME ~suspended PROVE Versions' /\ \A t \in Servers : Checked(t)' /\ Due(t)'
    <2>1. Versions /\ \A t \in Servers \ {s} : Checked(t) /\ Due(t)
      BY <1>6 DEF IInv, Serial
    <2>2. Versions'
      BY <1>1, <2>1 DEF Versions
    <2>3. \A t \in Servers \ {s} : Checked(t)' /\ Due(t)'
      BY <1>1, <1>3, <2>1 DEF OnlyRun, Checked, HasRead, Wrote, At, Due
    <2>4. Due(s)'
      BY <1>0, <1>1, <1>3, Types, Bounds DEF Due, OrderDoc
    <2> QED
      BY <1>3, <2>2, <2>3, <2>4
  <1>7. TypeOK'
    BY <1>0, <1>1, <1>2, <1>3, Types DEF TypeOK, OnlyRun, Runs, Leases
  <1> QED
    BY <1>1, <1>4, <1>5, <1>6, <1>7 DEF IInv, Serial

\* A process outlives its lease: from here on nothing is said of versions.
LEMMA SuspendStep == ASSUME IInv, NEW s \in Servers, Suspend(s) PROVE IInv'
  <1>0. TypeOK /\ lease \in Leases /\ Once
    BY Types DEF IInv
  <1>1. /\ UNCHANGED <<order, job, mapping, remote, run>> /\ events' \in 0 .. MaxEvents
        /\ suspended' = TRUE
    BY <1>0, EventTyped DEF Suspend
  <1>2. lease' \in Leases
    BY <1>0 DEF Suspend, Leases
  <1>3. Once'
    BY <1>0, <1>1 DEF Once, Posting, Knows
  <1>4. Serial'
    BY <1>1 DEF Serial
  <1>5. TypeOK'
    BY <1>0, <1>1, <1>2 DEF TypeOK, Leases
  <1> QED
    BY <1>3, <1>4, <1>5 DEF IInv

\* The shop and time.
Outside == Change \/ CancelOrder \/ Resync \/ \E key \in DOMAIN lease : Lapses(key)

LEMMA OutsideStep == ASSUME IInv, Outside PROVE IInv'
  <1>0. TypeOK /\ lease \in Leases /\ order \in OrderDoc /\ job \in JobDoc /\ Once
    BY Types DEF IInv
  <1>1. UNCHANGED <<mapping, remote, run, suspended>> /\ events' \in 0 .. MaxEvents
    BY <1>0, EventTyped DEF Outside, Change, CancelOrder, Resync, Lapses
  <1>2. lease' \in Leases /\ (lease'.worker = lease.worker \/ lease.worker = Orphan)
    BY <1>0 DEF Outside, Change, CancelOrder, Resync, Lapses, Leases
  <1>3. /\ order' \in OrderDoc /\ order'.version >= order.version
        /\ order'.completed = order.completed /\ order'.sync = order.sync
    <2>1. order.version \in Nat
      BY <1>0, Bounds DEF OrderDoc
    <2>2. CASE Change
      <3>1. order.version + 1 \in 0 .. MaxVersion
        BY <1>0, <2>2, Bounds DEF Change, OrderDoc
      <3> QED
        BY <1>0, <2>1, <2>2, <3>1 DEF Change, OrderDoc
    <2>3. CASE CancelOrder
      <3>1. order' = [order EXCEPT !.cancelled = TRUE]
        BY <2>3 DEF CancelOrder
      <3>2. order' \in OrderDoc
        BY <1>0, <3>1 DEF OrderDoc
      <3>3. /\ order'.version = order.version
            /\ order'.completed = order.completed /\ order'.sync = order.sync
        BY <1>0, <3>1 DEF OrderDoc
      <3> QED
        BY <2>1, <3>2, <3>3
    <2>4. CASE order' = order
      BY <1>0, <2>1, <2>4
    <2> QED
      BY <2>2, <2>3, <2>4 DEF Outside, Resync, Lapses
  <1>4. job' \in JobDoc /\ job'.source \in {job.source, 0}
    BY <1>0, QueuedTyped, LargerIsOne, Bounds DEF Outside, Change, CancelOrder, Resync, Lapses
  <1>5. Once'
    BY <1>0, <1>1 DEF Once, Posting, Knows
  <1>6. ASSUME ~suspended PROVE Alone' /\ Versions' /\ \A t \in Servers : Checked(t)' /\ Due(t)'
    <2>1. Alone /\ Versions /\ \A t \in Servers : Checked(t) /\ Due(t)
      BY <1>6 DEF IInv, Serial
    <2>2. Alone'
      BY <1>1, <1>2, <2>1, ServersAssumption DEF Alone
    <2>3. order.version \in Nat /\ order'.version \in Nat /\ order.completed \in Nat /\ job.source \in Nat
      BY <1>0, <1>3, Bounds DEF OrderDoc, JobDoc
    <2>4. remote.version \in Nat
      BY <1>0, Bounds, Types DEF Remote
    <2>5. Versions'
      BY <1>1, <1>3, <1>4, <2>1, <2>3, <2>4 DEF Versions
    <2>6. ASSUME NEW t \in Servers PROVE Checked(t)' /\ Due(t)'
      <3>1. run[t] # Idle => run[t].read \in Nat /\ run[t].source \in Nat
        BY <1>0, Bounds DEF TypeOK, Run
      <3>2. Due(t)'
        BY <1>1, <1>3, <2>1, <2>3, <3>1 DEF Due
      <3>3. At(t, "enqueue") \/ HasRead(t) \/ Wrote(t) => run[t] # Idle
        BY DEF At, HasRead, Wrote, Idle
      <3>4. Checked(t)'
        BY <1>1, <1>3, <2>1, <2>3, <3>1, <3>3 DEF Checked, At, HasRead, Wrote
      <3> QED
        BY <3>2, <3>4
    <2> QED
      BY <2>2, <2>5, <2>6
  <1>7. TypeOK'
    BY <1>0, <1>1, <1>2, <1>3, <1>4, Types DEF TypeOK, OrderDoc, JobDoc, Leases
  <1> QED
    BY <1>1, <1>5, <1>6, <1>7 DEF IInv, Serial

LEMMA InitIInv == ASSUME Init PROVE IInv
  <1>1. \A s \in Servers : run[s] = Idle
    BY DEF Init
  <1>2. Once
    BY <1>1 DEF Init, Once, Posting, Knows, Idle
  <1>3. Serial
    BY <1>1 DEF Init, Serial, Alone, Versions, Checked, Due, At, HasRead, Wrote, Idle
  <1>4. order \in OrderDoc /\ job \in JobDoc
    BY Bounds DEF Init, OrderDoc, JobDoc, JobStatus
  <1>5. lease \in Leases /\ remote \in Remote /\ run \in Runs
    BY Bounds DEF Init, Leases, Remote, Runs
  <1>6. TypeOK
    BY <1>4, <1>5, Bounds, Types DEF Init
  <1> QED
    BY <1>2, <1>3, <1>6 DEF IInv

THEOREM Inductive == Spec => []IInv
  <1>1. Init => IInv
    BY InitIInv
  <1>2. IInv /\ [Next]_vars => IInv'
    <2> SUFFICES ASSUME IInv, [Next]_vars PROVE IInv'
      OBVIOUS
    <2>1. ASSUME NEW s \in Servers, Works(s) PROVE IInv'
      BY <2>1, LifecycleStep, ReviewJobStep, PackedStep, EnqueueStep, ClaimStep, EndTickStep,
         ReadOrderStep, LeaseMappingStep, LookupStep, AssertStep, PutStep, ClaimMappingStep,
         PostStep, UnclaimStep, SaveMappingStep, UnlockStep, LinkStep, SettleStep, ReportStep,
         EndStep DEF Works
    <2>2. ASSUME UNCHANGED vars PROVE IInv'
      BY <2>2 DEF vars, IInv, TypeOK, Once, Serial, Alone, Versions, Checked, Due, Posting, Knows,
                  HasRead, Wrote, At
    <2> QED
      BY <2>1, <2>2, OutsideStep, EndStep, SuspendStep DEF Next, Outside
  <1> QED
    BY <1>1, <1>2, PTL DEF Spec

\* The documents, the leases and what the workers remember keep their shape.
THEOREM ExportTyped == Spec => []TypeOK
  <1>1. IInv => TypeOK
    BY DEF IInv
  <1> QED
    BY <1>1, Inductive, PTL

\* An order is created at Zoho at most once, whatever crashes, is suspended
\* or loses an answer (ZohoMappingService.js, the mark "creating").
THEOREM NeverCreatedTwice == Spec => []CreatedOnce
  <1>1. IInv => CreatedOnce
    BY DEF IInv, Once, CreatedOnce
  <1> QED
    BY <1>1, Inductive, PTL

\* Unless a process outlived its lease, an order that says its last version
\* is synced is at Zoho in that version (ZohoSyncQueue.js).
THEOREM SyncedMeansCurrent == Spec => []SyncedIsCurrent
  <1>1. ASSUME IInv PROVE SyncedIsCurrent
    <2> SUFFICES ASSUME order.sync = "synced", order.completed = order.version, ~suspended
                 PROVE  remote.orders = 1 /\ remote.version = order.version
      BY DEF SyncedIsCurrent
    <2>1. Versions /\ order \in OrderDoc /\ remote \in Remote
      BY <1>1, Types DEF IInv, Serial
    <2>2. order.version \in Nat /\ remote.version \in Nat
      BY <2>1, Bounds DEF OrderDoc, Remote
    <2> QED
      BY <2>1, <2>2 DEF Versions
  <1> QED
    BY <1>1, Inductive, PTL
=============================================================================
