------------------------------ MODULE ZohoExport ------------------------------
(***************************************************************************)
(* The export of one packed order to Zoho Books as a sales order.          *)
(*                                                                         *)
(* Every server runs the queue's worker each minute under a lease that a   *)
(* heartbeat renews, so it lapses only when its process dies or is         *)
(* suspended.  The worker reconciles the order with its job, claims the    *)
(* job, and creates or updates the remote order under a second lease, on   *)
(* the mapping.  Zoho has no idempotency key: a call whose answer is lost  *)
(* may have been carried out.                                              *)
(***************************************************************************)
EXTENDS Integers

CONSTANTS
    Servers,     \* processes that run the worker
    MaxAttempts, \* attempts of a job (8 in the code)
    MaxVersion,  \* bound: versions of the order
    MaxEvents    \* bound: crashes, suspensions, refused calls, lost answers,
                 \* and syncs that staff ask for

ASSUME AttemptsAssumption == MaxAttempts \in Nat \ {0}
ASSUME BoundsAssumption == MaxVersion \in Nat \ {0} /\ MaxEvents \in Nat

VARIABLES
    order,     \* the order: its version and what it says of its export
    job,       \* its ZohoSyncJob
    mapping,   \* state of its ZohoMapping: new, creating or mapped
    lease,     \* lease.worker, lease.mapping: who holds them
    remote,    \* external: the sales orders at Zoho, and the version of the last write
    run,       \* run[s]: where the worker of s is, and what it read
    events,    \* bounded events so far
    suspended  \* history: a live process outlived its lease

vars == <<order, job, mapping, lease, remote, run, events, suspended>>

Free == "free"
Orphan == "a dead process"
ASSUME ServersAssumption == Servers \cap {Free, Orphan} = {}

Outcomes == {"synced", "retrying", "dead_letter", "review"}
JobStatus == {"none", "queued", "running"} \cup Outcomes

Steps == {"lifecycle", "review job", "packed", "enqueue", "loop", "read", "lease",
          "lookup", "update", "put", "assert", "claim", "post", "unclaim", "map",
          "unlock", "link", "settle", "report", "release"}
Run == [at : Steps, read : 0 .. MaxVersion, revision : Nat, source : 0 .. MaxVersion,
        attempts : 0 .. MaxAttempts, outcome : Outcomes]
Idle == [at |-> "idle"]
Tick == [at |-> "lifecycle", read |-> 0, revision |-> 0, source |-> 0, attempts |-> 0,
         outcome |-> "synced"]

Larger(a, b) == IF a > b THEN a ELSE b
At(s, step) == run[s].at = step
Goto(s, step) == run' = [run EXCEPT ![s].at = step]
Leave(s, step) == run' = [run EXCEPT ![s] = [Tick EXCEPT !.at = step]]
Event == events < MaxEvents /\ events' = events + 1
Eligible == ~order.cancelled

-----------------------------------------------------------------------------
(* The shop: packing and every later change of the order raise its version; *)
(* cancelOrder does not.                                                    *)
Change ==
    /\ ~order.cancelled
    /\ order.version < MaxVersion
    /\ order' = [order EXCEPT !.version = @ + 1]
    /\ UNCHANGED <<job, mapping, lease, remote, run, events, suspended>>

CancelOrder ==
    /\ ~order.cancelled
    /\ order' = [order EXCEPT !.cancelled = TRUE]
    /\ UNCHANGED <<job, mapping, lease, remote, run, events, suspended>>

(* enqueueSync: the job is inserted, or queued again under a new revision.  *)
Queued(version) ==
    [job EXCEPT !.status = "queued", !.revision = @ + 1, !.attempts = 0,
                !.source = Larger(@, version)]

\* Fault: a job that exists is taken for queued.
EnqueuedOnce(version) ==
    IF job.status = "none" THEN [job EXCEPT !.status = "queued", !.source = version] ELSE job

Enqueued(version) ==
    CASE job.status = "none" -> [job EXCEPT !.status = "queued", !.source = version]
      [] job.source < version -> Queued(version)
      [] OTHER -> job

(* Staff ask for a sync, or retry a failed job: a new revision either way.  *)
Resync ==
    /\ Event
    /\ order.version > 0
    /\ Eligible
    /\ job' = Queued(0)
    /\ UNCHANGED <<order, mapping, lease, remote, run, suspended>>

-----------------------------------------------------------------------------
(* Leases.  A dead process loses them in two minutes, a live one only when  *)
(* it is suspended for as long: then any of them may be gone.               *)
Lapses(key) ==
    /\ lease[key] = Orphan
    /\ lease' = [lease EXCEPT ![key] = Free]
    /\ UNCHANGED <<order, job, mapping, remote, run, events, suspended>>

Suspend(s) ==
    /\ Event
    /\ \E lapsed \in SUBSET {key \in DOMAIN lease : lease[key] = s} \ {{}} :
          lease' = [key \in DOMAIN lease |-> IF key \in lapsed THEN Free ELSE lease[key]]
    /\ suspended' = TRUE
    /\ UNCHANGED <<order, job, mapping, remote, run>>

Released(s, key) == IF lease[key] = s THEN [lease EXCEPT ![key] = Free] ELSE lease

-----------------------------------------------------------------------------
(* processZohoQueue: one worker at a time.                                  *)
Acquire(s) ==
    /\ run[s] = Idle
    /\ lease.worker = Free
    /\ lease' = [lease EXCEPT !.worker = s]
    /\ run' = [run EXCEPT ![s] = Tick]
    /\ UNCHANGED <<order, job, mapping, remote, events, suspended>>

(* reconcilePackedOrders: an exported order that is cancelled goes to       *)
(* review, first the order and then its job ...                             *)
\* Fault: only orders with a version to export are looked at.
LifecycleBehind(s) ==
    /\ At(s, "lifecycle")
    /\ IF order.linked /\ order.cancelled /\ order.version > order.completed
         THEN order' = [order EXCEPT !.sync = "review"] /\ Goto(s, "review job")
         ELSE Goto(s, "packed") /\ UNCHANGED order
    /\ UNCHANGED <<job, mapping, lease, remote, events, suspended>>

Lifecycle(s) ==
    /\ At(s, "lifecycle")
    /\ IF order.linked /\ order.cancelled /\ order.sync # "review"
         THEN order' = [order EXCEPT !.sync = "review"] /\ Goto(s, "review job")
         ELSE Goto(s, "packed") /\ UNCHANGED order
    /\ UNCHANGED <<job, mapping, lease, remote, events, suspended>>

ReviewJob(s) ==
    /\ At(s, "review job")
    /\ job' = IF job.status = "none" THEN job
              ELSE [job EXCEPT !.status = "review", !.revision = @ + 1]
    /\ Goto(s, "packed")
    /\ UNCHANGED <<order, mapping, lease, remote, events, suspended>>

(* ... and a version that is not yet exported is queued, or goes to review  *)
(* at once when the order is no longer eligible.                            *)
Packed(s) ==
    /\ At(s, "packed")
    /\ IF order.version > order.completed
         THEN run' = [run EXCEPT ![s].at = "enqueue", ![s].read = order.version]
         ELSE Leave(s, "loop")
    /\ UNCHANGED <<order, job, mapping, lease, remote, events, suspended>>

Enqueue(s) ==
    /\ At(s, "enqueue")
    /\ IF Eligible
         THEN job' = Enqueued(run[s].read) /\ UNCHANGED order
         ELSE /\ order' = [order EXCEPT !.sync = "review",
                                        !.completed = Larger(@, run[s].read)]
              /\ UNCHANGED job
    /\ Leave(s, "loop")
    /\ UNCHANGED <<mapping, lease, remote, events, suspended>>

(* The job is claimed when it is due, or when it runs under a lease that    *)
(* nobody renews: two minutes after its claim it may be taken at any time.  *)
Claimable == job.status \in {"queued", "retrying", "running"}

Claim(s) ==
    /\ At(s, "loop")
    /\ Claimable
    /\ LET attempts == IF job.attempts < MaxAttempts THEN job.attempts + 1 ELSE MaxAttempts
       IN  /\ job' = [job EXCEPT !.status = "running", !.owner = s, !.attempts = attempts]
           /\ run' = [run EXCEPT ![s].at = "read", ![s].revision = job.revision,
                        ![s].source = job.source, ![s].attempts = attempts]
    /\ UNCHANGED <<order, mapping, lease, remote, events, suspended>>

EndTick(s) ==
    /\ At(s, "loop")
    /\ job.status # "queued"
    /\ Goto(s, "release")
    /\ UNCHANGED <<order, job, mapping, lease, remote, events, suspended>>

-----------------------------------------------------------------------------
(* syncSalesOrder.  A failure is ambiguous or asks for review by its code   *)
(* (review), retryable until the attempts counted at the claim run out, or  *)
(* final, and then the job is a dead letter at once.                        *)
RetryOutcome(s) == IF run[s].attempts < MaxAttempts THEN "retrying" ELSE "dead_letter"
Refusals(s) == {RetryOutcome(s), "dead_letter"}
Failures(s) == Refusals(s) \cup {"review"}

Fails(s, step, outcome) == run' = [run EXCEPT ![s].at = step, ![s].outcome = outcome]

ReadOrder(s) ==
    /\ At(s, "read")
    /\ \/ /\ Eligible
          /\ run' = [run EXCEPT ![s].at = "lease", ![s].read = order.version]
          /\ UNCHANGED events
       \/ ~Eligible /\ Fails(s, "settle", "review") /\ UNCHANGED events
       \/ Event /\ \E outcome \in Failures(s) : Fails(s, "settle", outcome)
    /\ UNCHANGED <<order, job, mapping, lease, remote, suspended>>

(* The customer and the items are synced meanwhile; the order is checked    *)
(* again before the mapping's lease is taken.                               *)
LeaseMapping(s) ==
    /\ At(s, "lease")
    /\ IF Eligible /\ lease.mapping = Free
         THEN lease' = [lease EXCEPT !.mapping = s] /\ Goto(s, "lookup")
         ELSE /\ Fails(s, "settle", IF Eligible THEN RetryOutcome(s) ELSE "review")
              /\ UNCHANGED lease
    /\ UNCHANGED <<order, job, mapping, remote, events, suspended>>

(* syncMapped: a mapping without a remote id looks the order up by its      *)
(* reference.                                                               *)
Lookup(s) ==
    /\ At(s, "lookup")
    /\ \/ /\ mapping = "mapped" \/ remote.orders = 1
          /\ mapping' = "mapped"
          /\ Goto(s, "update")
          /\ UNCHANGED events
       \/ /\ mapping # "mapped" /\ remote.orders # 1
          /\ IF remote.orders = 0 THEN Goto(s, "assert") ELSE Fails(s, "unlock", "review")
          /\ UNCHANGED <<mapping, events>>
       \/ /\ mapping # "mapped" /\ Event
          /\ \E outcome \in Failures(s) : Fails(s, "unlock", outcome)
          /\ UNCHANGED mapping
    /\ UNCHANGED <<order, job, lease, remote, suspended>>

AssertLease(s, here, next) ==
    /\ At(s, here)
    /\ IF lease.mapping = s THEN Goto(s, next) ELSE Fails(s, "unlock", RetryOutcome(s))
    /\ UNCHANGED <<order, job, mapping, lease, remote, events, suspended>>

BeforeUpdate(s) == AssertLease(s, "update", "put")
BeforeCreate(s) == AssertLease(s, "assert", "claim")

(* An update writes what was read of the order.  It may be refused, or its  *)
(* answer lost whether or not it was carried out.                           *)
Put(s) ==
    /\ At(s, "put")
    /\ \/ /\ remote' = [remote EXCEPT !.version = run[s].read]
          /\ Goto(s, "map")
          /\ UNCHANGED events
       \/ /\ Event /\ \E outcome \in Refusals(s) : Fails(s, "unlock", outcome)
          /\ UNCHANGED remote
       \/ /\ Event /\ Fails(s, "unlock", "review")
          /\ remote' \in {remote, [remote EXCEPT !.version = run[s].read]}
    /\ UNCHANGED <<order, job, mapping, lease, suspended>>

(* A create is preceded by the durable mark "creating" ...                  *)
\* Fault: the mark is written whatever the mapping says.
ClaimAnyMapping(s) ==
    /\ At(s, "claim")
    /\ mapping' = "creating"
    /\ Goto(s, "post")
    /\ UNCHANGED <<order, job, lease, remote, events, suspended>>

ClaimMapping(s) ==
    /\ At(s, "claim")
    /\ IF mapping = "new"
         THEN mapping' = "creating" /\ Goto(s, "post")
         ELSE Fails(s, "unlock", "review") /\ UNCHANGED mapping
    /\ UNCHANGED <<order, job, lease, remote, events, suspended>>

Created(s) == [orders |-> remote.orders + 1, version |-> run[s].read]

Post(s) ==
    /\ At(s, "post")
    /\ \/ remote' = Created(s) /\ Goto(s, "map") /\ UNCHANGED events
       \/ Event /\ Goto(s, "unclaim") /\ UNCHANGED remote
       \/ /\ Event /\ Fails(s, "unlock", "review")
          /\ remote' \in {remote, Created(s)}
    /\ UNCHANGED <<order, job, mapping, lease, suspended>>

(* ... which only a definite refusal takes back.                            *)
Unclaim(s) ==
    /\ At(s, "unclaim")
    /\ mapping' = IF mapping = "creating" THEN "new" ELSE mapping
    /\ \E outcome \in Refusals(s) : Fails(s, "unlock", outcome)
    /\ UNCHANGED <<order, job, lease, remote, events, suspended>>

SaveMapping(s) ==
    /\ At(s, "map")
    /\ mapping' = "mapped"
    /\ Fails(s, "unlock", "synced")
    /\ UNCHANGED <<order, job, lease, remote, events, suspended>>

Unlock(s) ==
    /\ At(s, "unlock")
    /\ lease' = Released(s, "mapping")
    /\ Goto(s, IF run[s].outcome = "synced" THEN "link" ELSE "settle")
    /\ UNCHANGED <<order, job, mapping, remote, events, suspended>>

(* The remote id goes on the order; the totals or the addresses may still   *)
(* fail.                                                                    *)
Link(s) ==
    /\ At(s, "link")
    /\ order' = [order EXCEPT !.linked = TRUE]
    /\ \/ Goto(s, "settle") /\ UNCHANGED events
       \/ Event /\ \E outcome \in Failures(s) : Fails(s, "settle", outcome)
    /\ UNCHANGED <<job, mapping, lease, remote, suspended>>

-----------------------------------------------------------------------------
(* The outcome is written to the job if the job is still this claim's, and  *)
(* then to the order, with the version the job was claimed for.             *)
Fenced(s) == job.owner = s /\ job.revision = run[s].revision
AfterJob(s) == IF run[s].outcome = "retrying" THEN "release" ELSE "loop"

Settle(s) ==
    /\ At(s, "settle")
    /\ IF Fenced(s)
         THEN /\ job' = [job EXCEPT !.status = run[s].outcome, !.owner = Free]
              /\ Goto(s, "report")
         ELSE Leave(s, AfterJob(s)) /\ UNCHANGED job
    /\ UNCHANGED <<order, mapping, lease, remote, events, suspended>>

\* Fault: the order's current version counts as exported.
ReportCurrent(s) ==
    /\ At(s, "report")
    /\ order' = [order EXCEPT !.sync = run[s].outcome,
          !.completed = IF run[s].outcome = "retrying" THEN @ ELSE order.version]
    /\ Leave(s, AfterJob(s))
    /\ UNCHANGED <<job, mapping, lease, remote, events, suspended>>

Report(s) ==
    /\ At(s, "report")
    /\ order' = [order EXCEPT !.sync = run[s].outcome,
          !.completed = IF run[s].outcome = "retrying" THEN @ ELSE Larger(@, run[s].source)]
    /\ Leave(s, AfterJob(s))
    /\ UNCHANGED <<job, mapping, lease, remote, events, suspended>>

(* The heartbeat of a worker that lost its lease notices sooner or later;   *)
(* the worker then leaves its job as it is.                                 *)
Stop(s) ==
    /\ lease.worker # s
    /\ At(s, "loop") \/ At(s, "settle")
    /\ Leave(s, "release")
    /\ UNCHANGED <<order, job, mapping, lease, remote, events, suspended>>

Release(s) ==
    /\ At(s, "release")
    /\ lease' = Released(s, "worker")
    /\ run' = [run EXCEPT ![s] = Idle]
    /\ UNCHANGED <<order, job, mapping, remote, events, suspended>>

Crash(s) ==
    /\ run[s] # Idle
    /\ Event
    /\ run' = [run EXCEPT ![s] = Idle]
    /\ lease' = [key \in DOMAIN lease |-> IF lease[key] = s THEN Orphan ELSE lease[key]]
    /\ UNCHANGED <<order, job, mapping, remote, suspended>>

-----------------------------------------------------------------------------
Init ==
    /\ order = [version |-> 0, cancelled |-> FALSE, completed |-> 0, sync |-> "none", linked |-> FALSE]
    /\ job = [status |-> "none", revision |-> 1, source |-> 0, attempts |-> 0, owner |-> Free]
    /\ mapping = "new"
    /\ lease = [worker |-> Free, mapping |-> Free]
    /\ remote = [orders |-> 0, version |-> 0]
    /\ run = [s \in Servers |-> Idle]
    /\ events = 0 /\ suspended = FALSE

Works(s) ==
    \/ Lifecycle(s) \/ ReviewJob(s) \/ Packed(s) \/ Enqueue(s) \/ Claim(s) \/ EndTick(s)
    \/ ReadOrder(s) \/ LeaseMapping(s) \/ Lookup(s) \/ BeforeUpdate(s) \/ BeforeCreate(s)
    \/ Put(s) \/ ClaimMapping(s) \/ Post(s) \/ Unclaim(s) \/ SaveMapping(s) \/ Unlock(s)
    \/ Link(s) \/ Settle(s) \/ Report(s) \/ Stop(s) \/ Release(s)

Next ==
    \/ Change \/ CancelOrder \/ Resync
    \/ \E key \in DOMAIN lease : Lapses(key)
    \/ \E s \in Servers : Acquire(s) \/ Works(s) \/ Suspend(s) \/ Crash(s)

Spec == Init /\ [][Next]_vars

(* The cron starts a worker each minute and a running one goes on; the      *)
(* lease of a dead process lapses; a heartbeat notices a lost lease; a      *)
(* job's lease and its delay end, so a claimable job is claimed at last.    *)
Fairness ==
    /\ \A s \in Servers : WF_vars(Works(s)) /\ SF_vars(Stop(s))
    /\ WF_vars(\E s \in Servers : Acquire(s))
    /\ \A key \in {"worker", "mapping"} : WF_vars(Lapses(key))
    /\ SF_vars(\E s \in Servers : Claim(s))

FairSpec == Spec /\ Fairness

-----------------------------------------------------------------------------
TypeOK ==
    /\ order \in [version : 0 .. MaxVersion, cancelled : BOOLEAN, completed : 0 .. MaxVersion,
                  sync : {"none"} \cup Outcomes, linked : BOOLEAN]
    /\ job \in [status : JobStatus, revision : Nat \ {0}, source : 0 .. MaxVersion,
                attempts : 0 .. MaxAttempts, owner : Servers \cup {Free}]
    /\ mapping \in {"new", "creating", "mapped"}
    /\ lease \in [worker : Servers \cup {Free, Orphan}, mapping : Servers \cup {Free, Orphan}]
    /\ remote \in [orders : Nat, version : 0 .. MaxVersion]
    /\ run \in [Servers -> Run \cup {Idle}]
    /\ events \in 0 .. MaxEvents /\ suspended \in BOOLEAN

(* However its workers crash, sleep through their leases or lose an answer, *)
(* an order is created at Zoho at most once (ZohoMappingService.js:51-53).  *)
CreatedOnce == remote.orders <= 1

(* As long as no process outlived its lease, an order that says its last    *)
(* version is synced is at Zoho in that version: the job's version was      *)
(* taken before the order was read (ZohoSyncQueue.js:103-139).              *)
SyncedIsCurrent ==
    order.sync = "synced" /\ order.completed = order.version /\ ~suspended
        => remote.orders = 1 /\ remote.version = order.version

(* Every version of the order gets an outcome, on the order or, when a      *)
(* worker dies between the two writes, on the job alone, which then keeps   *)
(* the order from being queued again (ZohoSyncQueue.js:51-63,103-140).      *)
VersionSettles ==
    <>[](\/ order.completed = order.version
         \/ job.source = order.version /\ job.status \in Outcomes \ {"retrying"})

(* A cancelled order that was created at Zoho comes to the accountants'     *)
(* attention: the order or its job ends in review or among the dead letters *)
(* (ZohoSyncQueue.js:39-50,58,127).                                         *)
CancelledIsReviewed ==
    order.cancelled /\ remote.orders > 0
        ~> {order.sync, job.status} \cap {"review", "dead_letter"} # {}
=============================================================================
