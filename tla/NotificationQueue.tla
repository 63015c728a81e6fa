-------------------------- MODULE NotificationQueue --------------------------
(***************************************************************************)
(* Notifications: the push outbox, the job queue that every server drains  *)
(* once a minute, and the delivery of a push to the customer's devices.    *)
(*                                                                         *)
(* One customer.  A push is saved in the inbox, which doubles as its       *)
(* outbox; a mail (any other channel) is queued by its sender directly.    *)
(* FCM and SMTP are external and may accept a message whose answer is      *)
(* lost.  A backoff is abstracted: a job to retry may be due at any time.  *)
(***************************************************************************)
EXTENDS Integers, FiniteSets

CONSTANTS
    Jobs,        \* notifications, each for one channel
    Devices,     \* the customer's devices (one batch: at most five)
    Workers,     \* processes that drain the queue
    MaxAttempts, \* max_attempts of a job
    MaxSends,    \* attempts per device
    MaxRetries,  \* bound: dead jobs that staff requeue
    MaxFaults    \* bound: crashes, live leases that lapse, lost answers

ASSUME AttemptsAssumption == MaxAttempts \in Nat \ {0} /\ MaxSends \in Nat \ {0}
ASSUME BoundsAssumption == MaxRetries \in Nat /\ MaxFaults \in Nat
ASSUME DevicesAssumption == Devices # {}

VARIABLES
    channel,   \* channel[j]: push, or mail for e-mail, SMS and WhatsApp
    inbox,     \* inbox[j]: the PushNotification row, queued once its job exists
    job,       \* job[j]: the NotificationJob
    delivery,  \* delivery[p][d]: the PushDelivery
    active,    \* active devices of the customer
    got,       \* external: got[j][d], messages accepted (a mail counts at its job)
    req,       \* what each worker is doing
    staff,     \* staff[j]: what is left of an admin's retry
    faults     \* faults so far

vars == <<channel, inbox, job, delivery, active, got, req, staff, faults>>

Nobody == "nobody"
ASSUME WorkersAssumption == IsFiniteSet(Workers) /\ Nobody \notin Workers
IsPush(j) == channel[j] = "push"
JobStatus == {"QUEUED", "SENDING", "SENT", "RETRYING", "DEAD_LETTER"}
\* EXHAUSTED is FAILED with one of the transient error codes.
DeliveryStatus == {"PENDING", "SUBMITTED", "EXHAUSTED", "FAILED", "SKIPPED"}
Ended == {"SENT", "DEAD_LETTER"}

Idle == [at |-> "idle"]
Answers == {"accepted", "transient", "invalid"}
DeviceSteps == {"out", "todo", "pending", "done"} \cup Answers
Request == [at : {"exhausted", "loop", "deliver", "batch", "send", "settle"},
            job : Jobs \cup {Nobody}, attempts : Nat,
            device : [Devices -> DeviceSteps], tries : [Devices -> Nat],
            failed : BOOLEAN, retry : BOOLEAN, next : Ended \cup {"RETRYING"}]

NoDevices == [d \in Devices |-> "out"]
At(w, step) == req[w].at = step
Goto(w, step) == req' = [req EXCEPT ![w].at = step]
Loop == [at |-> "loop", job |-> Nobody, attempts |-> 0, device |-> NoDevices,
         tries |-> [d \in Devices |-> 0], failed |-> FALSE, retry |-> FALSE, next |-> "RETRYING"]
NoDelivery == [status |-> "none", attempts |-> 0]
Fault == faults < MaxFaults /\ faults' = faults + 1

-----------------------------------------------------------------------------
(* sendNotification: the push row by its dedupe key; for the other channels *)
(* the job by its unique index.  A second call for the same event finds the *)
(* row and changes nothing.                                                 *)
SavePush(j) ==
    /\ channel[j] = "none"
    /\ channel' = [channel EXCEPT ![j] = "push"]
    /\ inbox' = [inbox EXCEPT ![j] = "saved"]
    /\ UNCHANGED <<job, delivery, active, got, req, staff, faults>>

NewJob == [status |-> "QUEUED", attempts |-> 0, lease |-> Nobody, lapsed |-> FALSE]

SaveMail(j) ==
    /\ channel[j] = "none"
    /\ channel' = [channel EXCEPT ![j] = "mail"]
    /\ job' = [job EXCEPT ![j] = NewJob]
    /\ UNCHANGED <<inbox, delivery, active, got, req, staff, faults>>

-----------------------------------------------------------------------------
(* repairPushOutbox: the job first, then the mark, each idempotent; a       *)
(* customer without a device gets no job.                                   *)
RepairJob(p) ==
    /\ inbox[p] = "saved"
    /\ active # {}
    /\ job[p].status = "none"
    /\ job' = [job EXCEPT ![p] = NewJob]
    /\ UNCHANGED <<channel, inbox, delivery, active, got, req, staff, faults>>

RepairMark(p) ==
    /\ inbox[p] = "saved"
    /\ job[p].status # "none" \/ active = {}
    /\ inbox' = [inbox EXCEPT ![p] = "queued"]
    /\ UNCHANGED <<channel, job, delivery, active, got, req, staff, faults>>

-----------------------------------------------------------------------------
(* Five minutes pass: for a worker that is alive only if it was suspended.  *)
LeaseLapses(p) ==
    /\ IsPush(p)
    /\ job[p].status = "SENDING"
    /\ ~job[p].lapsed
    /\ job' = [job EXCEPT ![p].lapsed = TRUE]
    /\ IF \E w \in Workers : req[w] # Idle /\ req[w].job = p THEN Fault ELSE UNCHANGED faults
    /\ UNCHANGED <<channel, inbox, delivery, active, got, req, staff>>

(* processNotificationQueue: lapsed push jobs go back to the queue ...      *)
Swept(j) ==
    IF IsPush(j) /\ job[j].status = "SENDING" /\ job[j].lapsed
      THEN [job[j] EXCEPT !.status = "RETRYING", !.lease = Nobody] ELSE job[j]

Tick(w) ==
    /\ req[w] = Idle
    /\ job' = [j \in Jobs |-> Swept(j)]
    /\ req' = [req EXCEPT ![w] = [Loop EXCEPT !.at = "exhausted"]]
    /\ UNCHANGED <<channel, inbox, delivery, active, got, staff, faults>>

(* ... and those without attempts left are dead.                            *)
SweepExhausted(w) ==
    /\ At(w, "exhausted")
    /\ job' = [j \in Jobs |->
          IF IsPush(j) /\ job[j].status = "RETRYING" /\ job[j].attempts >= MaxAttempts
            THEN [job[j] EXCEPT !.status = "DEAD_LETTER"] ELSE job[j]]
    /\ Goto(w, "loop")
    /\ UNCHANGED <<channel, inbox, delivery, active, got, staff, faults>>

(* processOne: claim a due job ...                                          *)
Due(j) == job[j].status \in {"QUEUED", "RETRYING"}

Claim(w, j) ==
    /\ At(w, "loop")
    /\ Due(j)
    /\ job' = [job EXCEPT ![j] = [status |-> "SENDING", attempts |-> @.attempts + 1,
                                  lease |-> w, lapsed |-> FALSE]]
    /\ req' = [req EXCEPT ![w] = [Loop EXCEPT !.at = "deliver", !.job = j,
                  !.attempts = job[j].attempts + 1]]
    /\ UNCHANGED <<channel, inbox, delivery, active, got, staff, faults>>

EndTick(w) ==
    /\ At(w, "loop")
    /\ \A j \in Jobs : ~Due(j)
    /\ req' = [req EXCEPT ![w] = Idle]
    /\ UNCHANGED <<channel, inbox, job, delivery, active, got, staff, faults>>

\* What a failure makes of the job, by the attempts of this claim.
AfterFailure(w, permanent) ==
    IF permanent \/ req[w].attempts >= MaxAttempts THEN "DEAD_LETTER" ELSE "RETRYING"

(* The outcome is written if the lease is still the worker's.               *)
\* Fault: the outcome is written whoever holds the lease.
OwnsAnyway(w) == TRUE

Owns(w) == job[req[w].job].lease = w

Finish(w, status) ==
    /\ job' = IF Owns(w) THEN [job EXCEPT ![req[w].job].status = status] ELSE job
    /\ req' = [req EXCEPT ![w] = Loop]

(* ... deliver it: a mail in one call, whose failure may hide an accepted   *)
(* message ...                                                              *)
SendMail(w) ==
    LET m == req[w].job
    IN  /\ At(w, "deliver")
        /\ ~IsPush(m)
        /\ \E permanent \in BOOLEAN :
              \/ /\ got' = [got EXCEPT ![m] = [d \in Devices |-> @[d] + 1]]
                 /\ req' = [req EXCEPT ![w].at = "settle", ![w].next = "SENT"]
                 /\ UNCHANGED faults
              \/ /\ req' = [req EXCEPT ![w].at = "settle", ![w].next = AfterFailure(w, permanent)]
                 /\ UNCHANGED <<got, faults>>
              \/ /\ Fault
                 /\ got' = [got EXCEPT ![m] = [d \in Devices |-> @[d] + 1]]
                 /\ req' = [req EXCEPT ![w].at = "settle", ![w].next = AfterFailure(w, FALSE)]
        /\ UNCHANGED <<channel, inbox, job, delivery, active, staff>>

Settle(w) ==
    /\ At(w, "settle")
    /\ Finish(w, req[w].next)
    /\ UNCHANGED <<channel, inbox, delivery, active, got, staff, faults>>

-----------------------------------------------------------------------------
(* ... or a push, to the devices that are active now.  An inactive account, *)
(* an expired notification, withdrawn consent or no device is permanent.    *)
Open(w) ==
    /\ At(w, "deliver")
    /\ IsPush(req[w].job)
    /\ \/ Finish(w, "DEAD_LETTER")
       \/ /\ active # {}
          /\ req' = [req EXCEPT ![w].at = "batch",
                        ![w].device = [d \in Devices |-> IF d \in active THEN "todo" ELSE "out"]]
          /\ UNCHANGED job
    /\ UNCHANGED <<channel, inbox, delivery, active, got, staff, faults>>

(* The lease is renewed before the batch; a worker that lost it stops here. *)
HasLease(w) == job[req[w].job].status = "SENDING" /\ job[req[w].job].lease = w

Renew(w) ==
    /\ At(w, "batch")
    /\ IF HasLease(w)
         THEN job' = [job EXCEPT ![req[w].job].lapsed = FALSE] /\ Goto(w, "send")
         ELSE Finish(w, AfterFailure(w, FALSE))
    /\ UNCHANGED <<channel, inbox, delivery, active, got, staff, faults>>

(* The devices of a batch proceed side by side: read or create the          *)
(* delivery, check the device and call FCM, record the answer.              *)
\* Fault: a delivery is submitted again whatever became of it.
SubmittableAlways(p, d) == TRUE

Submittable(p, d) == delivery[p][d].status \in {"none", "PENDING"}

Look(w, d) ==
    LET p == req[w].job
    IN  /\ At(w, "send")
        /\ req[w].device[d] = "todo"
        /\ delivery' = [delivery EXCEPT ![p][d].status = IF @ = "none" THEN "PENDING" ELSE @]
        /\ req' = IF Submittable(p, d)
                    THEN [req EXCEPT ![w].device[d] = "pending", ![w].tries[d] = delivery[p][d].attempts]
                    ELSE [req EXCEPT ![w].device[d] = "done",
                                     ![w].failed = @ \/ delivery[p][d].status # "SUBMITTED"]
        /\ UNCHANGED <<channel, inbox, job, active, got, staff, faults>>

Submit(w, d) ==
    LET p == req[w].job
    IN  /\ At(w, "send")
        /\ req[w].device[d] = "pending"
        /\ IF d \notin active
             THEN /\ delivery' = [delivery EXCEPT ![p][d].status = "SKIPPED"]
                  /\ req' = [req EXCEPT ![w].device[d] = "done", ![w].failed = TRUE]
                  /\ UNCHANGED <<got, faults>>
             ELSE /\ UNCHANGED delivery
                  /\ \/ /\ got' = [got EXCEPT ![p][d] = @ + 1]
                        /\ req' = [req EXCEPT ![w].device[d] = "accepted"]
                        /\ UNCHANGED faults
                     \/ /\ \E answer \in {"transient", "invalid"} :
                              req' = [req EXCEPT ![w].device[d] = answer]
                        /\ UNCHANGED <<got, faults>>
                     \/ /\ Fault
                        /\ got' = [got EXCEPT ![p][d] = @ + 1]
                        /\ req' = [req EXCEPT ![w].device[d] = "transient"]
        /\ UNCHANGED <<channel, inbox, job, active, staff>>

Recorded(answer, tries) ==
    CASE answer = "accepted" -> "SUBMITTED"
      [] answer = "invalid" -> "FAILED"
      [] OTHER -> IF tries + 1 >= MaxSends THEN "EXHAUSTED" ELSE "PENDING"

Record(w, d) ==
    LET p == req[w].job
        status == Recorded(req[w].device[d], req[w].tries[d])
    IN  /\ At(w, "send")
        /\ req[w].device[d] \in Answers
        /\ delivery' = [delivery EXCEPT ![p][d] = [status |-> status, attempts |-> @.attempts + 1]]
        /\ active' = IF req[w].device[d] = "invalid" THEN active \ {d} ELSE active
        /\ req' = [req EXCEPT ![w].device[d] = "done",
                              ![w].retry = @ \/ status = "PENDING",
                              ![w].failed = @ \/ status \in {"EXHAUSTED", "FAILED"}]
        /\ UNCHANGED <<channel, inbox, job, got, staff, faults>>

(* When all are through: something to retry, something lost, or success.    *)
\* Fault: a device that failed in an earlier attempt is forgotten.
AnyFailedNow(w) == req[w].failed

AnyFailed(w) ==
    req[w].failed \/ \E d \in Devices :
        delivery[req[w].job][d].status \in {"EXHAUSTED", "FAILED", "SKIPPED"}

Judge(w) ==
    /\ At(w, "send")
    /\ \A d \in Devices : req[w].device[d] \in {"out", "done"}
    /\ Finish(w, IF req[w].retry THEN AfterFailure(w, FALSE)
                 ELSE IF AnyFailed(w) THEN "DEAD_LETTER" ELSE "SENT")
    /\ UNCHANGED <<channel, inbox, delivery, active, got, staff, faults>>

-----------------------------------------------------------------------------
(* retry.js: staff requeue a dead job with a new budget, then its transient *)
(* deliveries.                                                              *)
RetryJob(j) ==
    /\ ~staff[j].resets
    /\ staff[j].count < MaxRetries
    /\ job[j].status = "DEAD_LETTER"
    /\ job' = [job EXCEPT ![j].status = "RETRYING", ![j].attempts = 0]
    /\ staff' = [staff EXCEPT ![j] = [resets |-> IsPush(j), count |-> @.count + 1]]
    /\ UNCHANGED <<channel, inbox, delivery, active, got, req, faults>>

RetryDeliveries(p) ==
    /\ staff[p].resets
    /\ delivery' = [delivery EXCEPT ![p] = [d \in Devices |->
          IF @[d].status = "EXHAUSTED" THEN [status |-> "PENDING", attempts |-> 0] ELSE @[d]]]
    /\ staff' = [staff EXCEPT ![p].resets = FALSE]
    /\ UNCHANGED <<channel, inbox, job, active, got, req, faults>>

(* The customer signs out of a device; a worker dies.                       *)
SignOut(d) ==
    /\ d \in active
    /\ active' = active \ {d}
    /\ UNCHANGED <<channel, inbox, job, delivery, got, req, staff, faults>>

Crash(w) ==
    /\ req[w] # Idle
    /\ Fault
    /\ req' = [req EXCEPT ![w] = Idle]
    /\ UNCHANGED <<channel, inbox, job, delivery, active, got, staff>>

Init ==
    /\ channel = [j \in Jobs |-> "none"]
    /\ inbox = [j \in Jobs |-> "none"]
    /\ job = [j \in Jobs |-> [NewJob EXCEPT !.status = "none"]]
    /\ delivery = [j \in Jobs |-> [d \in Devices |-> NoDelivery]]
    /\ active = Devices
    /\ got = [j \in Jobs |-> [d \in Devices |-> 0]]
    /\ req = [w \in Workers |-> Idle]
    /\ staff = [j \in Jobs |-> [resets |-> FALSE, count |-> 0]]
    /\ faults = 0

Working(w) ==
    \/ Tick(w) \/ SweepExhausted(w) \/ EndTick(w) \/ \E j \in Jobs : Claim(w, j)
    \/ SendMail(w) \/ Open(w) \/ Renew(w) \/ Judge(w) \/ Settle(w)
    \/ \E d \in Devices : Look(w, d) \/ Submit(w, d) \/ Record(w, d)

Next ==
    \/ \E j \in Jobs : SavePush(j) \/ SaveMail(j) \/ RepairJob(j) \/ RepairMark(j)
                      \/ LeaseLapses(j) \/ RetryJob(j) \/ RetryDeliveries(j)
    \/ \E w \in Workers : Working(w) \/ Crash(w)
    \/ \E d \in Devices : SignOut(d)

Spec == Init /\ [][Next]_vars

-----------------------------------------------------------------------------
(* Types.  A claim beyond max_attempts takes a worker that was suspended or *)
(* died: the sweep that buries exhausted jobs is a second write.            *)
TypeOK ==
    /\ channel \in [Jobs -> {"none", "push", "mail"}]
    /\ inbox \in [Jobs -> {"none", "saved", "queued"}]
    /\ job \in [Jobs -> [status : JobStatus \cup {"none"}, attempts : 0 .. MaxAttempts + faults,
                         lease : Workers \cup {Nobody}, lapsed : BOOLEAN]]
    /\ delivery \in [Jobs -> [Devices -> [status : DeliveryStatus \cup {"none"}, attempts : Nat]]]
    /\ active \subseteq Devices
    /\ got \in [Jobs -> [Devices -> Nat]]
    /\ req \in [Workers -> Request \cup {Idle}]
    /\ staff \in [Jobs -> [resets : BOOLEAN, count : 0 .. MaxRetries]]
    /\ faults \in 0 .. MaxFaults

(* A job that says SENT reached the customer: somebody accepted it and,     *)
(* unless a worker was suspended or died, no device failed in this or an    *)
(* earlier attempt (service.js 332-343) and only one that the customer has  *)
(* signed out of may still be waiting.                                      *)
SentIsDelivered ==
    \A j \in Jobs : job[j].status = "SENT" =>
        /\ \E d \in Devices : got[j][d] > 0
        /\ IsPush(j) /\ faults = 0 =>
              \A d \in Devices :
                  \/ delivery[j][d].status \in {"none", "SUBMITTED"}
                  \/ delivery[j][d].status = "PENDING" /\ d \notin active

(* A device shows a push twice only after a fault: retrying for another     *)
(* device, a requeue by staff or a second server is not one.                *)
DuplicatesNeedFaults ==
    \A j \in Jobs : IsPush(j) => \A d \in Devices : got[j][d] <= 1 + faults

(* An ended job stays ended unless staff requeue it: no worker that lost    *)
(* its lease revives or rewrites it.                                        *)
EndedStaysEnded ==
    [][\A j \in Jobs : job[j].status \in Ended /\ job'[j].status # job[j].status
          => job[j].status = "DEAD_LETTER" /\ staff'[j].count > staff[j].count]_vars
=============================================================================
