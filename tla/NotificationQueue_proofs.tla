----------------------- MODULE NotificationQueue_proofs -----------------------
(***************************************************************************)
(* Proofs about NotificationQueue, for any number of jobs, devices and     *)
(* workers, and any bounds on attempts, retries and faults.                *)
(***************************************************************************)
EXTENDS NotificationQueue, FiniteSetTheorems, TLAPS

JobDoc(n) == [status : JobStatus \cup {"none"}, attempts : 0 .. MaxAttempts + n,
              lease : Workers \cup {Nobody}, lapsed : BOOLEAN]
DeliveryDoc == [status : DeliveryStatus \cup {"none"}, attempts : Nat]

Busy(w) == req[w].at \in {"deliver", "batch", "send", "settle"}
Held(j) == job[j].lease \in Workers /\ Busy(job[j].lease) /\ req[job[j].lease].job = j

-----------------------------------------------------------------------------
(* The queue.                                                               *)

\* A worker works on a job that was sent, and a job belongs to a notification.
Assigned == \A w \in Workers : Busy(w) => req[w].job \in Jobs /\ channel[req[w].job] # "none"
Fresh == \A j \in Jobs : channel[j] = "none" => job[j].status = "none" /\ inbox[j] = "none"

\* Whoever still has the lease is in the attempt it claimed.
Owned ==
    \A w \in Workers : Busy(w) /\ job[req[w].job].lease = w =>
        job[req[w].job].status = "SENDING" /\ job[req[w].job].attempts = req[w].attempts

\* A job that will be claimed again has attempts left, or a fault took one.
Room(j) == job[j].attempts < MaxAttempts + faults
Budget ==
    \A j \in Jobs :
        /\ Due(j) => Room(j)
        /\ job[j].status = "SENDING" => Room(j) \/ (~job[j].lapsed /\ Held(j))

\* Without faults a worker has the lease of its job.
Leased(w) ==
    LET j == req[w].job
    IN  job[j].lease = w /\ job[j].status = "SENDING" /\ ~job[j].lapsed
Sole == faults = 0 => \A w \in Workers : Busy(w) => Leased(w)

Queue == Assigned /\ Fresh /\ Owned /\ Budget /\ Sole

-----------------------------------------------------------------------------
(* The deliveries.                                                          *)

\* The worker has come to the end of device d and nothing went wrong so far.
Good(w, d) == req[w].device[d] = "done" /\ ~req[w].failed /\ ~req[w].retry

Pushing ==
    \A w \in Workers : req[w].at \in {"batch", "send"} =>
        /\ IsPush(req[w].job)
        /\ \E d \in Devices : req[w].device[d] # "out"
        /\ \A d \in Devices :
              /\ req[w].device[d] = "out" => d \notin active
              /\ At(w, "batch") => req[w].device[d] \in {"out", "todo"}
              /\ req[w].device[d] = "accepted" \/ Good(w, d) => got[req[w].job][d] > 0

Mailing ==
    \A w \in Workers : At(w, "settle") =>
        /\ ~IsPush(req[w].job)
        /\ req[w].next = "RETRYING" => req[w].attempts < MaxAttempts
        /\ req[w].next = "SENT" => \E d \in Devices : got[req[w].job][d] > 0

Receipts == \A j \in Jobs, d \in Devices : delivery[j][d].status = "SUBMITTED" => got[j][d] > 0

\* Without faults what the worker remembers of a device is what is recorded.
Recall ==
    faults = 0 => \A w \in Workers : At(w, "send") =>
        \A d \in Devices : Good(w, d) => delivery[req[w].job][d].status = "SUBMITTED"

Arrivals == Pushing /\ Mailing /\ Receipts /\ Recall /\ SentIsDelivered

IInv == TypeOK /\ Queue /\ Arrivals

-----------------------------------------------------------------------------
LEMMA Types ==
    TypeOK <=> /\ channel \in [Jobs -> {"none", "push", "mail"}]
               /\ inbox \in [Jobs -> {"none", "saved", "queued"}]
               /\ job \in [Jobs -> JobDoc(faults)]
               /\ delivery \in [Jobs -> [Devices -> DeliveryDoc]]
               /\ active \subseteq Devices
               /\ got \in [Jobs -> [Devices -> Nat]]
               /\ req \in [Workers -> Request \cup {Idle}]
               /\ staff \in [Jobs -> [resets : BOOLEAN, count : 0 .. MaxRetries]]
               /\ faults \in 0 .. MaxFaults
  BY DEF TypeOK, JobDoc, DeliveryDoc

LEMMA TypesNext ==
    ASSUME channel' \in [Jobs -> {"none", "push", "mail"}],
           inbox' \in [Jobs -> {"none", "saved", "queued"}],
           job' \in [Jobs -> JobDoc(faults')],
           delivery' \in [Jobs -> [Devices -> DeliveryDoc]],
           active' \subseteq Devices,
           got' \in [Jobs -> [Devices -> Nat]],
           req' \in [Workers -> Request \cup {Idle}],
           staff' \in [Jobs -> [resets : BOOLEAN, count : 0 .. MaxRetries]],
           faults' \in 0 .. MaxFaults
    PROVE  TypeOK'
  BY DEF TypeOK, JobDoc, DeliveryDoc

OnlyReq(w) == req' \in [Workers -> Request \cup {Idle}] /\ \A v \in Workers \ {w} : req'[v] = req[v]

LEMMA AtWork == ASSUME TypeOK, NEW w \in Workers, req[w].at # "idle" PROVE req[w] \in Request
  BY DEF TypeOK, Idle

LEMMA NewReq ==
    ASSUME TypeOK, NEW w \in Workers, NEW r \in Request \cup {Idle}, req' = [req EXCEPT ![w] = r]
    PROVE  OnlyReq(w) /\ req'[w] = r
  BY DEF TypeOK, OnlyReq

\* A new job, and one that is not there yet.
LEMMA NewJobTyped ==
    ASSUME NEW n \in Nat PROVE NewJob \in JobDoc(n) /\ [NewJob EXCEPT !.status = "none"] \in JobDoc(n)
  <1>1. 0 \in 0 .. MaxAttempts + n
    BY AttemptsAssumption
  <1> QED
    BY <1>1 DEF JobDoc, NewJob, JobStatus

LEMMA LoopTyped ==
    /\ Loop \in Request /\ [Loop EXCEPT !.at = "exhausted"] \in Request
    /\ \A j \in Jobs, n \in Nat : [Loop EXCEPT !.at = "deliver", !.job = j, !.attempts = n] \in Request
  BY DEF Loop, Request, NoDevices, DeviceSteps, Answers, Ended

LEMMA GotoTyped ==
    ASSUME TypeOK, NEW w \in Workers, req[w] \in Request, NEW step \in {"loop", "send"}, Goto(w, step)
    PROVE  OnlyReq(w) /\ req'[w] = [req[w] EXCEPT !.at = step]
  <1>1. [req[w] EXCEPT !.at = step] \in Request
    BY DEF Request
  <1> QED
    BY <1>1, NewReq DEF Goto

\* More faults leave more room.
LEMMA RoomGrows == ASSUME NEW m \in Nat, NEW n \in Nat, m <= n PROVE JobDoc(m) \subseteq JobDoc(n)
  <1>0. MaxAttempts \in Nat
    BY AttemptsAssumption
  <1>1. \A k \in 0 .. MaxAttempts + m : k \in 0 .. MaxAttempts + n
    BY <1>0
  <1> QED
    BY <1>1 DEF JobDoc

LEMMA FaultGrows ==
    ASSUME TypeOK, Fault \/ UNCHANGED faults
    PROVE  /\ faults' \in 0 .. MaxFaults /\ faults \in Nat /\ faults' \in Nat /\ faults <= faults'
           /\ Fault => faults < faults' /\ faults' # 0
  BY BoundsAssumption DEF TypeOK, Fault

LEMMA InitIInv == ASSUME Init PROVE IInv
  <1>1. job \in [Jobs -> JobDoc(faults)] /\ \A j \in Jobs : job[j].status = "none"
    BY NewJobTyped DEF Init, NewJob
  <1>2. delivery \in [Jobs -> [Devices -> DeliveryDoc]] /\ \A j \in Jobs, d \in Devices : delivery[j][d].status = "none"
    BY DEF Init, DeliveryDoc, NoDelivery
  <1>3. TypeOK
    <2>1. 0 \in 0 .. MaxRetries /\ 0 \in 0 .. MaxFaults
      BY BoundsAssumption
    <2>2. /\ channel \in [Jobs -> {"none", "push", "mail"}] /\ inbox \in [Jobs -> {"none", "saved", "queued"}]
          /\ active \subseteq Devices /\ got \in [Jobs -> [Devices -> Nat]]
          /\ req \in [Workers -> Request \cup {Idle}]
      BY DEF Init
    <2>3. staff \in [Jobs -> [resets : BOOLEAN, count : 0 .. MaxRetries]]
      BY <2>1 DEF Init
    <2> QED
      BY <1>1, <1>2, <2>1, <2>2, <2>3, Types DEF Init
  <1>4. \A w \in Workers : req[w].at = "idle"
    BY DEF Init, Idle
  <1>5. Queue
    BY <1>1, <1>4 DEF Init, Queue, Assigned, Fresh, Owned, Budget, Sole, Busy, Due
  <1>6. Arrivals
    BY <1>1, <1>2, <1>4 DEF Arrivals, Pushing, Mailing, Receipts, Recall, SentIsDelivered, At
  <1> QED
    BY <1>3, <1>5, <1>6 DEF IInv
-----------------------------------------------------------------------------
(* Steps of the queue.                                                      *)

\* A busy worker's request and its job.
LEMMA AtJob ==
    ASSUME TypeOK, Queue, NEW w \in Workers, Busy(w)
    PROVE  /\ req[w] \in Request /\ req[w].job \in Jobs /\ req[w].attempts \in Nat
           /\ job[req[w].job] \in JobDoc(faults)
  <1>1. req[w] \in Request
    BY AtWork DEF Busy
  <1>2. req[w].job \in Jobs
    BY DEF Queue, Assigned
  <1> QED
    BY <1>1, <1>2, Types DEF Request

\* A worker moves on within its job.
LEMMA QueueLocal ==
    ASSUME TypeOK, Queue, NEW w \in Workers, Busy(w), Busy(w)', OnlyReq(w),
           req'[w].job = req[w].job, req'[w].attempts = req[w].attempts,
           UNCHANGED <<channel, inbox, job>>, Fault \/ UNCHANGED faults
    PROVE  Queue'
  <1>0. faults \in Nat /\ faults' \in Nat /\ faults <= faults' /\ MaxAttempts \in Nat
    BY FaultGrows, AttemptsAssumption
  <1>1. \A v \in Workers : Busy(v)' <=> Busy(v)
    BY DEF OnlyReq, Busy
  <1>2. \A v \in Workers : req'[v].job = req[v].job /\ req'[v].attempts = req[v].attempts
    BY DEF OnlyReq
  <1>3. Assigned' /\ Fresh' /\ Owned' /\ Sole'
    BY <1>0, <1>1, <1>2 DEF Queue, Assigned, Fresh, Owned, Sole, Leased
  <1>4. \A j \in Jobs : (Room(j) => Room(j)') /\ (Held(j)' <=> Held(j)) /\ (Due(j)' <=> Due(j))
    <2>1. \A j \in Jobs : job[j].attempts \in Nat
      BY <1>0, Types DEF JobDoc
    <2> QED
      BY <1>0, <1>1, <1>2, <2>1 DEF Room, Held, Due
  <1>5. Budget'
    BY <1>4 DEF Queue, Budget
  <1> QED
    BY <1>3, <1>5 DEF Queue

\* A worker leaves its job, which has attempts left if it is to be retried.
LEMMA FinishTyped ==
    ASSUME TypeOK, Queue, NEW w \in Workers, Busy(w),
           NEW status \in Ended \cup {"RETRYING"}, Finish(w, status), UNCHANGED faults
    PROVE  /\ job' \in [Jobs -> JobDoc(faults)]
           /\ OnlyReq(w) /\ req'[w] = Loop /\ ~Busy(w)'
           /\ \A j \in Jobs :
                 \/ job'[j] = job[j] /\ (j = req[w].job => ~Owns(w))
                 \/ /\ j = req[w].job /\ Owns(w) /\ job'[j].status = status
                    /\ job'[j].lease = w /\ job'[j].attempts = job[j].attempts
  <1>1. req[w] \in Request /\ req[w].job \in Jobs /\ job \in [Jobs -> JobDoc(faults)]
    BY AtJob, Types
  <1>2. OnlyReq(w) /\ req'[w] = Loop
    BY NewReq, LoopTyped DEF Finish
  <1>3. ~Busy(w)'
    BY <1>2 DEF Busy, Loop
  <1>4. status \in JobStatus
    BY DEF Ended, JobStatus
  <1> DEFINE doc == [job[req[w].job] EXCEPT !.status = status]
  <1>5. doc \in JobDoc(faults) /\ doc.status = status /\ doc.lease = job[req[w].job].lease
        /\ doc.attempts = job[req[w].job].attempts
    BY <1>1, <1>4 DEF JobDoc
  <1>6. job' = IF Owns(w) THEN [job EXCEPT ![req[w].job] = doc] ELSE job
    BY DEF Finish
  <1> HIDE DEF doc
  <1> QED
    BY <1>1, <1>2, <1>3, <1>5, <1>6 DEF Owns

LEMMA QueueFinish ==
    ASSUME TypeOK, Queue, NEW w \in Workers, Busy(w),
           NEW status \in Ended \cup {"RETRYING"}, Finish(w, status),
           status = "RETRYING" => req[w].attempts < MaxAttempts,
           UNCHANGED <<channel, inbox, faults>>
    PROVE  Queue'
  <1> DEFINE p == req[w].job
  <1>0. faults \in Nat /\ MaxAttempts \in Nat /\ p \in Jobs /\ req[w].attempts \in Nat
    BY AtJob, AttemptsAssumption, BoundsAssumption DEF TypeOK
  <1>1. /\ OnlyReq(w) /\ ~Busy(w)'
        /\ \A j \in Jobs :
              \/ job'[j] = job[j] /\ (j = p => ~Owns(w))
              \/ /\ j = p /\ Owns(w) /\ job'[j].status = status
                 /\ job'[j].lease = w /\ job'[j].attempts = job[j].attempts
    BY FinishTyped
  <1>2. \A v \in Workers : Busy(v)' => v # w /\ Busy(v) /\ req'[v] = req[v]
    BY <1>1 DEF OnlyReq, Busy
  <1>3. Assigned'
    BY <1>2 DEF Queue, Assigned
  <1>4. Fresh'
    BY <1>0, <1>1 DEF Queue, Fresh, Assigned
  <1>5. \A v \in Workers : Busy(v)' => req[v].job \in Jobs
    BY <1>2 DEF Queue, Assigned
  <1>6. Owned'
    BY <1>1, <1>2, <1>5 DEF Queue, Owned
  <1>7. Sole'
    <2> SUFFICES ASSUME faults = 0, NEW v \in Workers, Busy(v)' PROVE Leased(v)'
      BY DEF Sole
    <2>1. v # w /\ Busy(v) /\ req'[v] = req[v] /\ req[v].job \in Jobs
      BY <1>2, <1>5
    <2>2. Leased(v) /\ Leased(w)
      BY <2>1 DEF Queue, Sole
    <2>3. req[v].job # p
      BY <2>1, <2>2 DEF Leased
    <2> QED
      BY <1>1, <2>1, <2>2, <2>3 DEF Leased
  <1>8. Budget'
    <2> SUFFICES ASSUME NEW j \in Jobs
                 PROVE  /\ Due(j)' => Room(j)'
                        /\ job'[j].status = "SENDING" => Room(j)' \/ (~job'[j].lapsed /\ Held(j)')
      BY DEF Budget
    <2>1. CASE job'[j] = job[j] /\ (j = p => ~Owns(w))
      <3>1. job[j].status = "SENDING" /\ ~job[j].lapsed /\ Held(j) => Held(j)'
        BY <1>1, <2>1 DEF Held, Owns, OnlyReq, Busy
      <3> QED
        BY <2>1, <3>1 DEF Queue, Budget, Due, Room
    <2>2. CASE j = p /\ Owns(w) /\ job'[j].status = status /\ job'[j].attempts = job[j].attempts
      <3>1. status \notin {"SENDING", "QUEUED"}
        BY DEF Ended
      <3>2. job[p].attempts = req[w].attempts
        BY <2>2 DEF Queue, Owned, Owns
      <3> QED
        BY <1>0, <2>2, <3>1, <3>2 DEF Due, Room
    <2> QED
      BY <1>1, <2>1, <2>2
  <1> QED
    BY <1>3, <1>4, <1>6, <1>7, <1>8 DEF Queue

\* Jobs that nobody has the lease of change, and no busy worker moves.
LEMMA QueueJobs ==
    ASSUME TypeOK, Queue, faults' \in Nat, faults <= faults',
           \A v \in Workers : Busy(v) \/ Busy(v)' => req'[v] = req[v],
           \A j \in Jobs : channel'[j] = "none" =>
              channel[j] = "none" /\ job'[j].status = "none" /\ inbox'[j] = "none",
           \A j \in Jobs :
              \/ job'[j] = job[j]
              \/ /\ job'[j].status # "SENDING" /\ job'[j].lease \in {job[j].lease, Nobody}
                 /\ Due(j)' => Room(j)'
                 /\ job[j].status = "SENDING" => job[j].lapsed /\ job'[j].lease = Nobody
    PROVE  Queue'
  <1>0. faults \in Nat /\ MaxAttempts \in Nat /\ \A j \in Jobs : job[j].attempts \in Nat
    <2>1. faults \in Nat /\ MaxAttempts \in Nat
      BY AttemptsAssumption, BoundsAssumption DEF TypeOK
    <2> QED
      BY <2>1, Types DEF JobDoc
  <1>1. \A v \in Workers : Busy(v)' <=> Busy(v)
    BY DEF Busy
  <1>2. Assigned' /\ Fresh'
    BY <1>1 DEF Queue, Assigned, Fresh
  <1>3. Owned'
    <2> SUFFICES ASSUME NEW v \in Workers, Busy(v)', job'[req'[v].job].lease = v
                 PROVE  job'[req'[v].job].status = "SENDING" /\ job'[req'[v].job].attempts = req'[v].attempts
      BY DEF Owned
    <2>1. Busy(v) /\ req'[v] = req[v] /\ req[v].job \in Jobs /\ v # Nobody
      BY <1>1, WorkersAssumption DEF Queue, Assigned
    <2>2. job[req[v].job].lease = v
      BY <2>1
    <2>3. job[req[v].job].status = "SENDING" /\ job[req[v].job].attempts = req[v].attempts
      BY <2>1, <2>2 DEF Queue, Owned
    <2> QED
      BY <2>1, <2>3
  <1>4. Sole'
    <2> SUFFICES ASSUME faults' = 0, NEW v \in Workers, Busy(v)' PROVE Leased(v)'
      BY DEF Sole
    <2>1. faults = 0 /\ Busy(v) /\ req'[v] = req[v] /\ req[v].job \in Jobs
      BY <1>0, <1>1 DEF Queue, Assigned
    <2>2. Leased(v)
      BY <2>1 DEF Queue, Sole
    <2> QED
      BY <2>1, <2>2 DEF Leased
  <1>5. Budget'
    <2> SUFFICES ASSUME NEW j \in Jobs
                 PROVE  /\ Due(j)' => Room(j)'
                        /\ job'[j].status = "SENDING" => Room(j)' \/ (~job'[j].lapsed /\ Held(j)')
      BY DEF Budget
    <2>1. CASE job'[j] = job[j]
      <3>1. Room(j) => Room(j)'
        BY <1>0, <2>1 DEF Room
      <3>2. Held(j) => Held(j)'
        BY <1>1, <2>1 DEF Held
      <3> QED
        BY <2>1, <3>1, <3>2 DEF Queue, Budget, Due
    <2>2. CASE job'[j] # job[j]
      BY <2>2
    <2> QED
      BY <2>1, <2>2
  <1> QED
    BY <1>2, <1>3, <1>4, <1>5 DEF Queue

\* A notification is sent, its job is queued and its row is marked.
LEMMA NoticeStep ==
    ASSUME TypeOK, Queue, NEW j \in Jobs,
           SavePush(j) \/ SaveMail(j) \/ RepairJob(j) \/ RepairMark(j)
    PROVE  TypeOK' /\ Queue'
  <1>0. faults \in Nat /\ faults' = faults /\ faults <= faults' /\ req' = req
    BY BoundsAssumption DEF SavePush, SaveMail, RepairJob, RepairMark, TypeOK
  <1>1. NewJob \in JobDoc(faults)
    BY <1>0, NewJobTyped
  <1>2. TypeOK'
    <2>1. job' \in [Jobs -> JobDoc(faults)]
      BY <1>1, Types DEF SavePush, SaveMail, RepairJob, RepairMark
    <2>2. channel' \in [Jobs -> {"none", "push", "mail"}] /\ inbox' \in [Jobs -> {"none", "saved", "queued"}]
      BY Types DEF SavePush, SaveMail, RepairJob, RepairMark
    <2>3. UNCHANGED <<delivery, active, got, req, staff, faults>>
      BY DEF SavePush, SaveMail, RepairJob, RepairMark
    <2> QED
      BY <2>1, <2>2, <2>3, Types, TypesNext
  <1>3. /\ NewJob.status = "QUEUED" /\ NewJob.lease = Nobody
        /\ NewJob.attempts < MaxAttempts + faults
    BY <1>0, AttemptsAssumption DEF NewJob
  <1>4. job' = job \/ (job[j].status = "none" /\ job' = [job EXCEPT ![j] = NewJob])
    BY DEF SavePush, SaveMail, RepairJob, RepairMark, Queue, Fresh
  <1>5. \A i \in Jobs :
          \/ job'[i] = job[i]
          \/ /\ job'[i].status # "SENDING" /\ job'[i].lease \in {job[i].lease, Nobody}
             /\ Due(i)' => Room(i)'
             /\ job[i].status = "SENDING" => job[i].lapsed /\ job'[i].lease = Nobody
    BY <1>0, <1>3, <1>4, Types DEF Room
  <1>6. \A i \in Jobs : channel'[i] = "none" =>
          channel[i] = "none" /\ job'[i].status = "none" /\ inbox'[i] = "none"
    BY Types DEF SavePush, SaveMail, RepairJob, RepairMark, Queue, Fresh
  <1>7. Queue'
    BY <1>0, <1>5, <1>6, QueueJobs
  <1> QED
    BY <1>2, <1>7

\* Five minutes pass.
LEMMA LapseStep == ASSUME TypeOK, Queue, NEW p \in Jobs, LeaseLapses(p) PROVE TypeOK' /\ Queue'
  <1>a. /\ channel' = channel /\ inbox' = inbox /\ delivery' = delivery /\ active' = active
        /\ got' = got /\ req' = req /\ staff' = staff /\ (Fault \/ UNCHANGED faults)
    BY DEF LeaseLapses
  <1>0. /\ faults \in Nat /\ faults' \in Nat /\ faults <= faults' /\ faults' \in 0 .. MaxFaults
        /\ Fault => faults < faults' /\ faults' # 0
    BY <1>a, FaultGrows
  <1> DEFINE doc == [job[p] EXCEPT !.lapsed = TRUE]
  <1>1. job' = [job EXCEPT ![p] = doc] /\ job[p].status = "SENDING"
    BY DEF LeaseLapses
  <1>2. /\ job[p] \in JobDoc(faults) /\ doc \in JobDoc(faults) /\ doc.status = job[p].status
        /\ doc.attempts = job[p].attempts /\ doc.lease = job[p].lease
    <2>1. job[p] \in JobDoc(faults)
      BY Types
    <2> QED
      BY <2>1 DEF JobDoc
  <1> HIDE DEF doc
  <1>3. TypeOK'
    <2>1. JobDoc(faults) \subseteq JobDoc(faults')
      BY <1>0, RoomGrows
    <2>2. job' \in [Jobs -> JobDoc(faults')]
      BY <1>1, <1>2, <2>1, Types
    <2> QED
      BY <1>0, <1>a, <2>2, Types, TypesNext
  <1>4. MaxAttempts \in Nat /\ \A j \in Jobs : job[j].attempts \in 0 .. MaxAttempts + faults
    BY AttemptsAssumption, Types DEF JobDoc
  <1>5. /\ \A j \in Jobs : job'[j].status = job[j].status /\ job'[j].attempts = job[j].attempts
        /\ \A j \in Jobs : job'[j].lease = job[j].lease /\ (j # p => job'[j] = job[j])
        /\ \A v \in Workers : Busy(v)' <=> Busy(v)
    BY <1>1, <1>2, <1>a, Types DEF Busy
  <1>6. Assigned' /\ Fresh' /\ Owned'
    BY <1>5, <1>a DEF Queue, Assigned, Fresh, Owned
  <1>7. (\E w \in Workers : Busy(w) /\ req[w].job = p) => Fault
    BY DEF LeaseLapses, Busy, Idle
  <1>8. Sole'
    <2> SUFFICES ASSUME faults' = 0, NEW v \in Workers, Busy(v)' PROVE Leased(v)'
      BY DEF Sole
    <2>1. faults = 0 /\ Busy(v) /\ req'[v] = req[v] /\ req[v].job \in Jobs /\ req[v].job # p
      BY <1>0, <1>5, <1>7, <1>a DEF Queue, Assigned
    <2>2. Leased(v)
      BY <2>1 DEF Queue, Sole
    <2> QED
      BY <1>5, <2>1, <2>2 DEF Leased
  <1>9. Budget'
    <2> SUFFICES ASSUME NEW j \in Jobs
                 PROVE  /\ Due(j)' => Room(j)'
                        /\ job'[j].status = "SENDING" => Room(j)' \/ (~job'[j].lapsed /\ Held(j)')
      BY DEF Budget
    <2>1. Room(j) => Room(j)'
      BY <1>0, <1>4, <1>5 DEF Room
    <2>2. Held(j)' <=> Held(j)
      BY <1>5, <1>a DEF Held
    <2>3. Due(j)' <=> Due(j)
      BY <1>5 DEF Due
    <2>4. CASE j = p
      <3>1. CASE Fault
        BY <1>0, <1>4, <1>5, <3>1 DEF Room
      <3>2. CASE ~Held(p)
        BY <1>1, <2>1, <2>3, <2>4, <3>2 DEF Queue, Budget
      <3> QED
        BY <1>7, <3>1, <3>2 DEF Held
    <2>5. CASE j # p
      BY <1>5, <2>1, <2>2, <2>3, <2>5 DEF Queue, Budget
    <2> QED
      BY <2>4, <2>5
  <1> QED
    BY <1>3, <1>6, <1>8, <1>9 DEF Queue

\* A worker dies.
LEMMA CrashStep == ASSUME TypeOK, Queue, NEW w \in Workers, Crash(w) PROVE TypeOK' /\ Queue'
  <1>0. /\ faults \in Nat /\ faults' \in Nat /\ faults < faults' /\ faults <= faults'
        /\ faults' \in 0 .. MaxFaults /\ faults' # 0
    BY FaultGrows DEF Crash
  <1>a. /\ channel' = channel /\ inbox' = inbox /\ job' = job /\ delivery' = delivery
        /\ active' = active /\ got' = got /\ staff' = staff
    BY DEF Crash
  <1>1. OnlyReq(w) /\ req'[w] = Idle
    BY NewReq DEF Crash
  <1>2. TypeOK'
    <2>1. JobDoc(faults) \subseteq JobDoc(faults')
      BY <1>0, RoomGrows
    <2>2. job' \in [Jobs -> JobDoc(faults')]
      BY <1>a, <2>1, Types
    <2> QED
      BY <1>0, <1>1, <1>a, <2>2, Types, TypesNext DEF OnlyReq
  <1>3. \A v \in Workers : Busy(v)' => Busy(v) /\ req'[v] = req[v]
    BY <1>1 DEF OnlyReq, Busy, Idle
  <1>4. Assigned' /\ Fresh' /\ Owned' /\ Sole'
    BY <1>0, <1>3, <1>a DEF Queue, Assigned, Fresh, Owned, Sole
  <1>5. \A j \in Jobs : Room(j)'
    <2>1. MaxAttempts \in Nat
      BY AttemptsAssumption
    <2>2. \A j \in Jobs : job[j].attempts \in 0 .. MaxAttempts + faults
      BY Types DEF JobDoc
    <2> QED
      BY <1>0, <1>a, <2>1, <2>2 DEF Room
  <1> QED
    BY <1>0, <1>2, <1>4, <1>5 DEF Queue, Budget

\* The sweeps of a tick.
LEMMA TickStep == ASSUME TypeOK, Queue, NEW w \in Workers, Tick(w) PROVE TypeOK' /\ Queue'
  <1>a. /\ channel' = channel /\ inbox' = inbox /\ delivery' = delivery /\ active' = active
        /\ got' = got /\ staff' = staff /\ faults' = faults
    BY DEF Tick
  <1>0. faults \in 0 .. MaxFaults /\ faults \in Nat
    BY BoundsAssumption DEF TypeOK
  <1> DEFINE r == [Loop EXCEPT !.at = "exhausted"]
  <1>1. OnlyReq(w) /\ req'[w] = r
    BY LoopTyped, NewReq DEF Tick
  <1>2. r.at = "exhausted"
    BY DEF Loop
  <1> HIDE DEF r
  <1>3. \A v \in Workers : Busy(v) \/ Busy(v)' => req'[v] = req[v]
    BY <1>1, <1>2 DEF Tick, OnlyReq, Busy, Idle
  <1>4. \A j \in Jobs :
          \/ Swept(j) = job[j]
          \/ /\ Swept(j) \in JobDoc(faults) /\ job[j].status = "SENDING" /\ job[j].lapsed
             /\ Swept(j).status = "RETRYING" /\ Swept(j).lease = Nobody
             /\ Swept(j).attempts = job[j].attempts
    <2> TAKE j \in Jobs
    <2> DEFINE doc == [job[j] EXCEPT !.status = "RETRYING", !.lease = Nobody]
    <2>1. job[j] \in JobDoc(faults)
      BY Types
    <2>2. /\ doc \in JobDoc(faults) /\ doc.status = "RETRYING" /\ doc.lease = Nobody
          /\ doc.attempts = job[j].attempts
      BY <2>1 DEF JobDoc, JobStatus
    <2>3. Swept(j) = job[j] \/ (job[j].status = "SENDING" /\ job[j].lapsed /\ Swept(j) = doc)
      BY DEF Swept
    <2> HIDE DEF doc
    <2> QED
      BY <2>2, <2>3
  <1>5. \A j \in Jobs : job'[j] = Swept(j)
    BY DEF Tick
  <1>6. TypeOK'
    <2>1. \A j \in Jobs : Swept(j) \in JobDoc(faults)
      BY <1>4, Types
    <2>2. job' \in [Jobs -> JobDoc(faults')]
      BY <1>a, <2>1 DEF Tick
    <2> QED
      BY <1>a, <1>0, <1>1, <2>2, Types, TypesNext DEF OnlyReq
  <1>7. \A j \in Jobs :
          \/ job'[j] = job[j]
          \/ /\ job'[j].status # "SENDING" /\ job'[j].lease \in {job[j].lease, Nobody}
             /\ Due(j)' => Room(j)'
             /\ job[j].status = "SENDING" => job[j].lapsed /\ job'[j].lease = Nobody
    BY <1>a, <1>4, <1>5 DEF Queue, Budget, Room
  <1>8. \A j \in Jobs : channel'[j] = "none" =>
          channel[j] = "none" /\ job'[j].status = "none" /\ inbox'[j] = "none"
    BY <1>a, <1>4, <1>5 DEF Queue, Fresh
  <1>9. Queue'
    <2>1. faults' \in Nat /\ faults <= faults'
      BY <1>a, <1>0
    <2> QED
      BY <1>3, <1>7, <1>8, <2>1, QueueJobs
  <1> QED
    BY <1>6, <1>9

LEMMA SweepStep == ASSUME TypeOK, Queue, NEW w \in Workers, SweepExhausted(w) PROVE TypeOK' /\ Queue'
  <1>a. /\ channel' = channel /\ inbox' = inbox /\ delivery' = delivery /\ active' = active
        /\ got' = got /\ staff' = staff /\ faults' = faults
    BY DEF SweepExhausted
  <1>0. faults \in 0 .. MaxFaults /\ faults \in Nat
    BY BoundsAssumption DEF TypeOK
  <1>1. req[w] \in Request
    BY AtWork DEF SweepExhausted, At
  <1>2. OnlyReq(w) /\ req'[w].at = "loop"
    BY <1>1, GotoTyped DEF SweepExhausted, Request
  <1>3. \A v \in Workers : Busy(v) \/ Busy(v)' => req'[v] = req[v]
    BY <1>2 DEF SweepExhausted, OnlyReq, Busy, At
  <1>4. \A j \in Jobs :
          \/ job'[j] = job[j]
          \/ /\ job'[j] \in JobDoc(faults) /\ job[j].status = "RETRYING"
             /\ job'[j].status = "DEAD_LETTER" /\ job'[j].lease = job[j].lease
    <2> TAKE j \in Jobs
    <2> DEFINE doc == [job[j] EXCEPT !.status = "DEAD_LETTER"]
    <2>1. job[j] \in JobDoc(faults)
      BY Types
    <2>2. doc \in JobDoc(faults) /\ doc.status = "DEAD_LETTER" /\ doc.lease = job[j].lease
      BY <2>1 DEF JobDoc, JobStatus
    <2>3. job'[j] = job[j] \/ (job[j].status = "RETRYING" /\ job'[j] = doc)
      BY DEF SweepExhausted
    <2> HIDE DEF doc
    <2> QED
      BY <2>2, <2>3
  <1>5. TypeOK'
    <2>1. \A j \in Jobs : job'[j] \in JobDoc(faults)
      BY <1>4, Types
    <2>2. job' \in [Jobs -> JobDoc(faults')]
      BY <1>a, <2>1 DEF SweepExhausted
    <2> QED
      BY <1>a, <1>0, <1>2, <2>2, Types, TypesNext DEF OnlyReq
  <1>6. \A j \in Jobs :
          \/ job'[j] = job[j]
          \/ /\ job'[j].status # "SENDING" /\ job'[j].lease \in {job[j].lease, Nobody}
             /\ Due(j)' => Room(j)'
             /\ job[j].status = "SENDING" => job[j].lapsed /\ job'[j].lease = Nobody
    BY <1>4 DEF Due
  <1>7. \A j \in Jobs : channel'[j] = "none" =>
          channel[j] = "none" /\ job'[j].status = "none" /\ inbox'[j] = "none"
    BY <1>a, <1>4 DEF Queue, Fresh
  <1>8. Queue'
    <2>1. faults' \in Nat /\ faults <= faults'
      BY <1>a, <1>0
    <2> QED
      BY <1>3, <1>6, <1>7, <2>1, QueueJobs
  <1> QED
    BY <1>5, <1>8

\* Staff requeue a dead job and then its deliveries.
LEMMA RetryStep ==
    ASSUME TypeOK, Queue, NEW j \in Jobs, RetryJob(j) \/ RetryDeliveries(j) PROVE TypeOK' /\ Queue'
  <1>a. /\ channel' = channel /\ inbox' = inbox /\ active' = active
        /\ got' = got /\ req' = req /\ faults' = faults
    BY DEF RetryJob, RetryDeliveries
  <1>0. faults \in 0 .. MaxFaults /\ faults \in Nat /\ MaxAttempts \in Nat \ {0}
    BY AttemptsAssumption, BoundsAssumption DEF TypeOK
  <1> DEFINE doc == [job[j] EXCEPT !.status = "RETRYING", !.attempts = 0]
  <1>1. 0 \in 0 .. MaxAttempts + faults /\ 0 < MaxAttempts + faults
    BY <1>0
  <1>2. /\ doc \in JobDoc(faults) /\ doc.status = "RETRYING"
        /\ doc.lease = job[j].lease /\ doc.attempts = 0
    <2>1. job[j] \in JobDoc(faults)
      BY Types
    <2> QED
      BY <1>1, <2>1 DEF JobDoc, JobStatus
  <1>3. job' = job \/ (job[j].status = "DEAD_LETTER" /\ job' = [job EXCEPT ![j] = doc])
    BY DEF RetryJob, RetryDeliveries
  <1> HIDE DEF doc
  <1>4. TypeOK'
    <2>1. job' \in [Jobs -> JobDoc(faults')]
      BY <1>a, <1>2, <1>3, Types
    <2>2. staff' \in [Jobs -> [resets : BOOLEAN, count : 0 .. MaxRetries]]
      <3>1. staff[j].count \in 0 .. MaxRetries /\ staff[j].resets \in BOOLEAN
        BY Types
      <3>2. CASE RetryJob(j)
        <4>1. staff[j].count + 1 \in 0 .. MaxRetries
          BY <3>1, <3>2, BoundsAssumption DEF RetryJob
        <4>2. [resets |-> IsPush(j), count |-> staff[j].count + 1] \in [resets : BOOLEAN, count : 0 .. MaxRetries]
          BY <4>1 DEF IsPush
        <4> QED
          BY <3>2, <4>2, Types DEF RetryJob
      <3>3. CASE RetryDeliveries(j)
        <4> DEFINE left == [staff[j] EXCEPT !.resets = FALSE]
        <4>1. left \in [resets : BOOLEAN, count : 0 .. MaxRetries]
          BY Types
        <4>2. staff' = [staff EXCEPT ![j] = left]
          BY <3>3 DEF RetryDeliveries
        <4> HIDE DEF left
        <4> QED
          BY <4>1, <4>2, Types
      <3> QED
        BY <3>2, <3>3
    <2>3. delivery' \in [Jobs -> [Devices -> DeliveryDoc]]
      <3>1. CASE RetryJob(j)
        BY <3>1, Types DEF RetryJob
      <3>2. CASE RetryDeliveries(j)
        <4>1. [status |-> "PENDING", attempts |-> 0] \in DeliveryDoc
          BY DEF DeliveryDoc, DeliveryStatus
        <4>2. [d \in Devices |-> IF delivery[j][d].status = "EXHAUSTED"
                 THEN [status |-> "PENDING", attempts |-> 0] ELSE delivery[j][d]] \in [Devices -> DeliveryDoc]
          BY <4>1, Types
        <4> QED
          BY <3>2, <4>2, Types DEF RetryDeliveries
      <3> QED
        BY <3>1, <3>2
    <2> QED
      BY <1>a, <1>0, <2>1, <2>2, <2>3, Types, TypesNext
  <1>5. \A i \in Jobs :
          \/ job'[i] = job[i]
          \/ /\ job'[i].status # "SENDING" /\ job'[i].lease \in {job[i].lease, Nobody}
             /\ Due(i)' => Room(i)'
             /\ job[i].status = "SENDING" => job[i].lapsed /\ job'[i].lease = Nobody
    BY <1>a, <1>1, <1>2, <1>3, Types DEF Room
  <1>6. \A i \in Jobs : channel'[i] = "none" =>
          channel[i] = "none" /\ job'[i].status = "none" /\ inbox'[i] = "none"
    BY <1>a, <1>3, Types DEF Queue, Fresh
  <1>7. Queue'
    <2>1. faults' \in Nat /\ faults <= faults'
      BY <1>a, <1>0
    <2> QED
      BY <1>a, <1>5, <1>6, <2>1, QueueJobs
  <1> QED
    BY <1>4, <1>7

\* The tick ends, and the customer signs out.
LEMMA QuietStep ==
    ASSUME TypeOK, Queue, (\E w \in Workers : EndTick(w)) \/ (\E d \in Devices : SignOut(d))
    PROVE  TypeOK' /\ Queue'
  <1>a. /\ channel' = channel /\ inbox' = inbox /\ job' = job /\ delivery' = delivery
        /\ active' \subseteq active /\ got' = got /\ staff' = staff /\ faults' = faults
    BY DEF EndTick, SignOut
  <1>0. faults \in 0 .. MaxFaults /\ faults \in Nat
    BY BoundsAssumption DEF TypeOK
  <1>1. /\ req' \in [Workers -> Request \cup {Idle}]
        /\ \A v \in Workers : Busy(v) \/ Busy(v)' => req'[v] = req[v]
    <2>1. CASE \E d \in Devices : SignOut(d)
      BY <2>1, Types DEF SignOut
    <2>2. CASE \E w \in Workers : EndTick(w)
      <3> PICK w \in Workers : EndTick(w)
        BY <2>2
      <3>1. OnlyReq(w) /\ req'[w] = Idle /\ ~Busy(w)
        BY NewReq DEF EndTick, At, Busy
      <3> QED
        BY <3>1 DEF OnlyReq, Busy, Idle
    <2> QED
      BY <2>1, <2>2
  <1>2. TypeOK'
    BY <1>a, <1>0, <1>1, Types, TypesNext
  <1>3. \A j \in Jobs : channel'[j] = "none" =>
          channel[j] = "none" /\ job'[j].status = "none" /\ inbox'[j] = "none"
    BY <1>a DEF Queue, Fresh
  <1>4. \A j \in Jobs : job'[j] = job[j]
    BY <1>a
  <1>5. Queue'
    <2>1. faults' \in Nat /\ faults <= faults'
      BY <1>a, <1>0
    <2> QED
      BY <1>1, <1>3, <1>4, <2>1, QueueJobs
  <1> QED
    BY <1>2, <1>5

\* A worker claims a job.
LEMMA ClaimStep == ASSUME TypeOK, Queue, NEW w \in Workers, NEW p \in Jobs, Claim(w, p) PROVE TypeOK' /\ Queue'
  <1>a. /\ channel' = channel /\ inbox' = inbox /\ delivery' = delivery /\ active' = active
        /\ got' = got /\ staff' = staff /\ faults' = faults /\ req[w].at = "loop" /\ Due(p)
    BY DEF Claim, At
  <1>0. faults \in 0 .. MaxFaults /\ faults \in Nat /\ MaxAttempts \in Nat
    BY AttemptsAssumption, BoundsAssumption DEF TypeOK
  <1> DEFINE n == job[p].attempts + 1
             doc == [status |-> "SENDING", attempts |-> n, lease |-> w, lapsed |-> FALSE]
             r == [Loop EXCEPT !.at = "deliver", !.job = p, !.attempts = n]
  <1>1. n \in 0 .. MaxAttempts + faults /\ n \in Nat
    <2>1. job[p].attempts < MaxAttempts + faults
      BY <1>a DEF Queue, Budget, Room
    <2>2. job[p].attempts \in 0 .. MaxAttempts + faults
      BY Types DEF JobDoc
    <2> QED
      BY <1>0, <2>1, <2>2
  <1>2. doc \in JobDoc(faults)
    BY <1>1 DEF JobDoc, JobStatus
  <1>3. job' = [job EXCEPT ![p] = doc] /\ req' = [req EXCEPT ![w] = r]
    BY DEF Claim
  <1>4. r \in Request /\ r.at = "deliver" /\ r.job = p /\ r.attempts = n
    BY <1>1, LoopTyped DEF Loop
  <1>5. doc.status = "SENDING" /\ doc.attempts = n /\ doc.lease = w /\ ~doc.lapsed
    OBVIOUS
  <1> HIDE DEF n, doc, r
  <1>6. OnlyReq(w) /\ req'[w] = r
    BY <1>3, <1>4, NewReq
  <1>7. job'[p] = doc /\ \A j \in Jobs : j # p => job'[j] = job[j]
    BY <1>3, Types
  <1>8. TypeOK'
    <2>1. job' \in [Jobs -> JobDoc(faults')]
      BY <1>a, <1>2, <1>3, Types
    <2> QED
      BY <1>a, <1>0, <1>6, <2>1, Types, TypesNext DEF OnlyReq
  <1>9. \A v \in Workers : v # w =>
          /\ req'[v] = req[v] /\ (Busy(v)' <=> Busy(v))
          /\ Busy(v) => req[v].job \in Jobs /\ (req[v].job = p => job[p].lease # v /\ faults # 0)
    <2>1. job[p].status # "SENDING"
      BY <1>a DEF Due
    <2> QED
      BY <1>6, <2>1 DEF OnlyReq, Busy, Queue, Assigned, Owned, Sole, Leased
  <1>10. Busy(w)' /\ ~Busy(w)
    BY <1>a, <1>4, <1>6 DEF Busy
  <1>11. channel[p] # "none"
    BY <1>a DEF Queue, Fresh, Due
  <1>12. Assigned' /\ Fresh'
    <2>1. Fresh'
      BY <1>a, <1>7, <1>11 DEF Queue, Fresh
    <2>2. Assigned'
      BY <1>a, <1>4, <1>6, <1>9, <1>11 DEF Queue, Assigned
    <2> QED
      BY <2>1, <2>2
  <1>13. Owned'
    <2> SUFFICES ASSUME NEW v \in Workers, Busy(v)', job'[req'[v].job].lease = v
                 PROVE  job'[req'[v].job].status = "SENDING" /\ job'[req'[v].job].attempts = req'[v].attempts
      BY DEF Owned
    <2>1. CASE v = w
      BY <1>4, <1>5, <1>6, <1>7, <2>1
    <2>2. CASE v # w
      <3>1. req[v].job # p
        BY <1>5, <1>7, <1>9, <2>2
      <3> QED
        BY <1>7, <1>9, <2>2, <3>1 DEF Queue, Owned
    <2> QED
      BY <2>1, <2>2
  <1>14. Sole'
    <2> SUFFICES ASSUME faults' = 0, NEW v \in Workers, Busy(v)' PROVE Leased(v)'
      BY DEF Sole
    <2>1. CASE v = w
      BY <1>4, <1>5, <1>6, <1>7, <2>1 DEF Leased
    <2>2. CASE v # w
      <3>1. Busy(v) /\ req'[v] = req[v] /\ req[v].job \in Jobs /\ req[v].job # p
        BY <1>a, <1>9, <2>2
      <3>2. Leased(v)
        BY <1>a, <3>1 DEF Queue, Sole
      <3> QED
        BY <1>7, <3>1, <3>2 DEF Leased
    <2> QED
      BY <2>1, <2>2
  <1>15. Budget'
    <2> SUFFICES ASSUME NEW j \in Jobs
                 PROVE  /\ Due(j)' => Room(j)'
                        /\ job'[j].status = "SENDING" => Room(j)' \/ (~job'[j].lapsed /\ Held(j)')
      BY DEF Budget
    <2>1. CASE j = p
      <3>1. Held(p)'
        BY <1>4, <1>5, <1>6, <1>7, <1>10 DEF Held
      <3>2. ~Due(p)'
        BY <1>5, <1>7 DEF Due
      <3> QED
        BY <1>5, <1>7, <2>1, <3>1, <3>2
    <2>2. CASE j # p
      <3>1. Held(j) => Held(j)'
        BY <1>7, <1>9, <1>10, <2>2 DEF Held
      <3>2. Room(j) => Room(j)'
        BY <1>a, <1>7, <2>2 DEF Room
      <3> QED
        BY <1>7, <2>2, <3>1, <3>2 DEF Queue, Budget, Due
    <2> QED
      BY <2>1, <2>2
  <1> QED
    BY <1>8, <1>12, <1>13, <1>14, <1>15 DEF Queue

-----------------------------------------------------------------------------
(* Steps of an attempt.                                                     *)

LEMMA AfterFailureBounds ==
    ASSUME TypeOK, Queue, NEW w \in Workers, Busy(w), NEW permanent \in BOOLEAN
    PROVE  /\ AfterFailure(w, permanent) \in Ended \cup {"RETRYING"}
           /\ AfterFailure(w, permanent) = "RETRYING" => req[w].attempts < MaxAttempts
           /\ AfterFailure(w, permanent) # "SENT"
  <1>1. req[w].attempts \in Nat /\ MaxAttempts \in Nat
    BY AtJob, AttemptsAssumption
  <1> QED
    BY <1>1 DEF AfterFailure, Ended

\* The attempt ends.
LEMMA EndStep ==
    ASSUME TypeOK, Queue, NEW w \in Workers, Busy(w),
           NEW status \in Ended \cup {"RETRYING"}, Finish(w, status),
           status = "RETRYING" => req[w].attempts < MaxAttempts,
           UNCHANGED <<channel, inbox, delivery, active, got, staff, faults>>
    PROVE  TypeOK' /\ Queue'
  <1>1. /\ channel' = channel /\ inbox' = inbox /\ delivery' = delivery /\ active' = active
        /\ got' = got /\ staff' = staff /\ faults' = faults
    OBVIOUS
  <1>2. job' \in [Jobs -> JobDoc(faults)] /\ OnlyReq(w)
    BY FinishTyped
  <1>3. TypeOK'
    BY <1>1, <1>2, Types, TypesNext DEF OnlyReq
  <1> QED
    BY <1>3, QueueFinish

\* The attempt goes on.
LEMMA LocalStep ==
    ASSUME TypeOK, Queue, NEW w \in Workers, Busy(w), NEW r \in Request,
           req' = [req EXCEPT ![w] = r], r.job = req[w].job, r.attempts = req[w].attempts,
           r.at \in {"deliver", "batch", "send", "settle"},
           UNCHANGED <<channel, inbox, job, staff>>, Fault \/ UNCHANGED faults,
           delivery' \in [Jobs -> [Devices -> DeliveryDoc]], active' \subseteq active,
           got' \in [Jobs -> [Devices -> Nat]]
    PROVE  TypeOK' /\ Queue' /\ OnlyReq(w) /\ req'[w] = r
  <1>1. OnlyReq(w) /\ req'[w] = r
    BY NewReq
  <1>2. channel' = channel /\ inbox' = inbox /\ job' = job /\ staff' = staff
    OBVIOUS
  <1>3. faults \in Nat /\ faults' \in Nat /\ faults <= faults' /\ faults' \in 0 .. MaxFaults
    BY FaultGrows
  <1>4. JobDoc(faults) \subseteq JobDoc(faults')
    BY <1>3, RoomGrows
  <1>5. job' \in [Jobs -> JobDoc(faults')]
    BY <1>2, <1>4, Types
  <1>6. TypeOK'
    BY <1>1, <1>2, <1>3, <1>5, Types, TypesNext DEF OnlyReq
  <1>7. Busy(w)'
    BY <1>1 DEF Busy
  <1>8. Queue'
    BY <1>1, <1>7, QueueLocal
  <1> QED
    BY <1>1, <1>6, <1>8

LEMMA SendMailStep == ASSUME TypeOK, Queue, NEW w \in Workers, SendMail(w) PROVE TypeOK' /\ Queue'
  <1> DEFINE m == req[w].job
             r(next) == [req[w] EXCEPT !.at = "settle", !.next = next]
  <1>1. Busy(w) /\ req[w] \in Request /\ m \in Jobs
    BY AtJob DEF SendMail, At, Busy
  <1>2. \A next \in Ended \cup {"RETRYING"} :
          /\ r(next) \in Request /\ r(next).job = m /\ r(next).attempts = req[w].attempts
          /\ r(next).at = "settle"
    BY <1>1 DEF Request
  <1>3. \E next \in Ended \cup {"RETRYING"} : req' = [req EXCEPT ![w] = r(next)]
    <2>1. \A permanent \in BOOLEAN : AfterFailure(w, permanent) \in Ended \cup {"RETRYING"}
      BY <1>1, AfterFailureBounds
    <2>2. "SENT" \in Ended
      BY DEF Ended
    <2>3. PICK permanent \in BOOLEAN :
            \/ req' = [req EXCEPT ![w] = r("SENT")]
            \/ req' = [req EXCEPT ![w] = r(AfterFailure(w, permanent))]
            \/ req' = [req EXCEPT ![w] = r(AfterFailure(w, FALSE))]
      BY DEF SendMail
    <2> HIDE DEF r
    <2> QED
      BY <2>1, <2>2, <2>3
  <1>4. got' \in [Jobs -> [Devices -> Nat]]
    <2>1. [d \in Devices |-> got[m][d] + 1] \in [Devices -> Nat]
      BY <1>1, Types
    <2>2. got' = got \/ got' = [got EXCEPT ![m] = [d \in Devices |-> got[m][d] + 1]]
      BY DEF SendMail
    <2> QED
      BY <1>1, <2>1, <2>2, Types
  <1>5. /\ UNCHANGED <<channel, inbox, job, staff>> /\ (Fault \/ UNCHANGED faults)
        /\ delivery' = delivery /\ active' = active
    BY DEF SendMail
  <1> HIDE DEF r
  <1> QED
    BY <1>1, <1>2, <1>3, <1>4, <1>5, LocalStep, Types

LEMMA SettleStep ==
    ASSUME TypeOK, Queue, Mailing, NEW w \in Workers, Settle(w) PROVE TypeOK' /\ Queue'
  <1>1. Busy(w) /\ req[w] \in Request
    BY AtJob DEF Settle, At, Busy
  <1>2. req[w].next \in Ended \cup {"RETRYING"}
    BY <1>1 DEF Request
  <1>3. req[w].next = "RETRYING" => req[w].attempts < MaxAttempts
    BY DEF Settle, Mailing
  <1>4. Finish(w, req[w].next) /\ UNCHANGED <<channel, inbox, delivery, active, got, staff, faults>>
    BY DEF Settle
  <1> QED
    BY <1>1, <1>2, <1>3, <1>4, EndStep

LEMMA JudgeStep == ASSUME TypeOK, Queue, NEW w \in Workers, Judge(w) PROVE TypeOK' /\ Queue'
  <1>1. Busy(w)
    BY DEF Judge, At, Busy
  <1> DEFINE status == IF req[w].retry THEN AfterFailure(w, FALSE)
                       ELSE IF AnyFailed(w) THEN "DEAD_LETTER" ELSE "SENT"
  <1>2. status \in Ended \cup {"RETRYING"} /\ (status = "RETRYING" => req[w].attempts < MaxAttempts)
    BY <1>1, AfterFailureBounds DEF Ended
  <1>3. Finish(w, status) /\ UNCHANGED <<channel, inbox, delivery, active, got, staff, faults>>
    BY DEF Judge
  <1> HIDE DEF status
  <1> QED
    BY <1>1, <1>2, <1>3, EndStep

LEMMA OpenStep == ASSUME TypeOK, Queue, NEW w \in Workers, Open(w) PROVE TypeOK' /\ Queue'
  <1>1. Busy(w) /\ req[w] \in Request
    BY AtJob DEF Open, At, Busy
  <1>2. UNCHANGED <<channel, inbox, delivery, active, got, staff, faults>>
    BY DEF Open
  <1>3. CASE Finish(w, "DEAD_LETTER")
    BY <1>1, <1>2, <1>3, EndStep DEF Ended
  <1>4. CASE ~Finish(w, "DEAD_LETTER")
    <2> DEFINE ds == [d \in Devices |-> IF d \in active THEN "todo" ELSE "out"]
               r == [req[w] EXCEPT !.at = "batch", !.device = ds]
    <2>1. ds \in [Devices -> DeviceSteps]
      BY DEF DeviceSteps
    <2>2. req' = [req EXCEPT ![w] = r] /\ job' = job
      BY <1>4 DEF Open
    <2> HIDE DEF ds
    <2>3. r \in Request /\ r.job = req[w].job /\ r.attempts = req[w].attempts /\ r.at = "batch"
      BY <1>1, <2>1 DEF Request
    <2> HIDE DEF r
    <2> QED
      BY <1>1, <1>2, <2>2, <2>3, LocalStep, Types
  <1> QED
    BY <1>3, <1>4

LEMMA RenewStep == ASSUME TypeOK, Queue, NEW w \in Workers, Renew(w) PROVE TypeOK' /\ Queue'
  <1> DEFINE p == req[w].job
  <1>1. Busy(w) /\ req[w] \in Request /\ p \in Jobs /\ job[p] \in JobDoc(faults)
    BY AtJob DEF Renew, At, Busy
  <1>a. /\ channel' = channel /\ inbox' = inbox /\ delivery' = delivery /\ active' = active
        /\ got' = got /\ staff' = staff /\ faults' = faults
    BY DEF Renew
  <1>0. faults \in 0 .. MaxFaults
    BY DEF TypeOK
  <1>2. CASE ~HasLease(w)
    <2>1. Finish(w, AfterFailure(w, FALSE))
      BY <1>2 DEF Renew
    <2> QED
      BY <1>1, <1>a, <2>1, AfterFailureBounds, EndStep
  <1>3. CASE HasLease(w)
    <2> DEFINE doc == [job[p] EXCEPT !.lapsed = FALSE]
    <2>1. job' = [job EXCEPT ![p] = doc] /\ Goto(w, "send")
      BY <1>3 DEF Renew
    <2>2. /\ doc \in JobDoc(faults) /\ doc.status = job[p].status /\ doc.lease = w /\ ~doc.lapsed
          /\ doc.attempts = job[p].attempts /\ job[p].status = "SENDING" /\ job[p].lease = w
      BY <1>1, <1>3 DEF JobDoc, HasLease
    <2> HIDE DEF doc
    <2>3. OnlyReq(w) /\ req'[w] = [req[w] EXCEPT !.at = "send"]
      BY <1>1, <2>1, GotoTyped
    <2>4. TypeOK'
      <3>1. job' \in [Jobs -> JobDoc(faults')]
        BY <1>a, <2>1, <2>2, Types
      <3> QED
        BY <1>a, <1>0, <2>3, <3>1, Types, TypesNext DEF OnlyReq
    <2>5. \A v \in Workers : /\ Busy(v)' <=> Busy(v)
                             /\ req'[v].job = req[v].job /\ req'[v].attempts = req[v].attempts
      BY <1>1, <2>3 DEF OnlyReq, Busy, Request
    <2>6. \A j \in Jobs : /\ job'[j].status = job[j].status /\ job'[j].attempts = job[j].attempts
                          /\ job'[j].lease = job[j].lease /\ (~job[j].lapsed => ~job'[j].lapsed)
      BY <2>1, <2>2, Types
    <2>7. Assigned' /\ Fresh' /\ Owned' /\ Sole'
      BY <1>a, <2>5, <2>6 DEF Queue, Assigned, Fresh, Owned, Sole, Leased
    <2>8. \A j \in Jobs : (Room(j)' <=> Room(j)) /\ (Held(j)' <=> Held(j)) /\ (Due(j)' <=> Due(j))
      BY <1>a, <2>5, <2>6 DEF Room, Held, Due
    <2>9. Budget'
      BY <2>6, <2>8 DEF Queue, Budget
    <2> QED
      BY <2>4, <2>7, <2>9 DEF Queue
  <1> QED
    BY <1>2, <1>3

\* One device of a batch: what each step makes of the worker's request.
LEMMA LookStep ==
    ASSUME TypeOK, Queue, NEW w \in Workers, NEW d \in Devices, Look(w, d)
    PROVE  TypeOK' /\ Queue' /\ OnlyReq(w) /\ req'[w] \in Request
  <1> DEFINE p == req[w].job
             r1 == [req[w] EXCEPT !.device[d] = "pending", !.tries[d] = delivery[p][d].attempts]
             r2 == [req[w] EXCEPT !.device[d] = "done", !.failed = @ \/ delivery[p][d].status # "SUBMITTED"]
  <1>1. Busy(w) /\ req[w] \in Request /\ p \in Jobs /\ req[w].at = "send" /\ delivery[p][d] \in DeliveryDoc
    BY AtJob, Types DEF Look, At, Busy
  <1>2. /\ r1 \in Request /\ r1.job = p /\ r1.attempts = req[w].attempts /\ r1.at = "send"
        /\ r2 \in Request /\ r2.job = p /\ r2.attempts = req[w].attempts /\ r2.at = "send"
    BY <1>1 DEF Request, DeviceSteps, DeliveryDoc
  <1>3. req' = [req EXCEPT ![w] = r1] \/ req' = [req EXCEPT ![w] = r2]
    BY DEF Look
  <1>4. delivery' \in [Jobs -> [Devices -> DeliveryDoc]]
    <2>1. [delivery[p][d] EXCEPT !.status = IF @ = "none" THEN "PENDING" ELSE @] \in DeliveryDoc
      BY <1>1 DEF DeliveryDoc, DeliveryStatus
    <2> QED
      BY <1>1, <2>1, Types DEF Look
  <1>5. UNCHANGED <<channel, inbox, job, staff>> /\ active' = active /\ got' = got /\ UNCHANGED faults
    BY DEF Look
  <1> HIDE DEF r1, r2
  <1> QED
    BY <1>1, <1>2, <1>3, <1>4, <1>5, LocalStep, Types

LEMMA SubmitStep ==
    ASSUME TypeOK, Queue, NEW w \in Workers, NEW d \in Devices, Submit(w, d)
    PROVE  TypeOK' /\ Queue' /\ OnlyReq(w) /\ req'[w] \in Request
  <1> DEFINE p == req[w].job
             r1 == [req[w] EXCEPT !.device[d] = "done", !.failed = TRUE]
             r2(answer) == [req[w] EXCEPT !.device[d] = answer]
  <1>1. Busy(w) /\ req[w] \in Request /\ p \in Jobs /\ req[w].at = "send" /\ delivery[p][d] \in DeliveryDoc
    BY AtJob, Types DEF Submit, At, Busy
  <1>2. /\ r1 \in Request /\ r1.job = p /\ r1.attempts = req[w].attempts /\ r1.at = "send"
        /\ \A answer \in Answers :
              /\ r2(answer) \in Request /\ r2(answer).job = p /\ r2(answer).attempts = req[w].attempts
              /\ r2(answer).at = "send"
    BY <1>1 DEF Request, DeviceSteps, Answers
  <1>3. req' = [req EXCEPT ![w] = r1] \/ \E answer \in Answers : req' = [req EXCEPT ![w] = r2(answer)]
    BY DEF Submit, Answers
  <1>4. delivery' \in [Jobs -> [Devices -> DeliveryDoc]]
    <2> DEFINE doc == [delivery[p][d] EXCEPT !.status = "SKIPPED"]
    <2>1. doc \in DeliveryDoc
      BY <1>1 DEF DeliveryDoc, DeliveryStatus
    <2>2. delivery' = delivery \/ delivery' = [delivery EXCEPT ![p][d] = doc]
      BY DEF Submit
    <2> HIDE DEF doc
    <2>3. [delivery EXCEPT ![p][d] = doc] \in [Jobs -> [Devices -> DeliveryDoc]]
      BY <1>1, <2>1, Types
    <2> QED
      BY <2>2, <2>3, Types
  <1>5. got' \in [Jobs -> [Devices -> Nat]]
    <2> DEFINE n == got[p][d] + 1
    <2>1. got' = got \/ got' = [got EXCEPT ![p][d] = n]
      BY DEF Submit
    <2>2. n \in Nat
      BY <1>1, Types
    <2> HIDE DEF n
    <2>3. [got EXCEPT ![p][d] = n] \in [Jobs -> [Devices -> Nat]]
      BY <1>1, <2>2, Types
    <2> QED
      BY <2>1, <2>3, Types
  <1>6. UNCHANGED <<channel, inbox, job, staff>> /\ active' = active /\ (Fault \/ UNCHANGED faults)
    BY DEF Submit
  <1> HIDE DEF r1, r2
  <1> QED
    BY <1>1, <1>2, <1>3, <1>4, <1>5, <1>6, LocalStep

LEMMA RecordStep ==
    ASSUME TypeOK, Queue, NEW w \in Workers, NEW d \in Devices, Record(w, d)
    PROVE  TypeOK' /\ Queue' /\ OnlyReq(w) /\ req'[w] \in Request
  <1> DEFINE p == req[w].job
             status == Recorded(req[w].device[d], req[w].tries[d])
             r == [req[w] EXCEPT !.device[d] = "done", !.retry = @ \/ status = "PENDING",
                                 !.failed = @ \/ status \in {"EXHAUSTED", "FAILED"}]
  <1>1. Busy(w) /\ req[w] \in Request /\ p \in Jobs /\ req[w].at = "send" /\ delivery[p][d] \in DeliveryDoc
    BY AtJob, Types DEF Record, At, Busy
  <1>2. status \in DeliveryStatus
    BY DEF Recorded, DeliveryStatus
  <1>3. req' = [req EXCEPT ![w] = r]
    BY DEF Record
  <1>4. delivery' = [delivery EXCEPT ![p][d] = [status |-> status, attempts |-> delivery[p][d].attempts + 1]]
    BY DEF Record
  <1> HIDE DEF status
  <1>5. r \in Request /\ r.job = p /\ r.attempts = req[w].attempts /\ r.at = "send"
    BY <1>1 DEF Request, DeviceSteps
  <1>6. delivery' \in [Jobs -> [Devices -> DeliveryDoc]]
    <2>1. [status |-> status, attempts |-> delivery[p][d].attempts + 1] \in DeliveryDoc
      BY <1>1, <1>2 DEF DeliveryDoc
    <2> HIDE DEF status
    <2> QED
      BY <1>1, <1>4, <2>1, Types
  <1>7. UNCHANGED <<channel, inbox, job, staff>> /\ active' \subseteq active /\ got' = got /\ UNCHANGED faults
    BY DEF Record
  <1> HIDE DEF r
  <1> QED
    BY <1>1, <1>3, <1>5, <1>6, <1>7, LocalStep, Types

-----------------------------------------------------------------------------
(* Arrivals.                                                                *)

\* Nothing arrives, no worker moves within an attempt and no job becomes SENT.
LEMMA NothingArrives ==
    ASSUME TypeOK, Queue, Arrivals, faults' = 0 => faults = 0, active' \subseteq active, got' = got,
           \A j \in Jobs : channel[j] # "none" => channel'[j] = channel[j],
           \A j \in Jobs : job'[j].status = "SENT" => job[j].status = "SENT",
           \A v \in Workers : req'[v].at \in {"batch", "send", "settle"} => req'[v] = req[v],
           \A j \in Jobs, d \in Devices :
              \/ delivery'[j][d].status = delivery[j][d].status
              \/ delivery[j][d].status = "EXHAUSTED" /\ delivery'[j][d].status # "SUBMITTED"
    PROVE  Arrivals'
  <1>1. \A v \in Workers : Busy(v) => req[v].job \in Jobs /\ channel'[req[v].job] = channel[req[v].job]
    BY DEF Queue, Assigned
  <1>2. Pushing'
    <2> SUFFICES ASSUME NEW v \in Workers, req'[v].at \in {"batch", "send"}
                 PROVE  /\ IsPush(req[v].job)'
                        /\ \E d \in Devices : req[v].device[d] # "out"
                        /\ \A d \in Devices :
                              /\ req[v].device[d] = "out" => d \notin active'
                              /\ At(v, "batch")' => req[v].device[d] \in {"out", "todo"}
                              /\ req[v].device[d] = "accepted" \/ Good(v, d)' => got[req[v].job][d] > 0
      BY DEF Pushing, Good, IsPush
    <2>1. req'[v] = req[v] /\ Busy(v)
      BY DEF Busy
    <2>2. channel'[req[v].job] = channel[req[v].job] /\ IsPush(req[v].job)
      BY <1>1, <2>1 DEF Arrivals, Pushing
    <2>3. \A d \in Devices : Good(v, d)' => Good(v, d)
      BY <2>1 DEF Good
    <2> QED
      BY <2>1, <2>2, <2>3 DEF Arrivals, Pushing, IsPush, At
  <1>3. Mailing'
    <2> SUFFICES ASSUME NEW v \in Workers, At(v, "settle")'
                 PROVE  /\ ~IsPush(req[v].job)'
                        /\ req[v].next = "RETRYING" => req[v].attempts < MaxAttempts
                        /\ req[v].next = "SENT" => \E d \in Devices : got[req[v].job][d] > 0
      BY DEF Mailing, At, IsPush
    <2>1. req'[v] = req[v] /\ Busy(v) /\ At(v, "settle")
      BY DEF Busy, At
    <2> QED
      BY <1>1, <2>1 DEF Arrivals, Mailing, IsPush
  <1>4. Receipts'
    BY DEF Arrivals, Receipts
  <1>5. Recall'
    <2> SUFFICES ASSUME faults' = 0, NEW v \in Workers, At(v, "send")', NEW d \in Devices, Good(v, d)'
                 PROVE  delivery'[req'[v].job][d].status = "SUBMITTED"
      BY DEF Recall
    <2>1. req'[v] = req[v] /\ Busy(v) /\ At(v, "send")
      BY DEF Busy, At
    <2>2. Good(v, d) /\ req[v].job \in Jobs
      BY <1>1, <2>1 DEF Good
    <2>3. delivery[req[v].job][d].status = "SUBMITTED"
      BY <2>1, <2>2 DEF Arrivals, Recall
    <2> QED
      BY <2>1, <2>2, <2>3
  <1>6. SentIsDelivered'
    <2> SUFFICES ASSUME NEW j \in Jobs, job'[j].status = "SENT"
                 PROVE  /\ \E d \in Devices : got[j][d] > 0
                        /\ IsPush(j)' /\ faults' = 0 =>
                              \A d \in Devices :
                                 \/ delivery'[j][d].status \in {"none", "SUBMITTED"}
                                 \/ delivery'[j][d].status = "PENDING" /\ d \notin active'
      BY DEF SentIsDelivered, IsPush
    <2>1. job[j].status = "SENT" /\ (IsPush(j)' => IsPush(j))
      BY DEF Queue, Fresh, IsPush
    <2> QED
      BY <2>1 DEF Arrivals, SentIsDelivered
  <1> QED
    BY <1>2, <1>3, <1>4, <1>5, <1>6 DEF Arrivals

\* An attempt goes on: what it owes is about its own job.
LEMMA AttemptArrives ==
    ASSUME TypeOK, Queue, Arrivals, NEW w \in Workers, Busy(w), OnlyReq(w),
           faults' = 0 => faults = 0, active' \subseteq active, channel' = channel,
           \A j \in Jobs : job'[j].status = job[j].status,
           \A j \in Jobs, d \in Devices : got[j][d] > 0 => got'[j][d] > 0,
           \A j \in Jobs : j # req[w].job => delivery'[j] = delivery[j],
           \A d \in Devices : delivery'[req[w].job][d].status = "SUBMITTED" => got'[req[w].job][d] > 0,
           req'[w].job = req[w].job,
           req'[w].at \in {"batch", "send"} =>
              /\ IsPush(req[w].job)
              /\ \E d \in Devices : req'[w].device[d] # "out"
              /\ \A d \in Devices :
                    /\ req'[w].device[d] = "out" => d \notin active'
                    /\ req'[w].at = "batch" => req'[w].device[d] \in {"out", "todo"}
                    /\ req'[w].device[d] = "accepted" \/ Good(w, d)' => got'[req[w].job][d] > 0
                    /\ req'[w].at = "send" /\ faults' = 0 /\ Good(w, d)' =>
                          delivery'[req[w].job][d].status = "SUBMITTED",
           req'[w].at = "settle" =>
              /\ ~IsPush(req[w].job)
              /\ req'[w].next = "RETRYING" => req'[w].attempts < MaxAttempts
              /\ req'[w].next = "SENT" => \E d \in Devices : got'[req[w].job][d] > 0
    PROVE  Arrivals'
  <1> DEFINE p == req[w].job
  <1>1. \A v \in Workers : v # w => req'[v] = req[v]
    BY DEF OnlyReq
  <1>2. \A v \in Workers : Busy(v) => req[v].job \in Jobs
    BY DEF Queue, Assigned
  <1>3. Pushing'
    <2> SUFFICES ASSUME NEW v \in Workers, v # w, req[v].at \in {"batch", "send"}
                 PROVE  \A d \in Devices :
                              /\ req[v].device[d] = "out" => d \notin active'
                              /\ req[v].device[d] = "accepted" \/ Good(v, d) => got'[req[v].job][d] > 0
      BY <1>1 DEF Pushing, Arrivals, Good, IsPush, At
    <2>1. req[v].job \in Jobs
      BY <1>2 DEF Busy
    <2> QED
      BY <2>1 DEF Arrivals, Pushing
  <1>4. Mailing'
    <2> SUFFICES ASSUME NEW v \in Workers, v # w, At(v, "settle"), req[v].next = "SENT"
                 PROVE  \E d \in Devices : got'[req[v].job][d] > 0
      BY <1>1 DEF Mailing, Arrivals, IsPush, At
    <2>1. req[v].job \in Jobs
      BY <1>2 DEF Busy, At
    <2> QED
      BY <2>1 DEF Arrivals, Mailing
  <1>5. Receipts'
    BY DEF Arrivals, Receipts
  <1>6. faults' = 0 => \A v \in Workers : v # w /\ Busy(v) => req[v].job # p
    BY DEF Queue, Sole, Leased
  <1>7. Recall'
    <2> SUFFICES ASSUME faults' = 0, NEW v \in Workers, At(v, "send")', NEW d \in Devices, Good(v, d)'
                 PROVE  delivery'[req'[v].job][d].status = "SUBMITTED"
      BY DEF Recall
    <2>1. CASE v = w
      BY <2>1 DEF At
    <2>2. CASE v # w
      <3>1. req'[v] = req[v] /\ At(v, "send") /\ Good(v, d) /\ Busy(v)
        BY <1>1, <2>2 DEF At, Good, Busy
      <3>2. delivery'[req[v].job] = delivery[req[v].job]
        BY <1>2, <1>6, <2>2, <3>1
      <3> QED
        BY <3>1, <3>2 DEF Arrivals, Recall
    <2> QED
      BY <2>1, <2>2
  <1>8. SentIsDelivered'
    <2> SUFFICES ASSUME NEW j \in Jobs, job'[j].status = "SENT"
                 PROVE  /\ \E d \in Devices : got'[j][d] > 0
                        /\ IsPush(j) /\ faults' = 0 =>
                              \A d \in Devices :
                                 \/ delivery'[j][d].status \in {"none", "SUBMITTED"}
                                 \/ delivery'[j][d].status = "PENDING" /\ d \notin active'
      BY DEF SentIsDelivered, IsPush
    <2>1. job[j].status = "SENT"
      OBVIOUS
    <2>2. faults' = 0 => j # p
      BY <2>1 DEF Queue, Sole, Leased
    <2> QED
      BY <2>1, <2>2 DEF Arrivals, SentIsDelivered
  <1> QED
    BY <1>3, <1>4, <1>5, <1>7, <1>8 DEF Arrivals

\* An attempt ends: a job that becomes SENT was delivered.
LEMMA FinishArrives ==
    ASSUME TypeOK, Queue, Arrivals, NEW w \in Workers, Busy(w),
           NEW status \in Ended \cup {"RETRYING"}, Finish(w, status),
           UNCHANGED <<channel, inbox, delivery, active, got, staff, faults>>,
           status = "SENT" =>
              /\ \E d \in Devices : got[req[w].job][d] > 0
              /\ IsPush(req[w].job) /\ faults = 0 =>
                    \A d \in Devices :
                       \/ delivery[req[w].job][d].status \in {"none", "SUBMITTED"}
                       \/ delivery[req[w].job][d].status = "PENDING" /\ d \notin active
    PROVE  Arrivals'
  <1> DEFINE p == req[w].job
  <1>1. /\ channel' = channel /\ delivery' = delivery /\ active' = active
        /\ got' = got /\ faults' = faults
    OBVIOUS
  <1>2. /\ OnlyReq(w) /\ req'[w].at = "loop"
        /\ \A j \in Jobs : job'[j] = job[j] \/ (j = p /\ job'[j].status = status)
    BY FinishTyped DEF Loop
  <1>3. \A v \in Workers : req'[v].at \in {"batch", "send", "settle"} => req'[v] = req[v]
    BY <1>2 DEF OnlyReq
  <1>4. CASE status # "SENT"
    BY <1>1, <1>2, <1>3, <1>4, NothingArrives
  <1>5. CASE status = "SENT"
    <2>1. Pushing' /\ Mailing' /\ Recall'
      BY <1>1, <1>3 DEF Arrivals, Pushing, Mailing, Recall, Good, At, IsPush
    <2>2. Receipts'
      BY <1>1 DEF Arrivals, Receipts
    <2>3. SentIsDelivered'
      BY <1>1, <1>2, <1>5 DEF Arrivals, SentIsDelivered, IsPush
    <2> QED
      BY <2>1, <2>2, <2>3 DEF Arrivals
  <1> QED
    BY <1>4, <1>5

\* Steps outside an attempt.
LEMMA OutsideArrives ==
    ASSUME IInv,
           \/ \E j \in Jobs : \/ SavePush(j) \/ SaveMail(j) \/ RepairJob(j) \/ RepairMark(j)
                              \/ LeaseLapses(j) \/ RetryJob(j) \/ RetryDeliveries(j)
           \/ \E w \in Workers : \/ Tick(w) \/ SweepExhausted(w) \/ EndTick(w) \/ Crash(w)
                                 \/ \E j \in Jobs : Claim(w, j)
           \/ \E d \in Devices : SignOut(d)
    PROVE  Arrivals'
  <1>0. TypeOK /\ Queue /\ Arrivals
    BY DEF IInv
  <1>1. CASE \E j \in Jobs : SavePush(j) \/ SaveMail(j) \/ RepairJob(j) \/ RepairMark(j) \/ LeaseLapses(j)
    <2> PICK j \in Jobs : SavePush(j) \/ SaveMail(j) \/ RepairJob(j) \/ RepairMark(j) \/ LeaseLapses(j)
      BY <1>1
    <2>1. delivery' = delivery /\ active' = active /\ got' = got /\ req' = req
      BY DEF SavePush, SaveMail, RepairJob, RepairMark, LeaseLapses
    <2>2. \A i \in Jobs : channel[i] # "none" => channel'[i] = channel[i]
      BY <1>0, Types DEF SavePush, SaveMail, RepairJob, RepairMark, LeaseLapses
    <2>3. \A i \in Jobs : job'[i].status = "SENT" => job[i].status = "SENT"
      <3>1. CASE SavePush(j) \/ RepairMark(j)
        BY <3>1 DEF SavePush, RepairMark
      <3>2. CASE SaveMail(j) \/ RepairJob(j)
        <4>1. job' = [job EXCEPT ![j] = NewJob] /\ NewJob.status = "QUEUED"
          BY <3>2 DEF SaveMail, RepairJob, NewJob
        <4> QED
          BY <1>0, <4>1, Types
      <3>3. CASE LeaseLapses(j)
        BY <1>0, <3>3, Types DEF LeaseLapses, JobDoc
      <3> QED
        BY <3>1, <3>2, <3>3
    <2>4. faults' = 0 => faults = 0
      <3>1. Fault \/ UNCHANGED faults
        BY DEF SavePush, SaveMail, RepairJob, RepairMark, LeaseLapses
      <3> QED
        BY <1>0, <3>1, FaultGrows
    <2> QED
      BY <1>0, <2>1, <2>2, <2>3, <2>4, NothingArrives
  <1>2. CASE \E j \in Jobs : RetryJob(j) \/ RetryDeliveries(j)
    <2> PICK j \in Jobs : RetryJob(j) \/ RetryDeliveries(j)
      BY <1>2
    <2>1. channel' = channel /\ active' = active /\ got' = got /\ req' = req /\ faults' = faults
      BY DEF RetryJob, RetryDeliveries
    <2>2. \A i \in Jobs : job'[i].status = "SENT" => job[i].status = "SENT"
      <3> DEFINE doc == [job[j] EXCEPT !.status = "RETRYING", !.attempts = 0]
      <3>1. job' = job \/ job' = [job EXCEPT ![j] = doc]
        BY DEF RetryJob, RetryDeliveries
      <3>2. doc.status = "RETRYING"
        BY <1>0, Types DEF JobDoc
      <3> HIDE DEF doc
      <3> QED
        BY <1>0, <3>1, <3>2, Types
    <2>3. \A i \in Jobs, d \in Devices :
             \/ delivery'[i][d].status = delivery[i][d].status
             \/ delivery[i][d].status = "EXHAUSTED" /\ delivery'[i][d].status # "SUBMITTED"
      <3>1. CASE RetryJob(j)
        BY <3>1 DEF RetryJob
      <3>2. CASE RetryDeliveries(j)
        BY <1>0, <3>2, Types DEF RetryDeliveries
      <3> QED
        BY <3>1, <3>2
    <2> QED
      BY <1>0, <2>1, <2>2, <2>3, NothingArrives
  <1>3. CASE \E w \in Workers : Tick(w) \/ SweepExhausted(w) \/ EndTick(w) \/ Crash(w) \/ \E j \in Jobs : Claim(w, j)
    <2> PICK w \in Workers : Tick(w) \/ SweepExhausted(w) \/ EndTick(w) \/ Crash(w) \/ \E j \in Jobs : Claim(w, j)
      BY <1>3
    <2>1. channel' = channel /\ delivery' = delivery /\ active' = active /\ got' = got
      BY DEF Tick, SweepExhausted, EndTick, Crash, Claim
    <2>2. \A v \in Workers : req'[v].at \in {"batch", "send", "settle"} => req'[v] = req[v]
      <3>1. CASE Tick(w)
        BY <1>0, <3>1, LoopTyped, NewReq DEF Tick, OnlyReq, Loop
      <3>2. CASE SweepExhausted(w)
        <4>1. req[w] \in Request
          BY <1>0, <3>2, AtWork DEF SweepExhausted, At
        <4>2. OnlyReq(w) /\ req'[w].at = "loop"
          BY <1>0, <3>2, <4>1, GotoTyped DEF SweepExhausted, Request
        <4> QED
          BY <4>2 DEF OnlyReq
      <3>3. CASE EndTick(w) \/ Crash(w)
        BY <1>0, <3>3, NewReq DEF EndTick, Crash, OnlyReq, Idle
      <3>4. CASE \E j \in Jobs : Claim(w, j)
        <4> PICK j \in Jobs : Claim(w, j)
          BY <3>4
        <4> DEFINE r == [Loop EXCEPT !.at = "deliver", !.job = j, !.attempts = job[j].attempts + 1]
        <4>1. job[j].attempts + 1 \in Nat
          <5>1. MaxAttempts \in Nat /\ faults \in Nat /\ job[j].attempts \in 0 .. MaxAttempts + faults
            BY <1>0, AttemptsAssumption, BoundsAssumption, Types DEF JobDoc
          <5> QED
            BY <5>1
        <4>2. r \in Request /\ r.at = "deliver"
          BY <4>1, LoopTyped DEF Loop
        <4>3. req' = [req EXCEPT ![w] = r]
          BY DEF Claim
        <4> HIDE DEF r
        <4> QED
          BY <1>0, <4>2, <4>3, NewReq DEF OnlyReq
      <3> QED
        BY <3>1, <3>2, <3>3, <3>4
    <2>3. \A i \in Jobs : job'[i].status = "SENT" => job[i].status = "SENT"
      <3>1. CASE Tick(w)
        BY <1>0, <3>1, Types DEF Tick, Swept, JobDoc
      <3>2. CASE SweepExhausted(w)
        BY <1>0, <3>2, Types DEF SweepExhausted, JobDoc
      <3>3. CASE EndTick(w) \/ Crash(w)
        BY <3>3 DEF EndTick, Crash
      <3>4. CASE \E j \in Jobs : Claim(w, j)
        <4> PICK j \in Jobs : Claim(w, j)
          BY <3>4
        <4> DEFINE doc == [status |-> "SENDING", attempts |-> job[j].attempts + 1, lease |-> w, lapsed |-> FALSE]
        <4>1. job' = [job EXCEPT ![j] = doc]
          BY DEF Claim
        <4>2. doc.status = "SENDING"
          OBVIOUS
        <4> HIDE DEF doc
        <4> QED
          BY <1>0, <4>1, <4>2, Types
      <3> QED
        BY <3>1, <3>2, <3>3, <3>4
    <2>4. faults' = 0 => faults = 0
      <3>1. Fault \/ UNCHANGED faults
        BY DEF Tick, SweepExhausted, EndTick, Crash, Claim
      <3> QED
        BY <1>0, <3>1, FaultGrows
    <2> QED
      BY <1>0, <2>1, <2>2, <2>3, <2>4, NothingArrives
  <1>4. CASE \E d \in Devices : SignOut(d)
    <2>1. /\ channel' = channel /\ job' = job /\ delivery' = delivery /\ got' = got /\ req' = req
          /\ faults' = faults /\ active' \subseteq active
      BY <1>4 DEF SignOut
    <2> QED
      BY <1>0, <2>1, NothingArrives
  <1> QED
    BY <1>1, <1>2, <1>3, <1>4

\* Steps of an attempt.
LEMMA SendMailArrives == ASSUME IInv, NEW w \in Workers, SendMail(w) PROVE Arrivals'
  <1>0. TypeOK /\ Queue /\ Arrivals
    BY DEF IInv
  <1> DEFINE m == req[w].job
             r(next) == [req[w] EXCEPT !.at = "settle", !.next = next]
  <1>1. Busy(w) /\ req[w] \in Request /\ m \in Jobs /\ ~IsPush(m)
    BY <1>0, AtJob DEF SendMail, At, Busy
  <1>2. \A next \in Ended \cup {"RETRYING"} :
          /\ r(next) \in Request /\ r(next).job = m /\ r(next).attempts = req[w].attempts
          /\ r(next).at = "settle" /\ r(next).next = next
    BY <1>1 DEF Request
  <1> DEFINE more == [d \in Devices |-> got[m][d] + 1]
  <1>3. PICK next \in Ended \cup {"RETRYING"} :
          /\ req' = [req EXCEPT ![w] = r(next)]
          /\ next = "RETRYING" => req[w].attempts < MaxAttempts
          /\ next = "SENT" => got' = [got EXCEPT ![m] = more]
          /\ got' = got \/ got' = [got EXCEPT ![m] = more]
    <2>1. \A permanent \in BOOLEAN :
            /\ AfterFailure(w, permanent) \in Ended \cup {"RETRYING"}
            /\ AfterFailure(w, permanent) = "RETRYING" => req[w].attempts < MaxAttempts
            /\ AfterFailure(w, permanent) # "SENT"
      BY <1>0, <1>1, AfterFailureBounds
    <2>2. "SENT" \in Ended
      BY DEF Ended
    <2>3. PICK permanent \in BOOLEAN :
            \/ req' = [req EXCEPT ![w] = r("SENT")] /\ got' = [got EXCEPT ![m] = more]
            \/ req' = [req EXCEPT ![w] = r(AfterFailure(w, permanent))] /\ got' = got
            \/ req' = [req EXCEPT ![w] = r(AfterFailure(w, FALSE))] /\ got' = [got EXCEPT ![m] = more]
      BY DEF SendMail
    <2> HIDE DEF r, more
    <2> QED
      BY <2>1, <2>2, <2>3
  <1> HIDE DEF r
  <1>4. OnlyReq(w) /\ req'[w] = r(next)
    BY <1>0, <1>2, <1>3, NewReq
  <1>5. /\ channel' = channel /\ job' = job /\ delivery' = delivery /\ active' = active
        /\ (Fault \/ UNCHANGED faults)
    BY DEF SendMail
  <1>6. faults' = 0 => faults = 0
    BY <1>0, <1>5, FaultGrows
  <1>7. \A d \in Devices : more[d] > 0
    <2>1. \A d \in Devices : got[m][d] \in Nat
      BY <1>0, <1>1, Types
    <2> QED
      BY <2>1
  <1> HIDE DEF more
  <1>8. /\ \A j \in Jobs, d \in Devices : got[j][d] > 0 => got'[j][d] > 0
        /\ next = "SENT" => \E d \in Devices : got'[m][d] > 0
    BY <1>0, <1>1, <1>3, <1>7, DevicesAssumption, Types
  <1>9. \A d \in Devices : delivery'[m][d].status = "SUBMITTED" => got'[m][d] > 0
    BY <1>0, <1>1, <1>5, <1>8 DEF Arrivals, Receipts
  <1> QED
    BY <1>0, <1>1, <1>2, <1>3, <1>4, <1>5, <1>6, <1>8, <1>9, AttemptArrives

LEMMA SettleArrives == ASSUME IInv, NEW w \in Workers, Settle(w) PROVE Arrivals'
  <1>0. TypeOK /\ Queue /\ Arrivals
    BY DEF IInv
  <1>1. Busy(w) /\ req[w] \in Request
    BY <1>0, AtJob DEF Settle, At, Busy
  <1>2. req[w].next \in Ended \cup {"RETRYING"}
    BY <1>1 DEF Request
  <1>3. /\ ~IsPush(req[w].job)
        /\ req[w].next = "SENT" => \E d \in Devices : got[req[w].job][d] > 0
    BY <1>0 DEF Settle, Arrivals, Mailing
  <1>4. Finish(w, req[w].next) /\ UNCHANGED <<channel, inbox, delivery, active, got, staff, faults>>
    BY DEF Settle
  <1> QED
    BY <1>0, <1>1, <1>2, <1>3, <1>4, FinishArrives

LEMMA OpenArrives == ASSUME IInv, NEW w \in Workers, Open(w) PROVE Arrivals'
  <1>0. TypeOK /\ Queue /\ Arrivals
    BY DEF IInv
  <1>1. Busy(w) /\ req[w] \in Request /\ IsPush(req[w].job) /\ req[w].job \in Jobs
    BY <1>0, AtJob DEF Open, At, Busy
  <1>2. UNCHANGED <<channel, inbox, delivery, active, got, staff, faults>>
    BY DEF Open
  <1>3. CASE Finish(w, "DEAD_LETTER")
    BY <1>0, <1>1, <1>2, <1>3, FinishArrives DEF Ended
  <1>4. CASE ~Finish(w, "DEAD_LETTER")
    <2> DEFINE ds == [d \in Devices |-> IF d \in active THEN "todo" ELSE "out"]
               r == [req[w] EXCEPT !.at = "batch", !.device = ds]
    <2>1. ds \in [Devices -> DeviceSteps] /\ active # {} /\ active \subseteq Devices
      BY <1>0, <1>4, Types DEF DeviceSteps, Open
    <2>2. req' = [req EXCEPT ![w] = r] /\ job' = job
      BY <1>4 DEF Open
    <2>3. /\ \E d \in Devices : ds[d] # "out"
          /\ \A d \in Devices : ds[d] \in {"out", "todo"} /\ (ds[d] = "out" => d \notin active)
      BY <2>1
    <2> HIDE DEF ds
    <2>4. r \in Request /\ r.job = req[w].job /\ r.device = ds /\ r.at = "batch"
      BY <1>1, <2>1 DEF Request
    <2> HIDE DEF r
    <2>5. OnlyReq(w) /\ req'[w] = r
      BY <1>0, <2>2, <2>4, NewReq
    <2>6. \A d \in Devices : ~(Good(w, d)')
      BY <2>3, <2>4, <2>5 DEF Good
    <2>7. /\ channel' = channel /\ delivery' = delivery /\ active' = active
          /\ got' = got /\ faults' = faults
      BY <1>2
    <2>8. \A d \in Devices : delivery'[req[w].job][d].status = "SUBMITTED" => got'[req[w].job][d] > 0
      BY <1>0, <1>1, <2>7 DEF Arrivals, Receipts
    <2> QED
      BY <1>0, <1>1, <2>2, <2>3, <2>4, <2>5, <2>6, <2>7, <2>8, AttemptArrives
  <1> QED
    BY <1>3, <1>4

LEMMA RenewArrives == ASSUME IInv, NEW w \in Workers, Renew(w) PROVE Arrivals'
  <1>0. TypeOK /\ Queue /\ Arrivals
    BY DEF IInv
  <1> DEFINE p == req[w].job
  <1>1. Busy(w) /\ req[w] \in Request /\ p \in Jobs /\ job[p] \in JobDoc(faults) /\ At(w, "batch")
    BY <1>0, AtJob DEF Renew, At, Busy
  <1>2. /\ channel' = channel /\ inbox' = inbox /\ delivery' = delivery /\ active' = active
        /\ got' = got /\ staff' = staff /\ faults' = faults
    BY DEF Renew
  <1>3. CASE ~HasLease(w)
    <2>1. Finish(w, AfterFailure(w, FALSE))
      BY <1>3 DEF Renew
    <2> QED
      BY <1>0, <1>1, <1>2, <2>1, AfterFailureBounds, FinishArrives
  <1>4. CASE HasLease(w)
    <2> DEFINE r == [req[w] EXCEPT !.at = "send"]
    <2>1. OnlyReq(w) /\ req'[w] = r
      BY <1>0, <1>1, <1>4, GotoTyped DEF Renew
    <2>2. r.at = "send" /\ r.job = p /\ r.device = req[w].device
      BY <1>1 DEF Request
    <2> HIDE DEF r
    <2>3. \A j \in Jobs : job'[j].status = job[j].status
      <3> DEFINE doc == [job[p] EXCEPT !.lapsed = FALSE]
      <3>1. job' = [job EXCEPT ![p] = doc]
        BY <1>4 DEF Renew
      <3>2. doc.status = job[p].status
        BY <1>1 DEF JobDoc
      <3> HIDE DEF doc
      <3> QED
        BY <1>0, <3>1, <3>2, Types
    <2>4. /\ IsPush(p) /\ \E d \in Devices : req[w].device[d] # "out"
          /\ \A d \in Devices : /\ req[w].device[d] = "out" => d \notin active
                                /\ req[w].device[d] \in {"out", "todo"}
      BY <1>0, <1>1 DEF Arrivals, Pushing, At
    <2>5. \A d \in Devices : ~(Good(w, d)')
      BY <2>1, <2>2, <2>4 DEF Good
    <2>6. \A d \in Devices : delivery'[p][d].status = "SUBMITTED" => got'[p][d] > 0
      BY <1>0, <1>1, <1>2 DEF Arrivals, Receipts
    <2> QED
      BY <1>0, <1>1, <1>2, <2>1, <2>2, <2>3, <2>4, <2>5, <2>6, AttemptArrives
  <1> QED
    BY <1>3, <1>4

LEMMA JudgeArrives == ASSUME IInv, NEW w \in Workers, Judge(w) PROVE Arrivals'
  <1>0. TypeOK /\ Queue /\ Arrivals
    BY DEF IInv
  <1> DEFINE p == req[w].job
  <1>1. Busy(w) /\ req[w] \in Request /\ p \in Jobs /\ At(w, "send")
    BY <1>0, AtJob DEF Judge, At, Busy
  <1> DEFINE status == IF req[w].retry THEN AfterFailure(w, FALSE)
                       ELSE IF AnyFailed(w) THEN "DEAD_LETTER" ELSE "SENT"
  <1>2. Finish(w, status) /\ UNCHANGED <<channel, inbox, delivery, active, got, staff, faults>>
    BY DEF Judge
  <1>3. status \in Ended \cup {"RETRYING"} /\ (status = "SENT" => ~req[w].retry /\ ~AnyFailed(w))
    BY <1>0, <1>1, AfterFailureBounds DEF Ended
  <1> HIDE DEF status
  <1>4. ASSUME status = "SENT"
        PROVE  /\ \E d \in Devices : got[p][d] > 0
               /\ faults = 0 => \A d \in Devices :
                    \/ delivery[p][d].status \in {"none", "SUBMITTED"}
                    \/ delivery[p][d].status = "PENDING" /\ d \notin active
    <2>1. /\ \A d \in Devices : req[w].device[d] = "out" \/ Good(w, d)
          /\ \A d \in Devices : delivery[p][d].status \notin {"EXHAUSTED", "FAILED", "SKIPPED"}
      BY <1>3, <1>4 DEF Judge, Good, AnyFailed
    <2>2. /\ \E d \in Devices : req[w].device[d] # "out"
          /\ \A d \in Devices : /\ req[w].device[d] = "out" => d \notin active
                                /\ Good(w, d) => got[p][d] > 0
      BY <1>0, <1>1 DEF Arrivals, Pushing, At
    <2>3. \A d \in Devices : delivery[p][d].status \in {"none", "PENDING", "SUBMITTED"}
      BY <1>0, <1>1, <2>1, Types DEF DeliveryDoc, DeliveryStatus
    <2>4. faults = 0 => \A d \in Devices : Good(w, d) => delivery[p][d].status = "SUBMITTED"
      BY <1>0, <1>1 DEF Arrivals, Recall
    <2> QED
      BY <2>1, <2>2, <2>3, <2>4
  <1> QED
    BY <1>0, <1>1, <1>2, <1>3, <1>4, FinishArrives

\* One device of a batch makes a step.
LEMMA DeviceArrives ==
    ASSUME IInv, NEW w \in Workers, NEW d \in Devices, NEW step \in DeviceSteps \ {"out"},
           At(w, "send"), req[w].device[d] # "out", OnlyReq(w),
           req'[w].at = "send", req'[w].job = req[w].job,
           req'[w].device = [req[w].device EXCEPT ![d] = step],
           req[w].failed => req'[w].failed, req[w].retry => req'[w].retry,
           channel' = channel, job' = job, active' \subseteq active, faults' = 0 => faults = 0,
           \A j \in Jobs, e \in Devices : got[j][e] > 0 => got'[j][e] > 0,
           \A j \in Jobs : j # req[w].job => delivery'[j] = delivery[j],
           \A e \in Devices : e # d => delivery'[req[w].job][e] = delivery[req[w].job][e],
           delivery'[req[w].job][d].status = "SUBMITTED" => got'[req[w].job][d] > 0,
           step = "accepted" => got'[req[w].job][d] > 0,
           Good(w, d)' => delivery'[req[w].job][d].status = "SUBMITTED"
    PROVE  Arrivals'
  <1> DEFINE p == req[w].job
  <1>0. TypeOK /\ Queue /\ Arrivals
    BY DEF IInv
  <1>1. Busy(w) /\ req[w] \in Request /\ p \in Jobs
    BY <1>0, AtJob DEF At, Busy
  <1>2. req[w].device \in [Devices -> DeviceSteps]
    BY <1>1 DEF Request
  <1>3. req'[w].device[d] = step /\ \A e \in Devices : e # d => req'[w].device[e] = req[w].device[e]
    BY <1>2
  <1>4. \A e \in Devices : e # d /\ Good(w, e)' => Good(w, e)
    BY <1>3 DEF Good
  <1>5. /\ IsPush(p)
        /\ \A e \in Devices : /\ req[w].device[e] = "out" => e \notin active
                              /\ req[w].device[e] = "accepted" \/ Good(w, e) => got[p][e] > 0
    BY <1>0 DEF Arrivals, Pushing, At
  <1>6. \A e \in Devices : /\ req'[w].device[e] = "out" => e \notin active'
                           /\ req'[w].device[e] = "accepted" \/ Good(w, e)' => got'[p][e] > 0
    <2> TAKE e \in Devices
    <2>1. CASE e = d
      BY <1>3, <2>1
    <2>2. CASE e # d
      BY <1>1, <1>3, <1>4, <1>5, <2>2
    <2> QED
      BY <2>1, <2>2
  <1>7. \A e \in Devices : faults' = 0 /\ Good(w, e)' => delivery'[p][e].status = "SUBMITTED"
    BY <1>0, <1>4 DEF Arrivals, Recall
  <1>8. \E e \in Devices : req'[w].device[e] # "out"
    BY <1>3
  <1>9. \A e \in Devices : delivery'[p][e].status = "SUBMITTED" => got'[p][e] > 0
    BY <1>0, <1>1 DEF Arrivals, Receipts
  <1> QED
    BY <1>0, <1>1, <1>5, <1>6, <1>7, <1>8, <1>9, AttemptArrives

LEMMA LookArrives == ASSUME IInv, NEW w \in Workers, NEW d \in Devices, Look(w, d) PROVE Arrivals'
  <1>0. TypeOK /\ Queue /\ Arrivals
    BY DEF IInv
  <1> DEFINE p == req[w].job
             r1 == [req[w] EXCEPT !.device[d] = "pending", !.tries[d] = delivery[p][d].attempts]
             r2 == [req[w] EXCEPT !.device[d] = "done", !.failed = @ \/ delivery[p][d].status # "SUBMITTED"]
             doc == [delivery[p][d] EXCEPT !.status = IF @ = "none" THEN "PENDING" ELSE @]
  <1>1. Busy(w) /\ req[w] \in Request /\ p \in Jobs /\ At(w, "send") /\ req[w].device[d] = "todo"
    BY <1>0, AtJob DEF Look, At, Busy
  <1>2. delivery' = [delivery EXCEPT ![p][d] = doc] /\ delivery[p][d] \in DeliveryDoc
    BY <1>0, <1>1, Types DEF Look
  <1>3. /\ channel' = channel /\ job' = job /\ active' = active /\ got' = got /\ faults' = faults
        /\ OnlyReq(w)
    BY <1>0, LookStep DEF Look
  <1>4. /\ doc.status = "SUBMITTED" => delivery[p][d].status = "SUBMITTED"
        /\ delivery[p][d].status = "SUBMITTED" => doc.status = "SUBMITTED"
    BY <1>2 DEF DeliveryDoc
  <1> HIDE DEF doc
  <1>5. /\ delivery'[p][d] = doc /\ \A e \in Devices : e # d => delivery'[p][e] = delivery[p][e]
        /\ \A j \in Jobs : j # p => delivery'[j] = delivery[j]
    BY <1>0, <1>1, <1>2, Types
  <1>6. delivery'[p][d].status = "SUBMITTED" => got'[p][d] > 0
    BY <1>0, <1>1, <1>3, <1>4, <1>5 DEF Arrivals, Receipts
  <1>7. CASE Submittable(p, d)
    <2>1. req'[w] = r1
      BY <1>0, <1>7, Types DEF Look
    <2>2. /\ r1.at = "send" /\ r1.job = p /\ r1.device = [req[w].device EXCEPT ![d] = "pending"]
          /\ r1.failed = req[w].failed /\ r1.retry = req[w].retry /\ r1.device[d] = "pending"
      BY <1>1 DEF Request, At
    <2> HIDE DEF r1
    <2>3. ~(Good(w, d)')
      BY <2>1, <2>2 DEF Good
    <2>4. "pending" \in DeviceSteps \ {"out"} /\ req[w].device[d] # "out"
      BY <1>1 DEF DeviceSteps
    <2>5. \A j \in Jobs, e \in Devices : got[j][e] > 0 => got'[j][e] > 0
      BY <1>3
    <2>6. /\ req'[w].at = "send" /\ req'[w].job = p
          /\ req'[w].device = [req[w].device EXCEPT ![d] = "pending"]
          /\ (req[w].failed => req'[w].failed) /\ (req[w].retry => req'[w].retry)
      BY <2>1, <2>2
    <2> QED
      BY <1>1, <1>3, <1>5, <1>6, <2>3, <2>4, <2>5, <2>6, DeviceArrives
  <1>8. CASE ~Submittable(p, d)
    <2>1. req'[w] = r2
      BY <1>0, <1>8, Types DEF Look
    <2>2. /\ r2.at = "send" /\ r2.job = p /\ r2.device = [req[w].device EXCEPT ![d] = "done"]
          /\ r2.retry = req[w].retry
          /\ r2.failed = (req[w].failed \/ delivery[p][d].status # "SUBMITTED")
      BY <1>1 DEF Request, At
    <2> HIDE DEF r2
    <2>3. Good(w, d)' => delivery'[p][d].status = "SUBMITTED"
      BY <1>4, <1>5, <2>1, <2>2 DEF Good
    <2>4. "done" \in DeviceSteps \ {"out"} /\ req[w].device[d] # "out"
      BY <1>1 DEF DeviceSteps
    <2>5. \A j \in Jobs, e \in Devices : got[j][e] > 0 => got'[j][e] > 0
      BY <1>3
    <2>6. /\ req'[w].at = "send" /\ req'[w].job = p
          /\ req'[w].device = [req[w].device EXCEPT ![d] = "done"]
          /\ (req[w].failed => req'[w].failed) /\ (req[w].retry => req'[w].retry)
      BY <2>1, <2>2
    <2> QED
      BY <1>1, <1>3, <1>5, <1>6, <2>3, <2>4, <2>5, <2>6, DeviceArrives
  <1> QED
    BY <1>7, <1>8

LEMMA SubmitArrives == ASSUME IInv, NEW w \in Workers, NEW d \in Devices, Submit(w, d) PROVE Arrivals'
  <1>0. TypeOK /\ Queue /\ Arrivals
    BY DEF IInv
  <1> DEFINE p == req[w].job
             r1 == [req[w] EXCEPT !.device[d] = "done", !.failed = TRUE]
             r2(answer) == [req[w] EXCEPT !.device[d] = answer]
             doc == [delivery[p][d] EXCEPT !.status = "SKIPPED"]
             n == got[p][d] + 1
  <1>1. Busy(w) /\ req[w] \in Request /\ p \in Jobs /\ At(w, "send") /\ req[w].device[d] = "pending"
    BY <1>0, AtJob DEF Submit, At, Busy
  <1>2. delivery[p][d] \in DeliveryDoc /\ got[p][d] \in Nat
    BY <1>0, <1>1, Types
  <1>3. /\ channel' = channel /\ job' = job /\ active' = active /\ (Fault \/ UNCHANGED faults)
        /\ OnlyReq(w)
    BY <1>0, SubmitStep DEF Submit
  <1>4. faults' = 0 => faults = 0
    BY <1>0, <1>3, FaultGrows
  <1>5. CASE d \notin active
    <2>1. req'[w] = r1 /\ delivery' = [delivery EXCEPT ![p][d] = doc] /\ got' = got
      BY <1>0, <1>5, Types DEF Submit
    <2>2. doc.status = "SKIPPED"
      BY <1>2 DEF DeliveryDoc
    <2> HIDE DEF doc
    <2>3. /\ delivery'[p][d] = doc /\ \A e \in Devices : e # d => delivery'[p][e] = delivery[p][e]
          /\ \A j \in Jobs : j # p => delivery'[j] = delivery[j]
      BY <1>0, <1>1, <2>1, Types
    <2>4. /\ r1.at = "send" /\ r1.job = p /\ r1.device = [req[w].device EXCEPT ![d] = "done"]
          /\ r1.retry = req[w].retry /\ r1.failed
      BY <1>1 DEF Request, At
    <2> HIDE DEF r1
    <2>5. ~(Good(w, d)')
      BY <2>1, <2>4 DEF Good
    <2> QED
      BY <1>1, <1>3, <1>4, <2>1, <2>2, <2>3, <2>4, <2>5, DeviceArrives DEF DeviceSteps
  <1>6. CASE d \in active
    <2>1. PICK answer \in Answers :
            /\ req' = [req EXCEPT ![w] = r2(answer)]
            /\ got' = got \/ got' = [got EXCEPT ![p][d] = n]
            /\ answer = "accepted" => got' = [got EXCEPT ![p][d] = n]
      BY <1>6 DEF Submit, Answers
    <2>2. delivery' = delivery
      BY <1>6 DEF Submit
    <2>3. /\ r2(answer).at = "send" /\ r2(answer).job = p
          /\ r2(answer).device = [req[w].device EXCEPT ![d] = answer] /\ r2(answer).device[d] = answer
          /\ r2(answer).failed = req[w].failed /\ r2(answer).retry = req[w].retry
      BY <1>1 DEF Request, At
    <2> HIDE DEF r2
    <2>4. req'[w] = r2(answer)
      BY <1>0, <2>1, Types
    <2>5. n > 0 /\ n \in Nat
      BY <1>2
    <2> HIDE DEF n
    <2> DEFINE g == [got EXCEPT ![p][d] = n]
    <2>6. \A j \in Jobs, e \in Devices : g[j][e] = IF j = p /\ e = d THEN n ELSE got[j][e]
      BY <1>0, <1>1, Types
    <2>7. /\ \A j \in Jobs, e \in Devices : got[j][e] > 0 => got'[j][e] > 0
          /\ answer = "accepted" => got'[p][d] > 0
      <3>1. got' = got \/ got' = g
        BY <2>1
      <3>2. answer = "accepted" => got' = g
        BY <2>1
      <3> HIDE DEF g
      <3> QED
        BY <1>1, <2>5, <2>6, <3>1, <3>2
    <2>8. delivery'[p][d].status = "SUBMITTED" => got'[p][d] > 0
      BY <1>0, <1>1, <2>2, <2>7 DEF Arrivals, Receipts
    <2>9. ~(Good(w, d)') /\ answer \in DeviceSteps \ {"out"}
      BY <2>3, <2>4 DEF Good, DeviceSteps, Answers
    <2> QED
      BY <1>1, <1>3, <1>4, <2>2, <2>3, <2>4, <2>7, <2>8, <2>9, DeviceArrives
  <1> QED
    BY <1>5, <1>6

LEMMA RecordArrives == ASSUME IInv, NEW w \in Workers, NEW d \in Devices, Record(w, d) PROVE Arrivals'
  <1>0. TypeOK /\ Queue /\ Arrivals
    BY DEF IInv
  <1> DEFINE p == req[w].job
             status == Recorded(req[w].device[d], req[w].tries[d])
             doc == [status |-> status, attempts |-> delivery[p][d].attempts + 1]
             r == [req[w] EXCEPT !.device[d] = "done", !.retry = @ \/ status = "PENDING",
                                 !.failed = @ \/ status \in {"EXHAUSTED", "FAILED"}]
  <1>1. /\ Busy(w) /\ req[w] \in Request /\ p \in Jobs /\ At(w, "send")
        /\ req[w].device[d] \in Answers
    BY <1>0, AtJob DEF Record, At, Busy
  <1>2. /\ channel' = channel /\ job' = job /\ active' \subseteq active /\ got' = got /\ faults' = faults
        /\ OnlyReq(w)
    BY <1>0, RecordStep DEF Record
  <1>3. req' = [req EXCEPT ![w] = r] /\ delivery' = [delivery EXCEPT ![p][d] = doc]
    BY DEF Record
  <1>4. /\ status \in {"SUBMITTED", "FAILED", "EXHAUSTED", "PENDING"}
        /\ status = "SUBMITTED" => req[w].device[d] = "accepted"
    BY DEF Recorded
  <1> HIDE DEF status
  <1>5. doc.status = status
    OBVIOUS
  <1> HIDE DEF doc
  <1>6. /\ delivery'[p][d] = doc /\ \A e \in Devices : e # d => delivery'[p][e] = delivery[p][e]
        /\ \A j \in Jobs : j # p => delivery'[j] = delivery[j]
    BY <1>0, <1>1, <1>3, Types
  <1>7. /\ r.at = "send" /\ r.job = p /\ r.device = [req[w].device EXCEPT ![d] = "done"]
        /\ r.retry = (req[w].retry \/ status = "PENDING")
        /\ r.failed = (req[w].failed \/ status \in {"EXHAUSTED", "FAILED"})
    BY <1>1 DEF Request, At
  <1> HIDE DEF r
  <1>8. req'[w] = r
    BY <1>0, <1>3, Types
  <1>9. Good(w, d)' => delivery'[p][d].status = "SUBMITTED"
    BY <1>4, <1>5, <1>6, <1>7, <1>8 DEF Good
  <1>10. delivery'[p][d].status = "SUBMITTED" => got'[p][d] > 0
    BY <1>0, <1>1, <1>2, <1>4, <1>5, <1>6 DEF Arrivals, Pushing, At
  <1>11. req[w].device[d] # "out" /\ "done" \in DeviceSteps \ {"out"}
    BY <1>1 DEF Answers, DeviceSteps
  <1> QED
    BY <1>1, <1>2, <1>6, <1>7, <1>8, <1>9, <1>10, <1>11, DeviceArrives

-----------------------------------------------------------------------------
(* The theorems.                                                            *)

LEMMA AttemptStep ==
    ASSUME IInv, NEW w \in Workers,
           \/ SendMail(w) \/ Open(w) \/ Renew(w) \/ Judge(w) \/ Settle(w)
           \/ \E d \in Devices : Look(w, d) \/ Submit(w, d) \/ Record(w, d)
    PROVE  IInv'
  <1>0. TypeOK /\ Queue /\ Mailing
    BY DEF IInv, Arrivals
  <1>1. TypeOK' /\ Queue'
    BY <1>0, SendMailStep, OpenStep, RenewStep, JudgeStep, SettleStep, LookStep, SubmitStep, RecordStep
  <1>2. Arrivals'
    BY SendMailArrives, OpenArrives, RenewArrives, JudgeArrives, SettleArrives, LookArrives,
       SubmitArrives, RecordArrives
  <1> QED
    BY <1>1, <1>2 DEF IInv

LEMMA OutsideStep ==
    ASSUME IInv,
           \/ \E j \in Jobs : \/ SavePush(j) \/ SaveMail(j) \/ RepairJob(j) \/ RepairMark(j)
                              \/ LeaseLapses(j) \/ RetryJob(j) \/ RetryDeliveries(j)
           \/ \E w \in Workers : \/ Tick(w) \/ SweepExhausted(w) \/ EndTick(w) \/ Crash(w)
                                 \/ \E j \in Jobs : Claim(w, j)
           \/ \E d \in Devices : SignOut(d)
    PROVE  IInv'
  <1>0. TypeOK /\ Queue
    BY DEF IInv
  <1>1. TypeOK' /\ Queue'
    BY <1>0, NoticeStep, LapseStep, RetryStep, TickStep, SweepStep, QuietStep, CrashStep, ClaimStep
  <1>2. Arrivals'
    BY OutsideArrives
  <1> QED
    BY <1>1, <1>2 DEF IInv

THEOREM Inductive == Spec => []IInv
  <1>1. Init => IInv
    BY InitIInv
  <1>2. IInv /\ [Next]_vars => IInv'
    <2> SUFFICES ASSUME IInv, [Next]_vars PROVE IInv'
      OBVIOUS
    <2>1. ASSUME UNCHANGED vars PROVE IInv'
      BY <2>1 DEF vars, IInv, TypeOK, Queue, Assigned, Fresh, Owned, Budget, Sole, Busy, Held, Room, Due,
                  Leased, Arrivals, Pushing, Mailing, Receipts, Recall, SentIsDelivered, Good, At, IsPush
    <2> QED
      BY <2>1, AttemptStep, OutsideStep DEF Next, Working
  <1> QED
    BY <1>1, <1>2, PTL DEF Spec

\* Jobs, deliveries and what the workers remember keep their shape, and a job
\* is claimed beyond max_attempts at most once per fault (service.js, the
\* sweeps of processNotificationQueue).
THEOREM QueueTyped == Spec => []TypeOK
  <1>1. IInv => TypeOK
    BY DEF IInv
  <1> QED
    BY <1>1, Inductive, PTL

\* A job that says SENT was accepted by somebody, and without faults by every
\* device of the customer that the job knows (service.js, deliverPush).
THEOREM SentDelivered == Spec => []SentIsDelivered
  <1>1. IInv => SentIsDelivered
    BY DEF IInv, Arrivals
  <1> QED
    BY <1>1, Inductive, PTL

\* Only staff bring an ended job back: a worker writes an outcome under its
\* lease alone (service.js, processOne; retry.js).
THEOREM EndedStay == Spec => EndedStaysEnded
  <1> DEFINE Kept == \A j \in Jobs : job[j].status \in Ended /\ job'[j].status # job[j].status
                       => job[j].status = "DEAD_LETTER" /\ staff'[j].count > staff[j].count
  <1>1. IInv /\ [Next]_vars => [Kept]_vars
    <2> SUFFICES ASSUME IInv, Next, NEW j \in Jobs, job[j].status \in Ended, job'[j].status # job[j].status
                 PROVE  job[j].status = "DEAD_LETTER" /\ staff'[j].count > staff[j].count
      OBVIOUS
    <2>0. TypeOK /\ Queue
      BY DEF IInv
    <2>1. job[j].status \in {"SENT", "DEAD_LETTER"} /\ job[j] \in JobDoc(faults)
      BY <2>0, Types DEF Ended
    <2>2. CASE \E i \in Jobs : RetryJob(i)
      <3> PICK i \in Jobs : RetryJob(i)
        BY <2>2
      <3>1. i = j
        BY <2>0, Types DEF RetryJob
      <3>2. staff[j].count \in Nat
        BY <2>0, BoundsAssumption, Types
      <3>3. staff'[j].count = staff[j].count + 1
        BY <2>0, <3>1, Types DEF RetryJob
      <3> QED
        BY <3>1, <3>2, <3>3 DEF RetryJob
    <2>3. CASE \E i \in Jobs : \/ SavePush(i) \/ SaveMail(i) \/ RepairJob(i) \/ RepairMark(i)
                               \/ LeaseLapses(i) \/ RetryDeliveries(i)
      <3> PICK i \in Jobs : \/ SavePush(i) \/ SaveMail(i) \/ RepairJob(i) \/ RepairMark(i)
                            \/ LeaseLapses(i) \/ RetryDeliveries(i)
        BY <2>3
      <3>1. /\ ~SavePush(i) /\ ~RepairMark(i) /\ ~RetryDeliveries(i)
        BY DEF SavePush, RepairMark, RetryDeliveries
      <3>2. ~SaveMail(i) /\ ~RepairJob(i)
        <4>1. SaveMail(i) \/ RepairJob(i) => job[i].status = "none" /\ job' = [job EXCEPT ![i] = NewJob]
          BY <2>0 DEF SaveMail, RepairJob, Queue, Fresh
        <4> QED
          BY <2>0, <2>1, <4>1, Types
      <3>3. ~LeaseLapses(i)
        <4>1. LeaseLapses(i) => job[i].status = "SENDING" /\ job' = [job EXCEPT ![i] = [job[i] EXCEPT !.lapsed = TRUE]]
          BY DEF LeaseLapses
        <4> QED
          BY <2>0, <2>1, <4>1, Types
      <3> QED
        BY <3>1, <3>2, <3>3
    <2>4. CASE \E w \in Workers : \/ Tick(w) \/ SweepExhausted(w) \/ EndTick(w) \/ Crash(w)
                                  \/ \E i \in Jobs : Claim(w, i)
      <3> PICK w \in Workers : \/ Tick(w) \/ SweepExhausted(w) \/ EndTick(w) \/ Crash(w)
                               \/ \E i \in Jobs : Claim(w, i)
        BY <2>4
      <3>1. ~Tick(w) /\ ~SweepExhausted(w)
        BY <2>1 DEF Tick, Swept, SweepExhausted
      <3>2. ~EndTick(w) /\ ~Crash(w)
        BY DEF EndTick, Crash
      <3>3. ASSUME NEW i \in Jobs, Claim(w, i) PROVE FALSE
        <4>1. job[i].status \in {"QUEUED", "RETRYING"}
          BY <3>3 DEF Claim, Due
        <4>2. \A k \in Jobs : k # i => job'[k] = job[k]
          BY <2>0, <3>3, Types DEF Claim
        <4> QED
          BY <2>1, <4>1, <4>2
      <3> QED
        BY <3>1, <3>2, <3>3
    <2>5. CASE \E w \in Workers : \/ SendMail(w) \/ Open(w) \/ Renew(w) \/ Judge(w) \/ Settle(w)
                                  \/ \E d \in Devices : Look(w, d) \/ Submit(w, d) \/ Record(w, d)
      <3> PICK w \in Workers : \/ SendMail(w) \/ Open(w) \/ Renew(w) \/ Judge(w) \/ Settle(w)
                               \/ \E d \in Devices : Look(w, d) \/ Submit(w, d) \/ Record(w, d)
        BY <2>5
      <3>0. Busy(w)
        BY DEF SendMail, Open, Renew, Judge, Settle, Look, Submit, Record, At, Busy
      <3>1. req[w].job \in Jobs
        BY <2>0, <3>0, AtJob
      <3>2. ASSUME NEW status, Finish(w, status) PROVE FALSE
        <4>1. job[req[w].job].lease = w => job[req[w].job].status = "SENDING"
          BY <2>0, <3>0 DEF Queue, Owned
        <4>2. \A k \in Jobs : k # req[w].job => job'[k] = job[k]
          BY <2>0, <3>2, Types DEF Finish
        <4>3. job[req[w].job].lease # w => job' = job
          BY <3>2 DEF Finish, Owns
        <4> QED
          BY <2>1, <3>1, <4>1, <4>2, <4>3
      <3>3. CASE Renew(w)
        <4>1. HasLease(w)
          BY <3>2, <3>3 DEF Renew
        <4>2. job' = [job EXCEPT ![req[w].job] = [job[req[w].job] EXCEPT !.lapsed = FALSE]]
          BY <3>3, <4>1 DEF Renew
        <4>3. j # req[w].job
          BY <2>1, <4>1 DEF HasLease
        <4> QED
          BY <2>0, <4>2, <4>3, Types
      <3>4. CASE Judge(w) \/ Settle(w)
        BY <3>2, <3>4 DEF Judge, Settle
      <3>5. CASE Open(w)
        BY <3>2, <3>5 DEF Open
      <3>6. CASE SendMail(w) \/ \E d \in Devices : Look(w, d) \/ Submit(w, d) \/ Record(w, d)
        BY <3>6 DEF SendMail, Look, Submit, Record
      <3> QED
        BY <3>3, <3>4, <3>5, <3>6
    <2>6. CASE \E d \in Devices : SignOut(d)
      BY <2>6 DEF SignOut
    <2> QED
      BY <2>2, <2>3, <2>4, <2>5, <2>6 DEF Next, Working
  <1>2. Spec => [][Kept]_vars
    BY <1>1, Inductive, PTL DEF Spec
  <1> QED
    BY <1>2 DEF EndedStaysEnded

-----------------------------------------------------------------------------
(* Copies: every chance of a device to get another copy is paid by a fault. *)

\* The worker may still submit d, or will record that somebody should.
Undecided(w, d) == At(w, "send") => req[w].device[d] \in {"todo", "pending", "transient"}

\* Workers that lost the job and do not know it yet.
Stray(p, d) == {w \in Workers : Busy(w) /\ req[w].job = p /\ job[p].lease # w /\ Undecided(w, d)}

\* Whoever has the lease, or gets it next, may submit d: it is about to, or it
\* has not answered for d and the delivery is open.
Again(p, d) == delivery[p][d].status \in {"none", "PENDING", "EXHAUSTED"}
Answering(w, d) == At(w, "send") /\ req[w].device[d] \in Answers \cup {"pending"}
Chance(p, d) ==
    IF Held(p) /\ Answering(job[p].lease, d)
      THEN req[job[p].lease].device[d] \in {"pending", "transient"} ELSE Again(p, d)

\* A lease that lapsed under its worker may make it a stray.
Lapsing(p) == job[p].lapsed /\ Held(p)

Count(b) == IF b THEN 1 ELSE 0
Covered(p, d) ==
    got[p][d] + Cardinality(Stray(p, d)) + Count(Chance(p, d)) + Count(Lapsing(p)) <= 1 + faults
Copies == \A p \in Jobs : channel[p] # "mail" => \A d \in Devices : Covered(p, d)

LEMMA Cards ==
    ASSUME NEW S, NEW T, IsFiniteSet(T)
    PROVE  /\ S \subseteq T => IsFiniteSet(S) /\ Cardinality(S) \in Nat /\ Cardinality(T) \in Nat
                               /\ Cardinality(S) <= Cardinality(T)
           /\ \A x : S \subseteq T \cup {x} => Cardinality(S) <= Cardinality(T) + 1
           /\ \A x \in T : S \subseteq T \ {x} => Cardinality(S) + 1 <= Cardinality(T)
  <1>1. Cardinality(T) \in Nat
    BY FS_CardinalityType
  <1>2. ASSUME S \subseteq T PROVE IsFiniteSet(S) /\ Cardinality(S) \in Nat /\ Cardinality(S) <= Cardinality(T)
    BY <1>2, FS_Subset, FS_CardinalityType
  <1>3. ASSUME NEW x, S \subseteq T \cup {x} PROVE Cardinality(S) <= Cardinality(T) + 1
    <2>1. /\ IsFiniteSet(T \cup {x}) /\ Cardinality(T \cup {x}) \in Nat
          /\ Cardinality(T \cup {x}) = Cardinality(T) \/ Cardinality(T \cup {x}) = Cardinality(T) + 1
      BY FS_AddElement, FS_CardinalityType
    <2>2. Cardinality(S) \in Nat /\ Cardinality(S) <= Cardinality(T \cup {x})
      BY <1>3, <2>1, FS_Subset, FS_CardinalityType
    <2> QED
      BY <1>1, <2>1, <2>2
  <1>4. ASSUME NEW x \in T, S \subseteq T \ {x} PROVE Cardinality(S) + 1 <= Cardinality(T)
    <2>1. IsFiniteSet(T \ {x}) /\ Cardinality(T \ {x}) = Cardinality(T) - 1
      BY FS_RemoveElement
    <2>2. Cardinality(S) \in Nat /\ Cardinality(S) <= Cardinality(T \ {x})
      BY <1>4, <2>1, FS_Subset, FS_CardinalityType
    <2> QED
      BY <1>1, <2>1, <2>2
  <1> QED
    BY <1>1, <1>2, <1>3, <1>4

\* All terms are natural numbers, before and after a step.
LEMMA Numbers ==
    ASSUME TypeOK, TypeOK', NEW p \in Jobs, NEW d \in Devices
    PROVE  /\ IsFiniteSet(Stray(p, d)) /\ IsFiniteSet(Stray(p, d)')
           /\ Cardinality(Stray(p, d)) \in Nat /\ Cardinality(Stray(p, d)') \in Nat
           /\ got[p][d] \in Nat /\ got'[p][d] \in Nat /\ faults \in Nat /\ faults' \in Nat
  <1>1. Stray(p, d) \subseteq Workers /\ Stray(p, d)' \subseteq Workers
    BY DEF Stray
  <1>2. IsFiniteSet(Workers)
    BY WorkersAssumption
  <1>3. got[p][d] \in Nat /\ got'[p][d] \in Nat /\ faults \in Nat /\ faults' \in Nat
    BY BoundsAssumption DEF TypeOK
  <1>4. IsFiniteSet(Stray(p, d)) /\ Cardinality(Stray(p, d)) \in Nat
    BY <1>1, <1>2, Cards
  <1>5. IsFiniteSet(Stray(p, d)') /\ Cardinality(Stray(p, d)') \in Nat
    BY <1>1, <1>2, Cards
  <1> QED
    BY <1>3, <1>4, <1>5

LEMMA Unmoved ==
    ASSUME TypeOK, TypeOK', NEW p \in Jobs, NEW d \in Devices, Covered(p, d), faults <= faults',
           got'[p][d] = got[p][d], Stray(p, d)' \subseteq Stray(p, d),
           Chance(p, d)' => Chance(p, d), Lapsing(p)' => Lapsing(p)
    PROVE  Covered(p, d)'
  <1>1. Cardinality(Stray(p, d)') <= Cardinality(Stray(p, d))
    BY Cards, Numbers
  <1>2. Count(Chance(p, d))' <= Count(Chance(p, d)) /\ Count(Lapsing(p))' <= Count(Lapsing(p))
    BY DEF Count
  <1>3. /\ Count(Chance(p, d)) \in Nat /\ Count(Chance(p, d))' \in Nat
        /\ Count(Lapsing(p)) \in Nat /\ Count(Lapsing(p))' \in Nat
    BY DEF Count
  <1> QED
    BY <1>1, <1>2, <1>3, Numbers DEF Covered

\* A job that is not in SENDING has no holder.
LEMMA Unheld ==
    ASSUME TypeOK, Queue, NEW p \in Jobs, job[p].status # "SENDING"
    PROVE  /\ ~Held(p) /\ \A v \in Workers : Busy(v) /\ req[v].job = p => job[p].lease # v
           /\ \A d \in Devices : Chance(p, d) <=> Again(p, d)
           /\ ~Lapsing(p)
  BY DEF Queue, Owned, Held, Chance, Lapsing

\* Nobody who works on the job moves, and the job keeps its holder.
LEMMA Elsewhere ==
    ASSUME TypeOK, TypeOK', Queue, NEW p \in Jobs, NEW d \in Devices, Covered(p, d), faults <= faults',
           got'[p][d] = got[p][d],
           delivery'[p][d].status = delivery[p][d].status
             \/ {delivery[p][d].status, delivery'[p][d].status} \subseteq {"none", "PENDING", "EXHAUSTED"},
           job'[p].lease = job[p].lease, job'[p].lapsed => job[p].lapsed \/ ~Held(p),
           \A v \in Workers : (Busy(v) /\ req[v].job = p) \/ (Busy(v)' /\ req'[v].job = p)
              => req'[v] = req[v]
    PROVE  Covered(p, d)'
  <1>1. \A v \in Workers : /\ (Busy(v) /\ req[v].job = p)' <=> (Busy(v) /\ req[v].job = p)
                           /\ Busy(v) /\ req[v].job = p => req'[v] = req[v]
    BY DEF Busy
  <1>2. Stray(p, d)' = Stray(p, d)
    BY <1>1 DEF Stray, Undecided, At
  <1>3. Held(p)' <=> Held(p)
    BY <1>1 DEF Held
  <1>4. Again(p, d)' <=> Again(p, d)
    BY DEF Again
  <1>5. Chance(p, d)' <=> Chance(p, d)
    BY <1>1, <1>3, <1>4 DEF Chance, Answering, At, Held
  <1>6. Lapsing(p)' => Lapsing(p)
    BY <1>3 DEF Lapsing
  <1> QED
    BY <1>2, <1>5, <1>6, Unmoved

\* The job is queued, buried or requeued while nobody has it.
LEMMA Requeued ==
    ASSUME TypeOK, TypeOK', Queue, Queue', NEW p \in Jobs, NEW d \in Devices, Covered(p, d),
           faults <= faults', got'[p][d] = got[p][d],
           delivery'[p][d].status = delivery[p][d].status,
           job[p].status # "SENDING", job'[p].status # "SENDING",
           \A v \in Workers : Busy(v)' /\ req'[v].job = p => Busy(v) /\ req'[v] = req[v]
    PROVE  Covered(p, d)'
  <1>1. /\ ~Held(p) /\ \A v \in Workers : Busy(v) /\ req[v].job = p => job[p].lease # v
        /\ Chance(p, d) <=> Again(p, d)
    BY Unheld
  <1>2. ~Held(p)'
    BY DEF Queue, Owned, Held
  <1>3. (Chance(p, d)' <=> Again(p, d)') /\ ~Lapsing(p)'
    BY <1>2 DEF Chance, Lapsing
  <1>4. Again(p, d)' <=> Again(p, d)
    BY DEF Again
  <1>5. Stray(p, d)' \subseteq Stray(p, d)
    BY <1>1 DEF Stray, Undecided, At
  <1> QED
    BY <1>1, <1>3, <1>4, <1>5, Unmoved

\* Its worker moves on within the attempt.
LEMMA HolderMoves ==
    ASSUME TypeOK, TypeOK', Queue, NEW w \in Workers, NEW p \in Jobs, req[w].job = p, req'[w].job = p,
           Busy(w), Busy(w)', OnlyReq(w), Owns(w),
           job'[p].lease = w, job'[p].lapsed => job[p].lapsed,
           NEW d \in Devices
    PROVE  /\ Stray(p, d)' = Stray(p, d)
           /\ Chance(p, d) <=>
                IF Answering(w, d) THEN req[w].device[d] \in {"pending", "transient"}
                ELSE Again(p, d)
           /\ Chance(p, d)' <=>
                IF Answering(w, d)' THEN req'[w].device[d] \in {"pending", "transient"}
                ELSE Again(p, d)'
           /\ Lapsing(p)' => Lapsing(p)
  <1>1. job[p].lease = w /\ Held(p) /\ Held(p)'
    BY DEF Owns, Held
  <1>2. \A v \in Workers : v # w => req'[v] = req[v] /\ (Busy(v)' <=> Busy(v))
    BY DEF OnlyReq, Busy
  <1>3. Stray(p, d)' = Stray(p, d)
    BY <1>1, <1>2 DEF Stray, Undecided, At
  <1> QED
    BY <1>1, <1>3 DEF Chance, Lapsing

\* A worker that lost the job moves on or stops.
LEMMA StrayMoves ==
    ASSUME TypeOK, TypeOK', Queue, NEW w \in Workers, NEW p \in Jobs, req[w].job = p, Busy(w), OnlyReq(w),
           Busy(w)' => req'[w].job = p, ~Owns(w), job'[p] = job[p], NEW d \in Devices
    PROVE  /\ Stray(p, d)' \subseteq Stray(p, d) \cup {w}
           /\ ~(Busy(w)' /\ Undecided(w, d)') => Stray(p, d)' \subseteq Stray(p, d) \ {w}
           /\ w \in Stray(p, d) <=> Undecided(w, d)
           /\ Chance(p, d)' => Chance(p, d)
                 \/ (Again(p, d)' /\ ~Again(p, d))
           /\ Lapsing(p)' => Lapsing(p)
  <1>1. \A v \in Workers : v # w => req'[v] = req[v] /\ (Busy(v)' <=> Busy(v))
    BY DEF OnlyReq, Busy
  <1>2. job[p].lease # w
    BY DEF Owns
  <1>3. \A v \in Workers : v # w => (v \in Stray(p, d)' <=> v \in Stray(p, d))
    BY <1>1 DEF Stray, Undecided, At
  <1>4. /\ w \in Stray(p, d) <=> Undecided(w, d)
        /\ w \in Stray(p, d)' => Busy(w)' /\ Undecided(w, d)'
    BY <1>2 DEF Stray
  <1>5. Stray(p, d) \subseteq Workers /\ Stray(p, d)' \subseteq Workers
    BY DEF Stray
  <1>6. /\ Held(p)' <=> Held(p)
        /\ Held(p) => job[p].lease \in Workers /\ req'[job[p].lease] = req[job[p].lease]
    BY <1>1, <1>2 DEF Held
  <1>7. Chance(p, d)' => Chance(p, d) \/ (Again(p, d)' /\ ~Again(p, d))
    BY <1>6 DEF Chance, Answering, At
  <1>8. Lapsing(p)' => Lapsing(p)
    BY <1>6 DEF Lapsing
  <1> QED
    BY <1>3, <1>4, <1>5, <1>7, <1>8

\* Steps outside an attempt.
LEMMA OutsideCopies ==
    ASSUME TypeOK, TypeOK', Queue, Queue', NEW p \in Jobs, NEW d \in Devices, Covered(p, d),
           \/ \E j \in Jobs : \/ SavePush(j) \/ SaveMail(j) \/ RepairJob(j) \/ RepairMark(j)
                              \/ RetryJob(j) \/ RetryDeliveries(j)
           \/ \E w \in Workers : SweepExhausted(w) \/ EndTick(w)
           \/ \E e \in Devices : SignOut(e)
    PROVE  Covered(p, d)'
  <1>1. got' = got /\ faults' = faults /\ faults \in Nat /\ faults <= faults'
    <2>1. faults \in Nat
      BY BoundsAssumption DEF TypeOK
    <2>2. got' = got /\ faults' = faults
      BY DEF SavePush, SaveMail, RepairJob, RepairMark, RetryJob, RetryDeliveries, SweepExhausted,
             EndTick, SignOut
    <2> QED
      BY <2>1, <2>2
  <1>2. \/ delivery' = delivery
        \/ \E j \in Jobs : RetryDeliveries(j)
    BY DEF SavePush, SaveMail, RepairJob, RepairMark, RetryJob, SweepExhausted, EndTick, SignOut
  <1>3. \A v \in Workers : Busy(v) \/ Busy(v)' => req'[v] = req[v]
    <2>1. CASE \E w \in Workers : SweepExhausted(w) \/ EndTick(w)
      <3> PICK w \in Workers : SweepExhausted(w) \/ EndTick(w)
        BY <2>1
      <3>1. OnlyReq(w) /\ ~Busy(w) /\ ~Busy(w)'
        <4>1. CASE SweepExhausted(w)
          <5>1. req[w] \in Request
            BY <4>1, AtWork DEF SweepExhausted, At
          <5> QED
            BY <4>1, <5>1, GotoTyped DEF SweepExhausted, At, Busy, Request
        <4>2. CASE EndTick(w)
          <5>1. OnlyReq(w) /\ req'[w] = Idle /\ ~Busy(w)
            BY <4>2, NewReq DEF EndTick, At, Busy
          <5> QED
            BY <5>1 DEF Busy, Idle
        <4> QED
          BY <4>1, <4>2
      <3> QED
        BY <3>1 DEF OnlyReq
    <2>2. CASE ~\E w \in Workers : SweepExhausted(w) \/ EndTick(w)
      BY <2>2 DEF SavePush, SaveMail, RepairJob, RepairMark, RetryJob, RetryDeliveries, SignOut
    <2> QED
      BY <2>1, <2>2
  <1>4. CASE \E j \in Jobs : RetryDeliveries(j)
    <2> PICK j \in Jobs : RetryDeliveries(j)
      BY <1>4
    <2>1. \/ delivery'[p][d].status = delivery[p][d].status
          \/ {delivery[p][d].status, delivery'[p][d].status} \subseteq {"none", "PENDING", "EXHAUSTED"}
      BY Types DEF RetryDeliveries
    <2>2. job' = job
      BY DEF RetryDeliveries
    <2> QED
      BY <1>1, <1>3, <2>1, <2>2, Elsewhere
  <1>5. CASE delivery' = delivery
    <2>1. job'[p] = job[p] \/ (job[p].status # "SENDING" /\ job'[p].status # "SENDING")
      <3>1. CASE \E j \in Jobs : SavePush(j) \/ RepairMark(j) \/ RetryDeliveries(j)
        BY <3>1 DEF SavePush, RepairMark, RetryDeliveries
      <3>2. CASE \E j \in Jobs : SaveMail(j) \/ RepairJob(j)
        <4>1. PICK j \in Jobs : job[j].status = "none" /\ job' = [job EXCEPT ![j] = NewJob]
          BY <3>2 DEF SaveMail, RepairJob, Queue, Fresh
        <4>2. NewJob.status # "SENDING"
          BY DEF NewJob
        <4> QED
          BY <4>1, <4>2, Types
      <3>3. CASE \E j \in Jobs : RetryJob(j)
        <4> PICK j \in Jobs : RetryJob(j)
          BY <3>3
        <4> DEFINE doc == [job[j] EXCEPT !.status = "RETRYING", !.attempts = 0]
        <4>1. job' = [job EXCEPT ![j] = doc] /\ job[j].status = "DEAD_LETTER"
          BY DEF RetryJob
        <4>2. doc.status = "RETRYING"
          <5>1. job[j] \in JobDoc(faults)
            BY Types
          <5> QED
            BY <5>1 DEF JobDoc
        <4> HIDE DEF doc
        <4> QED
          BY <4>1, <4>2, Types
      <3>4. CASE \E w \in Workers : SweepExhausted(w)
        <4> DEFINE doc == [job[p] EXCEPT !.status = "DEAD_LETTER"]
        <4>1. job'[p] = job[p] \/ (job[p].status = "RETRYING" /\ job'[p] = doc)
          BY <3>4 DEF SweepExhausted
        <4>2. doc.status = "DEAD_LETTER"
          <5>1. job[p] \in JobDoc(faults)
            BY Types
          <5> QED
            BY <5>1 DEF JobDoc
        <4> HIDE DEF doc
        <4> QED
          BY <4>1, <4>2
      <3>5. CASE (\E w \in Workers : EndTick(w)) \/ (\E e \in Devices : SignOut(e))
        BY <3>5 DEF EndTick, SignOut
      <3> QED
        BY <3>1, <3>2, <3>3, <3>4, <3>5
    <2>2. CASE job'[p] = job[p]
      BY <1>1, <1>3, <1>5, <2>2, Elsewhere
    <2>3. CASE job[p].status # "SENDING" /\ job'[p].status # "SENDING"
      <3>1. \A v \in Workers : Busy(v)' => Busy(v)
        BY <1>3 DEF Busy
      <3> QED
        BY <1>1, <1>3, <1>5, <2>3, <3>1, Requeued
    <2> QED
      BY <2>1, <2>2, <2>3
  <1> QED
    BY <1>2, <1>4, <1>5

\* A lease lapses: only a fault makes it lapse under its worker.
LEMMA LapseCopies ==
    ASSUME TypeOK, TypeOK', Queue, NEW j \in Jobs, LeaseLapses(j),
           NEW p \in Jobs, NEW d \in Devices, Covered(p, d)
    PROVE  Covered(p, d)'
  <1>1. got' = got /\ delivery' = delivery /\ req' = req /\ (Fault \/ UNCHANGED faults)
    BY DEF LeaseLapses
  <1>2. /\ faults \in Nat /\ faults' \in Nat /\ faults <= faults'
        /\ Fault => faults' = faults + 1
    BY <1>1, FaultGrows DEF Fault
  <1>3. /\ job'[p].lease = job[p].lease /\ (p # j => job'[p] = job[p])
        /\ p = j => ~job[p].lapsed
    <2> DEFINE doc == [job[j] EXCEPT !.lapsed = TRUE]
    <2>1. job' = [job EXCEPT ![j] = doc] /\ ~job[j].lapsed
      BY DEF LeaseLapses
    <2>2. doc.lease = job[j].lease
      <3>1. job[j] \in JobDoc(faults)
        BY Types
      <3> QED
        BY <3>1 DEF JobDoc
    <2> HIDE DEF doc
    <2> QED
      BY <2>1, <2>2, Types
  <1>4. CASE p # j \/ ~Held(p)
    BY <1>1, <1>2, <1>3, <1>4, Elsewhere
  <1>5. CASE p = j /\ Held(p)
    <2>1. Fault
      BY <1>5 DEF LeaseLapses, Held, Busy, Idle
    <2>2. Stray(p, d)' = Stray(p, d) /\ (Chance(p, d)' <=> Chance(p, d)) /\ ~Lapsing(p)
      BY <1>1, <1>3, <1>5 DEF Stray, Undecided, At, Chance, Answering, Held, Again, Lapsing, Busy
    <2>3. /\ Count(Chance(p, d)) = Count(Chance(p, d))' /\ Count(Chance(p, d)) \in Nat
          /\ Count(Lapsing(p)) = 0 /\ Count(Lapsing(p))' \in {0, 1}
      BY <2>2 DEF Count
    <2>4. got'[p][d] = got[p][d] /\ faults' = faults + 1
      BY <1>1, <1>2, <2>1
    <2>5. Cardinality(Stray(p, d)') = Cardinality(Stray(p, d))
      BY <2>2
    <2> QED
      BY <2>3, <2>4, <2>5, Numbers DEF Covered
  <1> QED
    BY <1>4, <1>5

\* A lapsed job goes back to the queue, and its worker becomes a stray.
LEMMA TickCopies ==
    ASSUME TypeOK, TypeOK', Queue, NEW w \in Workers, Tick(w),
           NEW p \in Jobs, NEW d \in Devices, Covered(p, d)
    PROVE  Covered(p, d)'
  <1>1. got' = got /\ delivery' = delivery /\ faults' = faults /\ faults \in Nat /\ faults <= faults'
    <2>1. faults \in Nat
      BY BoundsAssumption DEF TypeOK
    <2> QED
      BY <2>1 DEF Tick
  <1>2. \A v \in Workers : Busy(v) \/ Busy(v)' => req'[v] = req[v]
    <2>1. OnlyReq(w) /\ ~Busy(w) /\ ~Busy(w)'
      <3> DEFINE r == [Loop EXCEPT !.at = "exhausted"]
      <3>1. OnlyReq(w) /\ req'[w] = r
        BY LoopTyped, NewReq DEF Tick
      <3>2. r.at = "exhausted"
        BY DEF Loop
      <3> HIDE DEF r
      <3> QED
        BY <3>1, <3>2 DEF Tick, Busy, Idle
    <2> QED
      BY <2>1 DEF OnlyReq
  <1>3. job'[p] = Swept(p)
    BY DEF Tick
  <1>4. CASE Swept(p) = job[p]
    BY <1>1, <1>2, <1>3, <1>4, Elsewhere
  <1>5. CASE Swept(p) # job[p]
    <2>1. job[p].lapsed /\ job'[p].lease = Nobody
      <3>1. job[p] \in JobDoc(faults)
        BY Types
      <3> QED
        BY <1>3, <1>5, <3>1 DEF Swept, JobDoc
    <2>2. ~Held(p)' /\ (Chance(p, d)' <=> Again(p, d)) /\ ~Lapsing(p)'
      BY <1>1, <2>1, WorkersAssumption DEF Held, Chance, Lapsing, Again
    <2>3. \A v \in Workers : v # job[p].lease => (v \in Stray(p, d)' => v \in Stray(p, d))
      BY <1>2 DEF Stray, Undecided, At, Busy
    <2>4. Stray(p, d)' \subseteq Workers
      BY DEF Stray
    <2>5. CASE ~Held(p)
      <3>1. Stray(p, d)' \subseteq Stray(p, d)
        <4>1. job[p].lease \notin Stray(p, d)'
          BY <1>2, <2>5 DEF Stray, Held, Busy
        <4> QED
          BY <2>3, <2>4, <4>1
      <3>2. Chance(p, d)' => Chance(p, d)
        BY <2>2, <2>5 DEF Chance
      <3> QED
        BY <1>1, <2>2, <3>1, <3>2, Unmoved
    <2>6. CASE Held(p)
      <3> DEFINE h == job[p].lease
      <3>1. Lapsing(p)
        BY <2>1, <2>6 DEF Lapsing
      <3>2. /\ Count(Lapsing(p)) = 1 /\ Count(Lapsing(p))' = 0
            /\ Count(Chance(p, d)) \in {0, 1} /\ Count(Chance(p, d))' \in {0, 1}
        BY <2>2, <3>1 DEF Count
      <3>3. CASE Undecided(h, d)
        <4>1. Cardinality(Stray(p, d)') <= Cardinality(Stray(p, d)) + 1
          <5>1. Stray(p, d)' \subseteq Stray(p, d) \cup {h}
            BY <2>3, <2>4
          <5> QED
            BY <5>1, Cards, Numbers
        <4>2. Chance(p, d)' => Chance(p, d)
          BY <2>2, <2>6, <3>3 DEF Chance, Undecided, Answering, Answers
        <4>3. Count(Chance(p, d))' <= Count(Chance(p, d))
          BY <4>2 DEF Count
        <4> QED
          BY <1>1, <3>2, <4>1, <4>3, Numbers DEF Covered
      <3>4. CASE ~Undecided(h, d)
        <4>1. h \notin Stray(p, d)'
          BY <1>2, <2>6, <3>4 DEF Stray, Undecided, At, Held
        <4>2. Stray(p, d)' \subseteq Stray(p, d)
          BY <2>3, <2>4, <4>1
        <4>3. Cardinality(Stray(p, d)') <= Cardinality(Stray(p, d))
          BY <4>2, Cards, Numbers
        <4> QED
          BY <1>1, <3>2, <4>3, Numbers DEF Covered
      <3> QED
        BY <3>3, <3>4
    <2> QED
      BY <2>5, <2>6
  <1> QED
    BY <1>4, <1>5

\* A claim: the worker has the lease and has not answered for any device.
LEMMA ClaimCopies ==
    ASSUME TypeOK, TypeOK', Queue, NEW w \in Workers, NEW q \in Jobs, Claim(w, q),
           NEW p \in Jobs, NEW d \in Devices, Covered(p, d)
    PROVE  Covered(p, d)'
  <1>1. got' = got /\ delivery' = delivery /\ faults' = faults /\ faults \in Nat /\ faults <= faults'
    <2>1. faults \in Nat
      BY BoundsAssumption DEF TypeOK
    <2>2. got' = got /\ delivery' = delivery /\ faults' = faults
      BY DEF Claim
    <2> QED
      BY <2>1, <2>2
  <1> DEFINE n == job[q].attempts + 1
             doc == [status |-> "SENDING", attempts |-> n, lease |-> w, lapsed |-> FALSE]
             r == [Loop EXCEPT !.at = "deliver", !.job = q, !.attempts = n]
  <1>2. job' = [job EXCEPT ![q] = doc] /\ req' = [req EXCEPT ![w] = r]
    BY DEF Claim
  <1>3. r \in Request /\ r.at = "deliver" /\ r.job = q
    <2>1. MaxAttempts \in Nat /\ faults \in Nat /\ job[q].attempts \in 0 .. MaxAttempts + faults
      BY <1>1, AttemptsAssumption, Types DEF JobDoc
    <2>2. n \in Nat
      BY <2>1
    <2> HIDE DEF n
    <2> QED
      BY <2>2, LoopTyped DEF Loop
  <1>4. doc.lease = w /\ ~doc.lapsed
    OBVIOUS
  <1> HIDE DEF n, doc, r
  <1>5. OnlyReq(w) /\ req'[w] = r
    BY <1>2, <1>3, NewReq
  <1>6. ~Busy(w) /\ job[q].status # "SENDING"
    BY DEF Claim, At, Busy, Due
  <1>7. CASE p # q
    <2>1. job'[p] = job[p]
      BY <1>2, <1>7
    <2>2. \A v \in Workers : (Busy(v) /\ req[v].job = p) \/ (Busy(v)' /\ req'[v].job = p) => req'[v] = req[v]
      BY <1>3, <1>5, <1>6, <1>7 DEF OnlyReq
    <2> QED
      BY <1>1, <2>1, <2>2, Elsewhere
  <1>8. CASE p = q
    <2>1. job'[p] = doc
      BY <1>2, <1>8, Types
    <2>2. /\ \A v \in Workers : Busy(v) /\ req[v].job = p => job[p].lease # v
          /\ Chance(p, d) <=> Again(p, d)
      BY <1>6, <1>8, Unheld
    <2>3. Stray(p, d)' \subseteq Stray(p, d)
      BY <1>4, <1>5, <2>1, <2>2 DEF Stray, OnlyReq, Undecided, At, Busy
    <2>4. (Chance(p, d)' <=> Again(p, d)) /\ ~Lapsing(p)'
      BY <1>1, <1>3, <1>4, <1>5, <2>1 DEF Chance, Answering, At, Lapsing, Again
    <2> QED
      BY <1>1, <2>2, <2>3, <2>4, Unmoved
  <1> QED
    BY <1>7, <1>8

\* A crash may lose an answer, or leave a chance that was settled: one fault.
LEMMA CrashCopies ==
    ASSUME TypeOK, TypeOK', Queue, NEW w \in Workers, Crash(w),
           NEW p \in Jobs, NEW d \in Devices, Covered(p, d)
    PROVE  Covered(p, d)'
  <1>1. got' = got /\ delivery' = delivery /\ job' = job
    BY DEF Crash
  <1>2. faults \in Nat /\ faults' \in Nat /\ faults' = faults + 1 /\ faults <= faults'
    BY FaultGrows DEF Crash, Fault
  <1>3. OnlyReq(w) /\ req'[w] = Idle
    BY NewReq DEF Crash
  <1>4. ~Busy(w)'
    BY <1>3 DEF Busy, Idle
  <1>5. CASE ~(Busy(w) /\ req[w].job = p)
    <2>1. \A v \in Workers : (Busy(v) /\ req[v].job = p) \/ (Busy(v)' /\ req'[v].job = p) => req'[v] = req[v]
      BY <1>3, <1>4, <1>5 DEF OnlyReq
    <2> QED
      BY <1>1, <1>2, <2>1, Elsewhere
  <1>6. CASE Busy(w) /\ req[w].job = p
    <2>1. Stray(p, d)' \subseteq Stray(p, d)
      BY <1>1, <1>3, <1>4 DEF Stray, OnlyReq, Undecided, At, Busy
    <2>2. Cardinality(Stray(p, d)') <= Cardinality(Stray(p, d))
      BY <2>1, Cards, Numbers
    <2>3. Lapsing(p)' => Lapsing(p)
      BY <1>1, <1>3, <1>4 DEF Lapsing, Held, OnlyReq, Busy
    <2>4. /\ Count(Chance(p, d)) \in {0, 1} /\ Count(Chance(p, d))' \in {0, 1}
          /\ Count(Lapsing(p)) \in {0, 1} /\ Count(Lapsing(p))' \in {0, 1}
          /\ Count(Lapsing(p))' <= Count(Lapsing(p))
      BY <2>3 DEF Count
    <2> QED
      BY <1>1, <1>2, <2>2, <2>4, Numbers DEF Covered
  <1> QED
    BY <1>5, <1>6

\* A mail is no push.
LEMMA MailCopies ==
    ASSUME TypeOK, TypeOK', Queue, NEW w \in Workers, SendMail(w),
           NEW p \in Jobs, NEW d \in Devices, channel[p] # "mail", Covered(p, d)
    PROVE  Covered(p, d)'
  <1>1. Busy(w) /\ req[w].job \in Jobs /\ channel[req[w].job] # "none" /\ ~IsPush(req[w].job)
    BY DEF SendMail, At, Busy, Queue, Assigned
  <1>2. req[w].job # p
    BY <1>1, Types DEF IsPush
  <1>3. /\ job' = job /\ delivery' = delivery /\ (Fault \/ UNCHANGED faults)
        /\ \A v \in Workers : v # w => req'[v] = req[v]
    BY Types DEF SendMail
  <1>4. got'[p] = got[p]
    <2>1. got' = got \/ got' = [got EXCEPT ![req[w].job] = [e \in Devices |-> got[req[w].job][e] + 1]]
      BY DEF SendMail
    <2> QED
      BY <1>2, <2>1, Types
  <1>5. faults <= faults'
    BY <1>3, FaultGrows
  <1>6. req'[w].job = req[w].job
    <2>1. PICK next : req' = [req EXCEPT ![w] = [req[w] EXCEPT !.at = "settle", !.next = next]]
      BY DEF SendMail
    <2>2. req[w] \in Request
      BY <1>1, AtJob
    <2> QED
      BY <2>1, <2>2, Types DEF Request
  <1> QED
    BY <1>2, <1>3, <1>4, <1>5, <1>6, Elsewhere

\* An attempt ends when no device of it is unanswered.
LEMMA FinishCopies ==
    ASSUME TypeOK, TypeOK', Queue, NEW w \in Workers, Busy(w), NEW status \in Ended \cup {"RETRYING"},
           Finish(w, status), UNCHANGED <<delivery, got, faults>>,
           NEW p \in Jobs, NEW d \in Devices, Covered(p, d), Owns(w) => ~Answering(w, d)
    PROVE  Covered(p, d)'
  <1>1. delivery' = delivery /\ got' = got /\ faults' = faults /\ faults \in Nat /\ faults <= faults'
    <2>1. faults \in Nat
      BY BoundsAssumption DEF TypeOK
    <2> QED
      BY <2>1
  <1>2. /\ OnlyReq(w) /\ req'[w] = Loop /\ ~Busy(w)'
        /\ \A j \in Jobs :
              \/ job'[j] = job[j] /\ (j = req[w].job => ~Owns(w))
              \/ /\ j = req[w].job /\ Owns(w) /\ job'[j].status = status
                 /\ job'[j].lease = w /\ job'[j].attempts = job[j].attempts
    BY <1>1, FinishTyped
  <1>3. CASE req[w].job # p
    <2>1. job'[p] = job[p]
      BY <1>2, <1>3
    <2>2. \A v \in Workers : (Busy(v) /\ req[v].job = p) \/ (Busy(v)' /\ req'[v].job = p) => req'[v] = req[v]
      BY <1>2, <1>3 DEF OnlyReq
    <2> QED
      BY <1>1, <2>1, <2>2, Elsewhere
  <1>4. CASE req[w].job = p /\ ~Owns(w)
    <2>1. job'[p] = job[p]
      BY <1>2, <1>4
    <2>2. /\ Stray(p, d)' \subseteq Stray(p, d) \ {w}
          /\ Chance(p, d)' => Chance(p, d) \/ (Again(p, d)' /\ ~Again(p, d))
          /\ Lapsing(p)' => Lapsing(p)
      BY <1>2, <1>4, <2>1, StrayMoves
    <2>3. Again(p, d)' <=> Again(p, d)
      BY <1>1 DEF Again
    <2> QED
      BY <1>1, <2>2, <2>3, Unmoved
  <1>5. CASE req[w].job = p /\ Owns(w)
    <2>1. job[p].lease = w /\ job'[p].lease = w
      BY <1>2, <1>5 DEF Owns
    <2>2. ~Held(p)'
      BY <1>2, <2>1 DEF Held
    <2>3. (Chance(p, d)' <=> Again(p, d)) /\ ~Lapsing(p)'
      BY <1>1, <2>2 DEF Chance, Lapsing, Again
    <2>4. Chance(p, d) <=> Again(p, d)
      BY <1>5, <2>1 DEF Chance
    <2>5. Stray(p, d)' \subseteq Stray(p, d)
      BY <1>2, <2>1 DEF Stray, OnlyReq, Undecided, At, Busy
    <2> QED
      BY <1>1, <2>3, <2>4, <2>5, Unmoved
  <1> QED
    BY <1>3, <1>4, <1>5

\* What the holder's chance is, seen from the holder.
Offer(w, d) ==
    IF Answering(w, d) THEN req[w].device[d] \in {"pending", "transient"} ELSE Again(req[w].job, d)

\* A worker moves on within its attempt: what it delivers it had a chance for,
\* and a chance that it leaves behind it had itself.
LEMMA AdvanceCopies ==
    ASSUME TypeOK, TypeOK', Queue, NEW w \in Workers, Busy(w), Busy(w)', OnlyReq(w),
           req'[w].job = req[w].job, faults <= faults',
           \A j \in Jobs : job'[j].lease = job[j].lease /\ (job'[j].lapsed => job[j].lapsed),
           ~Owns(w) => job' = job,
           NEW p \in Jobs, NEW d \in Devices, Covered(p, d),
           p # req[w].job => got'[p][d] = got[p][d] /\ delivery'[p][d] = delivery[p][d],
           p = req[w].job /\ Owns(w) =>
              got'[p][d] + Count(Offer(w, d)') + faults <= got[p][d] + Count(Offer(w, d)) + faults',
           p = req[w].job /\ ~Owns(w) =>
              got'[p][d] + Count(Undecided(w, d)') + Count(Again(p, d)' /\ ~Again(p, d)) + faults
                 <= got[p][d] + Count(Undecided(w, d)) + faults'
    PROVE  Covered(p, d)'
  <1>1. CASE p # req[w].job
    <2>1. \A v \in Workers : (Busy(v) /\ req[v].job = p) \/ (Busy(v)' /\ req'[v].job = p) => req'[v] = req[v]
      BY <1>1 DEF OnlyReq
    <2> QED
      BY <1>1, <2>1, Elsewhere
  <1>2. CASE p = req[w].job /\ Owns(w)
    <2>1. job'[p].lease = w
      BY <1>2 DEF Owns
    <2>2. /\ Stray(p, d)' = Stray(p, d)
          /\ Chance(p, d) <=> Offer(w, d)
          /\ Chance(p, d)' <=> Offer(w, d)'
          /\ Lapsing(p)' => Lapsing(p)
      BY <1>2, <2>1, HolderMoves DEF Offer
    <2>3. Cardinality(Stray(p, d)') = Cardinality(Stray(p, d))
      BY <2>2
    <2>4. /\ Count(Chance(p, d)) = Count(Offer(w, d)) /\ Count(Chance(p, d))' = Count(Offer(w, d)')
          /\ Count(Chance(p, d)) \in {0, 1} /\ Count(Chance(p, d))' \in {0, 1}
          /\ Count(Lapsing(p)) \in {0, 1} /\ Count(Lapsing(p))' \in {0, 1}
          /\ Count(Lapsing(p))' <= Count(Lapsing(p))
      BY <2>2 DEF Count
    <2> QED
      BY <1>2, <2>3, <2>4, Numbers DEF Covered
  <1>3. CASE p = req[w].job /\ ~Owns(w)
    <2>1. /\ Stray(p, d)' \subseteq Stray(p, d) \cup {w}
          /\ ~(Undecided(w, d)') => Stray(p, d)' \subseteq Stray(p, d) \ {w}
          /\ w \in Stray(p, d) <=> Undecided(w, d)
          /\ Chance(p, d)' => Chance(p, d) \/ (Again(p, d)' /\ ~Again(p, d))
          /\ Lapsing(p)' => Lapsing(p)
      BY <1>3, StrayMoves
    <2>2. Cardinality(Stray(p, d)') + Count(Undecided(w, d)) <= Cardinality(Stray(p, d)) + Count(Undecided(w, d)')
      <3>0. /\ Cardinality(Stray(p, d)) \in Nat /\ Cardinality(Stray(p, d)') \in Nat
            /\ IsFiniteSet(Stray(p, d))
        BY Numbers
      <3>1. CASE Undecided(w, d) /\ Undecided(w, d)'
        <4>1. Stray(p, d)' \subseteq Stray(p, d)
          BY <2>1, <3>1
        <4>2. Cardinality(Stray(p, d)') <= Cardinality(Stray(p, d))
          BY <3>0, <4>1, Cards
        <4> QED
          BY <3>0, <3>1, <4>2 DEF Count
      <3>2. CASE Undecided(w, d) /\ ~(Undecided(w, d)')
        <4>1. Cardinality(Stray(p, d)') + 1 <= Cardinality(Stray(p, d))
          BY <2>1, <3>0, <3>2, Cards
        <4> QED
          BY <3>0, <3>2, <4>1 DEF Count
      <3>3. CASE ~Undecided(w, d) /\ Undecided(w, d)'
        <4>1. Cardinality(Stray(p, d)') <= Cardinality(Stray(p, d)) + 1
          BY <2>1, <3>0, Cards
        <4> QED
          BY <3>0, <3>3, <4>1 DEF Count
      <3>4. CASE ~Undecided(w, d) /\ ~(Undecided(w, d)')
        <4>1. Stray(p, d)' \subseteq Stray(p, d)
          BY <2>1, <3>4
        <4>2. Cardinality(Stray(p, d)') <= Cardinality(Stray(p, d))
          BY <3>0, <4>1, Cards
        <4> QED
          BY <3>0, <3>4, <4>2 DEF Count
      <3> QED
        BY <3>1, <3>2, <3>3, <3>4
    <2>3. /\ Count(Chance(p, d))' <= Count(Chance(p, d)) + Count(Again(p, d)' /\ ~Again(p, d))
          /\ Count(Chance(p, d)) \in {0, 1} /\ Count(Chance(p, d))' \in {0, 1}
          /\ Count(Lapsing(p)) \in {0, 1} /\ Count(Lapsing(p))' \in {0, 1}
          /\ Count(Lapsing(p))' <= Count(Lapsing(p))
          /\ Count(Undecided(w, d)) \in {0, 1} /\ Count(Undecided(w, d)') \in {0, 1}
          /\ Count(Again(p, d)' /\ ~Again(p, d)) \in {0, 1}
      BY <2>1 DEF Count
    <2> QED
      BY <1>3, <2>2, <2>3, Numbers DEF Covered
  <1> QED
    BY <1>1, <1>2, <1>3

\* An attempt that has not asked any device, and one that asked them all.
LEMMA EndCopies ==
    ASSUME IInv, TypeOK', NEW w \in Workers, Settle(w) \/ Judge(w),
           NEW p \in Jobs, NEW d \in Devices, Covered(p, d)
    PROVE  Covered(p, d)'
  <1>0. TypeOK /\ Queue
    BY DEF IInv
  <1>1. Busy(w) /\ req[w] \in Request /\ UNCHANGED <<delivery, got, faults>>
    BY <1>0, AtJob DEF Settle, Judge, At, Busy
  <1>2. CASE Settle(w)
    <2>1. req[w].next \in Ended \cup {"RETRYING"}
      BY <1>1 DEF Request
    <2>2. Finish(w, req[w].next) /\ ~Answering(w, d)
      BY <1>2 DEF Settle, Answering, At
    <2> QED
      BY <1>0, <1>1, <2>1, <2>2, FinishCopies
  <1>3. CASE Judge(w)
    <2> DEFINE status == IF req[w].retry THEN AfterFailure(w, FALSE)
                         ELSE IF AnyFailed(w) THEN "DEAD_LETTER" ELSE "SENT"
    <2>1. status \in Ended \cup {"RETRYING"}
      BY <1>0, <1>1, AfterFailureBounds DEF Ended
    <2>2. Finish(w, status) /\ ~Answering(w, d)
      BY <1>3 DEF Judge, Answering, Answers
    <2> HIDE DEF status
    <2> QED
      BY <1>0, <1>1, <2>1, <2>2, FinishCopies
  <1> QED
    BY <1>2, <1>3

\* The attempt begins: nobody has been asked yet.
LEMMA OpenCopies ==
    ASSUME TypeOK, TypeOK', Queue, NEW w \in Workers, Open(w),
           NEW p \in Jobs, NEW d \in Devices, Covered(p, d)
    PROVE  Covered(p, d)'
  <1>1. Busy(w) /\ req[w] \in Request /\ At(w, "deliver")
    BY AtJob DEF Open, At, Busy
  <1>2. delivery' = delivery /\ got' = got /\ faults' = faults
    BY DEF Open
  <1>3. CASE Finish(w, "DEAD_LETTER")
    <2>1. ~Answering(w, d) /\ "DEAD_LETTER" \in Ended
      BY <1>1 DEF Answering, At, Ended
    <2> QED
      BY <1>1, <1>2, <1>3, <2>1, FinishCopies
  <1>4. CASE ~Finish(w, "DEAD_LETTER")
    <2> DEFINE ds == [e \in Devices |-> IF e \in active THEN "todo" ELSE "out"]
               r == [req[w] EXCEPT !.at = "batch", !.device = ds]
    <2>1. ds \in [Devices -> DeviceSteps]
      BY DEF DeviceSteps
    <2>2. req' = [req EXCEPT ![w] = r] /\ job' = job
      BY <1>4 DEF Open
    <2> HIDE DEF ds
    <2>3. r \in Request /\ r.job = req[w].job /\ r.at = "batch"
      BY <1>1, <2>1 DEF Request
    <2> HIDE DEF r
    <2>4. OnlyReq(w) /\ req'[w] = r
      BY <2>2, <2>3, NewReq
    <2>5. Busy(w)' /\ req'[w].job = req[w].job
      BY <2>3, <2>4 DEF Busy
    <2>6. /\ Offer(w, d)' <=> Offer(w, d)
          /\ Again(p, d)' <=> Again(p, d)
          /\ Undecided(w, d)' /\ Undecided(w, d)
      BY <1>1, <1>2, <2>3, <2>4 DEF Offer, Answering, Again, Undecided, At
    <2>7. /\ Count(Offer(w, d)') = Count(Offer(w, d)) /\ Count(Offer(w, d)) \in {0, 1}
          /\ Count(Undecided(w, d)') = 1 /\ Count(Undecided(w, d)) = 1
          /\ Count(Again(p, d)' /\ ~Again(p, d)) = 0
      BY <2>6 DEF Count
    <2>8. got[p][d] \in Nat /\ faults \in Nat
      BY Numbers
    <2> QED
      BY <1>1, <1>2, <2>2, <2>4, <2>5, <2>7, <2>8, AdvanceCopies
  <1> QED
    BY <1>3, <1>4

\* The lease is renewed, or found lost.
LEMMA RenewCopies ==
    ASSUME IInv, TypeOK', NEW w \in Workers, Renew(w),
           NEW p \in Jobs, NEW d \in Devices, Covered(p, d)
    PROVE  Covered(p, d)'
  <1>0. TypeOK /\ Queue
    BY DEF IInv
  <1>1. Busy(w) /\ req[w] \in Request /\ At(w, "batch") /\ req[w].job \in Jobs /\ job[req[w].job] \in JobDoc(faults)
    BY <1>0, AtJob DEF Renew, At, Busy
  <1>2. delivery' = delivery /\ got' = got /\ faults' = faults
    BY DEF Renew
  <1>3. CASE ~HasLease(w)
    <2>1. ~Answering(w, d)
      BY <1>1 DEF Answering, At
    <2>2. Finish(w, AfterFailure(w, FALSE)) /\ AfterFailure(w, FALSE) \in Ended \cup {"RETRYING"}
      BY <1>0, <1>1, <1>3, AfterFailureBounds DEF Renew
    <2> QED
      BY <1>0, <1>1, <1>2, <2>1, <2>2, FinishCopies
  <1>4. CASE HasLease(w)
    <2> DEFINE r == [req[w] EXCEPT !.at = "send"]
               doc == [job[req[w].job] EXCEPT !.lapsed = FALSE]
    <2>1. OnlyReq(w) /\ req'[w] = r /\ job' = [job EXCEPT ![req[w].job] = doc]
      BY <1>0, <1>1, <1>4, GotoTyped DEF Renew
    <2>2. r.at = "send" /\ r.job = req[w].job /\ r.device = req[w].device
      BY <1>1 DEF Request
    <2>3. ~doc.lapsed /\ doc.lease = job[req[w].job].lease
      BY <1>1 DEF JobDoc
    <2> HIDE DEF r, doc
    <2>4. \A j \in Jobs : job'[j].lease = job[j].lease /\ (job'[j].lapsed => job[j].lapsed)
      BY <1>0, <2>1, <2>3, Types
    <2>5. Busy(w)' /\ req'[w].job = req[w].job /\ Owns(w)
      BY <1>4, <2>1, <2>2 DEF Busy, HasLease, Owns
    <2>6. req[w].device[d] \in {"out", "todo"}
      BY <1>0, <1>1 DEF IInv, Arrivals, Pushing, At
    <2>7. Offer(w, d)' <=> Offer(w, d)
      BY <1>1, <1>2, <2>1, <2>2, <2>6 DEF Offer, Answering, Answers, Again, At
    <2>8. Count(Offer(w, d)') = Count(Offer(w, d)) /\ Count(Offer(w, d)) \in {0, 1}
      BY <2>7 DEF Count
    <2>9. got[p][d] \in Nat /\ faults \in Nat
      BY <1>0, Numbers
    <2> QED
      BY <1>0, <1>1, <1>2, <2>1, <2>4, <2>5, <2>8, <2>9, AdvanceCopies
  <1> QED
    BY <1>3, <1>4

\* A device of the batch moves: its copies, and what the worker still owes it.
LEMMA DeviceCopies ==
    ASSUME TypeOK, TypeOK', Queue, NEW w \in Workers, NEW e \in Devices, NEW step \in DeviceSteps,
           At(w, "send"), OnlyReq(w), req'[w].at = "send", req'[w].job = req[w].job,
           req'[w].device = [req[w].device EXCEPT ![e] = step], job' = job, faults <= faults',
           NEW q \in Jobs, q = req[w].job,
           \A j \in Jobs, f \in Devices : j # q \/ f # e =>
              got'[j][f] = got[j][f] /\ delivery'[j][f] = delivery[j][f],
           Owns(w) =>
              got'[q][e] + Count(Offer(w, e)') + faults <= got[q][e] + Count(Offer(w, e)) + faults',
           ~Owns(w) =>
              got'[q][e] + Count(Undecided(w, e)') + Count(Again(q, e)' /\ ~Again(q, e)) + faults
                 <= got[q][e] + Count(Undecided(w, e)) + faults',
           NEW p \in Jobs, NEW d \in Devices, Covered(p, d)
    PROVE  Covered(p, d)'
  <1>1. Busy(w) /\ Busy(w)' /\ req[w] \in Request
    BY AtJob DEF At, Busy
  <1>2. CASE d = e
    BY <1>1, <1>2, AdvanceCopies
  <1>3. CASE d # e
    <2>1. req'[w].device[d] = req[w].device[d] /\ got'[p][d] = got[p][d] /\ delivery'[p][d] = delivery[p][d]
      BY <1>1, <1>3 DEF Request
    <2>2. p = q => /\ Offer(w, d)' <=> Offer(w, d)
                   /\ Undecided(w, d)' <=> Undecided(w, d)
                   /\ Again(p, d)' <=> Again(p, d)
      BY <2>1 DEF Offer, Answering, Undecided, Again, At
    <2>3. p = q => /\ Count(Offer(w, d)') = Count(Offer(w, d)) /\ Count(Offer(w, d)) \in {0, 1}
                   /\ Count(Undecided(w, d)') = Count(Undecided(w, d)) /\ Count(Undecided(w, d)) \in {0, 1}
                   /\ Count(Again(p, d)' /\ ~Again(p, d)) = 0
      BY <2>2 DEF Count
    <2>4. got[p][d] \in Nat /\ faults \in Nat /\ faults' \in Nat
      BY Numbers
    <2> QED
      BY <1>1, <2>1, <2>3, <2>4, AdvanceCopies
  <1> QED
    BY <1>2, <1>3

\* The worker reads the delivery: it may submit only what was its chance.
LEMMA LookCopies ==
    ASSUME TypeOK, TypeOK', Queue, NEW w \in Workers, NEW e \in Devices, Look(w, e),
           NEW p \in Jobs, NEW d \in Devices, Covered(p, d)
    PROVE  Covered(p, d)'
  <1> DEFINE q == req[w].job
             r1 == [req[w] EXCEPT !.device[e] = "pending", !.tries[e] = delivery[q][e].attempts]
             r2 == [req[w] EXCEPT !.device[e] = "done", !.failed = @ \/ delivery[q][e].status # "SUBMITTED"]
             doc == [delivery[q][e] EXCEPT !.status = IF @ = "none" THEN "PENDING" ELSE @]
  <1>1. Busy(w) /\ req[w] \in Request /\ q \in Jobs /\ At(w, "send") /\ req[w].device[e] = "todo"
    BY AtJob DEF Look, At, Busy
  <1>2. delivery' = [delivery EXCEPT ![q][e] = doc] /\ delivery[q][e] \in DeliveryDoc
    BY <1>1, Types DEF Look
  <1>3. job' = job /\ got' = got /\ faults' = faults /\ OnlyReq(w)
    BY LookStep DEF Look
  <1>4. doc.status = IF delivery[q][e].status = "none" THEN "PENDING" ELSE delivery[q][e].status
    BY <1>2 DEF DeliveryDoc
  <1> HIDE DEF doc
  <1>5. /\ delivery'[q][e] = doc
        /\ \A j \in Jobs, f \in Devices : j # q \/ f # e => delivery'[j][f] = delivery[j][f]
    BY <1>1, <1>2, Types
  <1>6. PICK step \in {"pending", "done"} :
          /\ req'[w].at = "send" /\ req'[w].job = q
          /\ req'[w].device = [req[w].device EXCEPT ![e] = step] /\ req'[w].device[e] = step
          /\ step = "pending" => Submittable(q, e)
    <2>1. /\ Submittable(q, e) => req'[w] = r1
          /\ ~Submittable(q, e) => req'[w] = r2
      BY Types DEF Look
    <2>2. /\ r1.at = "send" /\ r1.job = q /\ r1.device = [req[w].device EXCEPT ![e] = "pending"]
          /\ r2.at = "send" /\ r2.job = q /\ r2.device = [req[w].device EXCEPT ![e] = "done"]
          /\ r1.device[e] = "pending" /\ r2.device[e] = "done"
      BY <1>1 DEF Request, At
    <2> HIDE DEF r1, r2
    <2> QED
      BY <2>1, <2>2
  <1>7. Again(q, e)' <=> Again(q, e)
    BY <1>4, <1>5, <1>6 DEF Again
  <1>8. Offer(w, e)' => Offer(w, e)
    BY <1>1, <1>6, <1>7 DEF Offer, Answering, Answers, Again, Submittable, At
  <1>9. Undecided(w, e)
    BY <1>1 DEF Undecided
  <1>10. /\ Count(Offer(w, e)') <= Count(Offer(w, e)) /\ Count(Offer(w, e)) \in {0, 1} /\ Count(Offer(w, e)') \in {0, 1}
         /\ Count(Undecided(w, e)') \in {0, 1} /\ Count(Undecided(w, e)) = 1
         /\ Count(Again(q, e)' /\ ~Again(q, e)) = 0
    BY <1>7, <1>8, <1>9 DEF Count
  <1>11. got[q][e] \in Nat /\ faults \in Nat /\ step \in DeviceSteps
    BY <1>1, Numbers DEF DeviceSteps
  <1> QED
    BY <1>1, <1>3, <1>5, <1>6, <1>10, <1>11, DeviceCopies

\* FCM accepts a copy: the chance is used up, or a fault hides the answer.
LEMMA SubmitCopies ==
    ASSUME TypeOK, TypeOK', Queue, NEW w \in Workers, NEW e \in Devices, Submit(w, e),
           NEW p \in Jobs, NEW d \in Devices, Covered(p, d)
    PROVE  Covered(p, d)'
  <1> DEFINE r1 == [req[w] EXCEPT !.device[e] = "done", !.failed = TRUE]
             r2(answer) == [req[w] EXCEPT !.device[e] = answer]
  <1>a. PICK q \in Jobs : q = req[w].job
    BY AtJob DEF Submit, At, Busy
  <1>1. Busy(w) /\ req[w] \in Request /\ At(w, "send") /\ req[w].device[e] = "pending"
    BY AtJob DEF Submit, At, Busy
  <1>2. delivery[q][e] \in DeliveryDoc /\ got[q][e] \in Nat
    BY Types
  <1>3. job' = job /\ (Fault \/ UNCHANGED faults) /\ OnlyReq(w)
    BY SubmitStep DEF Submit
  <1>4. faults \in Nat /\ faults' \in Nat /\ faults <= faults' /\ (Fault => faults' = faults + 1)
    BY <1>3, FaultGrows DEF Fault
  <1>5. Undecided(w, e) /\ Offer(w, e)
    BY <1>1 DEF Undecided, Offer, Answering
  <1>6. CASE e \notin active
    <2> DEFINE doc == [delivery[q][e] EXCEPT !.status = "SKIPPED"]
    <2>1. req'[w] = r1 /\ delivery' = [delivery EXCEPT ![q][e] = doc] /\ got' = got /\ faults' = faults
      BY <1>6, <1>a, Types DEF Submit
    <2>2. doc.status = "SKIPPED"
      BY <1>2 DEF DeliveryDoc
    <2> HIDE DEF doc
    <2>3. /\ delivery'[q][e] = doc
          /\ \A j \in Jobs, f \in Devices : j # q \/ f # e =>
                got'[j][f] = got[j][f] /\ delivery'[j][f] = delivery[j][f]
      BY <2>1, Types
    <2>4. r1.at = "send" /\ r1.job = q /\ r1.device = [req[w].device EXCEPT ![e] = "done"] /\ r1.device[e] = "done"
      BY <1>1, <1>a DEF Request, At
    <2> HIDE DEF r1
    <2>5. ~(Again(q, e)') /\ ~(Offer(w, e)') /\ ~(Undecided(w, e)')
      BY <1>a, <2>1, <2>2, <2>3, <2>4 DEF Again, Offer, Answering, Answers, Undecided, At
    <2>6. /\ Count(Offer(w, e)') = 0 /\ Count(Offer(w, e)) = 1
          /\ Count(Undecided(w, e)') = 0 /\ Count(Undecided(w, e)) = 1
          /\ Count(Again(q, e)' /\ ~Again(q, e)) = 0
      BY <1>5, <2>5 DEF Count
    <2>7. "done" \in DeviceSteps
      BY DEF DeviceSteps
    <2>8. got'[q][e] = got[q][e]
      BY <2>1
    <2> HIDE DEF r2
    <2> QED
      BY <1>1, <1>2, <1>3, <1>4, <1>a, <2>1, <2>3, <2>4, <2>6, <2>7, <2>8, DeviceCopies
  <1>7. CASE e \in active
    <2> DEFINE n == got[q][e] + 1
    <2>1. PICK answer \in Answers :
            /\ req' = [req EXCEPT ![w] = r2(answer)]
            /\ \/ answer = "accepted" /\ got' = [got EXCEPT ![q][e] = n]
               \/ answer # "accepted" /\ got' = got
               \/ answer = "transient" /\ got' = [got EXCEPT ![q][e] = n] /\ Fault
      BY <1>7, <1>a DEF Submit, Answers
    <2>2. delivery' = delivery
      BY <1>7 DEF Submit
    <2>3. /\ r2(answer).at = "send" /\ r2(answer).job = q
          /\ r2(answer).device = [req[w].device EXCEPT ![e] = answer] /\ r2(answer).device[e] = answer
      BY <1>1, <1>a DEF Request, At
    <2> HIDE DEF r1, r2, n
    <2>4. req'[w] = r2(answer)
      BY <2>1, Types
    <2> DEFINE g == [got EXCEPT ![q][e] = n]
    <2>5. g[q][e] = n /\ \A j \in Jobs, f \in Devices : j # q \/ f # e => g[j][f] = got[j][f]
      BY Types
    <2>6. /\ \/ answer = "accepted" /\ got'[q][e] = n
             \/ answer # "accepted" /\ got'[q][e] = got[q][e]
             \/ answer = "transient" /\ got'[q][e] = n /\ Fault
          /\ \A j \in Jobs, f \in Devices : j # q \/ f # e => got'[j][f] = got[j][f]
      <3>1. \/ answer = "accepted" /\ got' = g
            \/ answer # "accepted" /\ got' = got
            \/ answer = "transient" /\ got' = g /\ Fault
        BY <2>1
      <3> HIDE DEF g
      <3> QED
        BY <2>5, <3>1
    <2>7. /\ Again(q, e)' <=> Again(q, e)
          /\ answer = "accepted" => ~(Offer(w, e)') /\ ~(Undecided(w, e)')
      BY <1>a, <2>2, <2>3, <2>4 DEF Again, Offer, Answering, Undecided, At
    <2>8. /\ Count(Offer(w, e)') \in {0, 1} /\ Count(Offer(w, e)) = 1
          /\ Count(Undecided(w, e)') \in {0, 1} /\ Count(Undecided(w, e)) = 1
          /\ Count(Again(q, e)' /\ ~Again(q, e)) = 0
          /\ answer = "accepted" => Count(Offer(w, e)') = 0 /\ Count(Undecided(w, e)') = 0
      BY <1>5, <2>7 DEF Count
    <2>9. /\ got'[q][e] + Count(Offer(w, e)') + faults <= got[q][e] + Count(Offer(w, e)) + faults'
          /\ got'[q][e] + Count(Undecided(w, e)') + Count(Again(q, e)' /\ ~Again(q, e)) + faults
                 <= got[q][e] + Count(Undecided(w, e)) + faults'
      BY <1>2, <1>4, <2>6, <2>8 DEF n
    <2>10. answer \in DeviceSteps
      BY DEF DeviceSteps
    <2>11. \A j \in Jobs, f \in Devices : j # q \/ f # e =>
              got'[j][f] = got[j][f] /\ delivery'[j][f] = delivery[j][f]
      BY <2>2, <2>6
    <2>12. /\ req'[w].at = "send" /\ req'[w].job = req[w].job
           /\ req'[w].device = [req[w].device EXCEPT ![e] = answer]
      BY <1>a, <2>3, <2>4
    <2> QED
      BY <1>1, <1>3, <1>4, <1>a, <2>9, <2>10, <2>11, <2>12, DeviceCopies
  <1> QED
    BY <1>6, <1>7

\* The answer is recorded: only one that asks for another try leaves a chance.
LEMMA RecordCopies ==
    ASSUME TypeOK, TypeOK', Queue, NEW w \in Workers, NEW e \in Devices, Record(w, e),
           NEW p \in Jobs, NEW d \in Devices, Covered(p, d)
    PROVE  Covered(p, d)'
  <1> DEFINE answer == req[w].device[e]
             status == Recorded(answer, req[w].tries[e])
  <1>a. PICK q \in Jobs : q = req[w].job
    BY AtJob DEF Record, At, Busy
  <1> DEFINE doc == [status |-> status, attempts |-> delivery[q][e].attempts + 1]
             r == [req[w] EXCEPT !.device[e] = "done", !.retry = @ \/ status = "PENDING",
                                 !.failed = @ \/ status \in {"EXHAUSTED", "FAILED"}]
  <1>1. Busy(w) /\ req[w] \in Request /\ At(w, "send") /\ answer \in Answers
    BY AtJob DEF Record, At, Busy
  <1>2. job' = job /\ got' = got /\ faults' = faults /\ OnlyReq(w)
    BY RecordStep DEF Record
  <1>3. req' = [req EXCEPT ![w] = r] /\ delivery' = [delivery EXCEPT ![q][e] = doc]
    BY <1>a DEF Record
  <1>4. status \in {"PENDING", "EXHAUSTED"} => answer = "transient"
    BY <1>1 DEF Recorded, Answers
  <1>5. status \in {"SUBMITTED", "FAILED", "EXHAUSTED", "PENDING"}
    BY DEF Recorded
  <1>6. doc.status = status
    OBVIOUS
  <1> HIDE DEF status
  <1>7. r.at = "send" /\ r.job = q /\ r.device = [req[w].device EXCEPT ![e] = "done"] /\ r.device[e] = "done"
    BY <1>1, <1>a DEF Request, At
  <1> HIDE DEF doc, r
  <1>8. /\ delivery'[q][e] = doc
        /\ \A j \in Jobs, f \in Devices : j # q \/ f # e =>
              got'[j][f] = got[j][f] /\ delivery'[j][f] = delivery[j][f]
    BY <1>2, <1>3, Types
  <1>9. req'[w] = r
    BY <1>3, Types
  <1>10. /\ Offer(w, e)' => Offer(w, e)
         /\ ~(Undecided(w, e)')
         /\ Again(q, e)' => Undecided(w, e)
    BY <1>1, <1>4, <1>5, <1>6, <1>7, <1>8, <1>9, <1>a DEF Offer, Answering, Answers, Again, Undecided, At
  <1>11. /\ Count(Offer(w, e)') <= Count(Offer(w, e)) /\ Count(Offer(w, e)) \in {0, 1} /\ Count(Offer(w, e)') \in {0, 1}
         /\ Count(Undecided(w, e)') = 0 /\ Count(Undecided(w, e)) \in {0, 1}
         /\ Count(Again(q, e)' /\ ~Again(q, e)) \in {0, 1}
         /\ Count(Again(q, e)' /\ ~Again(q, e)) <= Count(Undecided(w, e))
    BY <1>10 DEF Count
  <1>12. got[q][e] \in Nat /\ faults \in Nat /\ "done" \in DeviceSteps /\ faults <= faults'
    <2>1. got[q][e] \in Nat /\ faults \in Nat
      BY Numbers
    <2> QED
      BY <1>2, <2>1 DEF DeviceSteps
  <1>13. /\ got'[q][e] + Count(Offer(w, e)') + faults <= got[q][e] + Count(Offer(w, e)) + faults'
         /\ got'[q][e] + Count(Undecided(w, e)') + Count(Again(q, e)' /\ ~Again(q, e)) + faults
               <= got[q][e] + Count(Undecided(w, e)) + faults'
    BY <1>2, <1>11, <1>12
  <1>14. /\ req'[w].at = "send" /\ req'[w].job = req[w].job
         /\ req'[w].device = [req[w].device EXCEPT ![e] = "done"]
    BY <1>7, <1>9, <1>a
  <1> QED
    BY <1>1, <1>2, <1>8, <1>12, <1>13, <1>14, <1>a, DeviceCopies

LEMMA InitCopies == ASSUME Init PROVE Copies
  <1> SUFFICES ASSUME NEW p \in Jobs, NEW d \in Devices PROVE Covered(p, d)
    BY DEF Copies
  <1>1. \A w \in Workers : ~Busy(w)
    BY DEF Init, Idle, Busy
  <1>2. Stray(p, d) = {}
    BY <1>1 DEF Stray
  <1>3. Cardinality(Stray(p, d)) = 0
    BY <1>2, FS_EmptySet
  <1>4. ~Lapsing(p)
    BY <1>1 DEF Lapsing, Held
  <1>5. Count(Lapsing(p)) = 0 /\ Count(Chance(p, d)) \in {0, 1}
    BY <1>4 DEF Count
  <1>6. got[p][d] = 0 /\ faults = 0
    BY DEF Init
  <1> QED
    BY <1>3, <1>5, <1>6 DEF Covered

LEMMA CopiesStep == ASSUME IInv, IInv', Copies, Next PROVE Copies'
  <1>0. TypeOK /\ TypeOK' /\ Queue /\ Queue'
    BY DEF IInv
  <1> SUFFICES ASSUME NEW p \in Jobs, channel'[p] # "mail", NEW d \in Devices PROVE Covered(p, d)'
    BY DEF Copies
  <1>1. channel[p] # "mail"
    <2>1. \/ channel' = channel
          \/ \E j \in Jobs : SavePush(j) \/ SaveMail(j)
      <3>1. ASSUME NEW j \in Jobs, \/ RepairJob(j) \/ RepairMark(j) \/ LeaseLapses(j)
                                  \/ RetryJob(j) \/ RetryDeliveries(j)
            PROVE  channel' = channel
        BY <3>1 DEF RepairJob, RepairMark, LeaseLapses, RetryJob, RetryDeliveries
      <3>2. ASSUME NEW w \in Workers, \/ Tick(w) \/ SweepExhausted(w) \/ EndTick(w) \/ Crash(w)
                                     \/ SendMail(w) \/ Open(w) \/ Renew(w) \/ Judge(w) \/ Settle(w)
            PROVE  channel' = channel
        BY <3>2 DEF Tick, SweepExhausted, EndTick, Crash, SendMail, Open, Renew, Judge, Settle
      <3>3. ASSUME NEW w \in Workers, NEW j \in Jobs, Claim(w, j) PROVE channel' = channel
        BY <3>3 DEF Claim
      <3>4. ASSUME NEW w \in Workers, NEW e \in Devices, Look(w, e) \/ Submit(w, e) \/ Record(w, e)
            PROVE  channel' = channel
        BY <3>4 DEF Look, Submit, Record
      <3>5. ASSUME NEW e \in Devices, SignOut(e) PROVE channel' = channel
        BY <3>5 DEF SignOut
      <3> QED
        BY <3>1, <3>2, <3>3, <3>4, <3>5 DEF Next, Working
    <2>2. ASSUME NEW j \in Jobs, SavePush(j) \/ SaveMail(j) PROVE channel[p] # "mail"
      BY <1>0, <2>2, Types DEF SavePush, SaveMail
    <2> QED
      BY <2>1, <2>2
  <1>2. Covered(p, d)
    BY <1>1 DEF Copies
  <1>3. CASE \E w \in Workers : \/ SendMail(w) \/ Open(w) \/ Renew(w) \/ Judge(w) \/ Settle(w)
                                \/ \E e \in Devices : Look(w, e) \/ Submit(w, e) \/ Record(w, e)
    BY <1>0, <1>1, <1>2, <1>3, MailCopies, OpenCopies, RenewCopies, EndCopies, LookCopies, SubmitCopies, RecordCopies
  <1>4. CASE \E j \in Jobs : LeaseLapses(j)
    BY <1>0, <1>2, <1>4, LapseCopies
  <1>5. CASE \E w \in Workers : Tick(w) \/ Crash(w) \/ \E j \in Jobs : Claim(w, j)
    BY <1>0, <1>2, <1>5, TickCopies, CrashCopies, ClaimCopies
  <1>6. CASE \/ \E j \in Jobs : \/ SavePush(j) \/ SaveMail(j) \/ RepairJob(j) \/ RepairMark(j)
                                \/ RetryJob(j) \/ RetryDeliveries(j)
             \/ \E w \in Workers : SweepExhausted(w) \/ EndTick(w)
             \/ \E e \in Devices : SignOut(e)
    BY <1>0, <1>2, <1>6, OutsideCopies
  <1> QED
    BY <1>3, <1>4, <1>5, <1>6 DEF Next, Working

\* A device shows a push once, and once more for each crash, lapsed live lease
\* or lost answer at most: claims, retries by staff and retries for other
\* devices never repeat it (service.js, deliverPush; retry.js).
THEOREM FewDuplicates == Spec => []DuplicatesNeedFaults
  <1>1. Init => IInv /\ Copies
    BY InitIInv, InitCopies
  <1>2. IInv /\ IInv' /\ Copies /\ [Next]_vars => Copies'
    <2> SUFFICES ASSUME IInv, IInv', Copies, [Next]_vars PROVE Copies'
      OBVIOUS
    <2>1. ASSUME UNCHANGED vars PROVE Copies'
      BY <2>1 DEF vars, Copies, Covered, Stray, Busy, Undecided, At, Chance, Held, Answering, Again, Lapsing, Count
    <2> QED
      BY <2>1, CopiesStep
  <1>3. IInv /\ Copies => DuplicatesNeedFaults
    <2> SUFFICES ASSUME IInv, Copies, NEW p \in Jobs, IsPush(p), NEW d \in Devices
                 PROVE  got[p][d] <= 1 + faults
      BY DEF DuplicatesNeedFaults
    <2>1. Covered(p, d)
      BY DEF Copies, IsPush
    <2>2. Stray(p, d) \subseteq Workers /\ IsFiniteSet(Workers)
      BY WorkersAssumption DEF Stray
    <2>3. Cardinality(Stray(p, d)) \in Nat
      BY <2>2, Cards
    <2>4. got[p][d] \in Nat /\ faults \in Nat
      BY BoundsAssumption DEF IInv, TypeOK
    <2>5. Count(Chance(p, d)) \in {0, 1} /\ Count(Lapsing(p)) \in {0, 1}
      BY DEF Count
    <2> QED
      BY <2>1, <2>3, <2>4, <2>5 DEF Covered
  <1> QED
    BY <1>1, <1>2, <1>3, Inductive, PTL DEF Spec
=============================================================================
