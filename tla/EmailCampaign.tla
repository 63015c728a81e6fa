---------------------------- MODULE EmailCampaign ----------------------------
(***************************************************************************)
(* One newsletter campaign: confirmed and queued by an operator, sent in   *)
(* batches by the worker that every server runs each minute, under a lease *)
(* of fifteen minutes that a paused process can outlive.                   *)
(*                                                                         *)
(* SMTP has no idempotency key: a submission whose answer is lost may or   *)
(* may not have been accepted, so the worker must never submit twice.      *)
(* Contacts are numbered in the order of their _id; the ones that          *)
(* subscribe after the campaign is queued are outside the audience.        *)
(***************************************************************************)
EXTENDS Integers, FiniteSets

CONSTANTS
    Servers,    \* processes that run the worker
    Audience,   \* number of contacts subscribed when the campaign is queued
    Batch,      \* contacts enumerated, and recipients handled, per tick
    MaxFaults   \* bound: pauses of fifteen minutes, crashes and outages of SMTP

ASSUME AudienceAssumption == Audience \in Nat \ {0}
ASSUME BatchAssumption == Batch \in Nat \ {0}
ASSUME FaultsAssumption == MaxFaults \in Nat

VARIABLES
    campaign,   \* the EmailCampaign document
    recipient,  \* recipient[c]: the EmailCampaignRecipient of contact c
    subscribed, \* subscribed[c]: the contact matches audienceFilter
    mailed,     \* external: submissions for contact c that SMTP accepted
    run,        \* run[s]: where the worker of server s is, and what it read
    cancelling, \* the cancel handler is between its two writes
    faults      \* faults so far

vars == <<campaign, recipient, subscribed, mailed, run, cancelling, faults>>

Contacts == 1 .. Audience
NoServer == "no server"

CampaignStatus == {"draft", "queued", "sending", "completed", "cancelled"}
RecipientStatus == {"pending", "sending", "accepted", "failed", "unknown", "skipped"}
Steps == {"enumerate", "insert", "advance", "renew", "take", "recheck", "send",
          "record", "check", "complete", "skip", "unlock"}
Run == [at : Steps, cursor : 0 .. Audience, found : SUBSET Contacts, exhausted : BOOLEAN,
        job : 0 .. Audience, answer : {"none", "accepted", "rejected", "lost"}, left : 0 .. Batch]
Idle == [at |-> "idle"]
NoRecipient == [status |-> "none", old |-> FALSE]

At(s, step) == run[s].at = step
Goto(s, step) == run' = [run EXCEPT ![s].at = step]
Holds(s) == campaign.lock = s
Pending == {c \in Contacts : recipient[c].status = "pending"}

Fault == faults < MaxFaults /\ faults' = faults + 1
\* Only a live process has to be asleep for its time to run out.
Sleeps(alive) == IF alive THEN Fault ELSE UNCHANGED faults

-----------------------------------------------------------------------------
(* The operator: edit, review (which leaves a confirmation that any edit    *)
(* clears and ten minutes expire), queue, cancel.                           *)
Edit ==
    /\ campaign.status = "draft"
    /\ campaign.confirmed
    /\ campaign' = [campaign EXCEPT !.confirmed = FALSE]
    /\ UNCHANGED <<recipient, subscribed, mailed, run, cancelling, faults>>

Prepare ==
    /\ campaign.status = "draft"
    /\ \E c \in Contacts : subscribed[c]
    /\ campaign' = [campaign EXCEPT !.confirmed = TRUE]
    /\ UNCHANGED <<recipient, subscribed, mailed, run, cancelling, faults>>

Queue ==
    /\ campaign.status = "draft"
    /\ campaign.confirmed
    /\ campaign' = [campaign EXCEPT !.status = "queued", !.confirmed = FALSE]
    /\ UNCHANGED <<recipient, subscribed, mailed, run, cancelling, faults>>

Cancel ==
    /\ campaign.status \in {"queued", "sending"}
    /\ campaign' = [campaign EXCEPT !.status = "cancelled"]
    /\ cancelling' = TRUE
    /\ UNCHANGED <<recipient, subscribed, mailed, run, faults>>

SkipPending ==
    recipient' = [c \in Contacts |->
        IF c \in Pending THEN [recipient[c] EXCEPT !.status = "skipped"] ELSE recipient[c]]

CancelSkips ==
    /\ cancelling
    /\ SkipPending
    /\ cancelling' = FALSE
    /\ UNCHANGED <<campaign, subscribed, mailed, run, faults>>

Unsubscribe(c) ==
    /\ subscribed[c]
    /\ subscribed' = [subscribed EXCEPT ![c] = FALSE]
    /\ UNCHANGED <<campaign, recipient, mailed, run, cancelling, faults>>

-----------------------------------------------------------------------------
(* Fifteen minutes pass for the lease or for a claimed recipient.           *)
LockLapses ==
    /\ campaign.lock # NoServer
    /\ ~campaign.lapsed
    /\ campaign' = [campaign EXCEPT !.lapsed = TRUE]
    /\ Sleeps(run[campaign.lock] # Idle)
    /\ UNCHANGED <<recipient, subscribed, mailed, run, cancelling>>

ClaimAges(c) ==
    /\ recipient[c].status = "sending"
    /\ ~recipient[c].old
    /\ recipient' = [recipient EXCEPT ![c].old = TRUE]
    /\ Sleeps(\E s \in Servers : run[s] # Idle /\ run[s].job = c)
    /\ UNCHANGED <<campaign, subscribed, mailed, run, cancelling>>

-----------------------------------------------------------------------------
(* processEmailCampaigns.  Interrupted claims become unknown, never pending *)
(* again ...                                                                *)
\* Fault: a claim that is too old goes back to the queue.
SweptRequeued ==
    [c \in Contacts |-> IF recipient[c].status = "sending" /\ recipient[c].old
                          THEN [status |-> "pending", old |-> FALSE] ELSE recipient[c]]

Swept ==
    [c \in Contacts |-> IF recipient[c].status = "sending" /\ recipient[c].old
                          THEN [status |-> "unknown", old |-> FALSE] ELSE recipient[c]]

\* Fault: the lease of a dead worker is respected for ever.
ClaimableUnlocked ==
    /\ campaign.status \in {"queued", "sending"}
    /\ campaign.lock = NoServer

Claimable ==
    /\ campaign.status \in {"queued", "sending"}
    /\ campaign.lock = NoServer \/ campaign.lapsed

Tick(s) ==
    /\ run[s] = Idle
    /\ recipient' = Swept
    /\ IF Claimable
         THEN /\ campaign' = [campaign EXCEPT !.status = "sending", !.lock = s, !.lapsed = FALSE]
              /\ run' = [run EXCEPT ![s] = [at |-> "enumerate", cursor |-> campaign.cursor,
                            exhausted |-> campaign.exhausted, found |-> {}, job |-> 0,
                            answer |-> "none", left |-> Batch]]
         ELSE UNCHANGED <<campaign, run>>
    /\ UNCHANGED <<subscribed, mailed, cancelling, faults>>

(* ... a failed preflight leaves the work for a later tick ...              *)
PreflightFails(s) ==
    /\ At(s, "enumerate")
    /\ Fault
    /\ Goto(s, "skip")
    /\ UNCHANGED <<campaign, recipient, subscribed, mailed, cancelling>>

(* ... the next contacts behind the cursor become recipients ...            *)
Behind(cursor) == {c \in Contacts : c > cursor /\ subscribed[c]}
FirstOf(set, n) == {c \in set : Cardinality({d \in set : d < c}) < n}
LastOf(set) == CHOOSE c \in set : \A d \in set : d <= c

Enumerate(s) ==
    /\ At(s, "enumerate")
    /\ recipient' = Swept
    /\ IF run[s].exhausted
         THEN Goto(s, "renew")
         ELSE LET found == FirstOf(Behind(run[s].cursor), Batch)
              IN  run' = [run EXCEPT ![s].found = found,
                                     ![s].exhausted = (found = {}),
                                     ![s].at = IF found = {} THEN "advance" ELSE "insert"]
    /\ UNCHANGED <<campaign, subscribed, mailed, cancelling, faults>>

Insert(s) ==
    /\ At(s, "insert")
    /\ recipient' = [c \in Contacts |->
          IF c \in run[s].found /\ recipient[c] = NoRecipient
            THEN [status |-> "pending", old |-> FALSE] ELSE recipient[c]]
    /\ Goto(s, "advance")
    /\ UNCHANGED <<campaign, subscribed, mailed, cancelling, faults>>

Advance(s) ==
    /\ At(s, "advance")
    /\ campaign' = IF ~Holds(s) THEN campaign
                   ELSE IF run[s].exhausted THEN [campaign EXCEPT !.exhausted = TRUE]
                   ELSE [campaign EXCEPT !.cursor = LastOf(run[s].found)]
    /\ run' = [run EXCEPT ![s].at = "renew", ![s].found = {}]
    /\ UNCHANGED <<recipient, subscribed, mailed, cancelling, faults>>

-----------------------------------------------------------------------------
(* ... then, while the lease is held, one recipient at a time is claimed,   *)
(* rechecked, submitted and recorded.                                       *)
Keeps(s) == Holds(s) /\ campaign.status = "sending"

Renew(s) ==
    /\ At(s, "renew")
    /\ IF run[s].left > 0 /\ Keeps(s)
         THEN campaign' = [campaign EXCEPT !.lapsed = FALSE] /\ Goto(s, "take")
         ELSE UNCHANGED campaign /\ Goto(s, "check")
    /\ UNCHANGED <<recipient, subscribed, mailed, cancelling, faults>>

Take(s) ==
    /\ At(s, "take")
    /\ IF Pending = {}
         THEN Goto(s, "check") /\ UNCHANGED recipient
         ELSE LET c == CHOOSE d \in Pending : \A e \in Pending : d <= e
              IN  /\ recipient' = [recipient EXCEPT ![c] = [status |-> "sending", old |-> FALSE]]
                  /\ run' = [run EXCEPT ![s].at = "recheck", ![s].job = c]
    /\ UNCHANGED <<campaign, subscribed, mailed, cancelling, faults>>

\* The next round of the loop, with the recipient out of the worker's hands.
Loop(s) ==
    run' = [run EXCEPT ![s].at = "renew", ![s].job = 0, ![s].answer = "none", ![s].left = @ - 1]

Recheck(s) ==
    /\ At(s, "recheck")
    /\ IF Keeps(s) /\ subscribed[run[s].job]
         THEN Goto(s, "send") /\ UNCHANGED recipient
         ELSE recipient' = [recipient EXCEPT ![run[s].job].status = "skipped"] /\ Loop(s)
    /\ UNCHANGED <<campaign, subscribed, mailed, cancelling, faults>>

(* External: SMTP accepts or rejects a submission, or its answer is lost.   *)
Send(s) ==
    /\ At(s, "send")
    /\ \E accepted \in BOOLEAN, lost \in BOOLEAN :
          /\ mailed' = IF accepted THEN [mailed EXCEPT ![run[s].job] = @ + 1] ELSE mailed
          /\ run' = [run EXCEPT ![s].at = "record",
                        ![s].answer = IF lost THEN "lost" ELSE IF accepted THEN "accepted"
                                      ELSE "rejected"]
    /\ UNCHANGED <<campaign, recipient, subscribed, cancelling, faults>>

\* Fault: a lost answer counts as a rejection.
OutcomeTwoWay(answer) == IF answer = "accepted" THEN "accepted" ELSE "failed"

Outcome(answer) ==
    [accepted |-> "accepted", rejected |-> "failed", lost |-> "unknown", none |-> "unknown"][answer]

(* A recipient the server refused for good is suppressed as a subscriber.   *)
Record(s) ==
    LET c == run[s].job
    IN  /\ At(s, "record")
        /\ recipient' = IF recipient[c].status = "sending"
                          THEN [recipient EXCEPT ![c] = [status |-> Outcome(run[s].answer), old |-> FALSE]]
                          ELSE recipient
        /\ \/ UNCHANGED subscribed
           \/ /\ run[s].answer = "rejected"
              /\ subscribed' = [subscribed EXCEPT ![c] = FALSE]
        /\ Loop(s)
        /\ UNCHANGED <<campaign, mailed, cancelling, faults>>

-----------------------------------------------------------------------------
(* The campaign is complete when nobody is left to enumerate, send to or    *)
(* hear about; whatever happened, the run ends by skipping the recipients   *)
(* of a cancelled campaign and releasing its own lease.                     *)
\* Fault: recipients that another worker is sending to do not count.
DoneWithPending == Pending = {}

Done == \A c \in Contacts : recipient[c].status \notin {"pending", "sending"}

Check(s) ==
    /\ At(s, "check")
    /\ Goto(s, IF run[s].exhausted /\ Done THEN "complete" ELSE "skip")
    /\ UNCHANGED <<campaign, recipient, subscribed, mailed, cancelling, faults>>

Complete(s) ==
    /\ At(s, "complete")
    /\ campaign' = IF Keeps(s) THEN [campaign EXCEPT !.status = "completed"] ELSE campaign
    /\ Goto(s, "skip")
    /\ UNCHANGED <<recipient, subscribed, mailed, cancelling, faults>>

SkipCancelled(s) ==
    /\ At(s, "skip")
    /\ IF campaign.status = "cancelled" THEN SkipPending ELSE UNCHANGED recipient
    /\ Goto(s, "unlock")
    /\ UNCHANGED <<campaign, subscribed, mailed, cancelling, faults>>

Unlock(s) ==
    /\ At(s, "unlock")
    /\ campaign' = IF Holds(s) THEN [campaign EXCEPT !.lock = NoServer, !.lapsed = FALSE] ELSE campaign
    /\ run' = [run EXCEPT ![s] = Idle]
    /\ UNCHANGED <<recipient, subscribed, mailed, cancelling, faults>>

-----------------------------------------------------------------------------
Crash(s) ==
    /\ run[s] # Idle
    /\ Fault
    /\ run' = [run EXCEPT ![s] = Idle]
    /\ UNCHANGED <<campaign, recipient, subscribed, mailed, cancelling>>

Init ==
    /\ campaign = [status |-> "draft", confirmed |-> FALSE, cursor |-> 0, exhausted |-> FALSE,
                   lock |-> NoServer, lapsed |-> FALSE]
    /\ recipient = [c \in Contacts |-> NoRecipient]
    /\ subscribed = [c \in Contacts |-> TRUE]
    /\ mailed = [c \in Contacts |-> 0]
    /\ run = [s \in Servers |-> Idle]
    /\ cancelling = FALSE
    /\ faults = 0

Working(s) ==
    \/ Tick(s) \/ Enumerate(s) \/ Insert(s) \/ Advance(s)
    \/ Renew(s) \/ Take(s) \/ Recheck(s) \/ Send(s) \/ Record(s)
    \/ Check(s) \/ Complete(s) \/ SkipCancelled(s) \/ Unlock(s)

Next ==
    \/ Edit \/ Prepare \/ Queue \/ Cancel \/ CancelSkips \/ LockLapses
    \/ \E c \in Contacts : Unsubscribe(c) \/ ClaimAges(c)
    \/ \E s \in Servers : Working(s) \/ PreflightFails(s) \/ Crash(s)

Spec == Init /\ [][Next]_vars

(* Every server's cron ticks each minute and a tick runs to its end; the    *)
(* fifteen minutes of a lease or a claim pass.                              *)
FairSpec ==
    /\ Spec
    /\ WF_vars(LockLapses)
    /\ WF_vars(\E c \in Contacts : ClaimAges(c))
    /\ \A s \in Servers : WF_vars(Working(s))

-----------------------------------------------------------------------------
(* Types, with the bounds on pauses and crashes.                            *)
TypeOK ==
    /\ campaign \in [status : CampaignStatus, confirmed : BOOLEAN, cursor : 0 .. Audience,
                     exhausted : BOOLEAN, lock : Servers \cup {NoServer}, lapsed : BOOLEAN]
    /\ recipient \in [Contacts -> [status : RecipientStatus \cup {"none"}, old : BOOLEAN]]
    /\ subscribed \in [Contacts -> BOOLEAN]
    /\ mailed \in [Contacts -> Nat]
    /\ run \in [Servers -> Run \cup {Idle}]
    /\ cancelling \in BOOLEAN
    /\ faults \in 0 .. MaxFaults

(* README.md: interrupted send claims are never automatically resent.  No   *)
(* pause, crash or second server makes a contact receive the campaign       *)
(* twice (worker.js 20-30 and 43-65).                                       *)
MailedOnce == \A c \in Contacts : mailed[c] <= 1

(* The report is honest: accepted means SMTP took the mail; failed, skipped *)
(* and pending mean that it did not; only unknown leaves it open.           *)
ReportIsHonest ==
    \A c \in Contacts :
        /\ recipient[c].status = "accepted" => mailed[c] = 1
        /\ recipient[c].status \in {"none", "pending", "failed", "skipped"} => mailed[c] = 0

(* A completed campaign has reached its whole audience: every contact that  *)
(* is still subscribed has a recipient with a final status.                 *)
CompletedIsDone ==
    campaign.status = "completed" =>
        \A c \in Contacts : subscribed[c] =>
            recipient[c].status \in {"accepted", "failed", "unknown", "skipped"}

(* A queued campaign comes to its end, whatever dies or sleeps on the way.  *)
CampaignEnds == campaign.status \in {"queued", "sending"} ~> campaign.status \in {"completed", "cancelled"}
=============================================================================
