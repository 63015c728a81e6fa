-------------------------- MODULE EmailCampaign_proofs -------------------------
(***************************************************************************)
(* Proofs about EmailCampaign, for any number of servers, contacts and     *)
(* pauses and any batch size.                                              *)
(***************************************************************************)
EXTENDS EmailCampaign, FiniteSetTheorems, WellFoundedInduction, TLAPS

\* Where a worker has a recipient in its hands, and where it may take one.
HasJob(s) == run[s].at \in {"recheck", "send", "record"}
Takes(s) == run[s].at \in {"take", "recheck", "send", "record"}

\* What a worker counts on between two of its steps.
Placed ==
    \A s \in Servers :
        /\ Takes(s) => run[s].left > 0
        /\ At(s, "insert") => run[s].found # {}
        /\ At(s, "advance") => run[s].exhausted \/ run[s].found # {}

\* A recipient in a worker's hands was claimed by it alone and, until the
\* worker submits, nothing was sent to it; a sweep may have given it up as
\* unknown meanwhile, but nothing makes it pending again.
InHand ==
    /\ \A s \in Servers : HasJob(s) =>
          /\ run[s].job \in Contacts
          /\ recipient[run[s].job].status \in {"sending", "unknown"}
          /\ ~At(s, "record") => mailed[run[s].job] = 0
          /\ At(s, "record") =>
                /\ run[s].answer = "accepted" => mailed[run[s].job] = 1
                /\ run[s].answer = "rejected" => mailed[run[s].job] = 0
    /\ \A s, t \in Servers : HasJob(s) /\ HasJob(t) /\ run[s].job = run[t].job => s = t

Sent == InHand /\ MailedOnce /\ ReportIsHonest
IInv == TypeOK /\ Placed /\ Sent

-----------------------------------------------------------------------------
Below == OpToRel(<, Nat)

\* A set of contacts has a first and a last member.
LEMMA FirstExists == \A S \in SUBSET Contacts : S # {} => \E c \in S : \A d \in S : c <= d
  <1> SUFFICES ASSUME NEW S \in SUBSET Contacts, S # {} PROVE \E c \in S : \A d \in S : c <= d
    OBVIOUS
  <1>1. S \subseteq Nat
    BY AudienceAssumption DEF Contacts
  <1>2. \E c \in S : \A d \in S : ~(<<d, c>> \in Below)
    BY <1>1, NatLessThanWellFounded, WFMin DEF Below
  <1>3. \A c, d \in Nat : d < c => <<d, c>> \in Below
    BY DEF Below, OpToRel
  <1>4. PICK c \in S : \A d \in S : ~(<<d, c>> \in Below)
    BY <1>2
  <1>5. ASSUME NEW d \in S PROVE c <= d
    <2>1. ~(d < c)
      BY <1>1, <1>3, <1>4
    <2> QED
      BY <1>1, <2>1
  <1> QED
    BY <1>5

LEMMA LastExists == \A S \in SUBSET Contacts : S # {} => LastOf(S) \in S
  <1> SUFFICES ASSUME NEW S \in SUBSET Contacts, S # {} PROVE \E c \in S : \A d \in S : d <= c
    BY DEF LastOf
  <1> DEFINE T == {Audience + 1 - c : c \in S}
  <1>1. T \in SUBSET Contacts /\ T # {}
    <2>1. \A c \in S : Audience + 1 - c \in Contacts
      BY AudienceAssumption DEF Contacts
    <2> QED
      BY <2>1
  <1>2. PICK t \in T : \A u \in T : t <= u
    BY <1>1, FirstExists
  <1>3. PICK c \in S : t = Audience + 1 - c
    OBVIOUS
  <1>4. ASSUME NEW d \in S PROVE d <= c
    <2>1. Audience + 1 - d \in T
      OBVIOUS
    <2>2. t <= Audience + 1 - d
      BY <1>2, <2>1
    <2> QED
      BY <1>3, <2>2, AudienceAssumption DEF Contacts
  <1> QED
    BY <1>4

-----------------------------------------------------------------------------
CampaignDoc == [status : CampaignStatus, confirmed : BOOLEAN, cursor : 0 .. Audience,
                exhausted : BOOLEAN, lock : Servers \cup {NoServer}, lapsed : BOOLEAN]
RecipientDoc == [status : RecipientStatus \cup {"none"}, old : BOOLEAN]
Runs == [Servers -> Run \cup {Idle}]

\* What a step may do to the recipients without a mail: give up a claim, or
\* move one that was never submitted.
Milder ==
    \A c \in Contacts :
        \/ recipient'[c].status = recipient[c].status
        \/ recipient[c].status = "sending" /\ recipient'[c].status = "unknown"
        \/ /\ recipient[c].status \in {"none", "pending", "skipped"}
           /\ recipient'[c].status \in {"none", "pending", "skipped"}

\* Only the runs of server s move, and s ends the step without a recipient.
OnlyRun(s) == run' \in Runs /\ \A t \in Servers \ {s} : run'[t] = run[t]

LEMMA AtWork == ASSUME TypeOK, NEW s \in Servers, NEW step \in Steps, At(s, step) PROVE run[s] \in Run
  BY DEF TypeOK, At, Idle, Steps

LEMMA GotoTyped ==
    ASSUME TypeOK, NEW s \in Servers, NEW step \in Steps, run[s] \in Run, Goto(s, step)
    PROVE  OnlyRun(s) /\ run'[s] = [run[s] EXCEPT !.at = step]
  <1>1. [run[s] EXCEPT !.at = step] \in Run
    BY DEF Run
  <1> QED
    BY <1>1 DEF TypeOK, Goto, OnlyRun, Runs

LEMMA LoopTyped ==
    ASSUME TypeOK, NEW s \in Servers, run[s] \in Run, run[s].left > 0, Loop(s)
    PROVE  OnlyRun(s) /\ run'[s].at = "renew"
  <1> DEFINE r == [run[s] EXCEPT !.at = "renew", !.job = 0, !.answer = "none", !.left = @ - 1]
  <1>1. 0 \in 0 .. Audience /\ run[s].left - 1 \in 0 .. Batch
    BY AudienceAssumption, BatchAssumption DEF Run
  <1>2. r \in Run /\ r.at = "renew"
    BY <1>1 DEF Run, Steps
  <1>3. run' = [run EXCEPT ![s] = r]
    BY DEF Loop
  <1> HIDE DEF r
  <1> QED
    BY <1>2, <1>3 DEF TypeOK, OnlyRun, Runs

\* A step that moves no recipient into or out of a worker's hands keeps the
\* report honest.
LEMMA SentStays ==
    ASSUME Sent, mailed' = mailed, Milder,
           \A t \in Servers : HasJob(t)' => HasJob(t) /\ run'[t].job = run[t].job
                /\ run'[t].answer = run[t].answer /\ (At(t, "record")' <=> At(t, "record"))
    PROVE  Sent'
  <1>1. MailedOnce'
    BY DEF Sent, MailedOnce
  <1>2. ReportIsHonest'
    BY DEF Sent, ReportIsHonest, Milder
  <1>3. InHand'
    <2>1. ASSUME NEW t \in Servers, HasJob(t)'
          PROVE  /\ run'[t].job \in Contacts
                 /\ recipient'[run'[t].job].status \in {"sending", "unknown"}
                 /\ ~At(t, "record")' => mailed'[run'[t].job] = 0
                 /\ At(t, "record")' =>
                      /\ run'[t].answer = "accepted" => mailed'[run'[t].job] = 1
                      /\ run'[t].answer = "rejected" => mailed'[run'[t].job] = 0
      <3>1. run[t].job \in Contacts /\ recipient[run[t].job].status \in {"sending", "unknown"}
        BY <2>1 DEF Sent, InHand
      <3>2. recipient'[run[t].job].status \in {"sending", "unknown"}
        BY <3>1 DEF Milder
      <3> QED
        BY <2>1, <3>1, <3>2 DEF Sent, InHand
    <2>2. \A t, u \in Servers : HasJob(t)' /\ HasJob(u)' /\ run'[t].job = run'[u].job => t = u
      BY DEF Sent, InHand
    <2> QED
      BY <2>1, <2>2 DEF InHand
  <1> QED
    BY <1>1, <1>2, <1>3 DEF Sent

\* The same for a step of server s that ends without a recipient.
LEMMA Quiet ==
    ASSUME IInv, NEW s \in Servers, OnlyRun(s), mailed' = mailed, Milder, ~HasJob(s)',
           Takes(s)' => run'[s].left > 0,
           At(s, "insert")' => run'[s].found # {},
           At(s, "advance")' => run'[s].exhausted \/ run'[s].found # {}
    PROVE  Placed' /\ Sent'
  <1>1. Placed'
    BY DEF IInv, Placed, OnlyRun, Takes, At
  <1>2. \A t \in Servers : HasJob(t)' => t # s
    BY DEF HasJob
  <1>3. Sent'
    BY <1>2, SentStays DEF IInv, OnlyRun, HasJob, At
  <1> QED
    BY <1>1, <1>3

\* The sweep of interrupted claims gives them up.
LEMMA SweepsDown == ASSUME TypeOK, recipient' = Swept PROVE recipient' \in [Contacts -> RecipientDoc] /\ Milder
  <1>1. recipient \in [Contacts -> RecipientDoc]
    BY DEF TypeOK, RecipientDoc
  <1> QED
    BY <1>1 DEF Swept, Milder, RecipientDoc, RecipientStatus

LEMMA SkipsDown == ASSUME TypeOK, SkipPending PROVE recipient' \in [Contacts -> RecipientDoc] /\ Milder
  <1>1. recipient \in [Contacts -> RecipientDoc]
    BY DEF TypeOK, RecipientDoc
  <1> QED
    BY <1>1 DEF SkipPending, Pending, Milder, RecipientDoc, RecipientStatus

LEMMA MilderSame == ASSUME recipient' = recipient PROVE Milder
  BY DEF Milder

LEMMA Types ==
    TypeOK <=> /\ campaign \in CampaignDoc
               /\ recipient \in [Contacts -> RecipientDoc]
               /\ subscribed \in [Contacts -> BOOLEAN]
               /\ mailed \in [Contacts -> Nat]
               /\ run \in Runs
               /\ cancelling \in BOOLEAN
               /\ faults \in 0 .. MaxFaults
  BY DEF TypeOK, CampaignDoc, RecipientDoc, Runs

-----------------------------------------------------------------------------
\* A tick: the sweep, and the lease if it is free.
LEMMA TickStep == ASSUME IInv, NEW s \in Servers, Tick(s) PROVE IInv'
  <1>0. TypeOK
    BY DEF IInv
  <1>1. recipient' = Swept /\ mailed' = mailed /\ UNCHANGED <<subscribed, cancelling, faults>>
    BY DEF Tick
  <1>2. recipient' \in [Contacts -> RecipientDoc] /\ Milder
    BY <1>0, <1>1, SweepsDown
  <1>3. campaign \in CampaignDoc /\ run \in Runs
    BY <1>0, Types
  <1>4. CASE Claimable
    <2> DEFINE r == [at |-> "enumerate", cursor |-> campaign.cursor, exhausted |-> campaign.exhausted,
                     found |-> {}, job |-> 0, answer |-> "none", left |-> Batch]
    <2>1. run' = [run EXCEPT ![s] = r]
      BY <1>4 DEF Tick
    <2>2. campaign' = [campaign EXCEPT !.status = "sending", !.lock = s, !.lapsed = FALSE]
      BY <1>4 DEF Tick
    <2>3. campaign' \in CampaignDoc
      BY <1>3, <2>2 DEF CampaignDoc, CampaignStatus
    <2>4. r \in Run /\ r.at = "enumerate"
      BY <1>3, AudienceAssumption, BatchAssumption DEF CampaignDoc, Run, Steps
    <2> HIDE DEF r
    <2>5. OnlyRun(s) /\ run'[s].at = "enumerate"
      BY <1>3, <2>1, <2>4 DEF OnlyRun, Runs
    <2>6. Placed' /\ Sent'
      BY <1>1, <1>2, <2>5, Quiet DEF HasJob, Takes, At
    <2>7. TypeOK'
      BY <1>0, <1>1, <1>2, <2>3, <2>5, Types DEF OnlyRun, CampaignDoc, RecipientDoc, Runs, TypeOK
    <2> QED
      BY <2>6, <2>7 DEF IInv
  <1>5. CASE ~Claimable
    <2>1. UNCHANGED <<campaign, run>>
      BY <1>5 DEF Tick
    <2>2. Sent'
      BY <1>1, <1>2, <2>1, SentStays DEF IInv, HasJob, At
    <2>3. Placed'
      BY <2>1 DEF IInv, Placed, Takes, At
    <2>4. TypeOK'
      BY <1>0, <1>1, <1>2, <2>1 DEF TypeOK, RecipientDoc
    <2> QED
      BY <2>2, <2>3, <2>4 DEF IInv
  <1> QED
    BY <1>4, <1>5

\* The steps of a run that enumerate the audience.
LEMMA EnumerateStep == ASSUME IInv, NEW s \in Servers, Enumerate(s) PROVE IInv'
  <1>0. TypeOK
    BY DEF IInv
  <1>1. recipient' = Swept /\ UNCHANGED <<campaign, subscribed, mailed, cancelling, faults>>
    BY DEF Enumerate
  <1>2. recipient' \in [Contacts -> RecipientDoc] /\ Milder
    BY <1>0, <1>1, SweepsDown
  <1>3. run[s] \in Run /\ run \in Runs
    BY <1>0, AtWork, Types DEF Enumerate, Steps
  <1>4. /\ OnlyRun(s) /\ ~HasJob(s)'
        /\ Takes(s)' => run'[s].left > 0
        /\ At(s, "insert")' => run'[s].found # {}
        /\ At(s, "advance")' => run'[s].exhausted \/ run'[s].found # {}
    <2>1. CASE run[s].exhausted
      <3>1. Goto(s, "renew")
        BY <2>1 DEF Enumerate
      <3>2. OnlyRun(s) /\ run'[s] = [run[s] EXCEPT !.at = "renew"]
        BY <1>0, <1>3, <3>1, GotoTyped DEF Steps
      <3>3. run'[s].at = "renew"
        BY <1>3, <3>2 DEF Run
      <3> QED
        BY <3>2, <3>3 DEF HasJob, Takes, At
    <2>2. CASE ~run[s].exhausted
      <3> DEFINE found == FirstOf(Behind(run[s].cursor), Batch)
                 r == [run[s] EXCEPT !.found = found, !.exhausted = (found = {}),
                                     !.at = IF found = {} THEN "advance" ELSE "insert"]
      <3>1. found \in SUBSET Contacts
        BY DEF FirstOf, Behind
      <3>2. run' = [run EXCEPT ![s] = r]
        BY <2>2 DEF Enumerate
      <3> HIDE DEF found
      <3>3. /\ r \in Run /\ r.found = found
            /\ r.at \in {"advance", "insert"}
            /\ r.at = "insert" => r.found # {}
            /\ r.at = "advance" => r.exhausted
        BY <1>3, <3>1 DEF Run, Steps
      <3> HIDE DEF r
      <3>4. OnlyRun(s) /\ run'[s] = r
        BY <1>3, <3>2, <3>3 DEF OnlyRun, Runs
      <3> QED
        BY <3>3, <3>4 DEF HasJob, Takes, At
    <2> QED
      BY <2>1, <2>2
  <1>5. Placed' /\ Sent'
    BY <1>1, <1>2, <1>4, Quiet
  <1>6. TypeOK'
    BY <1>0, <1>1, <1>2, <1>4 DEF TypeOK, OnlyRun, Runs, RecipientDoc
  <1> QED
    BY <1>5, <1>6 DEF IInv

LEMMA InsertStep == ASSUME IInv, NEW s \in Servers, Insert(s) PROVE IInv'
  <1>0. TypeOK
    BY DEF IInv
  <1>1. UNCHANGED <<campaign, subscribed, mailed, cancelling, faults>>
    BY DEF Insert
  <1>2. run[s] \in Run /\ run[s].found # {}
    BY <1>0, AtWork DEF Insert, Steps, IInv, Placed
  <1>3. recipient' \in [Contacts -> RecipientDoc] /\ Milder
    <2>1. recipient \in [Contacts -> RecipientDoc]
      BY <1>0, Types
    <2> QED
      BY <2>1 DEF Insert, Milder, RecipientDoc, RecipientStatus, NoRecipient
  <1>4. OnlyRun(s) /\ run'[s] = [run[s] EXCEPT !.at = "advance"]
    BY <1>0, <1>2, GotoTyped DEF Insert, Steps
  <1>5. run'[s].at = "advance" /\ run'[s].found # {}
    BY <1>2, <1>4 DEF Run
  <1>6. Placed' /\ Sent'
    BY <1>1, <1>3, <1>4, <1>5, Quiet DEF HasJob, Takes, At
  <1>7. TypeOK'
    BY <1>0, <1>1, <1>3, <1>4 DEF TypeOK, OnlyRun, Runs, RecipientDoc
  <1> QED
    BY <1>6, <1>7 DEF IInv

LEMMA AdvanceStep == ASSUME IInv, NEW s \in Servers, Advance(s) PROVE IInv'
  <1>0. TypeOK /\ campaign \in CampaignDoc /\ run \in Runs
    BY Types DEF IInv
  <1>1. UNCHANGED <<recipient, subscribed, mailed, cancelling, faults>>
    BY DEF Advance
  <1>2. run[s] \in Run /\ (run[s].exhausted \/ run[s].found # {})
    BY <1>0, AtWork DEF Advance, Steps, IInv, Placed
  <1>3. campaign' \in CampaignDoc
    <2>1. CASE run[s].exhausted \/ ~Holds(s)
      BY <1>0, <2>1 DEF Advance, CampaignDoc
    <2>2. CASE ~run[s].exhausted /\ Holds(s)
      <3>1. LastOf(run[s].found) \in Contacts
        BY <1>2, <2>2, LastExists DEF Run
      <3>2. LastOf(run[s].found) \in 0 .. Audience
        BY <3>1, AudienceAssumption DEF Contacts
      <3>3. campaign' = [campaign EXCEPT !.cursor = LastOf(run[s].found)]
        BY <2>2 DEF Advance
      <3> QED
        BY <1>0, <3>2, <3>3 DEF CampaignDoc
    <2> QED
      BY <2>1, <2>2
  <1>4. OnlyRun(s) /\ run'[s].at = "renew"
    <2> DEFINE r == [run[s] EXCEPT !.at = "renew", !.found = {}]
    <2>1. r \in Run /\ r.at = "renew"
      BY <1>2 DEF Run, Steps
    <2>2. run' = [run EXCEPT ![s] = r]
      BY DEF Advance
    <2> HIDE DEF r
    <2> QED
      BY <1>0, <2>1, <2>2 DEF OnlyRun, Runs
  <1>5. Placed' /\ Sent'
    BY <1>1, <1>4, MilderSame, Quiet DEF HasJob, Takes, At
  <1>6. TypeOK'
    BY <1>0, <1>1, <1>3, <1>4 DEF TypeOK, OnlyRun, Runs, CampaignDoc
  <1> QED
    BY <1>5, <1>6 DEF IInv

-----------------------------------------------------------------------------
\* The steps of a run that only look and go on.
Walks(s) == Check(s) \/ Complete(s) \/ SkipCancelled(s) \/ PreflightFails(s)

LEMMA WalkStep == ASSUME IInv, NEW s \in Servers, Walks(s) PROVE IInv'
  <1>0. TypeOK /\ campaign \in CampaignDoc
    BY Types DEF IInv
  <1>1. UNCHANGED <<subscribed, mailed, cancelling>>
    BY DEF Walks, Check, Complete, SkipCancelled, PreflightFails
  <1>2. run[s] \in Run
    BY <1>0, AtWork DEF Walks, Check, Complete, SkipCancelled, PreflightFails, Steps
  <1>3. \E step \in {"complete", "skip", "unlock"} : Goto(s, step)
    BY DEF Walks, Check, Complete, SkipCancelled, PreflightFails
  <1>4. OnlyRun(s) /\ run'[s].at \in {"complete", "skip", "unlock"}
    <2>1. PICK step \in {"complete", "skip", "unlock"} : Goto(s, step)
      BY <1>3
    <2>2. OnlyRun(s) /\ run'[s] = [run[s] EXCEPT !.at = step]
      BY <1>0, <1>2, <2>1, GotoTyped DEF Steps
    <2> QED
      BY <1>2, <2>2 DEF Run
  <1>5. recipient' \in [Contacts -> RecipientDoc] /\ Milder
    <2>1. recipient' = recipient \/ SkipPending
      BY DEF Walks, Check, Complete, SkipCancelled, PreflightFails
    <2> QED
      BY <1>0, <2>1, MilderSame, SkipsDown, Types
  <1>6. campaign' \in CampaignDoc
    BY <1>0 DEF Walks, Check, Complete, SkipCancelled, PreflightFails, CampaignDoc, CampaignStatus
  <1>7. faults' \in 0 .. MaxFaults
    BY <1>0, FaultsAssumption DEF Walks, Check, Complete, SkipCancelled, PreflightFails, Fault, TypeOK
  <1>8. Placed' /\ Sent'
    BY <1>1, <1>4, <1>5, Quiet DEF HasJob, Takes, At
  <1>9. TypeOK'
    BY <1>0, <1>1, <1>4, <1>5, <1>6, <1>7 DEF TypeOK, OnlyRun, Runs, CampaignDoc, RecipientDoc
  <1> QED
    BY <1>8, <1>9 DEF IInv

\* The run ends, or its server dies.
LEMMA EndStep == ASSUME IInv, NEW s \in Servers, Unlock(s) \/ Crash(s) PROVE IInv'
  <1>0. TypeOK /\ campaign \in CampaignDoc
    BY Types DEF IInv
  <1>1. UNCHANGED <<recipient, subscribed, mailed, cancelling>> /\ run' = [run EXCEPT ![s] = Idle]
    BY DEF Unlock, Crash
  <1>2. OnlyRun(s) /\ run'[s] = Idle
    BY <1>0, <1>1 DEF TypeOK, OnlyRun, Runs
  <1>3. campaign' \in CampaignDoc
    BY <1>0 DEF Unlock, Crash, CampaignDoc
  <1>4. faults' \in 0 .. MaxFaults
    BY <1>0, FaultsAssumption DEF Unlock, Crash, Fault, TypeOK
  <1>5. Placed' /\ Sent'
    BY <1>1, <1>2, MilderSame, Quiet DEF HasJob, Takes, At, Idle
  <1>6. TypeOK'
    BY <1>0, <1>1, <1>2, <1>3, <1>4 DEF TypeOK, OnlyRun, Runs, CampaignDoc
  <1> QED
    BY <1>5, <1>6 DEF IInv

LEMMA RenewStep == ASSUME IInv, NEW s \in Servers, Renew(s) PROVE IInv'
  <1>0. TypeOK /\ campaign \in CampaignDoc
    BY Types DEF IInv
  <1>1. UNCHANGED <<recipient, subscribed, mailed, cancelling, faults>>
    BY DEF Renew
  <1>2. run[s] \in Run
    BY <1>0, AtWork DEF Renew, Steps
  <1>3. OnlyRun(s) /\ (\/ run'[s].at = "take" /\ run'[s].left > 0
                       \/ run'[s].at = "check")
    <2>1. CASE run[s].left > 0 /\ Keeps(s)
      <3>1. OnlyRun(s) /\ run'[s] = [run[s] EXCEPT !.at = "take"]
        BY <1>0, <1>2, <2>1, GotoTyped DEF Renew, Steps
      <3> QED
        BY <1>2, <2>1, <3>1 DEF Run
    <2>2. CASE ~(run[s].left > 0 /\ Keeps(s))
      <3>1. OnlyRun(s) /\ run'[s] = [run[s] EXCEPT !.at = "check"]
        BY <1>0, <1>2, <2>2, GotoTyped DEF Renew, Steps
      <3> QED
        BY <1>2, <3>1 DEF Run
    <2> QED
      BY <2>1, <2>2
  <1>4. campaign' \in CampaignDoc
    BY <1>0 DEF Renew, CampaignDoc
  <1>5. Placed' /\ Sent'
    BY <1>1, <1>3, MilderSame, Quiet DEF HasJob, Takes, At
  <1>6. TypeOK'
    BY <1>0, <1>1, <1>3, <1>4 DEF TypeOK, OnlyRun, Runs, CampaignDoc
  <1> QED
    BY <1>5, <1>6 DEF IInv

-----------------------------------------------------------------------------
\* A recipient is claimed: it was pending, so nobody has it and nothing was
\* sent to it.
LEMMA TakeStep == ASSUME IInv, NEW s \in Servers, Take(s) PROVE IInv'
  <1>0. TypeOK /\ recipient \in [Contacts -> RecipientDoc] /\ run \in Runs
    BY Types DEF IInv
  <1>1. UNCHANGED <<campaign, subscribed, mailed, cancelling, faults>>
    BY DEF Take
  <1>2. run[s] \in Run /\ run[s].left > 0
    BY <1>0, AtWork DEF Take, Steps, IInv, Placed, Takes, At
  <1>3. CASE Pending = {}
    <2>1. OnlyRun(s) /\ run'[s] = [run[s] EXCEPT !.at = "check"]
      BY <1>0, <1>2, <1>3, GotoTyped DEF Take, Steps
    <2>2. run'[s].at = "check"
      BY <1>2, <2>1 DEF Run
    <2>3. recipient' = recipient
      BY <1>3 DEF Take
    <2>4. Placed' /\ Sent'
      BY <1>1, <2>1, <2>2, <2>3, MilderSame, Quiet DEF HasJob, Takes, At
    <2>5. TypeOK'
      BY <1>0, <1>1, <2>1, <2>3 DEF TypeOK, OnlyRun, Runs
    <2> QED
      BY <2>4, <2>5 DEF IInv
  <1>4. CASE Pending # {}
    <2> DEFINE c == CHOOSE d \in Pending : \A e \in Pending : d <= e
               r == [run[s] EXCEPT !.at = "recheck", !.job = c]
    <2>1. c \in Pending
      <3>1. \E d \in Pending : \A e \in Pending : d <= e
        BY <1>4, FirstExists DEF Pending
      <3> QED
        BY <3>1
    <2>2. /\ recipient' = [recipient EXCEPT ![c] = [status |-> "sending", old |-> FALSE]]
          /\ run' = [run EXCEPT ![s] = r]
      BY <1>4 DEF Take
    <2> HIDE DEF c
    <2>3. c \in Contacts /\ c \in 0 .. Audience /\ recipient[c].status = "pending"
      BY <2>1, AudienceAssumption DEF Pending, Contacts
    <2>4. r \in Run /\ r.at = "recheck" /\ r.job = c /\ r.left > 0
      BY <1>2, <2>3 DEF Run, Steps
    <2> HIDE DEF r
    <2>5. OnlyRun(s) /\ run'[s] = r
      BY <1>0, <2>2, <2>4 DEF OnlyRun, Runs
    <2>6. /\ recipient' \in [Contacts -> RecipientDoc] /\ recipient'[c].status = "sending"
          /\ \A d \in Contacts \ {c} : recipient'[d] = recipient[d]
      BY <1>0, <2>2, <2>3 DEF RecipientDoc, RecipientStatus
    <2>7. mailed[c] = 0
      BY <2>3 DEF IInv, Sent, ReportIsHonest
    <2>8. \A t \in Servers : HasJob(t) => run[t].job \in Contacts \ {c}
      BY <2>3 DEF IInv, Sent, InHand
    <2>9. \A t \in Servers \ {s} : HasJob(t)' => HasJob(t) /\ run'[t] = run[t]
      BY <2>5 DEF HasJob, OnlyRun
    <2>10. InHand'
      <3>1. ASSUME NEW t \in Servers, HasJob(t)'
            PROVE  /\ run'[t].job \in Contacts
                   /\ recipient'[run'[t].job].status \in {"sending", "unknown"}
                   /\ ~At(t, "record")' => mailed'[run'[t].job] = 0
                   /\ At(t, "record")' =>
                        /\ run'[t].answer = "accepted" => mailed'[run'[t].job] = 1
                        /\ run'[t].answer = "rejected" => mailed'[run'[t].job] = 0
        <4>1. CASE t = s
          BY <1>1, <2>3, <2>4, <2>5, <2>6, <2>7, <4>1 DEF At
        <4>2. CASE t # s
          <5>1. HasJob(t) /\ run'[t] = run[t] /\ recipient'[run[t].job] = recipient[run[t].job]
            BY <2>6, <2>8, <2>9, <3>1, <4>2
          <5> QED
            BY <1>1, <5>1 DEF IInv, Sent, InHand, At
        <4> QED
          BY <4>1, <4>2
      <3>2. ASSUME NEW t \in Servers, NEW u \in Servers, HasJob(t)', HasJob(u)', run'[t].job = run'[u].job
            PROVE  t = u
        BY <2>4, <2>5, <2>8, <2>9, <3>2 DEF IInv, Sent, InHand
      <3> QED
        BY <3>1, <3>2 DEF InHand
    <2>11. MailedOnce' /\ ReportIsHonest'
      BY <1>1, <2>6 DEF IInv, Sent, MailedOnce, ReportIsHonest
    <2>12. Placed'
      BY <2>4, <2>5 DEF IInv, Placed, OnlyRun, Takes, At
    <2>13. TypeOK'
      BY <1>0, <1>1, <2>5, <2>6 DEF TypeOK, OnlyRun, Runs, RecipientDoc
    <2> QED
      BY <2>10, <2>11, <2>12, <2>13 DEF IInv, Sent
  <1> QED
    BY <1>3, <1>4

\* A worker has recipient c in its hands and puts it down, unless it goes on
\* to submit: in what follows, only c and the run of s change.
LEMMA OnlyJob ==
    ASSUME IInv, NEW s \in Servers, HasJob(s), OnlyRun(s),
           \A d \in Contacts \ {run[s].job} : mailed'[d] = mailed[d] /\ recipient'[d] = recipient[d],
           HasJob(s)' =>
              /\ run'[s].job = run[s].job
              /\ recipient'[run[s].job].status \in {"sending", "unknown"}
              /\ ~At(s, "record")' => mailed'[run[s].job] = 0
              /\ At(s, "record")' =>
                    /\ run'[s].answer = "accepted" => mailed'[run[s].job] = 1
                    /\ run'[s].answer = "rejected" => mailed'[run[s].job] = 0
    PROVE  InHand'
  <1> DEFINE c == run[s].job
  <1>1. \A t \in Servers \ {s} : HasJob(t)' => HasJob(t) /\ run'[t] = run[t] /\ run[t].job \in Contacts \ {c}
    BY DEF HasJob, OnlyRun, IInv, Sent, InHand
  <1>2. c \in Contacts
    BY DEF IInv, Sent, InHand
  <1>3. ASSUME NEW t \in Servers, HasJob(t)'
        PROVE  /\ run'[t].job \in Contacts
               /\ recipient'[run'[t].job].status \in {"sending", "unknown"}
               /\ ~At(t, "record")' => mailed'[run'[t].job] = 0
               /\ At(t, "record")' =>
                    /\ run'[t].answer = "accepted" => mailed'[run'[t].job] = 1
                    /\ run'[t].answer = "rejected" => mailed'[run'[t].job] = 0
    <2>1. CASE t = s
      BY <1>2, <1>3, <2>1
    <2>2. CASE t # s
      <3>1. /\ HasJob(t) /\ run'[t] = run[t] /\ run[t].job \in Contacts
            /\ recipient'[run[t].job] = recipient[run[t].job]
            /\ mailed'[run[t].job] = mailed[run[t].job]
        BY <1>1, <1>3, <2>2
      <3> QED
        BY <3>1 DEF IInv, Sent, InHand, At
    <2> QED
      BY <2>1, <2>2
  <1>4. ASSUME NEW t \in Servers, NEW u \in Servers, HasJob(t)', HasJob(u)', run'[t].job = run'[u].job
        PROVE  t = u
    BY <1>1, <1>4 DEF IInv, Sent, InHand
  <1> QED
    BY <1>3, <1>4 DEF InHand

LEMMA RecheckStep == ASSUME IInv, NEW s \in Servers, Recheck(s) PROVE IInv'
  <1> DEFINE c == run[s].job
  <1>0. TypeOK /\ recipient \in [Contacts -> RecipientDoc]
    BY Types DEF IInv
  <1>1. UNCHANGED <<campaign, subscribed, mailed, cancelling, faults>>
    BY DEF Recheck
  <1>2. run[s] \in Run /\ run[s].left > 0 /\ run[s].at = "recheck" /\ HasJob(s)
    BY <1>0, AtWork DEF Recheck, Steps, IInv, Placed, Takes, HasJob, At
  <1>3. c \in Contacts /\ recipient[c].status \in {"sending", "unknown"} /\ mailed[c] = 0
    BY <1>2 DEF IInv, Sent, InHand, At
  <1>4. CASE Keeps(s) /\ subscribed[c]
    <2>1. OnlyRun(s) /\ run'[s] = [run[s] EXCEPT !.at = "send"]
      BY <1>0, <1>2, <1>4, GotoTyped DEF Recheck, Steps
    <2>2. run'[s].at = "send" /\ run'[s].job = c /\ run'[s].left > 0
      BY <1>2, <2>1 DEF Run
    <2>3. recipient' = recipient
      BY <1>4 DEF Recheck
    <2>4. InHand'
      BY <1>1, <1>2, <1>3, <2>1, <2>2, <2>3, OnlyJob DEF At
    <2>5. MailedOnce' /\ ReportIsHonest'
      BY <1>1, <2>3 DEF IInv, Sent, MailedOnce, ReportIsHonest
    <2>6. Placed'
      BY <2>1, <2>2 DEF IInv, Placed, OnlyRun, Takes, At
    <2>7. TypeOK'
      BY <1>0, <1>1, <2>1, <2>3 DEF TypeOK, OnlyRun, Runs
    <2> QED
      BY <2>4, <2>5, <2>6, <2>7 DEF IInv, Sent
  <1>5. CASE ~(Keeps(s) /\ subscribed[c])
    <2>1. recipient' = [recipient EXCEPT ![c].status = "skipped"] /\ Loop(s)
      BY <1>5 DEF Recheck
    <2>2. OnlyRun(s) /\ run'[s].at = "renew"
      BY <1>0, <1>2, <2>1, LoopTyped
    <2>3. /\ recipient' \in [Contacts -> RecipientDoc] /\ recipient'[c].status = "skipped"
          /\ \A d \in Contacts \ {c} : recipient'[d] = recipient[d]
      BY <1>0, <1>3, <2>1 DEF RecipientDoc, RecipientStatus
    <2>4. InHand'
      BY <1>1, <1>2, <2>2, <2>3, OnlyJob DEF HasJob
    <2>5. MailedOnce' /\ ReportIsHonest'
      BY <1>1, <1>3, <2>3 DEF IInv, Sent, MailedOnce, ReportIsHonest
    <2>6. Placed'
      BY <2>2 DEF IInv, Placed, OnlyRun, Takes, At
    <2>7. TypeOK'
      BY <1>0, <1>1, <2>2, <2>3 DEF TypeOK, OnlyRun, Runs, RecipientDoc
    <2> QED
      BY <2>4, <2>5, <2>6, <2>7 DEF IInv, Sent
  <1> QED
    BY <1>4, <1>5

LEMMA SendStep == ASSUME IInv, NEW s \in Servers, Send(s) PROVE IInv'
  <1> DEFINE c == run[s].job
  <1>0. TypeOK /\ mailed \in [Contacts -> Nat] /\ run \in Runs
    BY Types DEF IInv
  <1>1. UNCHANGED <<campaign, recipient, subscribed, cancelling, faults>>
    BY DEF Send
  <1>2. run[s] \in Run /\ run[s].left > 0 /\ run[s].at = "send" /\ HasJob(s)
    BY <1>0, AtWork DEF Send, Steps, IInv, Placed, Takes, HasJob, At
  <1>3. c \in Contacts /\ recipient[c].status \in {"sending", "unknown"} /\ mailed[c] = 0
    BY <1>2 DEF IInv, Sent, InHand, At
  <1>4. PICK accepted \in BOOLEAN, lost \in BOOLEAN :
          /\ mailed' = IF accepted THEN [mailed EXCEPT ![c] = @ + 1] ELSE mailed
          /\ run' = [run EXCEPT ![s].at = "record",
                        ![s].answer = IF lost THEN "lost" ELSE IF accepted THEN "accepted" ELSE "rejected"]
    BY DEF Send
  <1>5. /\ mailed' \in [Contacts -> Nat] /\ mailed'[c] = IF accepted THEN 1 ELSE 0
        /\ \A d \in Contacts \ {c} : mailed'[d] = mailed[d]
    BY <1>0, <1>3, <1>4
  <1> DEFINE answer == IF lost THEN "lost" ELSE IF accepted THEN "accepted" ELSE "rejected"
             r == [run[s] EXCEPT !.at = "record", !.answer = answer]
  <1>6. /\ r \in Run /\ r.at = "record" /\ r.job = c /\ r.left > 0
        /\ r.answer = "accepted" => accepted
        /\ r.answer = "rejected" => ~accepted
    BY <1>2 DEF Run, Steps
  <1>7. run' = [run EXCEPT ![s] = r]
    BY <1>4
  <1> HIDE DEF r, answer
  <1>8. OnlyRun(s) /\ run'[s] = r
    BY <1>0, <1>6, <1>7 DEF OnlyRun, Runs
  <1>9. InHand'
    BY <1>1, <1>2, <1>3, <1>5, <1>6, <1>8, OnlyJob DEF At
  <1>10. MailedOnce' /\ ReportIsHonest'
    BY <1>1, <1>3, <1>5 DEF IInv, Sent, MailedOnce, ReportIsHonest
  <1>11. Placed'
    BY <1>6, <1>8 DEF IInv, Placed, OnlyRun, Takes, At
  <1>12. TypeOK'
    BY <1>0, <1>1, <1>5, <1>8 DEF TypeOK, OnlyRun, Runs
  <1> QED
    BY <1>9, <1>10, <1>11, <1>12 DEF IInv, Sent

LEMMA RecordStep == ASSUME IInv, NEW s \in Servers, Record(s) PROVE IInv'
  <1> DEFINE c == run[s].job
  <1>0. TypeOK /\ recipient \in [Contacts -> RecipientDoc] /\ subscribed \in [Contacts -> BOOLEAN]
    BY Types DEF IInv
  <1>1. UNCHANGED <<campaign, mailed, cancelling, faults>> /\ Loop(s)
    BY DEF Record
  <1>2. run[s] \in Run /\ run[s].left > 0 /\ run[s].at = "record" /\ HasJob(s)
    BY <1>0, AtWork DEF Record, Steps, IInv, Placed, Takes, HasJob, At
  <1>3. /\ c \in Contacts /\ recipient[c].status \in {"sending", "unknown"}
        /\ run[s].answer = "accepted" => mailed[c] = 1
        /\ run[s].answer = "rejected" => mailed[c] = 0
    BY <1>2 DEF IInv, Sent, InHand, At
  <1>4. OnlyRun(s) /\ run'[s].at = "renew"
    BY <1>0, <1>1, <1>2, LoopTyped
  <1>5. run[s].answer \in {"none", "accepted", "rejected", "lost"}
    BY <1>2 DEF Run
  <1>6. /\ Outcome(run[s].answer) \in RecipientStatus \ {"none", "pending", "skipped"}
        /\ Outcome(run[s].answer) = "accepted" => mailed[c] = 1
        /\ Outcome(run[s].answer) = "failed" => mailed[c] = 0
    BY <1>3, <1>5 DEF Outcome, RecipientStatus
  <1>7. /\ recipient' \in [Contacts -> RecipientDoc]
        /\ recipient'[c].status \in {Outcome(run[s].answer), "unknown"}
        /\ \A d \in Contacts \ {c} : recipient'[d] = recipient[d]
    BY <1>0, <1>3, <1>6 DEF Record, RecipientDoc
  <1>8. InHand'
    BY <1>1, <1>2, <1>4, <1>7, OnlyJob DEF HasJob
  <1>9. MailedOnce' /\ ReportIsHonest'
    BY <1>1, <1>6, <1>7 DEF IInv, Sent, MailedOnce, ReportIsHonest
  <1>10. Placed'
    BY <1>4 DEF IInv, Placed, OnlyRun, Takes, At
  <1>11. subscribed' \in [Contacts -> BOOLEAN]
    BY <1>0 DEF Record
  <1>12. TypeOK'
    BY <1>0, <1>1, <1>4, <1>7, <1>11 DEF TypeOK, OnlyRun, Runs, RecipientDoc
  <1> QED
    BY <1>8, <1>9, <1>10, <1>12 DEF IInv, Sent

-----------------------------------------------------------------------------
\* The operator, the contacts and time.
Outside ==
    \/ Edit \/ Prepare \/ Queue \/ Cancel \/ CancelSkips \/ LockLapses
    \/ \E c \in Contacts : Unsubscribe(c) \/ ClaimAges(c)

LEMMA OutsideStep == ASSUME IInv, Outside PROVE IInv'
  <1>0. TypeOK /\ campaign \in CampaignDoc /\ recipient \in [Contacts -> RecipientDoc]
    BY Types DEF IInv
  <1>1. UNCHANGED <<mailed, run>>
    BY DEF Outside, Edit, Prepare, Queue, Cancel, CancelSkips, LockLapses, Unsubscribe, ClaimAges
  <1>2. campaign' \in CampaignDoc
    BY <1>0 DEF Outside, Edit, Prepare, Queue, Cancel, CancelSkips, LockLapses, Unsubscribe, ClaimAges,
                CampaignDoc, CampaignStatus
  <1>3. recipient' \in [Contacts -> RecipientDoc] /\ Milder
    <2>1. CASE recipient' = recipient
      BY <1>0, <2>1, MilderSame
    <2>2. CASE CancelSkips
      BY <1>0, <2>2, SkipsDown DEF CancelSkips
    <2>3. ASSUME NEW c \in Contacts, ClaimAges(c) PROVE recipient' \in [Contacts -> RecipientDoc] /\ Milder
      BY <1>0, <2>3 DEF ClaimAges, Milder, RecipientDoc
    <2> QED
      BY <2>1, <2>2, <2>3 DEF Outside, Edit, Prepare, Queue, Cancel, LockLapses, Unsubscribe
  <1>4. faults' \in 0 .. MaxFaults
    BY <1>0, FaultsAssumption DEF Outside, Edit, Prepare, Queue, Cancel, CancelSkips, LockLapses,
                                  Unsubscribe, ClaimAges, Sleeps, Fault, TypeOK
  <1>5. subscribed' \in [Contacts -> BOOLEAN] /\ cancelling' \in BOOLEAN
    BY <1>0 DEF Outside, Edit, Prepare, Queue, Cancel, CancelSkips, LockLapses, Unsubscribe, ClaimAges, TypeOK
  <1>6. Sent'
    BY <1>1, <1>3, SentStays DEF IInv, HasJob, At
  <1>7. Placed'
    BY <1>1 DEF IInv, Placed, Takes, At
  <1>8. TypeOK'
    BY <1>0, <1>1, <1>2, <1>3, <1>4, <1>5 DEF TypeOK, CampaignDoc, RecipientDoc
  <1> QED
    BY <1>6, <1>7, <1>8 DEF IInv

LEMMA InitIInv == ASSUME Init PROVE IInv
  <1>1. \A s \in Servers : run[s] = Idle
    BY DEF Init
  <1>2. Placed /\ InHand
    BY <1>1 DEF Placed, InHand, HasJob, Takes, At, Idle
  <1>3. MailedOnce /\ ReportIsHonest
    BY DEF Init, MailedOnce, ReportIsHonest, NoRecipient
  <1>4. TypeOK
    <2>1. 0 \in 0 .. Audience /\ 0 \in 0 .. MaxFaults /\ 0 \in Nat
      BY AudienceAssumption, FaultsAssumption
    <2>2. campaign \in CampaignDoc
      BY <2>1 DEF Init, CampaignDoc, CampaignStatus
    <2>3. recipient \in [Contacts -> RecipientDoc]
      BY DEF Init, RecipientDoc, NoRecipient
    <2>4. mailed \in [Contacts -> Nat] /\ subscribed \in [Contacts -> BOOLEAN]
      BY <2>1 DEF Init
    <2> QED
      BY <2>1, <2>2, <2>3, <2>4, Types DEF Init, Runs
  <1> QED
    BY <1>2, <1>3, <1>4 DEF IInv, Sent

THEOREM Inductive == Spec => []IInv
  <1>1. Init => IInv
    BY InitIInv
  <1>2. IInv /\ [Next]_vars => IInv'
    <2> SUFFICES ASSUME IInv, [Next]_vars PROVE IInv'
      OBVIOUS
    <2>1. ASSUME NEW s \in Servers, Working(s) \/ PreflightFails(s) \/ Crash(s) PROVE IInv'
      BY <2>1, TickStep, EnumerateStep, InsertStep, AdvanceStep, RenewStep, TakeStep, RecheckStep,
         SendStep, RecordStep, WalkStep, EndStep DEF Working, Walks
    <2>2. ASSUME UNCHANGED vars PROVE IInv'
      BY <2>2 DEF vars, IInv, TypeOK, Placed, Sent, InHand, MailedOnce, ReportIsHonest, HasJob, Takes, At
    <2> QED
      BY <2>1, <2>2, OutsideStep DEF Next, Outside
  <1> QED
    BY <1>1, <1>2, PTL DEF Spec

\* The documents and what the workers remember keep their shape.
THEOREM CampaignTyped == Spec => []TypeOK
  <1>1. IInv => TypeOK
    BY DEF IInv
  <1> QED
    BY <1>1, Inductive, PTL

\* No contact receives the campaign twice (worker.js: interrupted claims are
\* never sent again).
THEOREM NobodyMailedTwice == Spec => []MailedOnce
  <1>1. IInv => MailedOnce
    BY DEF IInv, Sent
  <1> QED
    BY <1>1, Inductive, PTL

\* What the report says of a recipient is what happened to its mail.
THEOREM ReportHonest == Spec => []ReportIsHonest
  <1>1. IInv => ReportIsHonest
    BY DEF IInv, Sent
  <1> QED
    BY <1>1, Inductive, PTL

-----------------------------------------------------------------------------
(* Completeness: the enumeration leaves no subscriber behind.               *)

Final(c) == recipient[c].status \in {"accepted", "failed", "unknown", "skipped"}
AllFinal == \A c \in Contacts : subscribed[c] => Final(c)

\* Whoever is still subscribed, up to contact n, has a recipient.
Reached(n) == \A c \in Contacts : c <= n /\ subscribed[c] => recipient[c].status # "none"

\* What a worker remembers of the enumeration.
Surveyed(s) ==
    /\ Reached(run[s].cursor)
    /\ run[s].exhausted => Reached(Audience)
    /\ At(s, "insert") =>
          \A c \in Contacts : c <= LastOf(run[s].found) /\ subscribed[c] =>
              recipient[c].status # "none" \/ c \in run[s].found
    /\ At(s, "advance") /\ ~run[s].exhausted => Reached(LastOf(run[s].found))
    /\ At(s, "complete") => AllFinal

Survey ==
    /\ \A c \in Contacts : recipient[c].status = "none" => ~recipient[c].old
    /\ Reached(campaign.cursor)
    /\ campaign.exhausted => Reached(Audience)
    /\ campaign.status = "completed" => AllFinal
    /\ \A s \in Servers : run[s] # Idle => Surveyed(s)

\* Nobody subscribes to the queue again, and no recipient goes back.
Onward ==
    \A c \in Contacts :
        /\ subscribed'[c] => subscribed[c]
        /\ recipient[c].status # "none" => recipient'[c].status # "none"
        /\ Final(c) => Final(c)'
        /\ recipient'[c].status = "none" => ~recipient'[c].old

LEMMA ReachedStays == ASSUME Onward PROVE (\A n : Reached(n) => Reached(n)') /\ (AllFinal => AllFinal')
  BY DEF Onward, Reached, AllFinal

LEMMA SurveyedStays ==
    ASSUME Onward, NEW s \in Servers, run'[s] = run[s], Surveyed(s) PROVE Surveyed(s)'
  <1>1. (\A n : Reached(n) => Reached(n)') /\ (AllFinal => AllFinal')
    BY ReachedStays
  <1>2. run'[s].found = run[s].found /\ LastOf(run[s].found)' = LastOf(run[s].found)
    BY DEF LastOf
  <1>3. At(s, "insert")' =>
          \A c \in Contacts : c <= LastOf(run[s].found) /\ subscribed'[c] =>
              recipient'[c].status # "none" \/ c \in run[s].found
    BY DEF Surveyed, Onward, At
  <1> QED
    BY <1>1, <1>2, <1>3 DEF Surveyed, At

LEMMA SurveyGrows ==
    ASSUME Survey, Onward, NEW s \in Servers, \A t \in Servers \ {s} : run'[t] = run[t],
           run'[s] # Idle => Surveyed(s)',
           Reached(campaign.cursor)', campaign'.exhausted => Reached(Audience)',
           campaign'.status = "completed" => campaign.status = "completed" \/ AllFinal'
    PROVE  Survey'
  <1>1. AllFinal => AllFinal'
    BY ReachedStays
  <1>2. \A t \in Servers : run'[t] # Idle => Surveyed(t)'
    <2> TAKE t \in Servers
    <2>1. CASE t = s
      BY <2>1
    <2>2. CASE t # s
      BY <2>2, SurveyedStays DEF Survey
    <2> QED
      BY <2>1, <2>2
  <1> QED
    BY <1>1, <1>2 DEF Survey, Onward

LEMMA Running == ASSUME NEW s \in Servers, NEW step \in Steps, At(s, step) PROVE run[s] # Idle
  BY DEF At, Idle, Steps

\* A worker walks on and keeps what it knows of the enumeration.
LEMMA WalkSurvey ==
    ASSUME Survey, Onward, NEW s \in Servers, run[s] # Idle, \A t \in Servers \ {s} : run'[t] = run[t],
           run'[s] # Idle => /\ run'[s].cursor = run[s].cursor /\ run'[s].exhausted = run[s].exhausted
                             /\ run'[s].at \notin {"insert", "advance", "complete"},
           campaign'.cursor = campaign.cursor, campaign'.exhausted = campaign.exhausted,
           campaign'.status = "completed" => campaign.status = "completed"
    PROVE  Survey'
  <1>1. \A n : Reached(n) => Reached(n)'
    BY ReachedStays
  <1>2. run'[s] # Idle => Surveyed(s)'
    BY <1>1 DEF Survey, Surveyed, At
  <1> QED
    BY <1>1, <1>2, SurveyGrows DEF Survey

\* No step takes a recipient back.
LEMMA OnwardSame == ASSUME Survey, recipient' = recipient, subscribed' = subscribed PROVE Onward
  BY DEF Onward, Survey, Final

LEMMA OnwardSwept == ASSUME IInv, Survey, recipient' = Swept, subscribed' = subscribed PROVE Onward
  <1>1. recipient \in [Contacts -> RecipientDoc]
    BY Types DEF IInv
  <1> QED
    BY <1>1 DEF Onward, Survey, Final, Swept, RecipientDoc

LEMMA OnwardSkips == ASSUME IInv, Survey, SkipPending, subscribed' = subscribed PROVE Onward
  <1>1. recipient \in [Contacts -> RecipientDoc]
    BY Types DEF IInv
  <1> QED
    BY <1>1 DEF Onward, Survey, Final, SkipPending, Pending, RecipientDoc

\* One recipient moves on.
LEMMA OnwardOne ==
    ASSUME IInv, Survey, NEW c \in Contacts, NEW doc, recipient' = [recipient EXCEPT ![c] = doc],
           doc.status # "none", Final(c) => doc.status \in {"accepted", "failed", "unknown", "skipped"},
           \A d \in Contacts : subscribed'[d] => subscribed[d]
    PROVE  Onward
  <1>1. recipient \in [Contacts -> RecipientDoc]
    BY Types DEF IInv
  <1>2. recipient'[c] = doc /\ \A d \in Contacts : d # c => recipient'[d] = recipient[d]
    BY <1>1
  <1>3. \A d \in Contacts : recipient'[d].status = "none" => ~recipient'[d].old
    BY <1>2 DEF Survey
  <1>4. \A d \in Contacts : Final(d) => Final(d)'
    BY <1>2 DEF Final
  <1> QED
    BY <1>2, <1>3, <1>4 DEF Onward

\* The first n of a set have nobody of the set before them.
LEMMA FirstOfBelow ==
    ASSUME NEW S \in SUBSET Contacts, NEW c \in FirstOf(S, Batch), NEW d \in S, d <= c
    PROVE  d \in FirstOf(S, Batch)
  <1> DEFINE before(x) == {e \in S : e < x}
  <1>1. Contacts \subseteq Nat /\ IsFiniteSet(Contacts)
    <2>1. IsFiniteSet(1 .. Audience)
      BY AudienceAssumption, FS_Interval
    <2> QED
      BY <2>1, AudienceAssumption DEF Contacts
  <1>2. c \in S /\ Cardinality(before(c)) < Batch
    BY DEF FirstOf
  <1>3. before(d) \subseteq before(c) /\ before(c) \subseteq Contacts
    <2>1. S \subseteq Nat /\ c \in Nat /\ d \in Nat
      BY <1>1, <1>2
    <2>2. \A e \in S : e < d => e < c
      BY <2>1
    <2> QED
      BY <2>2
  <1>4. IsFiniteSet(before(c))
    BY <1>1, <1>3, FS_Subset
  <1>5. /\ Cardinality(before(d)) <= Cardinality(before(c))
        /\ Cardinality(before(d)) \in Nat /\ Cardinality(before(c)) \in Nat
    BY <1>3, <1>4, FS_Subset, FS_CardinalityType
  <1>6. Cardinality(before(d)) < Batch
    BY <1>2, <1>5, BatchAssumption
  <1> QED
    BY <1>6 DEF FirstOf

LEMMA FirstOfSome == ASSUME NEW S \in SUBSET Contacts, S # {} PROVE FirstOf(S, Batch) # {}
  <1>1. PICK c \in S : \A d \in S : c <= d
    BY FirstExists
  <1>2. {e \in S : e < c} = {}
    <2>1. S \subseteq Nat
      BY AudienceAssumption DEF Contacts
    <2>2. \A e \in S : ~(e < c)
      BY <1>1, <2>1
    <2> QED
      BY <2>2
  <1>3. Cardinality({e \in S : e < c}) < Batch
    BY <1>2, FS_EmptySet, BatchAssumption
  <1> QED
    BY <1>3 DEF FirstOf

LEMMA TickSurvey == ASSUME IInv, Survey, NEW s \in Servers, Tick(s) PROVE Survey'
  <1>0. TypeOK /\ campaign \in CampaignDoc /\ run \in Runs
    BY Types DEF IInv
  <1>1. Onward
    BY OnwardSwept DEF Tick
  <1>2. \A n : Reached(n) => Reached(n)'
    BY <1>1, ReachedStays
  <1>3. CASE Claimable
    <2> DEFINE r == [at |-> "enumerate", cursor |-> campaign.cursor, exhausted |-> campaign.exhausted,
                     found |-> {}, job |-> 0, answer |-> "none", left |-> Batch]
    <2>1. run' = [run EXCEPT ![s] = r] /\ campaign' = [campaign EXCEPT !.status = "sending", !.lock = s, !.lapsed = FALSE]
      BY <1>3 DEF Tick
    <2>2. r.at = "enumerate" /\ r.cursor = campaign.cursor /\ r.exhausted = campaign.exhausted
      OBVIOUS
    <2> HIDE DEF r
    <2>3. run'[s] = r /\ \A t \in Servers \ {s} : run'[t] = run[t]
      BY <1>0, <2>1 DEF Runs
    <2>4. campaign'.cursor = campaign.cursor /\ campaign'.exhausted = campaign.exhausted /\ campaign'.status = "sending"
      BY <1>0, <2>1 DEF CampaignDoc
    <2>5. Surveyed(s)'
      BY <1>2, <2>2, <2>3 DEF Survey, Surveyed, At
    <2> QED
      BY <1>1, <1>2, <2>3, <2>4, <2>5, SurveyGrows DEF Survey
  <1>4. CASE ~Claimable
    <2>1. campaign' = campaign /\ run' = run /\ run[s] = Idle
      BY <1>4 DEF Tick
    <2> QED
      BY <1>1, <1>2, <2>1, SurveyGrows DEF Survey
  <1> QED
    BY <1>3, <1>4

\* The next contacts behind the cursor, or nobody is behind it.
LEMMA EnumerateSurvey == ASSUME IInv, Survey, NEW s \in Servers, Enumerate(s) PROVE Survey'
  <1>0. TypeOK
    BY DEF IInv
  <1>1. Onward /\ campaign' = campaign /\ subscribed' = subscribed
    BY OnwardSwept DEF Enumerate
  <1>2. \A n : Reached(n) => Reached(n)'
    BY <1>1, ReachedStays
  <1>3. run[s] \in Run /\ run \in Runs /\ run[s] # Idle /\ Surveyed(s)
    <2>1. run[s] \in Run /\ run \in Runs
      BY <1>0, AtWork, Types DEF Enumerate, Steps
    <2>2. run[s] # Idle
      BY Running DEF Enumerate, Steps
    <2> QED
      BY <2>1, <2>2 DEF Survey
  <1>4. CASE run[s].exhausted
    <2>1. OnlyRun(s) /\ run'[s] = [run[s] EXCEPT !.at = "renew"]
      BY <1>0, <1>3, <1>4, GotoTyped DEF Enumerate, Steps
    <2>2. run'[s].at = "renew" /\ run'[s].cursor = run[s].cursor /\ run'[s].exhausted = run[s].exhausted
      BY <1>3, <2>1 DEF Run
    <2> QED
      BY <1>1, <1>3, <2>1, <2>2, WalkSurvey DEF OnlyRun
  <1>5. CASE ~run[s].exhausted
    <2> DEFINE found == FirstOf(Behind(run[s].cursor), Batch)
               r == [run[s] EXCEPT !.found = found, !.exhausted = (found = {}),
                                   !.at = IF found = {} THEN "advance" ELSE "insert"]
    <2>1. found \in SUBSET Contacts /\ Behind(run[s].cursor) \in SUBSET Contacts
      BY DEF FirstOf, Behind
    <2>2. run' = [run EXCEPT ![s] = r]
      BY <1>5 DEF Enumerate
    <2>3. found = {} => Behind(run[s].cursor) = {}
      BY <2>1, FirstOfSome
    <2>4. \A c \in found, d \in Behind(run[s].cursor) : d <= c => d \in found
      BY <2>1, FirstOfBelow
    <2> HIDE DEF found
    <2>5. /\ r.found = found /\ r.cursor = run[s].cursor /\ r.exhausted = (found = {})
          /\ r.at = IF found = {} THEN "advance" ELSE "insert"
      BY <1>3 DEF Run
    <2> HIDE DEF r
    <2>6. run'[s] = r /\ \A t \in Servers \ {s} : run'[t] = run[t]
      BY <1>3, <2>2 DEF Runs
    <2>7. \A c \in Contacts : subscribed[c] => c <= run[s].cursor \/ c \in Behind(run[s].cursor)
      BY <1>3, AudienceAssumption DEF Behind, Contacts, Run
    <2>8. CASE found = {}
      <3>1. Reached(Audience)'
        <4> SUFFICES ASSUME NEW c \in Contacts, subscribed'[c] PROVE recipient'[c].status # "none"
          BY DEF Reached
        <4>1. c <= run[s].cursor
          BY <1>1, <2>3, <2>7, <2>8
        <4>2. recipient[c].status # "none"
          BY <1>1, <1>3, <4>1 DEF Surveyed, Reached
        <4> QED
          BY <1>1, <4>2 DEF Onward
      <3>2. Surveyed(s)'
        BY <1>2, <1>3, <2>5, <2>6, <2>8, <3>1 DEF Surveyed, At
      <3> QED
        BY <1>1, <1>2, <2>6, <3>2, SurveyGrows DEF Survey
    <2>9. CASE found # {}
      <3>1. LastOf(found) \in found
        BY <2>1, <2>9, LastExists
      <3>2. \A c \in Contacts : c <= LastOf(found) /\ subscribed'[c] => recipient'[c].status # "none" \/ c \in found
        <4> SUFFICES ASSUME NEW c \in Contacts, c <= LastOf(found), subscribed'[c], c \notin found
                     PROVE  recipient'[c].status # "none"
          OBVIOUS
        <4>1. c <= run[s].cursor
          BY <1>1, <2>4, <2>7, <3>1
        <4>2. recipient[c].status # "none"
          BY <1>1, <1>3, <4>1 DEF Surveyed, Reached
        <4> QED
          BY <1>1, <4>2 DEF Onward
      <3>3. /\ run'[s].at = "insert" /\ ~run'[s].exhausted /\ run'[s].found = found /\ run'[s].cursor = run[s].cursor
            /\ LastOf(run[s].found)' = LastOf(found)
        BY <2>5, <2>6, <2>9 DEF LastOf
      <3>4. Surveyed(s)'
        BY <1>2, <1>3, <3>2, <3>3 DEF Surveyed, At
      <3> QED
        BY <1>1, <1>2, <2>6, <3>4, SurveyGrows DEF Survey
    <2> QED
      BY <2>8, <2>9
  <1> QED
    BY <1>4, <1>5

\* They become recipients, and the cursor passes them.
LEMMA InsertSurvey == ASSUME IInv, Survey, NEW s \in Servers, Insert(s) PROVE Survey'
  <1>0. TypeOK /\ recipient \in [Contacts -> RecipientDoc]
    BY Types DEF IInv
  <1>1. campaign' = campaign /\ subscribed' = subscribed
    BY DEF Insert
  <1>2. run[s] \in Run /\ run[s] # Idle /\ Surveyed(s) /\ At(s, "insert")
    <2>1. run[s] \in Run /\ run[s] # Idle /\ At(s, "insert")
      BY <1>0, AtWork, Running DEF Insert, Steps
    <2> QED
      BY <2>1 DEF Survey
  <1>3. OnlyRun(s) /\ run'[s] = [run[s] EXCEPT !.at = "advance"]
    BY <1>0, <1>2, GotoTyped DEF Insert, Steps
  <1>4. /\ run'[s].at = "advance" /\ run'[s].cursor = run[s].cursor
        /\ run'[s].exhausted = run[s].exhausted /\ run'[s].found = run[s].found
    BY <1>2, <1>3 DEF Run
  <1>5. /\ Onward
        /\ \A c \in run[s].found : recipient'[c].status # "none"
    <2> DEFINE doc == [status |-> "pending", old |-> FALSE]
    <2>1. \A c \in Contacts :
            recipient'[c] = IF c \in run[s].found /\ recipient[c] = NoRecipient THEN doc ELSE recipient[c]
      BY DEF Insert
    <2>2. doc.status = "pending"
      OBVIOUS
    <2> HIDE DEF doc
    <2>3. \A c \in Contacts : recipient[c] = NoRecipient <=> recipient[c].status = "none"
      BY <1>0 DEF Survey, NoRecipient, RecipientDoc
    <2>4. \A c \in Contacts : recipient'[c] = recipient[c] \/ (recipient[c].status = "none" /\ recipient'[c].status = "pending")
      BY <2>1, <2>2, <2>3
    <2>5. Onward
      BY <1>1, <2>4 DEF Onward, Survey, Final
    <2>6. run[s].found \subseteq Contacts
      BY <1>2 DEF Run
    <2> QED
      BY <2>1, <2>2, <2>3, <2>5, <2>6
  <1>6. \A n : Reached(n) => Reached(n)'
    BY <1>5, ReachedStays
  <1>7. Reached(LastOf(run[s].found))'
    <2>1. LastOf(run[s].found)' = LastOf(run[s].found)
      BY <1>4 DEF LastOf
    <2>2. \A c \in Contacts : c <= LastOf(run[s].found) /\ subscribed[c] =>
            recipient[c].status # "none" \/ c \in run[s].found
      BY <1>2 DEF Surveyed
    <2> QED
      BY <1>1, <1>5, <2>1, <2>2 DEF Reached, Onward
  <1>8. Surveyed(s)'
    BY <1>2, <1>4, <1>6, <1>7 DEF Surveyed, At
  <1> QED
    BY <1>1, <1>3, <1>5, <1>6, <1>8, SurveyGrows DEF Survey, OnlyRun

LEMMA AdvanceSurvey == ASSUME IInv, Survey, NEW s \in Servers, Advance(s) PROVE Survey'
  <1>0. TypeOK /\ campaign \in CampaignDoc /\ run \in Runs
    BY Types DEF IInv
  <1>1. recipient' = recipient /\ subscribed' = subscribed /\ Onward
    BY OnwardSame DEF Advance
  <1>2. \A n : Reached(n) => Reached(n)'
    BY <1>1, ReachedStays
  <1>3. run[s] \in Run /\ run[s] # Idle /\ Surveyed(s) /\ At(s, "advance")
    <2>1. run[s] \in Run /\ run[s] # Idle /\ At(s, "advance")
      BY <1>0, AtWork, Running DEF Advance, Steps
    <2> QED
      BY <2>1 DEF Survey
  <1>4. /\ \A t \in Servers \ {s} : run'[t] = run[t]
        /\ run'[s].at = "renew" /\ run'[s].cursor = run[s].cursor /\ run'[s].exhausted = run[s].exhausted
    <2> DEFINE r == [run[s] EXCEPT !.at = "renew", !.found = {}]
    <2>1. r.at = "renew" /\ r.cursor = run[s].cursor /\ r.exhausted = run[s].exhausted
      BY <1>3 DEF Run
    <2>2. run' = [run EXCEPT ![s] = r]
      BY DEF Advance
    <2> HIDE DEF r
    <2> QED
      BY <1>0, <2>1, <2>2 DEF Runs
  <1>5. /\ campaign'.status = campaign.status
        /\ campaign'.cursor = campaign.cursor \/ (~run[s].exhausted /\ campaign'.cursor = LastOf(run[s].found))
        /\ campaign'.exhausted = campaign.exhausted \/ run[s].exhausted
    BY <1>0 DEF Advance, CampaignDoc
  <1>6. Reached(campaign.cursor) /\ (~run[s].exhausted => Reached(LastOf(run[s].found)))
        /\ (campaign.exhausted \/ run[s].exhausted => Reached(Audience))
    BY <1>3 DEF Survey, Surveyed
  <1>7. Reached(campaign.cursor)' /\ (campaign'.exhausted => Reached(Audience)')
    <2>1. \A n : Reached(n) => \A c \in Contacts : c <= n /\ subscribed'[c] => recipient'[c].status # "none"
      BY <1>1 DEF Reached
    <2> QED
      BY <1>5, <1>6, <2>1 DEF Reached
  <1>8. Surveyed(s)'
    BY <1>2, <1>3, <1>4 DEF Surveyed, At
  <1> QED
    BY <1>1, <1>4, <1>5, <1>7, <1>8, SurveyGrows

\* The check: everybody was reached, and nobody is pending or being sent to.
LEMMA CheckSurvey == ASSUME IInv, Survey, NEW s \in Servers, Check(s) PROVE Survey'
  <1>0. TypeOK /\ recipient \in [Contacts -> RecipientDoc]
    BY Types DEF IInv
  <1>1. recipient' = recipient /\ subscribed' = subscribed /\ campaign' = campaign /\ Onward
    BY OnwardSame DEF Check
  <1>2. (\A n : Reached(n) => Reached(n)') /\ (AllFinal => AllFinal')
    BY <1>1, ReachedStays
  <1>3. run[s] \in Run /\ run[s] # Idle /\ Surveyed(s)
    <2>1. run[s] \in Run /\ run[s] # Idle
      BY <1>0, AtWork, Running DEF Check, Steps
    <2> QED
      BY <2>1 DEF Survey
  <1> DEFINE step == IF run[s].exhausted /\ Done THEN "complete" ELSE "skip"
  <1>4. step \in Steps /\ Goto(s, step)
    BY DEF Check, Steps
  <1>5. OnlyRun(s) /\ run'[s] = [run[s] EXCEPT !.at = step]
    BY <1>0, <1>3, <1>4, GotoTyped
  <1>6. run'[s].at = step /\ run'[s].cursor = run[s].cursor /\ run'[s].exhausted = run[s].exhausted
    BY <1>3, <1>5 DEF Run
  <1>7. run[s].exhausted /\ Done => AllFinal
    <2> SUFFICES ASSUME run[s].exhausted, Done, NEW c \in Contacts, subscribed[c] PROVE Final(c)
      BY DEF AllFinal
    <2>1. recipient[c].status # "none"
      <3>1. c <= Audience
        BY AudienceAssumption DEF Contacts
      <3> QED
        BY <1>3, <3>1 DEF Surveyed, Reached
    <2>2. recipient[c].status \in RecipientStatus \ {"pending", "sending"}
      BY <1>0, <2>1 DEF Done, RecipientDoc
    <2> QED
      BY <2>2 DEF Final, RecipientStatus
  <1>8. Surveyed(s)'
    BY <1>2, <1>3, <1>6, <1>7 DEF Surveyed, At
  <1> QED
    BY <1>1, <1>2, <1>5, <1>8, SurveyGrows DEF Survey, OnlyRun

LEMMA CompleteSurvey == ASSUME IInv, Survey, NEW s \in Servers, Complete(s) PROVE Survey'
  <1>0. TypeOK /\ campaign \in CampaignDoc
    BY Types DEF IInv
  <1>1. recipient' = recipient /\ subscribed' = subscribed /\ Onward
    BY OnwardSame DEF Complete
  <1>2. (\A n : Reached(n) => Reached(n)') /\ (AllFinal => AllFinal')
    BY <1>1, ReachedStays
  <1>3. run[s] \in Run /\ run[s] # Idle /\ Surveyed(s) /\ AllFinal
    <2>1. run[s] \in Run /\ run[s] # Idle /\ At(s, "complete")
      BY <1>0, AtWork, Running DEF Complete, Steps
    <2> QED
      BY <2>1 DEF Survey, Surveyed
  <1>4. OnlyRun(s) /\ run'[s] = [run[s] EXCEPT !.at = "skip"]
    BY <1>0, <1>3, GotoTyped DEF Complete, Steps
  <1>5. run'[s].at = "skip" /\ run'[s].cursor = run[s].cursor /\ run'[s].exhausted = run[s].exhausted
    BY <1>3, <1>4 DEF Run
  <1>6. campaign'.cursor = campaign.cursor /\ campaign'.exhausted = campaign.exhausted
    BY <1>0 DEF Complete, CampaignDoc
  <1>7. Surveyed(s)'
    BY <1>2, <1>3, <1>5 DEF Surveyed, At
  <1> QED
    BY <1>1, <1>2, <1>3, <1>4, <1>6, <1>7, SurveyGrows DEF Survey, OnlyRun

\* The steps that leave the enumeration alone.
LEMMA ElseSurvey ==
    ASSUME IInv, Survey, NEW s \in Servers, \/ Renew(s) \/ Take(s) \/ Recheck(s) \/ Send(s) \/ Record(s)
                                            \/ SkipCancelled(s) \/ PreflightFails(s) \/ Unlock(s) \/ Crash(s)
    PROVE  Survey'
  <1>0. TypeOK /\ campaign \in CampaignDoc /\ run \in Runs /\ recipient \in [Contacts -> RecipientDoc]
    BY Types DEF IInv
  <1>1. run[s] # Idle /\ run[s] \in Run
    <2>1. run[s] # Idle
      BY Running DEF Renew, Take, Recheck, Send, Record, SkipCancelled, PreflightFails, Unlock, Crash, Steps
    <2> QED
      BY <1>0, <2>1 DEF Runs
  <1>2. /\ campaign'.cursor = campaign.cursor /\ campaign'.exhausted = campaign.exhausted
        /\ campaign'.status = campaign.status
    <2>1. CASE campaign' = campaign
      BY <2>1
    <2>2. CASE Renew(s)
      BY <1>0, <2>2 DEF Renew, CampaignDoc
    <2>3. CASE Unlock(s)
      BY <1>0, <2>3 DEF Unlock, CampaignDoc
    <2> QED
      BY <2>1, <2>2, <2>3 DEF Take, Recheck, Send, Record, SkipCancelled, PreflightFails, Crash
  <1>3. \/ run' = [run EXCEPT ![s] = Idle]
        \/ \E r : /\ run' = [run EXCEPT ![s] = r] /\ r.cursor = run[s].cursor /\ r.exhausted = run[s].exhausted
                  /\ r.at \notin {"insert", "advance", "complete"}
    <2>1. CASE Unlock(s) \/ Crash(s)
      BY <2>1 DEF Unlock, Crash
    <2>2. CASE Renew(s) \/ SkipCancelled(s) \/ PreflightFails(s)
      <3>1. PICK step \in {"take", "check", "unlock", "skip"} : Goto(s, step)
        BY <2>2 DEF Renew, SkipCancelled, PreflightFails
      <3> DEFINE r == [run[s] EXCEPT !.at = step]
      <3>2. r.at = step /\ r.cursor = run[s].cursor /\ r.exhausted = run[s].exhausted
        BY <1>1 DEF Run
      <3>3. run' = [run EXCEPT ![s] = r]
        BY <3>1 DEF Goto
      <3> HIDE DEF r
      <3> QED
        BY <3>2, <3>3
    <2>3. CASE Take(s)
      <3> DEFINE r1 == [run[s] EXCEPT !.at = "check"]
                 r2(c) == [run[s] EXCEPT !.at = "recheck", !.job = c]
      <3>1. /\ r1.at = "check" /\ r1.cursor = run[s].cursor /\ r1.exhausted = run[s].exhausted
            /\ \A c : r2(c).at = "recheck" /\ r2(c).cursor = run[s].cursor /\ r2(c).exhausted = run[s].exhausted
        BY <1>1 DEF Run
      <3>2. run' = [run EXCEPT ![s] = r1] \/ \E c : run' = [run EXCEPT ![s] = r2(c)]
        BY <2>3 DEF Take, Goto
      <3> HIDE DEF r1, r2
      <3> QED
        BY <3>1, <3>2
    <2>4. CASE Send(s)
      <3> DEFINE r(answer) == [run[s] EXCEPT !.at = "record", !.answer = answer]
      <3>1. \A answer : r(answer).at = "record" /\ r(answer).cursor = run[s].cursor /\ r(answer).exhausted = run[s].exhausted
        BY <1>1 DEF Run
      <3>2. \E answer : run' = [run EXCEPT ![s] = r(answer)]
        BY <2>4 DEF Send
      <3> HIDE DEF r
      <3> QED
        BY <3>1, <3>2
    <2>5. CASE Recheck(s) \/ Record(s)
      <3> DEFINE r1 == [run[s] EXCEPT !.at = "send"]
                 r2 == [run[s] EXCEPT !.at = "renew", !.job = 0, !.answer = "none", !.left = @ - 1]
      <3>1. /\ r1.at = "send" /\ r1.cursor = run[s].cursor /\ r1.exhausted = run[s].exhausted
            /\ r2.at = "renew" /\ r2.cursor = run[s].cursor /\ r2.exhausted = run[s].exhausted
        BY <1>1 DEF Run
      <3>2. run' = [run EXCEPT ![s] = r1] \/ run' = [run EXCEPT ![s] = r2]
        BY <2>5 DEF Recheck, Record, Loop, Goto
      <3> HIDE DEF r1, r2
      <3> QED
        BY <3>1, <3>2
    <2> QED
      BY <2>1, <2>2, <2>3, <2>4, <2>5
  <1>4. Onward
    <2>1. CASE recipient' = recipient /\ subscribed' = subscribed
      BY <2>1, OnwardSame
    <2>2. CASE SkipCancelled(s)
      BY <2>1, <2>2, OnwardSkips DEF SkipCancelled
    <2>3. CASE Take(s) /\ Pending # {}
      <3> DEFINE c == CHOOSE d \in Pending : \A e \in Pending : d <= e
                 doc == [status |-> "sending", old |-> FALSE]
      <3>1. c \in Pending
        <4>1. \E d \in Pending : \A e \in Pending : d <= e
          BY <2>3, FirstExists DEF Pending
        <4> QED
          BY <4>1
      <3>2. recipient' = [recipient EXCEPT ![c] = doc] /\ subscribed' = subscribed
        BY <2>3 DEF Take
      <3> HIDE DEF c
      <3>3. c \in Contacts /\ ~Final(c) /\ doc.status # "none"
        BY <3>1 DEF Pending, Final
      <3> HIDE DEF doc
      <3> QED
        BY <3>2, <3>3, OnwardOne
    <2>4. CASE Recheck(s) /\ recipient' # recipient
      <3> DEFINE c == run[s].job
                 doc == [recipient[c] EXCEPT !.status = "skipped"]
      <3>1. recipient' = [recipient EXCEPT ![c] = doc] /\ subscribed' = subscribed
        BY <2>4 DEF Recheck
      <3>2. c \in Contacts
        BY <2>4 DEF IInv, Sent, InHand, HasJob, Recheck, At
      <3>3. doc.status = "skipped"
        BY <1>0, <3>2 DEF RecipientDoc
      <3> HIDE DEF doc
      <3> QED
        BY <3>1, <3>2, <3>3, OnwardOne
    <2>5. CASE Record(s)
      <3> DEFINE c == run[s].job
                 doc == [status |-> Outcome(run[s].answer), old |-> FALSE]
      <3>1. c \in Contacts
        BY <2>5 DEF IInv, Sent, InHand, HasJob, Record, At
      <3>2. \A d \in Contacts : subscribed'[d] => subscribed[d]
        BY <2>5, <3>1, Types DEF Record, IInv
      <3>3. CASE recipient[c].status = "sending"
        <4>1. recipient' = [recipient EXCEPT ![c] = doc]
          BY <2>5, <3>3 DEF Record
        <4>2. ~Final(c) /\ doc.status # "none"
          BY <1>1, <3>3 DEF Final, Outcome, Run
        <4> HIDE DEF doc
        <4> QED
          BY <3>1, <3>2, <4>1, <4>2, OnwardOne
      <3>4. CASE recipient[c].status # "sending"
        <4>1. recipient' = recipient
          BY <2>5, <3>4 DEF Record
        <4> QED
          BY <3>2, <4>1 DEF Onward, Survey, Final
      <3> QED
        BY <3>3, <3>4
    <2> QED
      BY <2>1, <2>2, <2>3, <2>4, <2>5 DEF Renew, Take, Recheck, Send, PreflightFails, Unlock, Crash
  <1>5. /\ \A t \in Servers \ {s} : run'[t] = run[t]
        /\ run'[s] # Idle => /\ run'[s].cursor = run[s].cursor /\ run'[s].exhausted = run[s].exhausted
                             /\ run'[s].at \notin {"insert", "advance", "complete"}
    BY <1>0, <1>3 DEF Runs
  <1> QED
    BY <1>1, <1>2, <1>4, <1>5, WalkSurvey

LEMMA OutsideSurvey == ASSUME IInv, Survey, Outside PROVE Survey'
  <1>0. TypeOK /\ campaign \in CampaignDoc /\ recipient \in [Contacts -> RecipientDoc]
    BY Types DEF IInv
  <1>1. run' = run
    BY DEF Outside, Edit, Prepare, Queue, Cancel, CancelSkips, LockLapses, Unsubscribe, ClaimAges
  <1>2. /\ campaign'.cursor = campaign.cursor /\ campaign'.exhausted = campaign.exhausted
        /\ campaign'.status = "completed" => campaign.status = "completed"
    BY <1>0 DEF Outside, Edit, Prepare, Queue, Cancel, CancelSkips, LockLapses, Unsubscribe, ClaimAges, CampaignDoc
  <1>3. Onward
    <2>1. CASE recipient' = recipient /\ subscribed' = subscribed
      BY <2>1, OnwardSame
    <2>2. CASE CancelSkips
      BY <2>2, OnwardSkips DEF CancelSkips
    <2>3. ASSUME NEW c \in Contacts, ClaimAges(c) PROVE Onward
      <3> DEFINE doc == [recipient[c] EXCEPT !.old = TRUE]
      <3>1. recipient' = [recipient EXCEPT ![c] = doc] /\ subscribed' = subscribed /\ recipient[c].status = "sending"
        BY <2>3 DEF ClaimAges
      <3>2. doc.status = "sending"
        BY <1>0, <3>1 DEF RecipientDoc
      <3> HIDE DEF doc
      <3> QED
        BY <3>1, <3>2, OnwardOne DEF Final
    <2>4. ASSUME NEW c \in Contacts, Unsubscribe(c) PROVE Onward
      BY <1>0, <2>4 DEF Unsubscribe, Onward, Survey, Final, TypeOK
    <2> QED
      BY <2>1, <2>2, <2>3, <2>4 DEF Outside, Edit, Prepare, Queue, Cancel, LockLapses
  <1>4. (\A n : Reached(n) => Reached(n)') /\ (AllFinal => AllFinal')
    BY <1>3, ReachedStays
  <1>5. \A s \in Servers : run'[s] # Idle => Surveyed(s)'
    BY <1>1, <1>3, SurveyedStays DEF Survey
  <1> QED
    BY <1>2, <1>3, <1>4, <1>5 DEF Survey, Onward

\* A completed campaign reached everybody who is still subscribed: the cursor
\* passes nobody who is not a recipient, and completion is decided on a state
\* that no later step undoes (worker.js, enumeration and the final count).
THEOREM CompletedReachedAll == Spec => []CompletedIsDone
  <1>1. Init => Survey
    <2> SUFFICES ASSUME Init PROVE Survey
      OBVIOUS
    <2>1. \A s \in Servers : run[s] = Idle
      BY DEF Init
    <2>2. campaign.cursor = 0 /\ ~campaign.exhausted /\ campaign.status = "draft"
      BY DEF Init
    <2>3. \A c \in Contacts : ~recipient[c].old
      BY DEF Init, NoRecipient
    <2>4. Reached(0)
      BY AudienceAssumption DEF Reached, Contacts
    <2> QED
      BY <2>1, <2>2, <2>3, <2>4 DEF Survey
  <1>2. IInv /\ Survey /\ [Next]_vars => Survey'
    <2> SUFFICES ASSUME IInv, Survey, [Next]_vars PROVE Survey'
      OBVIOUS
    <2>1. ASSUME NEW s \in Servers, Working(s) \/ PreflightFails(s) \/ Crash(s) PROVE Survey'
      BY <2>1, TickSurvey, EnumerateSurvey, InsertSurvey, AdvanceSurvey, CheckSurvey, CompleteSurvey, ElseSurvey
         DEF Working
    <2>2. ASSUME UNCHANGED vars PROVE Survey'
      BY <2>2 DEF vars, Survey, Surveyed, Reached, AllFinal, Final, At, LastOf
    <2> QED
      BY <2>1, <2>2, OutsideSurvey DEF Next, Outside
  <1>3. Survey => CompletedIsDone
    BY DEF Survey, AllFinal, Final, CompletedIsDone
  <1> QED
    BY <1>1, <1>2, <1>3, Inductive, PTL DEF Spec
=============================================================================
