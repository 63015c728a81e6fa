CONSTANTS
    s1 = s1
    s2 = s2
    Servers = {s1, s2}
    Audience = 2
    Batch = 1
    MaxFaults = 1
SPECIFICATION FairSpec
CHECK_DEADLOCK FALSE
INVARIANTS MailedOnce ReportIsHonest CompletedIsDone
PROPERTIES CampaignEnds
