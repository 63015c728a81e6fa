CONSTANTS
    s1 = s1
    s2 = s2
    Servers = {s1, s2}
    MaxAttempts = 2
    MaxVersion = 2
    MaxEvents = 1
SPECIFICATION FairSpec
INVARIANTS CreatedOnce SyncedIsCurrent
PROPERTIES VersionSettles CancelledIsReviewed
CHECK_DEADLOCK FALSE
