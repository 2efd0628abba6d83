SPECIFICATION FairSpec
CONSTANTS
    Launchers = {p1, p2}
    Revisions = {"r1", "r2"}
    FailDelay = 1
    OkDelay = 2
    MaxTime = 3
    Budgets <- Loads
CHECK_DEADLOCK FALSE
INVARIANTS
    SyncKeepsItsVersion
    ChecksAreThrottled
PROPERTIES
    LinksStaySound
    EveryJobSyncs
