SPECIFICATION Spec
CONSTANTS
    Launchers = {p1}
    Revisions = {"r1", "r2"}
    FailDelay = 1
    OkDelay = 2
    MaxTime = 3
    Budgets <- OneSignal
CHECK_DEADLOCK FALSE
INVARIANTS
    InstalledClientRuns
