SPECIFICATION FairSpec
CONSTANTS
    Names = {1, 2}
    Specs = {"s1"}
    ArtifactFiles = {"private.key.enc"}
    MaxPendingIssuanceJobs = 2
    Files <- OneAuto
    Bound <- QueueBudget
INVARIANTS
    OrdersFollowAdmission
PROPERTIES
    ImplementsJobQueue
    EveryJobFinishes
    StopCompletes
    FirstIssuanceStarts
