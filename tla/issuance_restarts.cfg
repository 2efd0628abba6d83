SPECIFICATION Spec
CONSTANTS
    Names = {1, 2}
    Specs = {"s1"}
    ArtifactFiles = {"private.key.enc"}
    MaxPendingIssuanceJobs = 1
    Files <- OneAuto
    Bound <- RestartBudget
INVARIANTS
    AdmissionIsGuarded
    RunningJobIsHeld
PROPERTIES
    GracefulStopLeavesNothingRunning
    NoAutomaticRetry
