SPECIFICATION Spec
CONSTANTS
    Names = {1}
    Specs = {"s1", "s2"}
    ArtifactFiles = {"fullchain.crt", "private.key.enc"}
    MaxPendingIssuanceJobs = 1
    Files <- Edited
    Bound <- FailureBudget
INVARIANTS
    TypeOK
    SucceededJobIsPublished
    StatusTellsLastOutcome
    EventsMatchRecord
PROPERTIES
    DisabledCertificateIsNotIssued
    RestartedServerRepairsDrift
