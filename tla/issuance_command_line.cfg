SPECIFICATION Spec
CONSTANTS
    Names = {1}
    Specs = {"s1", "s2"}
    ArtifactFiles = {"private.key.enc"}
    MaxPendingIssuanceJobs = 2
    Files <- Edited
    Bound <- CommandLineBudget
PROPERTIES
    ReplacementMatchesConfiguration
