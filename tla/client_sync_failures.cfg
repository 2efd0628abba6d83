SPECIFICATION FairSpec
CONSTANTS
    Runs = {"r1", "r2"}
    Outputs = {"tls.crt", "tls.key"}
    Deployments = {"atomic", "copy"}
    MaxVersion = 2
    Bound <- FailureBudget
INVARIANTS
    DeployedSetIsWhole
PROPERTIES
    NotModifiedIsTrue
    NothingGoesBack
    EventuallyDeployed
