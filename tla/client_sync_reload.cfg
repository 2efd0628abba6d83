SPECIFICATION Spec
CONSTANTS
    Runs = {"r1"}
    Outputs = {"tls.crt", "tls.key"}
    Deployments = {"atomic"}
    MaxVersion = 2
    Bound <- ReloadBudget
INVARIANTS
    PreviousSnapshotSucceeded
