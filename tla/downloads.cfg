SPECIFICATION Spec
CONSTANTS
    Requests = {r1, r2}
    Certs = {"a"}
    ScopeOf <- TwoScopes
    Shapes <- ThreeShapes
    BundleSize <- Lengths
    bundleCacheLimit = 2
    Window = 1
    MaxTime = 1
    MaxKeys = 1
    MaxVersions = 2
    MaxRequests = 3
SYMMETRY Symmetry
CHECK_DEADLOCK FALSE
INVARIANTS
    AnswerIsAuthorized
    AnswerIsCurrent
    CacheIsAccounted
PROPERTIES
    UsageIsSampled
