SPECIFICATION Spec
CONSTANTS
    Clients = {ip1, ip2}
    Near = near
    Far = far
    Malformed = malformed
    TrustedProxies = {near, far}
    Peers <- MCPeers
    Arrivals <- MCArrivals
    MaxStates = 3
    MaxStatesPerIP = 2
    MaxRateClients = 2
    LoginRate = 2
    LoginBurst = 2
    GlobalRate = 2
    GlobalBurst = 3
    SweepInterval = 1
    Lifetime = 2
    MaxFlows = 4
    MaxTime = 2
SYMMETRY Symmetry
CHECK_DEADLOCK FALSE
INVARIANTS
    StoreIsConsistent
    FlowIsUsedOnce
    RateIsLimited
