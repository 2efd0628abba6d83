SPECIFICATION Spec
CONSTANTS
    MaxInt = 31
    Day = 6
    DefaultDirectory <- MCDefaultDirectory
    Deployments <- MCDeployments
    Redeployments <- MCRedeployments
    Inherited <- MCInherited
    FirstAccounts <- MCFirstAccounts
    Kinds <- MCKinds
    Budget <- MCBudget
    Handlers = {h1, h2}
SYMMETRY Symmetry
CHECK_DEADLOCK FALSE
INVARIANTS
    LoadFollowsPrecedence
    ValidatedDomainsHaveCredential
    OrderUsesSavedAccount
    RegistersOnce
    CredentialsAreScoped
