SPECIFICATION Spec
CONSTANTS
    Procs = {p1, p2}
    Signers = {p1, p2}
    CLI = cli
    CleanupInterval = 2
    PerPage = 1
    MaxTime = 6
    Admins = {"admin"}
    Configs <- MCConfigs
    SessionDuration = 2
    Kinds <- MCKinds
    Budgets <- MCBudgets
SYMMETRY Symmetry
CHECK_DEADLOCK FALSE
INVARIANTS
    AuditTellsKeyState
    RetentionIsEnforced
    ReaderMissesNothing
PROPERTIES
    ChangeFollowsLogin
    ImplementsKeyAgreement
