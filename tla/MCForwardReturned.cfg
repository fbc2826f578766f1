CONSTANTS
    s1 = s1  s2 = s2  c1 = c1  c2 = c2  q1 = q1
    NoChange = NoChange
    Server = {s1, s2}
    Change = {c1, c2}
    Chain = {q1}
    StepServer <- OverlapSteps
    Compensated <- OverlapCompensated
    RollbackOnFailure = {c1}
    ChainServer <- OneOnS2
    ChainLength <- OneLong
    UserChain = {}
    SyncChain <- PoolOnS2
    RefreshChain <- PoolOnS2
    Refreshed <- SecondForward
    ReadOnly <- TheSync
    Mutating = {}
    Restoring = {}
    Exempt = {}
    Gated <- SecondStep
    Preflighted <- SecondRollback
    Legacy = {}
    Underway = {}
    Registering = {s2}
    Removable = {}
SPECIFICATION Spec
INVARIANTS
    EveryForwardReturned
CHECK_DEADLOCK FALSE
