CONSTANTS
    s1 = s1  s2 = s2  c1 = c1  c2 = c2  q1 = q1
    NoChange = NoChange
    Server = {s1, s2}
    Change = {c1}
    Chain = {q1}
    StepServer <- LiveSteps
    Compensated <- OverlapCompensated
    RollbackOnFailure = {c1}
    ChainServer <- TwoOnS2
    ChainLength <- TwoLong
    UserChain = {q1}
    SyncChain <- NoPools
    RefreshChain <- NoPools
    Refreshed = {}
    ReadOnly = {}
    Mutating = {}
    Restoring = {}
    Exempt = {}
    Gated = {}
    Preflighted = {}
    Legacy = {}
    Underway = {}
    Registering = {}
    Removable = {}
SPECIFICATION FairSpec
PROPERTIES
    ChangeSetsComeToRest
    OrdinaryWorkFinishes
CHECK_DEADLOCK FALSE
