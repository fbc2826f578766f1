CONSTANTS
    s1 = s1  s2 = s2  c1 = c1  c2 = c2  c3 = c3  q1 = q1  q2 = q2
    NoChange = NoChange
    Server = {s1, s2}
    Change = {c1, c2, c3}
    Chain = {q1, q2}
    StepServer <- PartSteps
    Compensated <- PartCompensated
    RollbackOnFailure = {c1}
    ChainServer <- BothOnS2
    ChainLength <- OneAndTwoLong
    UserChain = {q2}
    SyncChain <- PoolOnS2
    RefreshChain <- PoolOnS2
    Refreshed <- SecondForward
    ReadOnly <- TheSync
    Mutating <- ChainAndStep
    Restoring <- LastOrdinary
    Exempt <- FirstOrdinary
    Gated <- SecondStep
    Preflighted <- SecondRollback
    Legacy = {c2, c3}
    Underway = {q2}
    Registering = {s2}
    Removable = {s2}
SPECIFICATION PartSpec
INVARIANTS
    CompensationAfterForwards
    ReservationsMatchStatus
    ForwardInOrder
    RollbackInReverse
    SettledHonestly
    RemovalExcludesChange
    ExclusiveExecution
    NoStrandedCommand
PROPERTIES
    TerminalIsFinal
CHECK_DEADLOCK FALSE
