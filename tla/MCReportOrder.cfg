CONSTANTS
    a = a  n = n  u = u
    None = None
    Tag = {a}
    Nic = {n}
    User = {u}
    MonthStart = {0, 4, 6, 10, 14}
    Day = 2
    ResetDay = {0, 2}
    MaxTime = 9
    MaxSteps = 5
    MaxMoves = 2
    MaxReports = 2
SPECIFICATION PartSpec
INVARIANTS
    OlderBookNothing
CHECK_DEADLOCK FALSE
