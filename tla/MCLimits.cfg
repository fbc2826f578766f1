CONSTANTS
    in = in  e1 = e1  e2 = e2  pair = pair
    Tag = {in}
    Email = {e1, e2}
    ConnGroup = {pair}
    Rule = {1, 3}
    None = None
    Binding <- Bindings
    Flow = {f1, f2, f3}
    Policy <- FlowPolicies
    Client = {e1, e2}
    MaxUpdates = 4
    MaxFaults = 2
    Stream = {s1, s2}
    Rate = {0, 1, 2}
    Burst <- Bursts
    Scale = 2
    Size = {1, 3}
    MaxTime = 3
    MaxChanges = 3
    MaxDebt = 4
SPECIFICATION SideSpec
INVARIANTS
    LimitsInForce
    DocumentHonest
    WithinRate
PROPERTIES
    LastGetsBack
SYMMETRY Symmetric
CHECK_DEADLOCK FALSE
