CONSTANTS
    r1 = r1  r2 = r2  q1 = q1  q2 = q2
    Release = {r1, r2}
    None = None
    MaxFaults = 3
    MaxHelperFaults = 2
    MaxCommands = 1
    Request = {q1, q2}
    Wanted <- UpgradeThenRemove
SPECIFICATION SideFairSpec
INVARIANTS
    ManifestHonest
    RunsAsWanted
    RequestsHonest
PROPERTIES
    DeploymentRecovers
CHECK_DEADLOCK FALSE
