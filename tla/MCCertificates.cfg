CONSTANTS
    own = own  copy = copy  far = far  t1 = t1
    Cert = {own, copy, far}
    Remote = {far}
    Imported = {copy}
    Target = {t1}
    TargetOf <- CopyTarget
    MaxJobs = 2
    MaxSerial = 2
    MaxCrashes = 2
    Profile = {"served", "listened"}
    Token = {k}
    Webroot = {"served"}
    TTL = 1
    Horizon = 1
    Keep = 0
    MaxActive = 16
    MaxLease = 2
    MaxTime = 3
    MaxFaults = 1
SPECIFICATION SideFairSpec
INVARIANTS
    OneOrderPerJob
    RevocationHonest
    LeasesHonest
PROPERTIES
    JobsFinish
    CleanupConfirmed
CHECK_DEADLOCK FALSE
