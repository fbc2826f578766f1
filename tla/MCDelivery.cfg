CONSTANTS
    k1 = k1
    NoCommand = NoCommand
    Command = {k1}
    Resumable = {k1}
    QueueLimit = 1
    MaxFaults = 2
    MaxTimeouts = 1
SPECIFICATION FairSpec
INVARIANTS
    HttpLeaseHonoured
    NoResultLost
    LiveSocketRegistered
PROPERTIES
    KeepsPromise
    CommandsSettle
    ResultsAcknowledged
CHECK_DEADLOCK FALSE
