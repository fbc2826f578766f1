CONSTANTS
    k1 = k1
    NoCommand = NoCommand
    Command = {k1}
    Resumable = {}
    QueueLimit = 1
    MaxFaults = 0
    MaxTimeouts = 1
SPECIFICATION FairSpec
PROPERTIES
    EveryCommandSettles
CHECK_DEADLOCK FALSE
