CONSTANTS
    app = app  cli = cli  t1 = t1  t2 = t2  c1 = c1
    NoProcess = NoProcess  NoTask = NoTask  NoRecord = NoRecord
    Process = {app, cli}
    Task = {t1, t2, c1}
    Home <- TwoAndOne
    RecordId = {1}
    MaxDepth = 2
SPECIFICATION Spec
INVARIANTS
    PermitExcludesWriters
    DrainedStaysDrained
    SnapshotBlocksOthersOnly
