SPECIFICATION StorySpec
CONSTANTS
    c = c  m1 = m1  a1 = a1
    Member = {c, m1}
    Creator = c
    BPS = 10
    CreatorMinStakeBps = 0
    MinPosition = 1
    MintSizes = {1}
    ShareBound = 3
    DepositTimes = {1}
    Exiters = {c, m1}
    MaxTime = 1
    Pid = {1, 2}
    NoProposal = NoProposal
    Adapter = {a1}
    Weight = {1}
    Results <- GainOrLoss
    ReorgDepth = 1
    MaxReorgs = 1
    MaxLogs = 3
    Stories <- AllStories
    Backups = 2
    Absent = Absent
    Torn = Torn
    MaxTrackedAdapters = 2
    Null = Null
    StartBlock = 2
    Confirmations = 2
    BatchBlocks = 1
    NodeLag = 1
    MaxCrashes = 1
    MaxFailures = 1
INVARIANTS ProjectionExact SnapshotsExact
PROPERTIES SnapshotNeverGoesBack CatchesUp
CHECK_DEADLOCK FALSE
