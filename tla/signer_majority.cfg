SPECIFICATION FoundedSpec
CONSTANTS
    Splits <- ThreeHolders
    c = c  m1 = m1  m2 = m2
    Member = {c, m1, m2}
    Creator = c
    BPS = 10
    CreatorMinStakeBps = 1
    MinPosition = 1
    MintSizes = {1}
    ShareBound = 5
    DepositTimes = {}
    Exiters = {}
    MaxTime = 8
    FinalizeLag = 1
    MaxProposals = 1
    Configs <- OneConfig
    InitialConfigs <- OneConfig
    ProposalTypes = {"Rebalance"}
    Delegators = {}
    Defaulters = {}
    NoMember = NoMember
    NoPayload = NoPayload
    ParentQuorumBps = 0
    QuorumFloorBps = 3
    TimelockHardCap = 2
    DefaultTTL = 3
    RevealHardCap = 2
    ExecutionWindowHardCap = 2
    SignerRegimeBelow = 4
    ConcentrationCapCeilingBps = 5
    ProposalCooldownFloor = 1
    ProposalCooldownCap = 2
    MinPhase = 1
INVARIANTS SignerMajority
CONSTRAINT StillOpen
CHECK_DEADLOCK FALSE
