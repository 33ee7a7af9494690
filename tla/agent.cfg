SPECIFICATION AgentFairSpec
CONSTANTS
    c = c  a = a
    CreatorShares = 1
    Agent = a
    Amount = 1
    Window = 1
    Grace = 1
    Skews <- OffByOne
    CrankKinds = {"finalize", "execute"}
    PayloadKnown = TRUE
    Views = {"for"}
    MineWithin = 1
    MaxFaults = 1
    Member = {c, a}
    Creator = c
    BPS = 10
    CreatorMinStakeBps = 1
    MinPosition = 1
    MintSizes = {1}
    ShareBound = 4
    DepositTimes <- AllTimes
    Exiters = {a}
    MaxTime = 12
    FinalizeLag = 2
    MaxProposals = 1
    Configs <- AgentConfig
    InitialConfigs <- AgentConfig
    ProposalTypes = {"Rebalance"}
    Delegators = {}
    Defaulters = {}
    NoMember = NoMember
    NoPayload = NoPayload
    ParentQuorumBps = 0
    QuorumFloorBps = 3
    TimelockHardCap = 2
    DefaultTTL = 3
    RevealHardCap = 4
    ExecutionWindowHardCap = 2
    SignerRegimeBelow = 3
    ConcentrationCapCeilingBps = 5
    ProposalCooldownFloor = 1
    ProposalCooldownCap = 2
    MinPhase = 1
INVARIANTS OwedRevealIsMade
PROPERTIES HeldVaultMoves QueuedExitSettles
CHECK_DEADLOCK FALSE
