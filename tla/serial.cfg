SPECIFICATION UnregisteredSpec
CONSTANTS
    Splits <- TwoShares
    c = c  m1 = m1  m2 = m2
    Member = {c, m1}
    Creator = c
    BPS = 10
    CreatorMinStakeBps = 1
    MinPosition = 1
    MintSizes = {1}
    ShareBound = 3
    DepositTimes = {3}
    Exiters = {}
    MaxTime = 11
    FinalizeLag = 1
    MaxProposals = 2
    Configs <- RuleConfigs
    InitialConfigs <- QuickConfig
    ProposalTypes = {"RuleChange"}
    Delegators = {m1}
    Defaulters = {}
    NoMember = NoMember
    NoPayload = NoPayload
    ParentQuorumBps = 0
    QuorumFloorBps = 3
    TimelockHardCap = 2
    DefaultTTL = 3
    RevealHardCap = 2
    ExecutionWindowHardCap = 2
    SignerRegimeBelow = 3
    ConcentrationCapCeilingBps = 5
    ProposalCooldownFloor = 1
    ProposalCooldownCap = 2
    MinPhase = 1
INVARIANTS Serialized
PROPERTIES Lifecycle RulesFixedInFlight
CONSTRAINT StillOpen
CHECK_DEADLOCK FALSE
