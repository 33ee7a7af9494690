SPECIFICATION FoundedSpec
CONSTANTS
    Splits <- ChosenSplits
    c = c  m1 = m1  m2 = m2
    Member = {c, m1, m2}
    Creator = c
    BPS = 10
    CreatorMinStakeBps = 1
    MinPosition = 1
    MintSizes = {1}
    ShareBound = 4
    DepositTimes = {}
    Exiters = {m1}
    MaxTime = 8
    FinalizeLag = 1
    MaxProposals = 1
    Configs <- CommitConfigs
    InitialConfigs <- CommitConfigs
    ProposalTypes = {"Rebalance"}
    Delegators = {c, m2}
    Defaulters = {c}
    NoMember = NoMember
    NoPayload = NoPayload
    ParentQuorumBps = 0
    QuorumFloorBps = 3
    TimelockHardCap = 2
    DefaultTTL = 2
    RevealHardCap = 2
    ExecutionWindowHardCap = 2
    SignerRegimeBelow = 3
    ConcentrationCapCeilingBps = 5
    ProposalCooldownFloor = 1
    ProposalCooldownCap = 2
    MinPhase = 1
INVARIANTS SkinInTheGame DefaultReachesReveal
INVARIANTS NoStakeCountedTwice PresentMembersMadeQuorum DelegatesStayUnderCap
PROPERTIES NoExitOnLeakedOutcome
CONSTRAINTS StillOpen OneDelegate
CHECK_DEADLOCK FALSE
