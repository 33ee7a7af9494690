SPECIFICATION StorySpec
CONSTANTS
    c = c  m1 = m1  weth = weth
    Member = {c, m1}
    Creator = c
    BPS = 10
    CreatorMinStakeBps = 1
    MinPosition = 2
    MintSizes = {1}
    Usdc = Usdc
    Asset = {weth}
    FeeEngine = FeeEngine
    UsdcScalar = 2
    AssetUnit = 2
    WAD = 4
    PerfFeeDivisor = 2
    ObservationWindow = 1
    MinDeposit = 2
    ExitFeeMaxBps = 2
    ExitFeeDecayPeriod = 2
    MaxSlippageBps = 3
    ShareBound = 12
    DepositTimes = {1, 2, 13}
    Exiters = {c, m1}
    MaxTime = 13
    CapacityCap = 6
    DepositAmounts = {2, 3}
    Prices = {0, 2, 3, 5}
    DonationBound = 1
    RebalanceTimes = {12}
    OutBound = 3
    QuoteTimes = {2, 13}
    Blockable = {m1, FeeEngine}
INVARIANTS LedgerBalanced Solvent NothingStranded BasisLeavesWithShares QueuedExitNeverStranded
PROPERTIES SwapLossBounded ExitDilutesNobody DepositDilutesNobody
CONSTRAINT FewTokens
ACTION_CONSTRAINT ToldApart
CHECK_DEADLOCK FALSE
