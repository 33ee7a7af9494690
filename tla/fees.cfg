SPECIFICATION FeeSpec
CONSTANTS
    m1 = m1  o1 = o1  o2 = o2  v1 = v1  v2 = v2  v3 = v3  weth = weth
    Member = {m1}
    Operator = {o1, o2}
    Vault = {v1, v2}
    TreasuryAccount = o2
    NoTreasury = NoTreasury
    NoOperator = NoOperator
    Usdc = Usdc
    Asset = {weth}
    BPS = 10
    PERF_FEE_BPS = 5
    TREASURY_SHARE_BPS = 5
    MayFail = {"onRealize", "recordRealization", "onFeeCollected"}
    PnlSizes = {3, 4}
    PnlBound = 4
    DonationBound = 1
INVARIANTS CarryIsDrawdown FeesOnlyOnNewPeaks CreditsMatchDeliveries
CHECK_DEADLOCK FALSE
SYMMETRY Vaults
