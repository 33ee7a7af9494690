SPECIFICATION HistorySpec
CONSTANTS
    c = c  m1 = m1
    Member = {c, m1}
    Creator = c
    BPS = 10
    CreatorMinStakeBps = 1
    MinPosition = 1
    MintSizes = {1, 2}
    ShareBound = 3
    DepositTimes = {1, 3}
    Exiters = {c, m1}
    MaxTime = 4
INVARIANTS SearchCorrect
PROPERTIES PastIsFrozen ImplementsStake
CHECK_DEADLOCK FALSE
