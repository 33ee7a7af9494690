SPECIFICATION CanarySpec
CONSTANTS
    Confirmations = 1
    Lookback = 0
    MaxSpan = 1
    RepeatCap = 2
    MaxBlock = 4
    MaxSweeps = 3
    MaxFaults = 2
INVARIANTS OperatorKnows NoEventPassesUntold
CHECK_DEADLOCK FALSE
