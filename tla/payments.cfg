SPECIFICATION FairPaySpec
CONSTANTS
    Kinds = {"http", "standard", "svm"}
    Prices = {1, 2}
    Cap = 3
    PerRead = 2
    MaxReads = 2
    MaxCopies = 2
    Duplicated = {1}
    MaxRestarts = 1
INVARIANTS OneReadPerPayment KeyHeldWhileItMayLand SpendWithinCap
PROPERTIES NothingServedUnpaid ReadsEnd
CHECK_DEADLOCK FALSE
