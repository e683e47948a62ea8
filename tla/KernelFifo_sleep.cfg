SPECIFICATION FairSpec
CONSTANTS
    KFIFO_LEN = 4
    KFIFO_THRESHOLD_LEN = 2
    Types = {"ASSIGN", "TRANSACTIONDELIM", "ENDING"}
    PMTEST_EXCLUDE = FALSE
    MaxRecords = 6
    Signals = FALSE
PROPERTY WriteReturns
