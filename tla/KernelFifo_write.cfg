SPECIFICATION FairSpec
CONSTANTS
    KFIFO_LEN = 4
    KFIFO_THRESHOLD_LEN = 2
    Types = {"ASSIGN", "EXCLUDE", "TRANSACTIONDELIM", "ENDING"}
    PMTEST_EXCLUDE = FALSE
    MaxRecords = 7
    Signals = TRUE
INVARIANTS
    TypeOK
    Delivered
    DropsOnlyAfterSignal
    FlagWakes
PROPERTY EndingEnds
