SPECIFICATION Spec
CONSTANTS
    MaxLength = 3
    Inputs <- TransactionTraces
    PMTEST_WARN = TRUE
    INT_MAX = 100
INVARIANT LoggedInTransaction
