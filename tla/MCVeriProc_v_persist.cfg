SPECIFICATION Spec
CONSTANTS
    MaxLength = 4
    Inputs <- AllTraces
    PMTEST_WARN = TRUE
    INT_MAX = 100
INVARIANT PersistSound
