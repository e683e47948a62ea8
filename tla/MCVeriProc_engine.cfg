SPECIFICATION Spec
CONSTANTS
    MaxLength = 5
    Inputs <- AllTraces
    PMTEST_WARN = TRUE
    INT_MAX = 100
INVARIANTS
    TypeOK
    PersistInfoExact
    PersistErrorsReal
    PersistSoundIfSettled
    FlushWarningsReal
    OrderExact
    TransactionEndSound
    AssignErrorExact
    UnclosedReported
PROPERTY EmptyIgnored
