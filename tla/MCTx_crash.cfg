CONSTANTS
    Roots = 3
    Heap = 4
    Values = {0, 1}
    RootValue = 1
    MAX_CACHED_RANGES = 2
    MAX_CACHED_RANGE_SIZE = 1
    PVECTOR_INIT_SIZE = 1
    PVECTOR_MAX_ARRAYS = 2
    MaxDepth = 2
    FailingInserts = {"range"}
    Programs <- MCPrograms
    MaxCrashes = 2
SPECIFICATION FairSpec
CHECK_DEADLOCK FALSE
INVARIANTS TypeOK RecoveryExact HeapAccounted LogsClear RangesDisjoint
PROPERTIES AtomicTransactions CallsReturn
