SPECIFICATION ApiSpec
CONSTANTS
    N = 2
    main = main
    helper = helper
    t1 = t1
    t2 = t2
    t3 = t3
    Clients = {main, helper}
    Producers = {main, helper}
    Collectors = {main}
    Main = main
    Traces = {t1, t2, t3}
    NoTrace = NoTrace
    MaxRounds = 2
    HeapContents <- CleanHeap
    GetResultBeforeExit = TRUE
    vector_init_size = 1
    metadataVectorLen <- Lengths
    MaxRecords = 2
SYMMETRY TraceSymmetry
INVARIANTS
    TypeOK
    ResultAfterTested
    ResultsComplete
    NoQueueRace
    NoLostTrace
    NoLostTerm
    ApiTypeOK
    TestedAsPassed
    RecordsKept
PROPERTY ServesTraces
