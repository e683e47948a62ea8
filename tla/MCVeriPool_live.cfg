SPECIFICATION FairSpec
CONSTANTS
    N = 2
    main = main
    helper = helper
    t1 = t1
    t2 = t2
    t3 = t3
    Clients = {main}
    Producers = {main}
    Collectors = {main}
    Main = main
    Traces = {t1, t2}
    NoTrace = NoTrace
    MaxRounds = 2
    HeapContents <- CleanHeap
    GetResultBeforeExit = TRUE
PROPERTIES
    GetVeriReturns
    DestructorReturns
    EveryTraceTested
