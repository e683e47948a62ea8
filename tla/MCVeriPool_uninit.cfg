SPECIFICATION Spec
CONSTANTS
    N = 2
    main = main
    helper = helper
    t1 = t1
    t2 = t2
    t3 = t3
    Clients = {main}
    Producers = {main}
    Collectors = {main}
    Main = main
    Traces = {t1}
    NoTrace = NoTrace
    MaxRounds = 1
    HeapContents <- DirtyHeap
    GetResultBeforeExit = TRUE
INVARIANT ResultAfterTested
