CONSTANTS
    Threads = {t1, t2}
    Values = {1, 2, 3}
    Zero = Zero
    Error = Error
    NoRequest = NoRequest
    NotYet = NotYet
    Torn = Torn
    Nobody = Nobody
    external_nlba = 2
    nfree = 2
    nlane = 2
    BTT_MAP_LOCK_ALIGN = 4
    Workloads <- OvertakenRead
    MaxCrashes = 0
SPECIFICATION FairSpec
CHECK_DEADLOCK FALSE
PROPERTY RequestsReturn
