CONSTANTS
    Threads = {t1, t2, t3}
    Values = {1, 2, 3}
    Zero = Zero
    Error = Error
    NoRequest = NoRequest
    NotYet = NotYet
    Torn = Torn
    Nobody = Nobody
    external_nlba = 2
    nfree = 2
    nlane = 2
    BTT_MAP_LOCK_ALIGN = 4
    Workloads <- MCWorkloads
    MaxCrashes = 1
SPECIFICATION Spec
CHECK_DEADLOCK FALSE
SYMMETRY Symmetric
INVARIANTS TypeOK BlocksAccounted FlogsReadable WritesUnread
PROPERTY AtomicDevice
