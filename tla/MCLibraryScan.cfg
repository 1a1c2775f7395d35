\* A full and an incremental scheduler, a trigger, and a stop at any time.
SPECIFICATION FairSpec
CONSTANTS
    a = a
    b = b
    d = d
    Items = {a, b, d}
    Libraries <- TwoLibraries
    Schedulers = {cron, inc}
    Incremental = {inc}
    Triggered = {manual}
    FlushSize = 2
    RetrySize = 2
    MaxItems = 3
    PageSize = 1
    Concurrency = 1
INVARIANTS
    TypeOK
    OneScan
    SemaphoreKept
    NoTaskAfterStop
PROPERTIES
    AllServed
    ScanEnds
    StopEnds
CHECK_DEADLOCK FALSE
