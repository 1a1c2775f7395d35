\* One unsigned .strm URL, resolved to ones signed for long or short; two places in the cache.
SPECIFICATION Spec
CONSTANTS
    f = f
    Sources = {s}
    FileOf <- OneFile
    StrmUntil = 0
    Validities = {1, 4}
    CacheTTL = 4
    MinTTL = 1
    Margin = 0
    NegFor = 1
    Threshold = 2
    OpenFor = 1
    Capacity = 2
    MaxNow = 3
VIEW CacheView
INVARIANTS
    ListMatchesMap
    DeadAtMostAMinute
PROPERTIES
    PausedAfterFailures
CHECK_DEADLOCK FALSE
