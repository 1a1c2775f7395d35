\* Two sources of one item under a limit of one or two entries.
SPECIFICATION Spec
CONSTANTS
    Ids = {a, b}
    ItemIds = {x}
    NoItem = NoItem
    Urls = {u}
    NoUrl = NoUrl
    Ttls <- ShortAndLong
    Limits = {0, 1, 2}
    MaxNow = 2
SYMMETRY Symmetry
VIEW CacheView
INVARIANTS
    TypeOK
    LRUMatchesMaps
PROPERTIES
    ReadsKeepLive
    InsertKeepsNew
    StreamsImplementTTLMap
CHECK_DEADLOCK FALSE
