SPECIFICATION FairSpec
CONSTANTS
    Items = {i}
    Latest = {i}
    NoItem = NoItem
    Others = {o}
    LibraryTTL = 3
    RetryTTL = 1
    OtherTTL = 1
    TrimOver = 1
    TrimAge = 1
    DropOver = 2
    Keep = 1
    Horizon = 3
INVARIANTS
    ForgottenOnlyOld
PROPERTIES
    TriedAgain
CHECK_DEADLOCK FALSE
