\* Three changes of the lifetime and a stop.
SPECIFICATION CleanerFairSpec
CONSTANTS
    Chans = {c1, c2, c3, c4}
    First = c1
    NoChan = NoChan
INVARIANTS
    NoPanic
    StillCleaning
PROPERTY AllEnd
CHECK_DEADLOCK FALSE
