\* One logging goroutine, six entries, two days; files of two entries, two
\* rotated ones: the third rotation drops the oldest.
SPECIFICATION FairSpec
CONSTANTS
    Loggers = {g}
    QueueSize = 2
    MaxLogFileSize = 1
    Slices = 2
    MaxEntries = 6
    Days = 1
    MaxFaults = 1
    MaxSignals = 1
INVARIANTS
    TypeOK
    WrittenBeforeExit
    NewestKept
    SlicesInOrder
PROPERTIES
    ShutdownExits
CHECK_DEADLOCK FALSE
