SPECIFICATION PlaybackFairSpec
CONSTANTS
    LastEpisode = 3
    Movies = {m}
    Locals = {l}
    Threads = {t1, t2}
    MaxArrivals = 2
    MaxAttempts = 2
INVARIANTS
    OneAtATime
PROPERTIES
    StormEnds
    ViewerFollowed
CHECK_DEADLOCK FALSE
