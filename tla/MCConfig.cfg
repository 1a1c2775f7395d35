SPECIFICATION ConfigFairSpec
CONSTANTS
    TTLs = {1, 2}
    GoodTargets = {"http://a"}
    BadTargets = {"http://%"}
    Volumes = {v}
    Default <- MCDefault
    MaxEdits = 2
    MaxChanges = 1
    MaxStarts = 2
INVARIANTS
    SaveNotUndone
PROPERTIES
    ReloadConverges
CHECK_DEADLOCK FALSE
