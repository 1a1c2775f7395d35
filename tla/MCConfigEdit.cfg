SPECIFICATION ConfigFairSpec
CONSTANTS
    TTLs = {1, 2}
    GoodTargets = {"http://a"}
    BadTargets = {"http://%"}
    Volumes = {v}
    Default <- MCDefault
    MaxEdits = 1
    MaxChanges = 1
    MaxStarts = 1
CHECK_DEADLOCK FALSE
PROPERTIES HandEditApplied
