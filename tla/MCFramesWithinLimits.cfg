SPECIFICATION Spec
CONSTANTS
    Pids = {1}
    NoPid = 0
    MaxSn = 6
    UlpLength = 3
    MaxBefore = 4
    MaxAfter = 5
    MaxUlp = 1
    MaxStray = 0
    StrayPids = {}
INVARIANT FramesWithinLimitsPass
CHECK_DEADLOCK FALSE
