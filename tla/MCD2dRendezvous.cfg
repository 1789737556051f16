SPECIFICATION Spec
CONSTANTS
    Pids = {1, 2}
    NoPid = 0
    MaxSn = 4
    UlpLength = 1
    MaxBefore = 5
    MaxAfter = 7
    MaxUlp = 1
    MaxStray = 1
    StrayPids = {1}
INVARIANTS NonceUnique
PROPERTIES ChannelSpec NominationLearnt
CHECK_DEADLOCK FALSE
