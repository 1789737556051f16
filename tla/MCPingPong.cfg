SPECIFICATION Spec
CONSTANTS
    MinVersion = 1
    MaxVersion = 2
    ServerVersions = {1}
    MaxTtl = 2
    QueueCapacity = 1
    MaxReflectId = 1
    Pushes <- MCPushes
    Malformed = {}
    MaxPushes = 1
    MaxTicks = 3
    MaxEarly = 0
INVARIANTS NoneHasNotBegun NeverBothWait
CHECK_DEADLOCK FALSE
