SPECIFICATION Spec
CONSTANTS
    MinVersion = 1
    MaxVersion = 2
    ServerVersions = {0, 1, 3}
    MaxTtl = 2
    QueueCapacity = 1
    MaxReflectId = 1
    Pushes <- MCPushes
    Malformed <- MCMalformed
    MaxPushes = 1
    MaxTicks = 3
    MaxEarly = 1
INVARIANTS TypeOK PayloadsArrive RunningHoldsLock
PROPERTIES Settles
CHECK_DEADLOCK FALSE
