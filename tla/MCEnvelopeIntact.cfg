SPECIFICATION Spec
CONSTANTS
    MinVersion = 1
    MaxVersion = 2
    ServerVersions = {1}
    MaxTtl = 2
    QueueCapacity = 1
    MaxReflectId = 1
    Pushes <- MCPushes
    Malformed = {}
    MaxPushes = 0
    MaxTicks = 0
    MaxEarly = 0
INVARIANT EnvelopeIntact
CHECK_DEADLOCK FALSE
