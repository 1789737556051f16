SPECIFICATION Spec
CONSTANTS
    MaxTasks = 3
    Refusals <- MCRefusals
    RequestTimeout = 1
    RetryIntervalWhileLocked = 1
    MaxFailuresWhileLocked = 1
    MinInterval = 1
    MaxInterval = 2
    Intervals = {0, 9}
    Limits = {0, 1}
    MaxMonitors = 2
    MaxUnconfirmed = 7
INVARIANTS IdentityConsistent SecretGuarded OutageTolerated
PROPERTIES BlockedStaysLocked
CHECK_DEADLOCK FALSE
