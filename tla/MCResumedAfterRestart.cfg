SPECIFICATION Spec
CONSTANTS
    m1 = m1
    m2 = m2
    Messages = {m1, m2}
    Scenarios <- Questions
    Envelopes <- Deliveries
    MaxConcurrency = 1
    MaxCrashes = 0
    MaxFailures = 0
INVARIANTS ResumedAfterRestart
CHECK_DEADLOCK FALSE
