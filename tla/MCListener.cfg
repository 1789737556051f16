SPECIFICATION Spec
CONSTANTS
    m1 = m1
    m2 = m2
    Messages = {m1, m2}
    Scenarios <- MCScenarios
    MaxConcurrency = 1
    Envelopes <- Deliveries
    MaxCrashes = 1
    MaxFailures = 1
INVARIANTS QueueServed RedeliverySafe
PROPERTIES RequestsEnd
CHECK_DEADLOCK FALSE
