SPECIFICATION Spec
CONSTANTS
    m1 = m1
    m2 = m2
    Messages = {m1, m2}
    Scenarios <- TwoAtOnce
    Envelopes <- Deliveries
    MaxConcurrency = 3
    MaxCrashes = 0
    MaxFailures = 0
INVARIANTS
    ApprovedOnce
    MembersSaved
CHECK_DEADLOCK FALSE
