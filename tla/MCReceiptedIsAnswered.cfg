SPECIFICATION Spec
CONSTANTS
    m1 = m1
    m2 = m2
    Messages = {m1, m2}
    Scenarios <- Questions
    Envelopes <- Deliveries
    MaxConcurrency = 1
    MaxCrashes = 1
    MaxFailures = 0
PROPERTIES ReceiptedIsAnswered
CHECK_DEADLOCK FALSE
