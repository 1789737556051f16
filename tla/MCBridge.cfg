SPECIFICATION Spec
CONSTANTS
    Identities = {"alice", "bob"}
    Registered = {"alice", "bob"}
    Inputs <- MCInputs
    Messages <- MCMessages
    MaxEchoes = 1
    MaxFaults = 1
    MaxRuns = 2
INVARIANTS FramesConsecutive AckedIsPrinted SentInOrder
CHECK_DEADLOCK FALSE
