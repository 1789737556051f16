SPECIFICATION Spec
CONSTANTS
    Identities = {"alice", "bob"}
    Registered = {"alice", "bob"}
    Inputs <- MCInput
    Messages <- MCMessages
    MaxEchoes = 1
    MaxFaults = 1
    MaxRuns = 1
PROPERTIES Answered
CHECK_DEADLOCK FALSE
