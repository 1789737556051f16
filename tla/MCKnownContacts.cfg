SPECIFICATION Spec
CONSTANTS
    Identities = {"alice", "bob"}
    Registered = {"alice", "bob"}
    Inputs <- MCInputs
    Messages <- MCMessages
    MaxEchoes = 1
    MaxFaults = 0
    MaxRuns = 1
INVARIANT AddContactsHonoured
PROPERTY SenderStaysDirect
CHECK_DEADLOCK FALSE
