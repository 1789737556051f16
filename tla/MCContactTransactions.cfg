SPECIFICATION Spec
CONSTANTS
    d1 = d1
    d2 = d2
    a = a
    b = b
    v1 = v1
    v2 = v2
    Devices = {d1, d2}
    Links <- MCLinks
    Identities = {a, b}
    Values = {v1, v2}
    Groups <- MCGroups
    Batches <- MCBatches
    MaxTasks = 1
    MaxPeers = 1
    MaxFaults = 1
    Absent = Absent
    Nobody = Nobody
    NoContext = NoContext
INVARIANTS TypeOK TransactionsProtect Converge
PROPERTIES StoresSafely TaskEnds
CHECK_DEADLOCK FALSE
