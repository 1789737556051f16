SPECIFICATION Spec
CONSTANTS
    User = "user"
    Push = "*PUSH"
    Special = {"*PUSH", "*HELP"}
    Predefined = {"*PUSH", "*HELP"}
    Senders = {"alice", "bob", "carol", "dave"}
    Registered = {"alice", "bob", "dave"}
    Blocked = {"dave"}
    BlockUnknown = FALSE
    GroupMembers = {}
    Nicknames = {"none", "nick"}
    Messages <- MCMessages
    Mailboxes <- MCMailboxes
    AddressBooks <- MCAddressBooks
    MaxFaults = 2
    MaxChanges = 0
INVARIANTS
    AckedIsReflected
    AckedIsProtected
CHECK_DEADLOCK FALSE
