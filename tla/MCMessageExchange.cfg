SPECIFICATION ExchangeSpec
CONSTANTS
    alice = alice
    bob = bob
    g = g
    Sender = alice
    Receiver = bob
    Identities = {alice, bob}
    Gateways = {}
    MessageIds = {"id1", "id2", "id3"}
    Floats = {"1.5", "-2", "9"}
    NotUtf8 = "BAD"
    Wide = {"w"}
    PaddingMin = 4
    NicknameLength = 3
    MaxLegacyCreated = 1000
    Nickname <- MCNickname
    OldNickname <- MCOldNickname
    BlockSize = 4
    MessageScenarios <- MCScenarios
    Paddings = {1, 3}
    MaxMessages = 3
    MaxLosses = 1
INVARIANTS EndsAgree NicknameFollows
PROPERTIES Arrives
CHECK_DEADLOCK FALSE
