CONSTANTS
    MaxSeq = 5
    CCK = cck
    Cookies = {cck, sck}
    Keys = {primary, secondary, unknown}
    PermanentKeys = {primary, secondary}
    HelloLength = 2
    LoginAckLength = 1
    PayloadLength = 1
    DelimiterLength = 1
    Incoming = {message, malformed}
    Malformed = {malformed}
    Outgoing = {text, oversized}
    Oversized = {oversized}
SPECIFICATION Spec
INVARIANTS TypeOK NonceUnique LoginOnlyToKnownServer NothingLost
PROPERTIES ChannelSpec
CHECK_DEADLOCK FALSE
