CONSTANTS
    Base = 2
    DelimiterLength = 2
    MaxFrames = 2
SPECIFICATION StreamSpec
INVARIANTS StreamTypeOK RequiredStaysInFrame BytesConserved
PROPERTIES EveryFrameArrives
CHECK_DEADLOCK FALSE
