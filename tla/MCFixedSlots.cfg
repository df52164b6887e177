SPECIFICATION MCSpec
CONSTANTS
    p1 = p1
    p2 = p2
    p3 = p3
    id = id
    None = None
    IdPacket = id
    Packets = {p1, p2, p3}
    DataPackets = {p1, p2, id}
    Cards = {"Sd"}
    PlatformCard = "Sd"
    Removable = FALSE
    Timeouts = {1, 2}
    Resubmit = FALSE
    StopFails = FALSE
    Lengths = {4, 10}
    DmaLengths = {1, 2, 3, 4, 5, 6, 10}
    Depth = 2
    Watermark = 1
    GenericTimeout = 2
    CommandPolls = 2
    CallerTimeout = 2
    BlockSize = 2
    DmaBufSize = 4
    BaseClkFreq = 25
    ClockFreqs = {1, 2, 3, 4, 5, 6, 7, 8, 9, 10, 11, 12, 13, 14, 15, 16, 17, 18, 19, 20, 21, 22, 23, 24, 25, 26, 27, 28, 29, 30}
    ResetFails = TRUE
    MaxRequests = 2
INVARIANTS
    DataExact
PROPERTIES
    CompletionIsOwn
    DmaIsForCommand
    CardAnswers
    CallsReturn
CHECK_DEADLOCK FALSE
