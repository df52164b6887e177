SPECIFICATION FairSpec
CONSTANTS
    p1 = p1
    p2 = p2
    p3 = p3
    id = id
    None = None
    IdPacket = id
    Packets = {p1, p2}
    DataPackets = {p1, p2, id}
    Cards = {"Sd"}
    PlatformCard = "Sd"
    Removable = TRUE
    Timeouts = {1}
    Resubmit = TRUE
    StopFails = FALSE
INVARIANTS
    QueueWellFormed
PROPERTIES
    NoMediaDrains
