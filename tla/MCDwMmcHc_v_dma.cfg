SPECIFICATION Spec
CONSTANTS
    p1 = p1
    p2 = p2
    p3 = p3
    id = id
    None = None
    IdPacket = id
    Packets = {p1, p2}
    DataPackets = {p1, p2}
    Cards = {"Emmc"}
    PlatformCard = "Emmc"
    Removable = FALSE
    Timeouts = {1}
    Resubmit = FALSE
    StopFails = FALSE
PROPERTIES
    DmaIsForCommand
CHECK_DEADLOCK FALSE
