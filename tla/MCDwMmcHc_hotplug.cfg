SPECIFICATION Spec
CONSTANTS
    p1 = p1
    p2 = p2
    p3 = p3
    id = id
    None = None
    IdPacket = id
    Packets = {p1, p2}
    DataPackets = {p1, id}
    Cards = {"Emmc", "Sd"}
    PlatformCard = "Sd"
    Removable = TRUE
    Timeouts = {0, 1}
    Resubmit = FALSE
    StopFails = TRUE
INVARIANTS
    TypeOK
    SignalledOnce
    QueueWellFormed
    TrbOwned
    SyncExclusive
PROPERTIES
    FifoSpec
