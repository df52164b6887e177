SPECIFICATION FairSpec
CONSTANTS
    h1 = h1
    h2 = h2
    f1 = f1
    f2 = f2
    End = End
    NoStroke <- MCNoStroke
    Keys <- MCKeys
    Patterns <- MCPatterns
    Functions = {f1}
    Handles = {h1, h2}
    RingSize = 3
    MaxStrokes = 3
    StopFails = TRUE
INVARIANTS
    TypeOK
    NotifyWakeup
    NotifyInOrder
PROPERTIES
    WalkerAlive
    ReadersSpec
    Notified
