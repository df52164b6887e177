SPECIFICATION MCSpec
CONSTANTS
    k1 = k1
    k2 = k2
    k3 = k3
    f1 = f1
    sync = sync
    none = none
    m1 = m1
    m2 = m2
    p1 = p1
    p2 = p2
    Sync = sync
    NoHandle = none
    Patterns <- MCPatterns
    Devices = {k1, k2}
    ExDevices = {k1, k2}
    Faulty = {k2}
    Functions = {f1}
    AllocUnit = 1
    Keyboards = {k1, k2, k3}
    ExKeyboards = {k1, k2}
    Mice = {m1, m2}
    Panels = {p1, p2}
    Resolution <- MouseWidth
    Extent <- PanelRange
    FaultyDevices = {k2, m2, p2}
    VirtualMax = 2
    IntMax = 3
    PointerButtons = {1}
    ListUnit = 1
    KeyMap = {"PWR", "VOL_UP"}
    RingSize = 2
    ButtonPatterns = {"UP"}
    MaxKeys = 3
    Reach = 2
INVARIANTS
    ListsSound
    NotifyEverywhere
    ExposedEverywhere
    KeysKept
    PointerInput
    ButtonKeys
