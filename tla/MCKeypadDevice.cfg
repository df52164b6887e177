SPECIFICATION FairSpec
CONSTANTS
    ReleaseNs = 2
    RepeatNs = 3
    LongNs = 6
    Deltas = {1, 4}
INVARIANTS
    TypeOK
PROPERTIES
    PowerOnce
    VolumeHeard
    RepeatPaced
    Released
