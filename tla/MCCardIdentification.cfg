SPECIFICATION Spec
CONSTANTS
    Hosts <- MCHosts
    Cards <- MCCards
    PlatformCard = "Sd"
    Tries = 3
    Noise = TRUE
INVARIANTS
    DrivenAsTold
    CleanRunSucceeds
PROPERTIES
    EnumerationEnds
