CONSTANTS
    Main = main
    Leaves = {f}
    Away = away
    None = None
    Stay = 1
    HoldMax = 2
    MaxMoves = 1
    MaxFaults = 1
SPECIFICATION Spec
INVARIANTS
    TypeOK
PROPERTIES
    DepartsWithReason
    Follows
    GoneIsAway
