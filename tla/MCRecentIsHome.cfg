CONSTANTS
    Main = main
    Leaves = {f, g}
    Away = away
    None = None
    Stay = 1
    HoldMax = 2
    MaxMoves = 1
    MaxFaults = 0
SPECIFICATION Spec
PROPERTY
    RecentIsHome
