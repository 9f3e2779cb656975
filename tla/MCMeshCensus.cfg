CONSTANTS
    Clients = {c1, c2}
    Main = main
    Leaves = {leaf}
    NoLeaf = NoLeaf
SPECIFICATION Spec
SYMMETRY Symmetry
INVARIANTS
    TypeOK
    PushIsKept
    RecentCensusRules
    VacatedLeafIsZero
    OwnCensusExact
PROPERTIES
    SelfCountIsOwn
    ListedLeafKeepsPush
