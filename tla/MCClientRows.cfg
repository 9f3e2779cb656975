CONSTANTS
    Clients = {c1}
    Purged = {}
    Main = main
    Leaves = {l1, l2}
    ForceSets = {{l1}}
    NoNode = NoNode
    NoClient = NoClient
SPECIFICATION Spec
CONSTRAINT OneUnloaded
INVARIANTS
    TypeOK
    NoStaleCopy
    RestoredOnce
