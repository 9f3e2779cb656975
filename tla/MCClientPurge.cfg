CONSTANTS
    Clients = {c1}
    Purged = {c1}
    Main = main
    Leaves = {l1}
    ForceSets = {{}, {l1}}
    NoNode = NoNode
    NoClient = NoClient
SPECIFICATION Spec
INVARIANTS
    PurgedHasNoRow
