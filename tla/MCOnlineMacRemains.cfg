CONSTANTS
    Nodes = {n1, n2}
    Macs = {a, b}
    Names = {x, y}
    NoName = NoName
    Keys = {g, h}
    MaxConfigs = 2
SPECIFICATION Spec
SYMMETRY Symmetry
PROPERTIES
    OnlineMacRemains
