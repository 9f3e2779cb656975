CONSTANTS
    Macs = {m1, m2}
    Addrs = {a1, a2}
    NoAddr = NoAddr
    NoMac = NoMac
    Tasks = {t1, t2}
    NoTask = NoTask
    Interventions = 1
SPECIFICATION Spec
INVARIANTS
    TypeOK
PROPERTIES
    RefusedWasNotSent
    DoneIsWhatWasShown

SYMMETRY Symmetry
