CONSTANTS
    Macs = {m1, m2}
    Tasks = {t1, t2}
    NoTask = NoTask
SPECIFICATION Spec
INVARIANTS
    TypeOK
    MarkIsDurable
    MarkIsKnown
    PurgedStaysOut
PROPERTIES
    ImplementsSuppression
    CallsEnd
