CONSTANTS
    Switches = {power}
    Selects = {channel}
    Values = {v1, v2}
    NoValue = NoValue
    Calls = {c1, c2}
    MaxOverrides = 1
SPECIFICATION WifiSpec
INVARIANTS
    WifiTypeOK
PROPERTIES
    WarnedWithReason
    LastingOverrideIsReported
    Converges
