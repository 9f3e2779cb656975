CONSTANTS
    Entries = {e1, e2}
    Freqs = {0, 1, 2}
    Runs = {r1}
    Interventions = 1
    NoEntry = NoEntry
SPECIFICATION Spec
INVARIANTS
    TypeOK
    DeadlineArmed
PROPERTY
    PurgeHappens
