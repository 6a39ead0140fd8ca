SPECIFICATION Spec
CONSTANTS
    Versions = {v1}
    Readers = {r1, r2}
    Handlers = {h1}
    MaxAlters = 2
    MaxIds = 1
    MaxFaults = 1
    None = None
INVARIANTS
    SkippedIsPersisted
CHECK_DEADLOCK FALSE
