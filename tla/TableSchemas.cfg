SPECIFICATION MCSpec
CONSTANTS
    Versions = {v1, v2}
    Readers = {r1}
    Handlers = {h1, h2}
    MaxAlters = 2
    MaxIds = 2
    MaxFaults = 1
    None = None
INVARIANTS
    RowHasColumns
    AltersAreKept
    AlterKeepsRight
PROPERTIES
    PastEveryAlter
CHECK_DEADLOCK FALSE
