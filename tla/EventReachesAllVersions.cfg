CONSTANTS
    Readers = {r1}
    Tables = {v1, v2}
    Names = {a}
    NameOf <- OneName
    Transactions <- OneInsert
    SeqInterval = 2
    BatchSize = 1
    None = None
    MaxTx = 2
    MaxId = 2
    MaxFaults = 0
    MaxKills = 0
SPECIFICATION Spec
INVARIANT
    EventReachesAllVersions
CHECK_DEADLOCK FALSE
