CONSTANTS
    Readers = {r1, r2}
    Tables = {v1}
    Names = {a}
    NameOf <- OneName
    Transactions <- OneInsert
    SeqInterval = 2
    BatchSize = 1
    None = None
    MaxTx = 1
    MaxId = 2
    MaxFaults = 1
    MaxKills = 1
SPECIFICATION FairSpec
PROPERTY
    RegisteredIsIngested
\* With every table deregistered there is nothing left to do.
CHECK_DEADLOCK FALSE
