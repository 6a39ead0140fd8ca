CONSTANTS
    Readers = {r1}
    Tables = {a, b}
    Names = {a, b}
    NameOf <- TwoNames
    Transactions <- Mixed
    SeqInterval = 3
    BatchSize = 1
    None = None
    MaxTx = 2
    MaxId = 3
    MaxFaults = 1
    MaxKills = 0
SPECIFICATION Spec
INVARIANTS
    OneGtid
    NothingDropped
PROPERTIES
    SeqNoAdvances
    GtidNeverRegresses
    LossPerSave
\* With every table deregistered there is nothing left to do.
CHECK_DEADLOCK FALSE
