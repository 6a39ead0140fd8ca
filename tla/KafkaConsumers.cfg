CONSTANTS
    Consumers = {c1, c2, c3}
    NumParts = 2
    MaxParts = 8
    MaxMsgs = 2
    MaxOpens = 3
    None = None
SPECIFICATION FairSpec
INVARIANTS
    NothingSkipped
    EveryConsumerWorks
    SavesOnlyHanded
PROPERTIES
    AllFetched
CHECK_DEADLOCK FALSE
