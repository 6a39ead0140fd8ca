CONSTANTS
    NumKeys = 2
    MaxFileSize = 2
    Encrypted = TRUE
    SeqBase = 3
    SeqLimit = 3
    MaxMsgs = 3
    MaxSec = 1
    MaxSchemas = 1
    MaxProducers = 1
    MaxConsumers = 1
    MaxFaults = 1
SPECIFICATION MCSpec
INVARIANTS
    NothingPassedOver
    FilesHoldMessages
    HeaderIsOwn
PROPERTIES
    AllConsumed
CHECK_DEADLOCK FALSE
