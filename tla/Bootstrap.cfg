CONSTANTS
    Rows = 2
    HasSchema = TRUE
    BatchSize = 2
    MaxEvents = 2
    MaxIds = 2
    MaxFaults = 1
SPECIFICATION FairSpec
INVARIANTS
    HandoverComplete
    SnapshotComplete
PROPERTIES
    BootstrapCompletes
