CONSTANTS
    MaxThreads = 3
    Tables = {x, y, z}
    NoKey = {z}
    Capacity = 1
    MaxEvents = 2
    MaxFaults = 1
    None = None
SPECIFICATION MCSpec
INVARIANTS
    TypeOK
    PoolCount
    WaitsForAll
PROPERTIES
    ShutdownCompletes
    RegisteredIsStreamed
    PoolSettles
