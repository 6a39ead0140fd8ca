CONSTANTS
    BatchSize = 2
    Interval = 2
    NoRow = NoRow
    MaxLog = 9
    Silent = {1}
SPECIFICATION FairSpec
INVARIANTS
    TypeOK
    InFlightBound
    NothingDropped
    ResendBound
PROPERTIES
    FetchPersistsSafely
    BoundedLossPerWrite
    Implements
    RowNeverRegresses
    DrainsOrStops
