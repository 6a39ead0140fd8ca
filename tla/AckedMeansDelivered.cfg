CONSTANTS
    BatchSize = 1
    Interval = 3
    NoRow = NoRow
    MaxLog = 9
    Silent = {1}
SPECIFICATION Spec
PROPERTY
    AckedMeansDelivered
