CONSTANTS
    Clients = {c1, c2, c3}
    Names = {x}
    NTickets = 2
    Sessions = {s1, s2, s3, s4}
    None = None
SYMMETRY Symmetric
SPECIFICATION Spec
INVARIANTS
    TypeOK
    ExclusiveTickets
    NoHiddenTicket
PROPERTIES
    Implements
