SPECIFICATION FairSpec
CONSTANTS
    Clients = {c1, c2}
    NoClient = NoClient
    MaxBytes = 2
    BufLen = 1
INVARIANTS
    TypeOK
    AloneIsRight
PROPERTIES
    ConnectionsAreAccepted
CHECK_DEADLOCK FALSE
