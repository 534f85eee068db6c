SPECIFICATION Spec
CONSTANTS
    Clients = {c1, c2}
    NoClient = NoClient
    MaxBytes = 2
    BufLen = 2
INVARIANT PacketsAreTheClients
CHECK_DEADLOCK FALSE
