SPECIFICATION Spec
CONSTANTS
    Clients = {c1, c2}
    NoClient = NoClient
    MaxMessages = 2
INVARIANT QuitLeavesNoConnection
CHECK_DEADLOCK FALSE
