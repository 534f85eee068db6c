SPECIFICATION FairSpec
CONSTANTS
    Clients = {c1, c2}
    NoClient = NoClient
    MaxMessages = 2
INVARIANTS
    TypeOK
    OneOpenConnection
PROPERTIES
    WaitingClientsAreGreeted
    QuitEndsWorker
CHECK_DEADLOCK FALSE
