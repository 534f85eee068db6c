SPECIFICATION FairSpec
CONSTANTS
    Clients = {c1, c2}
    NoClient = NoClient
    MaxRequests = 2
INVARIANTS
    TypeOK
    MessagesInOrder
    AnsweredIsAccepted
PROPERTIES
    StopReturns
    AnsweredIsDelivered
CHECK_DEADLOCK FALSE
