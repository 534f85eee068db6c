SPECIFICATION ServerSpec
CONSTANTS
    Peers = {p1, p2}
    NoPeer = NoPeer
    MaxStarts = 1
    MaxSid = 2
    MaxBytes = 1
    BufLen = 2
    MaxCloses = 1
SYMMETRY PeerSymmetry
INVARIANTS
    ServerTypeOK
    OpenSessionsAreKnown
    DictionaryFollowsConnections
    ListHasOpenSessions
PROPERTIES
    SessionsInOrder
CHECK_DEADLOCK FALSE
