SPECIFICATION Spec
CONSTANTS
    Peers = {p1, p2}
    NoPeer = NoPeer
    MaxStarts = 2
    MaxSid = 2
    MaxBytes = 1
    BufLen = 2
SYMMETRY PeerSymmetry
INVARIANTS
    TypeOK
    ConnectFirst
    UniqueSids
    AcceptLoopEndsByAbort
CHECK_DEADLOCK FALSE
