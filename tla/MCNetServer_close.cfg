SPECIFICATION FairServerSpec
CONSTANTS
    Peers = {p1, p2}
    NoPeer = NoPeer
    BufLen = 2
    MaxBytes = 3
    MaxStarts = 1
    MaxSid = 2
    MaxCloses = 1
INVARIANTS
    DatagramsContiguous
PROPERTIES
    GracefulCloseIsReported
    EveryConnectionIsServed
ACTION_CONSTRAINT CrowdsAreSilent
CHECK_DEADLOCK FALSE
