SPECIFICATION Spec
CONSTANTS
    Messages = 3
    Bodies = {0, 1}
    Words = 5
    BufLen = 4
INVARIANTS
    TypeOK
    BlocksHoldTheirMessages
    BodiesAreRestored
CHECK_DEADLOCK FALSE
