\* Two stations, the second of which may miss frames; a control message; grants
\* of up to the whole capacity; CC slots of one to three blocks, of which the
\* field CCL can tell two.
CONSTANTS
    As = {1, 2}
    Demands <- MCDemands
    Msg = {m1}
    NoNode = NoNode
    BlkLen = 1
    Blk0Max = 2
    CcPer = 2
    CclMod = 3
    MfMax = 5
    DataMf = {1, 2}
    MustLate = TRUE
    Deaf = {2}
SPECIFICATION Spec
INVARIANTS TypeOK RightPiece OnceOnAir Latency
CHECK_DEADLOCK FALSE
