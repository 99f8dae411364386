\* More control offsets than one multiframe polls; a station that leaves, and may
\* miss packets until then; a closing timer that is late once; a DC block that
\* holds a CELL_EXIT and one RSC_RQST at most.
SPECIFICATION FairSpec
CONSTANTS
    a1 = a1
    a2 = a2
    a3 = a3
    As = {a1, a2, a3}
    Leaver = {a1}
    NoAs = NoAs
    CoMax = 3
    DclMax = 2
    SuccMod = 8
    SduLen = 2
    ExitLen = 2
    RqstLen = 3
    MaxRqst <- MCMaxRqst
    MaxLate = 1
    Deaf = {a1}
INVARIANTS
    DcchTypeOK
    Attributed
    RotationBounded
PROPERTIES
    NoClash
    ExitHandled
CHECK_DEADLOCK FALSE
