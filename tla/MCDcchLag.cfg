\* One slot for the control offsets of two stations, nothing lost or late, and
\* nobody leaves.
SPECIFICATION Spec
CONSTANTS
    a1 = a1
    a2 = a2
    a3 = a3
    As = {a1, a2}
    Leaver = {}
    NoAs = NoAs
    CoMax = 2
    DclMax = 1
    SuccMod = 8
    SduLen = 2
    ExitLen = 2
    RqstLen = 3
    MaxRqst <- MCMaxRqst
    MaxLate = 0
    Deaf = {}
INVARIANTS
    AttributedAlways
CHECK_DEADLOCK FALSE
