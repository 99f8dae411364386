\* Stations with high control offsets leave a cell that rotates.
SPECIFICATION FairSpec
CONSTANTS
    a1 = a1
    a2 = a2
    a3 = a3
    As = {a1, a2, a3}
    Leaver = {a1, a2, a3}
    NoAs = NoAs
    CoMax = 3
    DclMax = 2
    SuccMod = 8
    SduLen = 2
    ExitLen = 2
    RqstLen = 3
    MaxRqst <- NoRqst
    MaxLate = 0
    Deaf = {}
PROPERTIES
    EveryCoPolled
CHECK_DEADLOCK FALSE
