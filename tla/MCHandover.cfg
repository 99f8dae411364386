\* Two stations that are handed over, there and back, and leave.
SPECIFICATION Spec
CONSTANTS
    As = {a1, a2}
    NoAs = NoAs
    CoMax = 3
    MaxHo = 3
    Patient = TRUE
    PeersFail = TRUE
    Lossy = TRUE
SYMMETRY Sym
INVARIANTS
    HandoverTypeOK
    Kept
    OffsetsFollow
CHECK_DEADLOCK FALSE
