\* A controller assigns SACs; packets are lost, stations are restarted.
SPECIFICATION Spec
CONSTANTS
    Ua = {u1, u2}
    NoUa = NoUa
    Sac = {1, 2}
    CoMax = 3
    Gsc = TRUE
    Answers = TRUE
    MaxAsked = 1
    MaxResps = 2
    MaxRestart = 2
    Failing = TRUE
    AuthFails = FALSE
    Lossy = TRUE
SYMMETRY Sym
INVARIANTS
    EntryTypeOK
    CoAccounted
    NoSharedCo
CHECK_DEADLOCK FALSE
