\* SACs are drawn at random and may collide, and a controller is asked as well;
\* authentications fail; nothing is lost.
SPECIFICATION Spec
CONSTANTS
    Ua = {u1, u2}
    NoUa = NoUa
    Sac = {0, 1}
    CoMax = 2
    Gsc = FALSE
    Answers = TRUE
    MaxAsked = 1
    MaxResps = 1
    MaxRestart = 0
    Failing = FALSE
    AuthFails = TRUE
    Lossy = FALSE
SYMMETRY Sym
INVARIANTS
    RegisteredHasCo
CHECK_DEADLOCK FALSE
