\* Nothing is lost, nobody restarts; stations come and leave.
SPECIFICATION FairSpec
CONSTANTS
    Ua = {u1, u2}
    NoUa = NoUa
    Sac = {1, 2}
    CoMax = 2
    Gsc = TRUE
    Answers = TRUE
    MaxAsked = 1
    MaxResps = 2
    MaxRestart = 0
    Failing = FALSE
    AuthFails = FALSE
    Lossy = FALSE
PROPERTIES
    EveryoneEnters
CHECK_DEADLOCK FALSE
