\* A station whose cell may answer twice, or know it from an earlier life.
SPECIFICATION FairSpec
CONSTANTS
    MaxGrants = 2
    Retries = TRUE
INVARIANTS
    AccessTypeOK
    LayersFollow
PROPERTIES
    AccessEnds
    ExitAnnounced
CHECK_DEADLOCK FALSE
