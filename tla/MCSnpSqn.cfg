\* One AS-to-GS flow with the window of the code, up to the last value of the
\* SQN field.
SPECIFICATION Spec
CONSTANTS
    Flow = {up}
    AsFlow = {up}
    SqnMod = 6
    SqnRange = 3
    MaxSent = 6
INVARIANTS
    SnpTypeOK
    InOrder
PROPERTIES
    DeafStaysDeaf
    ImplementsPipe
CHECK_DEADLOCK FALSE
