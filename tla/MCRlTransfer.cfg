CONSTANTS
    As = {1, 2}
    Sdus <- MCSdus
    WinSize = 3
    AckBits = 2
    ReadBits = 1
    Per = 2
    SlotMax = 3
    COL = 1
    Deaf = {1}
    Lossy = {1}
    Slow = {2}
    MaxLate = 1
SPECIFICATION Spec
INVARIANTS RlTypeOK RightEntity AckedReceived NothingVanishes Covered
CHECK_DEADLOCK FALSE
