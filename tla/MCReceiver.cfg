\* Two cells, two HO_COMs: the second finds the channel of the first taken.
CONSTANTS
    Old = 1
    New = 3
    ChannelMax = 6
    MaxCom = 2
    QMax = 1
    SockMax = 1
SPECIFICATION FairSpec
INVARIANTS ReceiverTypeOK Followed StaleBounded
PROPERTIES Synchronised OldEnds
