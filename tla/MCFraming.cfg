CONSTANTS
    Kinds <- MCKinds
    Room = 4
    Bars = TRUE
    MaxPackets = 4
SPECIFICATION FairSpec
CHECK_DEADLOCK FALSE
INVARIANTS
    IntactWhenAlone
PROPERTIES
    ImplementsChannel
    EachIsDispatched
