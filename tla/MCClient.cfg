CONSTANTS
    MaxSends = 5
    TestSends = 2
SPECIFICATION FairSpec
CHECK_DEADLOCK FALSE
INVARIANTS
    PromptsMatch
    SocketOutlivesUse
    ShownTogether
PROPERTIES
    LossEnds
    ExitEnds
    LoginAnswered
