CONSTANTS
    Clients = {alice, bob}
    Newcomer = newcomer
    Book <- Queues
SPECIFICATION FairSpec
CHECK_DEADLOCK FALSE
INVARIANTS
    QuietStopIsContained
    ExitIsLast
    RequestsDeleted
PROPERTIES
    StopEnds
