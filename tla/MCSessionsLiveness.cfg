CONSTANTS
    Clients = {c1, t1}
    TestClients = {t1}
    Logins = {alice}
    EmptyLogin = EmptyLogin
    Passwords = {p1, p2}
    Nobody = Nobody
    MaxOpen = 2
    Buckets = 1
    MaxPackets = 2
    MaxAnnounces = 1
SPECIFICATION FairSpec
CHECK_DEADLOCK FALSE
INVARIANTS
    BeliefsAgree
PROPERTIES
    Answered
    SeatFreed
