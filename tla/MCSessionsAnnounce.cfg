CONSTANTS
    Clients = {c1, c2}
    TestClients = {}
    Logins = {alice}
    EmptyLogin = EmptyLogin
    Passwords = {p1}
    Nobody = Nobody
    MaxOpen = 2
    Buckets = 13
    MaxPackets = 0
    MaxAnnounces = 1
SPECIFICATION Spec
CHECK_DEADLOCK FALSE
PROPERTIES
    AnnounceReachesAll
