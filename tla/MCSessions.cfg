CONSTANTS
    Clients = {c1, c2, t1}
    TestClients = {t1}
    Logins = {alice, bob}
    EmptyLogin = EmptyLogin
    Passwords = {p1, p2}
    Nobody = Nobody
    MaxOpen = 2
    Buckets = 1
    MaxPackets = 2
    MaxAnnounces = 0
SPECIFICATION Spec
SYMMETRY SessionSymmetry
CHECK_DEADLOCK FALSE
INVARIANTS
    SessionsAgree
    AuthorizedByPassword
    NoticesReachTheirUser
