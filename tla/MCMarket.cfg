CONSTANTS
    Users = {u1, u2}
    MaxPrice = 3
    MaxUsd = 2
    MaxRequests = 4
    NoRequest = NoRequest
SPECIFICATION FairSpec
INVARIANTS
    TypeOK
    BoundsExact
    CursorOnLevel
    SearchedOwn
    NothingSuitableWaits
PROPERTIES
    PriceWithinLimits
    ImplementsExchange
    Answered
