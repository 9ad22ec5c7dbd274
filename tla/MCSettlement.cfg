CONSTANTS
    Users = {alice, bob}
    Prices = {3}
    MaxUsd = 2
    MaxTrades = 2
    MaxReads = 1
    HalfRange = 5
    NoRequest = NoRequest
    NoReport = NoReport
    Unknown = Unknown
SPECIFICATION Spec
SYMMETRY UserSymmetry
INVARIANTS
    OneFulfilled
    StatementAgrees
    NumbersAreReal
PROPERTIES
    ImplementsLedger
