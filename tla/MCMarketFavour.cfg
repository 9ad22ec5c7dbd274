CONSTANTS
    Users = {u1, u2}
    MaxPrice = 2
    MaxUsd = 1
    MaxRequests = 2
    NoRequest = NoRequest
SPECIFICATION Spec
PROPERTIES
    FavoursNewRequest
