CONSTANTS
    Messages <- MCMessages
    Printable <- MCPrintable
    HalfRange = 128
    HalfShort = 4
    MaxBytes = 4
    MaxCharacters = 4
SPECIFICATION Spec
INVARIANTS
    EncodedArrives
    CutFallsBack
