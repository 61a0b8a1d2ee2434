SPECIFICATION Spec
CONSTANTS
    CounterBits = 10
    SizeBits = 14
    MacLength = 1
    SignatureLength = 1
    Contents <- MCContents
    Unknown <- MCUnknown
    Payloads <- MCPayloads
INVARIANTS FieldsInside TooShortRefused ReadAsWritten
PROPERTY Terminates
CHECK_DEADLOCK FALSE
