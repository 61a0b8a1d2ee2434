CONSTANTS
    Binding <- MCProcedures
    KnownLeaks <- MCKnownLeaks
    Unguarded <- MCUnguarded
SPECIFICATION Spec
INVARIANTS
    NothingLeaked
    InputsIntact
    MissingUnused
