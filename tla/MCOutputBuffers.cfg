SPECIFICATION Spec
CONSTANTS
    Calls <- MCCalls
    Guard = 4
INVARIANTS BufferRespected WrittenAsPromised DecodedBack
CHECK_DEADLOCK FALSE
