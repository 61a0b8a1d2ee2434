SPECIFICATION Spec
CONSTANTS
    Calls <- MCMacCalls
    Guard = 4
INVARIANT BufferRespected
CHECK_DEADLOCK FALSE
