SPECIFICATION Spec
CONSTANTS
    Objects <- MCObjects
    Keys = {1, 2}
    MaxLoads = 1
INVARIANT WrongLengthRefused
CHECK_DEADLOCK FALSE
