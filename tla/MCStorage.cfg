SPECIFICATION Spec
CONSTANTS
    Objects <- MCObjects
    Keys = {1, 2}
    MaxLoads = 2
INVARIANTS LoadedAsStored OtherKindRefused
CHECK_DEADLOCK FALSE
