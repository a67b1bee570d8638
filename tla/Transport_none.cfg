SPECIFICATION Spec
CHECK_DEADLOCK FALSE
CONSTANTS
    Size = {1, 2, 3}
    MAX_FRAME = 2
    PrefixLen = 4
    MaxFrames = 2
INVARIANT NoneOnlyWhenClean
