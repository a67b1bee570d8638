SPECIFICATION Spec
CHECK_DEADLOCK FALSE
CONSTANTS
    CHUNK = 1
    PlainCap = 1
    TunnelCap = 1
    MaxEarly = 0
    MaxUp = 4
    MaxDown = 1
    MaxFailures = 0
PROPERTY
    EveryByteArrives
