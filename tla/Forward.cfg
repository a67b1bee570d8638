SPECIFICATION Spec
CHECK_DEADLOCK FALSE
CONSTANTS
    CHUNK = 2
    PlainCap = 2
    TunnelCap = 1
    MaxEarly = 1
    MaxUp = 2
    MaxDown = 1
    MaxFailures = 1
INVARIANTS
    TypeOK
    EofMeansComplete
PROPERTIES
    PipeSpec
    ForwardReturns
