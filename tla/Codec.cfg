SPECIFICATION Spec
CONSTANTS
    Base = 8
    Width <- MCWidth
    Sample <- MCSample
    MaxEdits = 1
INVARIANTS
    RoundTrip
    EndIsKnown
    OneEncoding
CHECK_DEADLOCK FALSE
