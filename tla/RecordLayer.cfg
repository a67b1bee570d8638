SPECIFICATION Spec
CHECK_DEADLOCK FALSE
CONSTANTS
    Plaintext = {m1, m2}
    MaxSeals = 2
    MaxOpens = 3
INVARIANTS
    TypeOK
    OpenedIsPrefix
    NonceNeverReused
    NextRecordOpens
PROPERTIES
    DeadAfterFailure
    FifoSpec
