SPECIFICATION FilesSpec
CHECK_DEADLOCK FALSE
CONSTANTS
    Ortc = {c1, c2}
    MaxCommands = 5
INVARIANTS
    FilesTypeOK
    CertMatchesUnlessRekeyed
    ServedKeyKept
    ClientKeyKept
    GenCertRepairs
