SPECIFICATION Spec
CHECK_DEADLOCK FALSE
CONSTANTS
    Conn = {c1, c2}
    pk1 = pk1
    pk2 = pk2
    CA = CA
    None = None
    ServerPk <- MCServerPk
    ServerConfig <- MCServerConfig
    Setup <- MCSetup
    MaxTroubles = 1
INVARIANTS
    TypeOK
    KeyAgreement
    ZeroRttConfirmed
    StrictMeansCertified
PROPERTIES
    PinIsKept
    HandshakeEnds
    UndisturbedSucceeds
