SPECIFICATION TasksSpec
CONSTANTS
    Task = {k1, k2}
    HomeIp = HomeIp
    OtherIp = OtherIp
    Key = Key
    OtherKey = OtherKey
    N1 = N1
    N2 = N2
    Ts1 = 1
    Ts2 = 3
    Ip <- MCIp
    ServerPk <- MCServerPk
    Flight <- MCFlight
    Window = 1
    Skew = 0
    MaxSetBacks = 0
    MaxMillis = 5
PROPERTIES
    GateSpec
    OnceSpec
    EveryFlightAnswered
