SPECIFICATION Spec
CONSTANTS
    Alice = Alice
    Bob = Bob
    HomeIp = HomeIp
    OtherIp = OtherIp
    OldKey = OldKey
    NewKey = NewKey
    N1 = N1
    N2 = N2
    N3 = N3
    Ip <- MCIp
    ServerPk <- MCServerPk
    Flight <- MCFlight
    TsEarly = 4
    TsLate = 6
    Window = 2
    Skew = 1
    MaxSetBacks = 0
    MaxMillis = 8
INVARIANT AcceptedAtMostOnce
