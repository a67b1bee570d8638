SPECIFICATION Spec
CONSTANTS
    Alice = Alice
    Bob = Bob
    HomeIp = HomeIp
    OtherIp = OtherIp
    OldKey = OldKey
    NewKey = NewKey
    N1 = N1
    N2 = N2
    N3 = N3
    Ip <- MCIp
    ServerPk <- MCServerPk
    Flight <- MCFlight
    TsEarly = 3
    TsLate = 4
    Window = 1
    Skew = 3
    MaxSetBacks = 1
    MaxMillis = 6
INVARIANTS
    TypeOK
    NoReplayWithinWindow
    OnceUnlessAhead
    AcceptanceBound
    RefusalHasCause
    CacheOnlyRecent
