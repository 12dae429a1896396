CONSTANTS
    WindowSize = 2
    BitmapBits = 2
    DiffMod = 65536
    ClockMod = 1024
    RekeyTimeout = 1
    RekeyAfterTime = 2
    RejectAfterTime = 3
    KeepaliveInterval = 1
    InitiationGap = 0
    RekeyAfterMessages = 100
    RejectAfterMessages = 200
    LocalIndex = {i1, i2, i3}
    NoIndex = noindex
    Address = {home}
    AnyAddr = any
    Faults = {}
    Boot = 10
    MaxTimerLag = 1
    Calls = {"connect"}
    Payload <- LastIsForeign
    MaxTime = 1
    MaxEph = 2
    MaxTs = 2
    MaxTx = 0
    MaxAlive = 100
    MaxRxCtr = 3
SYMMETRY IndexSymmetry
SPECIFICATION Spec
INVARIANTS TypeOK OnlyPromotingTwice
