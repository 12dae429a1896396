CONSTANTS
    WindowSize = 4
    BitmapBits = 32
    DiffMod = 65536
    ClockMod = 1024
    RekeyTimeout = 1
    RekeyAfterTime = 2
    RejectAfterTime = 3
    KeepaliveInterval = 1
    InitiationGap = 1
    RekeyAfterMessages = 100
    RejectAfterMessages = 200
    LocalIndex = {i1, i2}
    NoIndex = noindex
    Address = {home}
    AnyAddr = any
    Faults = {}
    Boot = 10
    MaxTimerLag = 1
    Calls = {"connect"}
    Payload <- KeepaliveThenData
    MaxTime = 0
    MaxEph = 1
    MaxTs = 1
    MaxTx = 0
    MaxAlive = 100
    MaxRxCtr = 2
SYMMETRY IndexSymmetry
SPECIFICATION Spec
INVARIANT DeliveredOnce
