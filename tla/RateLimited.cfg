CONSTANTS
    WindowSize = 4
    BitmapBits = 32
    DiffMod = 65536
    ClockMod = 1024
    RekeyTimeout = 1
    RekeyAfterTime = 2
    RejectAfterTime = 3
    KeepaliveInterval = 1
    InitiationGap = 2
    RekeyAfterMessages = 100
    RejectAfterMessages = 200
    LocalIndex = {i1, i2, i3}
    NoIndex = noindex
    Address = {home}
    AnyAddr = any
    Faults = {}
    Boot = 10
    MaxTimerLag = 1
    Calls = {}
    Payload <- KeepaliveThenData
    MaxTime = 2
    MaxEph = 2
    MaxTs = 2
    MaxTx = 0
    MaxAlive = 100
    MaxRxCtr = 0
SYMMETRY IndexSymmetry
SPECIFICATION Spec
INVARIANT RateLimited
