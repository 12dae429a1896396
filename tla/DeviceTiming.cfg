CONSTANTS
    WindowSize = 4
    BitmapBits = 32
    DiffMod = 65536
    ClockMod = 1024
    RekeyTimeout = 1
    RekeyAfterTime = 1
    RejectAfterTime = 3
    KeepaliveInterval = 1
    InitiationGap = 1
    RekeyAfterMessages = 100
    RejectAfterMessages = 200
    LocalIndex = {i1, i2, i3, i4}
    NoIndex = noindex
    Address = {home}
    AnyAddr = any
    Faults = {"pbuf_alloc"}
    Boot = 10
    MaxTimerLag = 1
    Calls = {"connect"}
    Payload <- KeepaliveThenData
    MaxTime = 5
    MaxEph = 3
    MaxTs = 1
    MaxTx = 1
    MaxAlive = 100
    MaxRxCtr = 0
SYMMETRY IndexSymmetry
SPECIFICATION Spec
INVARIANTS SessionImpliesLink CurrentWithinLifetime
PROPERTY SendingKept
