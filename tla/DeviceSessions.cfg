CONSTANTS
    WindowSize = 4
    BitmapBits = 32
    DiffMod = 65536
    ClockMod = 1024
    RekeyTimeout = 0
    RekeyAfterTime = 2
    RejectAfterTime = 4
    KeepaliveInterval = 1
    InitiationGap = 0
    RekeyAfterMessages = 1
    RejectAfterMessages = 3
    LocalIndex = {i1, i2, i3, i4, i5}
    NoIndex = noindex
    Address = {home}
    AnyAddr = any
    Faults = {"pbuf_alloc"}
    Boot = 10
    MaxTimerLag = 1
    Calls = {"connect"}
    Payload <- DataOnly
    MaxTime = 0
    MaxEph = 4
    MaxTs = 3
    MaxTx = 3
    MaxAlive = 100
    MaxRxCtr = 0
SYMMETRY IndexSymmetry
SPECIFICATION Spec
INVARIANTS NonceFresh SealsOnlyConfirmed SendsOnNewest IndexUnique PrevExcludesNext
