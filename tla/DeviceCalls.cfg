CONSTANTS
    WindowSize = 4
    BitmapBits = 32
    DiffMod = 65536
    ClockMod = 1024
    RekeyTimeout = 1
    RekeyAfterTime = 1
    RejectAfterTime = 2
    KeepaliveInterval = 1
    InitiationGap = 1
    RekeyAfterMessages = 100
    RejectAfterMessages = 200
    LocalIndex = {i1, i2, i3}
    NoIndex = noindex
    Address = {home, roam}
    AnyAddr = any
    Faults = {"udp_sendto"}
    Boot = 10
    MaxTimerLag = 1
    Calls = {"connect", "disconnect", "remove_peer", "add_peer", "update_endpoint"}
    Payload <- KeepaliveThenData
    MaxTime = 2
    MaxEph = 2
    MaxTs = 2
    MaxTx = 1
    MaxAlive = 2
    MaxRxCtr = 0
SYMMETRY IndexSymmetry
SPECIFICATION Spec
INVARIANTS InitiationOnce ClosedStaysClosed
