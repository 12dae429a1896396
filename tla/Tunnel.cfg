CONSTANTS
    WindowSize = 1
    BitmapBits = 1
    DiffMod = 2
    ClockMod = 32
    RekeyTimeout = 1
    RekeyAfterTime = 2
    RejectAfterTime = 4
    KeepaliveInterval = 1
    InitiationGap = 0
    RekeyAfterMessages = 100
    RejectAfterMessages = 200
    LocalIndex = {1, 2, 3, 4, 5, 6, 7, 8, 9, 10, 11, 12}
    NoIndex = 0
    Address = {home}
    AnyAddr = any
    Faults = {}
    A = a
    B = b
    MaxTimerLag = 1
SPECIFICATION Spec
INVARIANT OneInitiator
PROPERTY TunnelOpens
