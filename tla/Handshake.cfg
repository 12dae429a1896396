CONSTANTS
    WindowSize = 1
    BitmapBits = 1
    DiffMod = 2
    ClockMod = 2
    RekeyTimeout = 1
    RekeyAfterTime = 1
    RejectAfterTime = 1
    KeepaliveInterval = 1
    InitiationGap = 0
    RekeyAfterMessages = 1
    RejectAfterMessages = 1
    LocalIndex = {i1, i2, i3}
    NoIndex = noindex
    Address = {home}
    AnyAddr = any
    Faults = {"pbuf_alloc"}
    A = a
    B = b
    Strangers = {c}
    PresharedKey = {p, q}
    Loaded = {}
    MaxEph = 4
    MaxSecret = 2
    MaxRestarts = 1
SYMMETRY HandshakeSymmetry
SPECIFICATION Spec
CHECK_DEADLOCK FALSE
INVARIANTS InitiatorHasPartner OnlyAsConfigured KeysNeverAgain EphemeralForgotten
