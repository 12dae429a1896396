CONSTANTS
    WindowSize = 1
    BitmapBits = 1
    DiffMod = 2
    ClockMod = 2
    RekeyTimeout = 1
    RekeyAfterTime = 1
    RejectAfterTime = 1
    KeepaliveInterval = 1
    InitiationGap = 0
    RekeyAfterMessages = 1
    RejectAfterMessages = 1
    LocalIndex = {i1, i2}
    NoIndex = noindex
    Address = {home, away}
    AnyAddr = any
    Faults = {}
    A = a
    B = b
    Strangers = {}
    PresharedKey = {p}
    Loaded = {b}
    MaxEph = 3
    MaxSecret = 2
    MaxRestarts = 1
SYMMETRY CookieSymmetry
SPECIFICATION Spec
CHECK_DEADLOCK FALSE
INVARIANT UnderLoadProven
PROPERTY CookieNeverOlder
