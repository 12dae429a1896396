CONSTANTS
    WindowSize = 4
    BitmapBits = 6
    DiffMod = 65536
    MaxSeq = 10
SPECIFICATION Spec
INVARIANTS TypeOK NeverAgain FreshInWindowAccepted
