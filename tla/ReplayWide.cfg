CONSTANTS
    WindowSize = 4
    BitmapBits = 32
    DiffMod = 65536
    MaxSeq = 6
SPECIFICATION Spec
INVARIANT BitmapWideWindow
