CONSTANTS
    Symbols = {0, 9, 22, 63}
    Pad = pad
    Bad = bad
    Sizes = {3, 5, 6}
    MaxLen = 8
SPECIFICATION Spec
INVARIANTS DecodesText RefusesMalformed RoundTrip
CHECK_DEADLOCK FALSE
