CONSTANTS
    Device = {d1, d2, d3}
    NoDevice = NoDevice
SPECIFICATION Spec
SYMMETRY Allocations
INVARIANT RandomSeeded
