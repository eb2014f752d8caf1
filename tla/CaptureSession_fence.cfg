SPECIFICATION Spec
CONSTANTS
    Callers = {c1}
    OT = OT
    Slots = {s1}
    Streams = {preview, record}
    MaxFrame = 1
    None = None
SYMMETRY Symmetry
CHECK_DEADLOCK FALSE
INVARIANTS
    FenceTimeoutIsReported
