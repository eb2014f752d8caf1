SPECIFICATION Spec
CONSTANTS
    Callers = {c1, c2}
    OT = OT
    Slots = {s1, s2}
    Streams = {preview, record}
    MaxFrame = 2
    None = None
SYMMETRY Symmetry
CHECK_DEADLOCK FALSE
INVARIANTS
    TypeOK
    SingleOwner
    SlotsExclusive
    InflightIsPending
    BuffersStayMapped
    ClosedIsDrained
PROPERTIES
    KeepsContract
