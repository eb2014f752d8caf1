SPECIFICATION FairSpec
CONSTANTS
    Callers = {c1}
    OT = OT
    Slots = {s1, s2}
    Streams = {preview, record}
    MaxFrame = 2
    None = None
CHECK_DEADLOCK FALSE
PROPERTIES
    CallsReturn
    FramesSettle
