SPECIFICATION Spec
CONSTANTS
    None = None
    NoSession = NoSession
    HotPlug = HotPlug
    Callers = {c1, c2}
    Openers = {c1, c2}
    Threads <- MCThreads
    Callbacks = {framework}
    Timings = {t1}
    Refuses = FALSE
    MaxEvents = 2
    Devices = {d1}
    Sessions = {s1, s2}
    MaxRetry = 0
SYMMETRY Symmetry
CHECK_DEADLOCK FALSE
INVARIANTS
    TypeOK
    SignalSettled
    KnownFollowsCable
    ToldFollowsMap
    OneSession
    StreamsWhileOpen
