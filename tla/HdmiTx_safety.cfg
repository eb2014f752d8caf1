SPECIFICATION Spec
CONSTANTS
    None = None
    EdidSinks <- MCSinks
    Resolutions = {13, 127}
    SetSpaces = {"auto", "rgb"}
    SetDepths = {8, 12}
    SetSwitches = {"dv"}
    DriverDV = TRUE
    MaxCalls = 4
    MaxLost = 1
    MaxRestarts = 1
INVARIANT TypeOK
INVARIANT ToldUnlessShared
PROPERTY NewSinkTold
PROPERTY ModesFitSink
