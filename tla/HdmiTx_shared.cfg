SPECIFICATION Spec
CONSTANTS
    None = None
    EdidSinks <- MCOneSink
    Resolutions = {13}
    SetSpaces = {"auto"}
    SetDepths = {8, 12}
    SetSwitches = {}
    DriverDV = TRUE
    MaxCalls = 5
    MaxLost = 0
    MaxRestarts = 0
INVARIANT ToldIsAsked
CHECK_DEADLOCK FALSE
