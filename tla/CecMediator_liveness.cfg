SPECIFICATION FairSpec
CONSTANTS
    Callers = {c1}
    UT = UT
    DeviceTypes = {"playback"}
    Operations <- AnyCall
    Addresses = {a1}
    Invalid = Invalid
    TvAddress = TvAddress
    TvPortAddress = TvPortAddress
    LogicalAddresses = {playback1}
    Unregistered = Unregistered
    None = None
    Attempts = 1
    MaxChanges = 2
    MaxFailures = 0
CHECK_DEADLOCK FALSE
PROPERTIES
    CallsReturn
    UeventsHandled
