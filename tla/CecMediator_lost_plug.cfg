SPECIFICATION Spec
CONSTANTS
    Callers = {c1}
    UT = UT
    DeviceTypes = {"playback"}
    Operations <- AnyCall
    Addresses = {a1, a2}
    Invalid = Invalid
    TvAddress = TvAddress
    TvPortAddress = TvPortAddress
    LogicalAddresses = {playback1}
    Unregistered = Unregistered
    None = None
    Attempts = 1
    MaxChanges = 2
    MaxFailures = 0
SYMMETRY Symmetry
CHECK_DEADLOCK FALSE
INVARIANTS
    AddressChangeIsTold
