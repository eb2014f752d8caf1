SPECIFICATION Spec
CONSTANTS
    Callers = {c1}
    UT = UT
    DeviceTypes = {"playback", "tv"}
    Operations <- AnyCall
    Addresses = {a1}
    Invalid = Invalid
    TvAddress = TvAddress
    TvPortAddress = TvPortAddress
    LogicalAddresses = {playback1}
    Unregistered = Unregistered
    None = None
    Attempts = 2
    MaxChanges = 3
    MaxFailures = 1
SYMMETRY Symmetry
CHECK_DEADLOCK FALSE
INVARIANTS
    TypeOK
    OneTransmission
    LogicalAddressIsSet
    ToldUnlessAsked
    FollowsUnlessAsked
    TvKeepsAddress
