SPECIFICATION Spec
CONSTANTS
    MaxTvDevices = 2
    MaxTvStreams = 2
    MaxTvEvents = 2
    MaxConversions = 1
    MaxPackets = 2
    MaxKeyCalls = 2
    StreamIdsUsed = {1, 2}
    BufferIds = {b1}
    NoBuffer = NoBuffer
    mSupportBufMgr = TRUE
    MaxStreamFrames = 2
    FileRows <- MCFileRows
    Adapters = {0, 1}
    Frameworks = {f1, f2}
    Nobody = Nobody
    MaxPlugs = 2
    MaxMessages = 1
    MaxSetCallbacks = 3
CHECK_DEADLOCK FALSE
INVARIANTS
    TypeOK
    PlayerHasStream
    LateOnce
    PictureAgrees
    ConvertedIfZero
    NothingLeft
    KeySessionsClosed
    TablesAgree
    BuffersOutliveRequests
    FormatsUsable
    StartFollowsCable
    CallbackFollowsFramework
PROPERTY
    PlayersEnd
