SPECIFICATION ConnectionFairSpec
CONSTANTS
    closer = closer
    other = other
    Threads = {closer, other}
    serve = serve
    NoOne = NoOne
    FirstId = 1
    FirstPeerId = 2
    PeerIds = {2}
    DataIds = {2}
    FindIds = {2}
    MaxStreamId = 3
    Calls <- ConnectionCalls
    MaxCalls = 2
    Handlers = {worker}
    FirstPing = 1
    PingWrap = 2
    MaxPings = 2
CHECK_DEADLOCK FALSE
INVARIANTS
    ConnectionTypeOK
    GracefulEnd
    IdsIncrease
    SleepersHaveReason
    PingSound
    ShutdownOnce
PROPERTIES
    WaitersReturn
    PingReturns
