SPECIFICATION FramedFairSpec
CONSTANTS
    Writers = {w1, w2}
    Setters = {s1}
    NoOne = NoOne
    MaxCalls = 3
    MaxDataLength = 14
    maxFrameLength = 0
    maxHeaderFieldSize = 0
    maxHeaderCount = 2
    defaultMaxHeaderFieldSize = 2
    defaultMaxHeaderCount = 3
    Frames <- MCFrames
    BlockSizes = {2}
\* After closeChan and the last call everything is at rest.
CHECK_DEADLOCK FALSE
INVARIANTS
    FramedTypeOK
    NoSendOnClosed
    NoCircularWait
    FramesIntact
    ContextsAgree
PROPERTIES
    CallsReturn
    MonitorGoesDown
