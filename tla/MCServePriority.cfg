SPECIFICATION SpecWithPriorities
CONSTANTS
    FRAME_WORKERS = 2
    QUEUE_SIZE = 2
    PeerIds = {1}
    OwnIds = {}
    FirstId = 1
    SynPriorities = {0, 1}
    Kinds = {"SYN", "DATA"}
    MaxFrames = 3
\* After Serve has returned and the last call everything is at rest.
CHECK_DEADLOCK FALSE
INVARIANT
    StreamOrder
