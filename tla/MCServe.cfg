SPECIFICATION FairSpec
CONSTANTS
    FRAME_WORKERS = 2
    QUEUE_SIZE = 2
    PeerIds = {1, 3}
    OwnIds = {2}
    FirstId = 1
    SynPriorities = {1}
    Kinds = {"SYN", "REPLY", "DATA", "RST", "PING", "GOAWAY"}
    MaxFrames = 2
\* After Serve has returned and the last call everything is at rest.
CHECK_DEADLOCK FALSE
INVARIANTS
    TypeOK
    StreamOrder
    OneHandlerPerStream
    DrainedBeforeGoAway
    GoAwayNamesLastAccepted
    ReadersReachable
PROPERTIES
    ImplementsMailboxes
    ServeEnds
