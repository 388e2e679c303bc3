SPECIFICATION FairSpec
CONSTANTS
    FRAME_WORKERS = 2
    QUEUE_SIZE = 1
    PeerIds = {}
    OwnIds = {2, 4}
    FirstId = 1
    SynPriorities = {0, 1}
    Kinds = {"RST"}
    MaxFrames = 2
\* After Serve has returned and the last call everything is at rest.
CHECK_DEADLOCK FALSE
PROPERTY
    ServeEndUnblocksReads
