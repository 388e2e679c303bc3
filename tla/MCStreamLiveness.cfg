SPECIFICATION FairSpec
CONSTANTS
    reader = reader
    writer = writer
    closer = closer
    Apps = {reader, closer}
    Calls <- LivenessCalls
    Origins = {"accepted"}
    MaxCalls = 3
    MaxFrames = 2
\* With a peer and an application that are done, everything is at rest.
CHECK_DEADLOCK FALSE
INVARIANTS
    ReplyOnce
PROPERTIES
    BlockedCallsReturn
    ResetLetsServeEnd
