SPECIFICATION Spec
CONSTANTS
    reader = reader
    writer = writer
    closer = closer
    Apps = {reader, closer}
    Calls <- WaitOnly
    Origins = {"created", "accepted"}
    MaxCalls = 2
    MaxFrames = 2
\* With a peer and an application that are done, everything is at rest.
CHECK_DEADLOCK FALSE
INVARIANT
    WaitMeansReply
