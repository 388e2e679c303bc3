SPECIFICATION Spec
CONSTANTS
    reader = reader
    writer = writer
    closer = closer
    Apps = {closer}
    Calls <- CloseOnly
    Origins = {"created"}
    MaxCalls = 1
    MaxFrames = 2
\* With a peer and an application that are done, everything is at rest.
CHECK_DEADLOCK FALSE
INVARIANT
    FullyClosedIsRemoved
