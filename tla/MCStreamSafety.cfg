SPECIFICATION Spec
CONSTANTS
    reader = reader
    writer = writer
    closer = closer
    Apps = {reader, writer, closer}
    Calls <- SafetyCalls
    Origins = {"created", "accepted"}
    MaxCalls = 3
    MaxFrames = 3
\* With a peer and an application that are done, everything is at rest.
CHECK_DEADLOCK FALSE
INVARIANTS
    TypeOK
    TerminalOnce
    StartChanOnce
    ResetIsFinal
    TableKeepsLiveStreams
    NoDataLost
