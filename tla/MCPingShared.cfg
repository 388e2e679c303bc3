SPECIFICATION PingSpec
CONSTANTS
    Pingers = {p, q}
    Handlers = {worker}
    FirstPing = 1
    PingWrap = 4
    MaxPings = 2
CHECK_DEADLOCK FALSE
INVARIANT PingIdsUnique
