SPECIFICATION Spec
CONSTANTS
    Writers = {w1, w2}
    Setters = {s1}
    NoOne = NoOne
    MaxCalls = 4
\* After closeChan and the last call everything is at rest.
CHECK_DEADLOCK FALSE
INVARIANT
    ClearedTimeoutNeverExpires
