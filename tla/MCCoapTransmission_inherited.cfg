SPECIFICATION Spec
CONSTANTS
    Defaults <- MCDefaults
    AckTimeouts = {}
    RandomFactors = {}
    RetransmitCounts = {}
    ResponseDelays = {}
    TokenSizes = {}
    Latency = 3
    RetransmitCap = 4
    WordSize = 256
    Coarseness = 20
    MaxLate = 1
    MaxSettings = 0
    MaxMessages = 2
INVARIANT FirstTimeoutInRange
\* The program rests when the request is over.
CHECK_DEADLOCK FALSE
