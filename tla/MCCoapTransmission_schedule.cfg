SPECIFICATION FairSpec
CONSTANTS
    Defaults <- MCDefaults
    AckTimeouts = {0}
    RandomFactors = {1}
    RetransmitCounts = {0, 2, 5}
    ResponseDelays = {0}
    TokenSizes = {0, 8}
    Latency = 3
    RetransmitCap = 4
    WordSize = 256
    Coarseness = 20
    MaxLate = 1
    MaxSettings = 1
    MaxMessages = 2
INVARIANTS TypeOK RetransmitsOnSchedule NotGivenUpEarly AnsweredNotGivenUp
PROPERTY TransmissionsEnd
\* The program rests when the request is over.
CHECK_DEADLOCK FALSE
