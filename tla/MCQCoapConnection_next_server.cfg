SPECIFICATION Spec
CONSTANTS
    q1 = q1  q2 = q2  q3 = q3  h1 = h1  h2 = h2
    Requests = {q1, q2}
    Hosts = {h1, h2}
    NoHost = NoHost
    MaxFrames = 3
    UserDisconnects = TRUE
SYMMETRY Symmetry
PROPERTIES FramesReachTheNextServer
\* The user may stop sending requests.
CHECK_DEADLOCK FALSE
