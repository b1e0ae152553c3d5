SPECIFICATION SecureSpec
CONSTANTS
    q1 = q1  q2 = q2  h1 = h1  h2 = h2
    Requests = {q1, q2}
    Hosts = {h1, h2}
    NoHost = NoHost
    MaxFrames = 4
    UserDisconnects = FALSE
    Credentials = {"a", "b"}
    Empty = ""
    Configurations <- SomeConfigurations
SYMMETRY Symmetry
INVARIANTS ConnectionConsistent FramesInOrder FramesAccounted CredentialsAreCurrent
PROPERTIES FramesReachTheirHost
\* The user may stop sending requests.
CHECK_DEADLOCK FALSE
