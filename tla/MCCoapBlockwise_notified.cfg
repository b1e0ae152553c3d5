SPECIFICATION Spec
CONSTANTS
    Hosts = {h1, h2}
    Server = h1
    Group = group
    Transfers <- MCNotified
    SizeArguments <- MCSizeArguments
    ServerSize = 16
    SizeWaits = TRUE
    MaxRepeats = 1
INVARIANT WholeNotifications
CHECK_DEADLOCK FALSE
