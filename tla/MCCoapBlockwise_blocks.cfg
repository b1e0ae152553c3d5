SPECIFICATION FairSpec
CONSTANTS
    Hosts = {h1, h2}
    Server = h1
    Group = group
    Transfers <- MCTransfers
    SizeArguments <- MCSizeArguments
    ServerSize = 16
    SizeWaits = TRUE
    MaxRepeats = 1
INVARIANTS
    TypeOK
    UploadLeavesNoGap
    BlocksAskedInTurn
    WholeContents
    BlocksReadBack
PROPERTIES
    ImplementsTransfer
    TransferEnds
CHECK_DEADLOCK FALSE
