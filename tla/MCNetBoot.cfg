SPECIFICATION FairSpec
CONSTANTS
    Size = 12
    Block = 4
    WordSize = 16
    RxDepth = 1
    Throttled = {TRUE, FALSE}
    LineDepth = 4
    ReplyBytes = {0, 4}
    MaxResets <- MCMaxResets
INVARIANTS
    TypeOK
    HostStaysInFile
    EntersOnlyWholeImage
PROPERTIES
    TransferSpec
    Boots
CHECK_DEADLOCK FALSE
