SPECIFICATION Spec
CONSTANTS
    Size = 20
    Block = 4
    WordSize = 16
    RxDepth = 1
    Throttled = {TRUE}
    LineDepth = 4
    ReplyBytes = {}
    MaxResets <- MCNoResets
INVARIANTS
    LargeKernelsLoad
