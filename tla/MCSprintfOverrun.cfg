SPECIFICATION Spec
CONSTANTS
    Calls <- MCOverrunCalls
    Letters <- MCLetters
    DwordSize = 256
    QwordSize = 65536
    Extent = 36
INVARIANTS
    NeverOverruns
