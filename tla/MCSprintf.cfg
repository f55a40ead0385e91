SPECIFICATION Spec
CONSTANTS
    Calls <- MCCalls
    Letters <- MCLetters
    DwordSize = 256
    QwordSize = 65536
    Extent = 36
INVARIANTS
    TypeOK
    NeverOverruns
    Terminated
    PrintsAsDocumented
