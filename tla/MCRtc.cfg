SPECIFICATION FairSpec
CONSTANTS
    Instants <- MCInstants
    Garbage <- MCGarbage
    Lead = 2
    Idle = 16
INVARIANTS
    TypeOK
    ReturnsOneInstant
PROPERTIES
    LoopEnds
