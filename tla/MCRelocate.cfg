SPECIFICATION FairSpec
CONSTANTS
    Images <- MCImages
    Garbage <- MCGarbage
    FileAt = 2
    FileSize = 28
    MemSize = 128
    WordSize = 16
    MCEntries <- MCSmallEntries
INVARIANTS
    TypeOK
    StaysInImage
    TasksBalance
PROPERTIES
    PlacesImage
    Enters
