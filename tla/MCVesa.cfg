SPECIFICATION Spec
CONSTANTS
    Modes <- MCModes
    Info <- MCInfo
    Lists <- MCLists
    Leftovers <- MCLeftovers
    MinX = 13
    MaxX = 20
    MinY = 10
    MaxY = 12
    Side = 4
INVARIANTS
    TypeOK
    DescribesItsMode
    ChoosesTheLastSuitable
    StaysInFrame
    PictureAsDrawn
PROPERTIES
    Ends
