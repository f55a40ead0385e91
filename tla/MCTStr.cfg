SPECIFICATION Spec
CONSTANTS
    Memory <- MCMemory
    Sources <- MCSources
    Room <- MCRoom
    Counts <- MCCounts
    Numbers <- MCNumbers
    Widths <- MCWidths
    Radixes <- MCRadixes
    WordSize = 256
INVARIANTS
    TextAsSaid
    ReadsBack
    FindsAndCompares
