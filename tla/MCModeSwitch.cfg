SPECIFICATION FairSpec
CONSTANTS
    Irq <- MCIrq
    Glitchy <- MCGlitchy
    BiosMask <- MCBiosMask
    KernelEsp = {k1, k2}
    IvtEoi <- MCIvtEoi
INVARIANTS
    TypeOK
    TablesMatchMode
    NeverResets
    IntCallRestores
    NothingLeftInService
    HandlerEndsItsOwn
PROPERTIES
    TimerIsServed
    IntCallReturns
