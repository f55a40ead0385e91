SPECIFICATION FairSpec
CONSTANTS
    LoaderMessages <- MCLoaderMessages
    KernelMessages <- MCKernelMessages
    Following <- MCFollowing
    MaxMessages = 3
INVARIANTS
    TypeOK
    InStep
PROPERTIES
    IsChannel
    EachIsShown
