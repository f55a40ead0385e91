SPECIFICATION Spec
CONSTANTS
    Images <- MCImages
    RecordSize <- MCRecordSize
    StackDepths <- MCStackDepths
    KernelDepth <- MCKernelDepth
    HllBase <- MCHllBase
    HllSize <- MCHllSize
    DebugBuffer <- MCDebugBuffer
INVARIANTS
    TypeOK
    ReadsWhatWasPut
