CONSTANTS
    WORD_BITS = 5
    NNLC_MALLOC_ALIGNMENT = 4
    HDR = 4
    HOST_ALIGN = 1
    HostFails = FALSE
    SIZES <- MCSizes
    COUNTS <- MCCounts
    VAL = 1
    MaxLive = 2

SPECIFICATION Spec

INVARIANTS
    TypeOK
    BlockLayout
    HeapOwnership
    WritesInBounds
    HostContractKept

PROPERTIES
    ContractSpec
