\* A host that may refuse any request (EFI AllocatePool returning NULL),
\* on the 32-bit layout: the header (2, scaled from 8) is narrower than
\* the alignment (4, scaled from 16) and the host aligns to 2 (AllocatePool's
\* 8).  calloc is left out here: with a failing host it writes through NULL
\* (the run alloc_stray_writes shows it).
CONSTANTS
    WORD_BITS = 5
    NNLC_MALLOC_ALIGNMENT = 4
    HDR = 2
    HOST_ALIGN = 2
    HostFails = TRUE
    SIZES <- MCSizes
    COUNTS = {}
    VAL = 1
    MaxLive = 2

SPECIFICATION Spec

INVARIANTS
    BlockLayout
    HeapOwnership

PROPERTIES
    ContractSpec
