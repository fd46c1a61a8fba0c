\* Two ways a store lands outside every host block.  malloc(26), within
\* NNLC_MALLOC_ALIGNMENT - 1 + sizeof(struct malloc_block) of SIZE_MAX:
\* mem_size wraps around to a few bytes.  calloc(1, 1) when the host
\* refuses the request: malloc returns NULL and calloc's memset(buf, 0, len)
\* still runs on it.
CONSTANTS
    WORD_BITS = 5
    NNLC_MALLOC_ALIGNMENT = 4
    HDR = 4
    HOST_ALIGN = 2
    HostFails = TRUE
    SIZES <- MCWrapSizes
    COUNTS = {1}
    VAL = 1
    MaxLive = 1

SPECIFICATION Spec

INVARIANT WritesInBounds
