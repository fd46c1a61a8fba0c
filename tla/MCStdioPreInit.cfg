\* The program makes stream calls before _nnlc_initialize, as a C++ static
\* constructor of a native nanolibc program does (spec.md section 7: a
\* stream write before initialize is turned into a failure return).
CONSTANTS
    NULL = NULL
    JUNK = JUNK
    fd1 = fd1
    fd2 = fd2
    conout = conout
    TABLES <- MCTables
    TEXTS <- MCTexts
    CHARS <- MCChars
    NMEMB = {0, 2}
    BUFSIZE = 2
    PARTIAL <- MCPartial
    UNSUPPORTED <- MCUnsupported
    WARNINGS <- MCWarnings
    ASSERT_TEXT <- MCAssertText
    DEFAULT_ASSERT_TEXT <- MCDefaultAssertText
    MaxCalls = 3
    PreInitCalls = TRUE
    SPRINTF_TEXTS <- MCSprintfTexts
    SIZES = {0, 1, 2, 3, 4}
    CAP = 4
    STRS <- MCStrs
    LENS = {0, 1, 2, 3}
    UINT_BITS = 16
    SECS <- MCSecs
    USECS <- MCUsecs
    AF_INET = AF_INET
    af6 = af6
    AFS <- MCAfs
    ADDRS <- MCAddrs
    NTOP_SIZES = {0, 15, 16, 17}
    DST_CAP = 17
    MaxNtop = 2
SPECIFICATION MCSpec
\* The program makes MaxCalls stream calls and returns from main.
CHECK_DEADLOCK FALSE
INVARIANT NoCrash
