\* Two host tables: the native one (stdout to fd1, stderr to fd2) and the
\* EFI one (both to conout).  Writes to fd2 may be short or fail with -1.
\* Any sequence of snprintf (size 0 to 4) and sprintf calls into one
\* 4-cell buffer, which keeps its contents from call to call.
CONSTANTS
    NULL = NULL
    JUNK = JUNK
    fd1 = fd1
    fd2 = fd2
    conout = conout
    TABLES <- MCTables
    TEXTS <- MCTexts
    CHARS <- MCChars
    NMEMB = {0, 2}
    BUFSIZE = 2
    PARTIAL <- MCPartial
    UNSUPPORTED <- MCUnsupported
    WARNINGS <- MCWarnings
    ASSERT_TEXT <- MCAssertText
    DEFAULT_ASSERT_TEXT <- MCDefaultAssertText
    MaxCalls = 3
    PreInitCalls = FALSE
    SPRINTF_TEXTS <- MCSprintfTexts
    SIZES = {0, 1, 2, 3, 4}
    CAP = 4
    STRS <- MCStrs
    LENS = {0, 1, 2, 3}
    UINT_BITS = 16
    SECS <- MCSecs
    USECS <- MCUsecs
    AF_INET = AF_INET
    af6 = af6
    AFS <- MCAfs
    ADDRS <- MCAddrs
    NTOP_SIZES = {0, 15, 16, 17}
    DST_CAP = 17
    MaxNtop = 2
SPECIFICATION MCSpec
\* The program makes MaxCalls stream calls and returns from main.
CHECK_DEADLOCK FALSE
INVARIANTS TypeOK NoCrash ReturnsHonest Delivered
    FormattedString WritesWithinSize CaseCompareCorrect
    TimevalCorrect InetNtopCorrect
