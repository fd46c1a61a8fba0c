\* One write of a buffer that may hold a NUL byte.
CONSTANTS
    CHUNK8 = 2
    CharSigned = TRUE
    INPUTS <- MCInputs
    MaxCalls = 1
SPECIFICATION Spec
\* The program makes MaxCalls writes and stops.
CHECK_DEADLOCK FALSE
INVARIANTS ReturnsPrinted
