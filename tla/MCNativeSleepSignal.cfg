\* Requests below and at 2^UINT_BITS seconds; signals may cut both sleeps short.
CONSTANTS
    US_PER_S = 5
    UINT_BITS = 3
    REQUESTS <- MCAll
    Signals = TRUE
SPECIFICATION Spec
INVARIANTS RemainingExact
