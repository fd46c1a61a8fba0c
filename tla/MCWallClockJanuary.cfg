\* One clock reading while the firmware shows a date in January.
CONSTANTS
    NULL = NULL
    JUNK = JUNK
    DATES <- MCJanuary
    MaxCalls = 1
SPECIFICATION Spec
\* The program reads the clock MaxCalls times and stops.
CHECK_DEADLOCK FALSE
INVARIANTS WallClockCorrect
