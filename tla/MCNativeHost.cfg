\* Every sleep request below 2^UINT_BITS seconds, signals cutting sleeps
\* short; or up to two ggl_pci_open calls over the two devices, with
\* every system call failing or not, then accessor, poll and close calls.
\* uint64_t is cut to 16 bits, wider than every offset passed.
CONSTANTS
    NULL = NULL
    US_PER_S = 5
    UINT_BITS = 3
    REQUESTS <- MCShort
    Signals = TRUE
    LOCATORS <- MCLocators
    SYSFS <- MCSysfs
    CFG_OFFSETS = {254}
    BAR_INDICES = {1, 3}
    BAR_OFFSETS = {12}
    VALUES = {0, 1}
    MASKS = {1}
    EXPECTED = {1, 2}
    TIMEOUTS = {1}
    OFFSET_BITS = 16
    MaxOpens = 2
SPECIFICATION MCSpec
\* The program stops after its calls.
CHECK_DEADLOCK FALSE
INVARIANTS TypeOK NoOversleep BarsAtEfiIndex
PROPERTIES PollTerminates
