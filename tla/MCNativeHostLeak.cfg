\* As MCNativeHost.cfg; the descriptors, mappings and objects the PCI
\* helpers hold must all belong to open devices.
CONSTANTS
    NULL = NULL
    US_PER_S = 5
    UINT_BITS = 3
    REQUESTS <- MCShort
    Signals = TRUE
    LOCATORS <- MCLocators
    SYSFS <- MCSysfs
    CFG_OFFSETS = {254}
    BAR_INDICES = {1, 3}
    BAR_OFFSETS = {12}
    VALUES = {0, 1}
    MASKS = {1}
    EXPECTED = {1, 2}
    TIMEOUTS = {1}
    OFFSET_BITS = 16
    MaxOpens = 2
SPECIFICATION MCSpec
\* The program stops after its calls.
CHECK_DEADLOCK FALSE
INVARIANT ResourcesOwned
