\* Any firmware: ConOut and StdErr present or not, GetShellArgcArgv
\* failing, empty or with arguments, AllocatePool failing or not; main
\* reading the clock once (any call, any date from February to December)
\* and returning or calling exit with 0, 1 or 2; or main opening PCI
\* devices (up to two ggl_pci_open calls) and using and closing them; or
\* main making two writes of up to 3 bytes on stdout or stderr.
CONSTANTS
    NULL = NULL
    JUNK = JUNK
    ARGCS <- MCArgcs
    RETVALS = {0, 1, 2}
    DATES <- MCDates
    MaxCalls = 1
    LOCATORS <- MCLocators
    HandleBuffer <- MCHandleBuffer
    Location <- MCLocation
    TIMEOUTS = {0, 26}
    UINT_BITS = 8
    MaxOpens = 2
    CHUNK8 = 2
    CharSigned = TRUE
    INPUTS <- MCInputs
    MaxWrites = 2
SPECIFICATION MCSpec
\* libnanolibc_start returns to the firmware and the model stops there.
CHECK_DEADLOCK FALSE
INVARIANTS TypeOK WallClockCorrect
    OpenCorrect ProtocolsBalanced NoLeak NoS16Overflow ConsoleFaithful
\* efi_conio_write's loop runs to its end (weak fairness of its step).
PROPERTY WriteReturns
