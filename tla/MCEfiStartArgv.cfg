\* Any firmware: ConOut and StdErr present or not, GetShellArgcArgv
\* failing, empty or with arguments, AllocatePool failing or not; main
\* returning or calling exit with 0 or 1.
CONSTANTS
    NULL = NULL
    ARGCS <- MCArgcs
    RETVALS = {0, 1, 2}
SPECIFICATION Spec
\* libnanolibc_start returns to the firmware and the model stops there.
CHECK_DEADLOCK FALSE
INVARIANTS MainArgsValid
