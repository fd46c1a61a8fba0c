------------------------------ MODULE EfiProgram ------------------------------
(***************************************************************************)
(* A nanolibc program on UEFI: libnanolibc_start (EfiStart) runs main, and *)
(* main reads the wall clock through time, clock_gettime and gettimeofday  *)
(* (WallClock), which reach efi_gettime_wall through the sysdeps table     *)
(* libnanolibc_start bound.  The clock can only be read while main runs:   *)
(* before _nnlc_initialize the table is not bound, and after main returns  *)
(* or exits nothing of the program runs.  main may also drive a PCI       *)
(* device through the ggl_pci helpers (EfiPci), which open the firmware's  *)
(* PCI IO protocol on behalf of the image libnanolibc_start recorded.      *)
(* And main prints: nanolibc calls the writer the table binds to stdout or *)
(* stderr, an efi_conio_write on ConOut or StdErr (EfiConsole).            *)
(***************************************************************************)
CONSTANTS ARGCS, RETVALS, DATES, MaxCalls, NULL, JUNK,
          LOCATORS, HandleBuffer, Location, TIMEOUTS, UINT_BITS, MaxOpens,
          CHUNK8, CharSigned, INPUTS, MaxWrites

VARIABLES pc, systab, sysdeps, argc, argv, jmpbuf, frames, main_retval,
          exitcode, stderr, status,
          last, ncalls,
          opened, heap, pdevs, live, last_open, access, nopen,
          console, s16, w, clast, sent, nwrites

S == INSTANCE EfiStart
W == INSTANCE WallClock
P == INSTANCE EfiPci
C == INSTANCE EfiConsole WITH last <- clast, ncalls <- nwrites, MaxCalls <- MaxWrites

startvars == <<pc, systab, sysdeps, argc, argv, jmpbuf, frames, main_retval,
               exitcode, stderr, status>>
clockvars == <<last, ncalls>>
pcivars == <<opened, heap, pdevs, live, last_open, access, nopen>>
consolevars == <<console, s16, w, clast, sent, nwrites>>
vars == <<startvars, clockvars, pcivars, consolevars>>

Init == S!Init /\ W!Init /\ P!Init /\ C!Init

\* A step of the start-up code; main returns or exits only between writes.
StartStep == w = C!Idle /\ S!Next /\ UNCHANGED <<clockvars, pcivars, consolevars>>

\* A clock call made by main.
ClockCall == pc = "main" /\ W!Next /\ UNCHANGED <<startvars, pcivars, consolevars>>

\* A PCI helper call made by main.
PciCall == pc = "main" /\ P!Next /\ UNCHANGED <<startvars, clockvars, consolevars>>

\* main prints on stdout or stderr: nanolibc calls the writer the table
\* libnanolibc_start bound to that stream (write_stdout or write_stderr,
\* i.e. efi_conio_write on ConOut or StdErr).
ConsoleWrite ==
    /\ pc = "main"
    /\ \E stream \in {"write_stdout", "write_stderr"}, s \in INPUTS :
          C!write(sysdeps[stream], s)
    /\ UNCHANGED <<startvars, clockvars, pcivars>>

\* One iteration of the running efi_conio_write.
ConsoleStep == C!efi_conio_write_step /\ UNCHANGED <<startvars, clockvars, pcivars>>

Next == StartStep \/ ClockCall \/ PciCall \/ ConsoleWrite \/ ConsoleStep

Spec == Init /\ [][Next]_vars

\* The console loop runs to its end: it makes no blocking call.
FairSpec == Spec /\ WF_vars(ConsoleStep)

-----------------------------------------------------------------------------
(* Properties: those of the components, checked on their composition.    *)

TypeOK == S!TypeOK /\ W!TypeOK /\ P!TypeOK /\ C!TypeOK

\* See WallClock: every successful clock reading main makes reports the
\* Unix time of the date the firmware showed.
WallClockCorrect == W!WallClockCorrect

\* See EfiPci: ggl_pci_open returns a device exactly at the location its
\* locator names, and NULL without a firmware failure only when there is
\* no such location or no device at it.
OpenCorrect == P!OpenCorrect

\* See EfiPci: each handle's PCI IO protocol is held open by the image
\* exactly once per open device on it, whatever firmware calls failed.
ProtocolsBalanced == P!ProtocolsBalanced

\* See EfiPci: the live pdev allocations are exactly the open devices.
NoLeak == P!NoLeak

\* See EfiConsole: conio_a2u never stores past s16[] of efi_conio_write,
\* whatever main prints through write_stdout and write_stderr.
NoS16Overflow == C!NoS16Overflow

\* See EfiConsole: between writes, ConOut and StdErr each display exactly
\* the C-string conversion of what main's writes handed to them, in order.
ConsoleFaithful == C!ConsoleFaithful

\* See EfiConsole: every console write of main returns to it, also one
\* whose bytes stop at a NUL.
WriteReturns == C!WriteReturns
=============================================================================
