------------------------------ MODULE NativeHost ------------------------------
(***************************************************************************)
(* A nanolibc program on the native (Linux) host: its usleep goes to       *)
(* nnlc_usleep64 (NativeSleep), and it drives PCI devices through the      *)
(* userspace ggl_pci helpers of ggl_pci_linux.cc (PciLinux).  The program *)
(* is one thread: each call returns before the next starts, so a sleep    *)
(* never runs inside an mpoll32 loop, and the two share no state.          *)
(***************************************************************************)
CONSTANTS US_PER_S, UINT_BITS, REQUESTS, Signals,
          LOCATORS, SYSFS, CFG_OFFSETS, BAR_INDICES, BAR_OFFSETS, VALUES,
          MASKS, EXPECTED, TIMEOUTS, OFFSET_BITS, MaxOpens, NULL

VARIABLES pc, req, usecs, secs_arg, elapsed, ret,
          fds, maps, heap, pdevs, live, plast, poll, reg, nopen

N == INSTANCE NativeSleep
P == INSTANCE PciLinux

sleepvars == <<pc, req, usecs, secs_arg, elapsed, ret>>
pcivars == <<fds, maps, heap, pdevs, live, plast, poll, reg, nopen>>
vars == <<sleepvars, pcivars>>

Init == N!Init /\ P!Init

\* A step of nnlc_usleep64, between two PCI calls.
SleepStep == poll = NULL /\ N!Next /\ UNCHANGED pcivars

\* A PCI helper call, or a step of mpoll32's loop, between two sleeps.
PciStep == pc \in {"idle", "done"} /\ P!Next /\ UNCHANGED sleepvars

Next == SleepStep \/ PciStep

\* mpoll32's loop, and the clock it reads.
PollRead == P!mpoll32_read /\ UNCHANGED sleepvars
PollTick == P!mpoll32_tick /\ UNCHANGED sleepvars

\* The program does not stop inside mpoll32, and time moves (PciLinux).
Fairness == WF_vars(PollRead) /\ WF_vars(PollTick)

Spec == Init /\ [][Next]_vars /\ Fairness

-----------------------------------------------------------------------------
(* Properties: those of the components, checked on their composition.    *)

TypeOK == N!TypeOK /\ P!TypeOK

\* See NativeSleep: the time reported left never exceeds the time not
\* slept.
NoOversleep == N!NoOversleep

\* See PciLinux: each mapped BAR sits at the EFI index of its ordinal.
BarsAtEfiIndex == P!BarsAtEfiIndex

\* See PciLinux: every mpoll32 call returns.
PollTerminates == P!PollTerminates

\* See PciLinux: descriptors, mappings and objects belong to open devices.
ResourcesOwned == P!ResourcesOwned
=============================================================================
