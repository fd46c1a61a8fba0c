------------------------------- MODULE PciLinux -------------------------------
(***************************************************************************)
(* The Linux variant of the ggl_pci helpers (src/efi/ggl_pci_linux.cc), a  *)
(* userspace stand-in for the EFI ones over sysfs: ggl_pci_open turns the  *)
(* locator into /sys/bus/pci/devices/DDDD:BB:dd.f, opens its config file,  *)
(* takes its size, reads the BAR flags from its resource file and maps     *)
(* each resourceX file at the EFI BAR index of offset X; ggl_pci_close     *)
(* closes the config file, unmaps the BARs and deletes the device; the     *)
(* accessors check the access against the config size or the mapping; and *)
(* ggl_pci_mpoll32 reads a register until it matches or a deadline passes. *)
(*                                                                         *)
(* A locator is a sequence of tokens, ":" among them (StrCat is            *)
(* concatenation).  The sysfs tree is the constant SYSFS.  Each system     *)
(* call may fail; which ones do is chosen per call.  File descriptors are  *)
(* numbers handed out lowest first, as Linux does.  Time is the time left  *)
(* to mpoll32's deadline.                                                  *)
(***************************************************************************)
EXTENDS Integers, Sequences, FiniteSets, Bitwise, TLC

CONSTANTS
    LOCATORS,     \* device_locator arguments the program passes
    SYSFS,        \* device path -> [config_size, resource, files, size]
    CFG_OFFSETS,  \* config offsets passed to the cfg accessors
    BAR_INDICES,  \* bar_index arguments of the mmio accessors
    BAR_OFFSETS,  \* offsets passed to the mmio accessors
    VALUES,       \* values a BAR register may hold when polled
    MASKS,        \* mask arguments of mpoll32
    EXPECTED,     \* expected_val arguments of mpoll32
    TIMEOUTS,     \* timeout_usecs arguments of mpoll32
    OFFSET_BITS,  \* bits of uint64_t
    MaxOpens,     \* bound: ggl_pci_open calls
    NULL

kMaxPciBars == 6
FirstFd == 3      \* 0, 1 and 2 are the standard streams

ASSUME MaxOpens \in Nat /\ OFFSET_BITS \in Nat \ {0}

VARIABLES
    fds,          \* open file descriptors (numbers)
    maps,         \* live BAR mappings: [dev, offset] records
    heap,         \* ids of ggl_pci_device objects not deleted
    pdevs,        \* id -> [path, pci_config, config_size_bytes, bars]
    live,         \* ids ggl_pci_open returned that no ggl_pci_close deleted
    plast,        \* the last completed call: [op, dev, ret, val, arg]
    poll,         \* the running ggl_pci_mpoll32 call, or NULL
    reg,          \* the value the polled BAR register holds (the device's)
    nopen

vars == <<fds, maps, heap, pdevs, live, plast, poll, reg, nopen>>

-----------------------------------------------------------------------------
(* parse_pci_address, GetBARFlags, Is64BitBAR                             *)

\* parse_pci_address(device_locator): the device path, or <<>> when the
\* locator has neither two nor three ":"-separated parts; the two-part
\* form gets the domain "0000" in front.
parse_pci_address(s) ==
    LET locator_parts == Cardinality({i \in DOMAIN s : s[i] = ":"}) + 1 IN
    CASE locator_parts = 2 -> <<"0000", ":">> \o s
      [] locator_parts = 3 -> s
      [] OTHER -> <<>>

\* GetBARFlags over the lines of the resource file, each one the number
\* of fields StrSplit finds, whether SimpleHexAtoi reads the third, and
\* its value: a line without three fields fails, whatever its place;
\* past kMaxPciBars lines the loop stops; a third field that is not hex
\* fails.  The flags of the lines it never reaches stay 0 (the memset).
RECURSIVE ReadFlags(_, _, _)
ReadFlags(lines, bar_offset, flags) ==
    IF bar_offset >= Len(lines) THEN [ok |-> TRUE, flags |-> flags] ELSE
    LET line == lines[bar_offset + 1] IN
    CASE line.fields # 3 -> [ok |-> FALSE]
      [] bar_offset >= kMaxPciBars -> [ok |-> TRUE, flags |-> flags]
      [] ~line.hex -> [ok |-> FALSE]
      [] OTHER -> ReadFlags(lines, bar_offset + 1, [flags EXCEPT ![bar_offset] = line.flags])

\* GetBARFlags once the resource file is open.
GetBARFlags(dev) == ReadFlags(SYSFS[dev].resource, 0, [o \in 0..kMaxPciBars - 1 |-> 0])

Is64BitBAR(sysfs_resource_flags) == (sysfs_resource_flags & 7) = 4

\* Mutant: the index only advances past BARs that have a resource file.
RECURSIVE MapBars_skipempty(_, _, _, _, _, _)
MapBars_skipempty(dev, flags, failed, bar_offset, bar_index, bars) ==
    IF bar_offset >= kMaxPciBars THEN bars ELSE
    LET next == bar_offset + (IF Is64BitBAR(flags[bar_offset]) THEN 2 ELSE 1) IN
    IF bar_offset \notin SYSFS[dev].files
    THEN MapBars_skipempty(dev, flags, failed, next, bar_index, bars)
    ELSE MapBars_skipempty(dev, flags, failed, next, bar_index + 1,
            [bars EXCEPT ![bar_index] = IF bar_offset \in failed THEN NULL
                                        ELSE [offset |-> bar_offset,
                                              size |-> SYSFS[dev].size[bar_offset]]])

\* The mapping loop of ggl_pci_open from bar_offset on: a 64-bit BAR
\* takes two offsets, each BAR one index; a BAR without a resourceX file
\* keeps NULL; an mmap that fails (offset in `failed`) leaves NULL.
RECURSIVE MapBars(_, _, _, _, _, _)
MapBars(dev, flags, failed, bar_offset, bar_index, bars) ==
    IF bar_offset >= kMaxPciBars THEN bars ELSE
    LET next == bar_offset + (IF Is64BitBAR(flags[bar_offset]) THEN 2 ELSE 1)
        mapped == IF bar_offset \notin SYSFS[dev].files \/ bar_offset \in failed
                  THEN NULL
                  ELSE [offset |-> bar_offset, size |-> SYSFS[dev].size[bar_offset]]
    IN MapBars(dev, flags, failed, next, bar_index + 1, [bars EXCEPT ![bar_index] = mapped])

NoBars == [i \in 0..kMaxPciBars - 1 |-> NULL]

-----------------------------------------------------------------------------
(* ggl_pci_open, ggl_pci_close                                             *)

Init ==
    /\ fds = {} /\ maps = {} /\ heap = {} /\ pdevs = <<>> /\ live = {}
    /\ plast = [op |-> "none", dev |-> NULL, ret |-> 0, val |-> 0, arg |-> NULL]
    /\ poll = NULL
    /\ reg \in VALUES
    /\ nopen = 0

\* The call returns ret (and *val or *last_val); arg: mpoll32's arguments.
Called(op, id, ret, val, arg) ==
    plast' = [op |-> op, dev |-> id, ret |-> ret, val |-> val, arg |-> arg]

\* ggl_pci_open(device_locator).  The device object is new'd first and
\* deleted by its unique_ptr on every path that returns nullptr; the
\* config file descriptor opened on the way is not closed on any of them.
ggl_pci_open(s) ==
    LET id == nopen + 1
        path == parse_pci_address(s)
        free == {n \in FirstFd..FirstFd + MaxOpens : n \notin fds}
        fd == CHOOSE n \in free : \A m \in free : n <= m
        Fails(newfds) == Called("open", NULL, NULL, 0, NULL) /\ fds' = newfds
                         /\ UNCHANGED <<maps, heap, pdevs, live>>
    IN
    /\ poll = NULL /\ nopen < MaxOpens
    /\ nopen' = id
    /\ UNCHANGED <<poll, reg>>
    /\ \/ path = <<>> /\ Fails(fds)
       \/ path # <<>> /\ path \notin DOMAIN SYSFS /\ Fails(fds)      \* OpenFD: ENOENT
       \/ path \in DOMAIN SYSFS /\ Fails(fds)                        \* OpenFD: EACCES
       \/ path \in DOMAIN SYSFS /\ Fails(fds \cup {fd})              \* fstat, or file::Open of resource, fails
       \/ path \in DOMAIN SYSFS /\ ~GetBARFlags(path).ok /\ Fails(fds \cup {fd})
       \/ /\ path \in DOMAIN SYSFS /\ GetBARFlags(path).ok
          /\ \E failed \in SUBSET SYSFS[path].files :
               LET bars == MapBars(path, GetBARFlags(path).flags, failed, 0, 0, NoBars) IN
               /\ fds' = fds \cup {fd}
               /\ maps' = maps \cup {[dev |-> id, offset |-> bars[i].offset] :
                                     i \in {j \in DOMAIN bars : bars[j] # NULL}}
               /\ heap' = heap \cup {id} /\ live' = live \cup {id}
               /\ pdevs' = pdevs @@ (id :> [path |-> path, pci_config |-> fd,
                                            config_size_bytes |-> SYSFS[path].config_size,
                                            bars |-> bars])
               /\ Called("open", id, id, 0, NULL)

\* ggl_pci_close(pdev): when close() fails it returns -1 at once, the
\* descriptor released all the same (Linux frees it whatever close
\* returns) and the mappings and the object kept; otherwise it unmaps
\* every BAR and deletes the object.
ggl_pci_close(id) ==
    LET fd == pdevs[id].pci_config IN
    /\ poll = NULL /\ id \in live
    /\ fds' = fds \ {fd}
    /\ \/ /\ fd \in fds
          /\ maps' = {m \in maps : m.dev # id}
          /\ heap' = heap \ {id} /\ live' = live \ {id}
          /\ Called("close", id, 0, 0, NULL)
       \/ /\ Called("close", id, -1, 0, NULL)                  \* CloseFD fails
          /\ UNCHANGED <<maps, heap, live>>
    /\ UNCHANGED <<pdevs, poll, reg, nopen>>

-----------------------------------------------------------------------------
(* The register accessors                                                  *)

\* pread/pwrite of the config file: it fails when the descriptor is no
\* longer open, and may fail or be short otherwise.
ConfigIO(id) == IF pdevs[id].pci_config \in fds THEN {0, -1} ELSE {-1}

\* ggl_pci_cfgread16/32 and ggl_pci_cfgwrite16/32 (width 2 or 4 bytes):
\* refused past config_size_bytes, then one pread or pwrite that must
\* move all the bytes.
ggl_pci_cfgaccess(id, op, width, offset) ==
    /\ poll = NULL /\ id \in live
    /\ IF offset + width > pdevs[id].config_size_bytes
       THEN Called(op, id, -1, 0, NULL)
       ELSE \E r \in ConfigIO(id) : Called(op, id, r, 0, NULL)
    /\ UNCHANGED <<fds, maps, heap, pdevs, live, poll, reg, nopen>>

\* The check of ggl_pci_mread32 and ggl_pci_mwrite32: the BAR is mapped
\* and offset + 4, in uint64_t, is within its size.
MmioOK(id, bar_index, offset) ==
    LET bar == pdevs[id].bars[bar_index] IN
    bar # NULL /\ (offset + 4) % 2^OFFSET_BITS <= bar.size

\* ggl_pci_mread32 and ggl_pci_mwrite32: a memcpy from or to the mapping.
ggl_pci_maccess(id, op, bar_index, offset) ==
    /\ poll = NULL /\ id \in live
    /\ Called(op, id, IF MmioOK(id, bar_index, offset) THEN 0 ELSE -1, 0, NULL)
    /\ UNCHANGED <<fds, maps, heap, pdevs, live, poll, reg, nopen>>

\* ggl_pci_mpoll32 up to its loop: an expected_val with bits outside the
\* mask is refused; otherwise the deadline is set timeout_usecs from now
\* (`left` is the time to it).
ggl_pci_mpoll32(id, bar_index, bar_offset, mask, expected_val, timeout_usecs) ==
    LET arg == [dev |-> id, bar_index |-> bar_index, bar_offset |-> bar_offset,
                mask |-> mask, expected_val |-> expected_val,
                timeout_usecs |-> timeout_usecs, left |-> timeout_usecs]
    IN
    /\ poll = NULL /\ id \in live
    /\ IF (expected_val & mask) # expected_val
       THEN Called("mpoll32", id, -1, 0, arg) /\ UNCHANGED poll
       ELSE poll' = arg /\ UNCHANGED plast
    /\ UNCHANGED <<fds, maps, heap, pdevs, live, reg, nopen>>

\* Time passes while mpoll32 loops.
mpoll32_tick ==
    /\ poll # NULL /\ poll.left >= 0
    /\ poll' = [poll EXCEPT !.left = @ - 1]
    /\ UNCHANGED <<fds, maps, heap, pdevs, live, plast, reg, nopen>>

\* The device changes the polled register while mpoll32 loops, or never
\* does: no fairness, nothing in the program makes it match.
device_writes ==
    /\ poll # NULL
    /\ \E v \in VALUES \ {reg} : reg' = v
    /\ UNCHANGED <<fds, maps, heap, pdevs, live, plast, poll, nopen>>

\* `absl::Now() > deadline`
DeadlinePassed(p) == p.left < 0

\* Mutant: the deadline taken again from now on every iteration.
sched_yield_rearm == poll' = [poll EXCEPT !.left = poll.timeout_usecs] /\ UNCHANGED plast

\* sched_yield(), and around the loop again.
sched_yield == UNCHANGED <<poll, plast>>

\* One iteration of mpoll32's loop: ggl_pci_mread32 (a failure returns
\* -1), then a match returns 0 with *last_val set, a passed deadline
\* returns 1, and otherwise the loop goes around again.
mpoll32_read ==
    /\ poll # NULL
    /\ IF ~MmioOK(poll.dev, poll.bar_index, poll.bar_offset)
       THEN Called("mpoll32", poll.dev, -1, 0, poll) /\ poll' = NULL
       ELSE CASE (reg & poll.mask) = poll.expected_val ->
                   Called("mpoll32", poll.dev, 0, reg, poll) /\ poll' = NULL
              [] DeadlinePassed(poll) -> Called("mpoll32", poll.dev, 1, 0, poll) /\ poll' = NULL
              [] OTHER -> sched_yield
    /\ UNCHANGED <<fds, maps, heap, pdevs, live, reg, nopen>>

Next ==
    \/ \E s \in LOCATORS : ggl_pci_open(s)
    \/ \E id \in live :
          \/ ggl_pci_close(id)
          \/ \E op \in {"cfgread16", "cfgwrite16"}, o \in CFG_OFFSETS : ggl_pci_cfgaccess(id, op, 2, o)
          \/ \E op \in {"cfgread32", "cfgwrite32"}, o \in CFG_OFFSETS : ggl_pci_cfgaccess(id, op, 4, o)
          \/ \E op \in {"mread32", "mwrite32"}, b \in BAR_INDICES, o \in BAR_OFFSETS :
                ggl_pci_maccess(id, op, b, o)
          \/ \E b \in BAR_INDICES, o \in BAR_OFFSETS, m \in MASKS, e \in EXPECTED, t \in TIMEOUTS :
                ggl_pci_mpoll32(id, b, o, m, e, t)
    \/ mpoll32_tick
    \/ mpoll32_read
    \/ device_writes

\* Weak fairness: the program does not stop inside mpoll32's loop, and the
\* clock it reads keeps moving.  The device gets none: a register that
\* never matches leaves the loop going around with nothing changed but
\* the time, and only the deadline ends it.
Fairness == WF_vars(mpoll32_read) /\ WF_vars(mpoll32_tick)

Spec == Init /\ [][Next]_vars /\ Fairness

-----------------------------------------------------------------------------
(* Properties.                                                             *)

TypeOK ==
    /\ fds \subseteq FirstFd..FirstFd + MaxOpens
    /\ live \subseteq heap /\ heap \subseteq DOMAIN pdevs
    /\ poll = NULL \/ poll.left \in -1..poll.timeout_usecs

\* The EFI bar index of a BAR is its ordinal (ggl_pci.h, "IMPORTANT
\* Foreword"): offset o starts a BAR unless o - 1 started a 64-bit one,
\* and its index is the number of BARs that start before it.
RECURSIVE IsBarStart(_, _)
IsBarStart(flags, o) ==
    o = 0 \/ (o > 0 /\ ~(IsBarStart(flags, o - 1) /\ Is64BitBAR(flags[o - 1])))
EfiBarIndex(flags, o) == Cardinality({q \in 0..o - 1 : IsBarStart(flags, q)})

\* Every BAR an open device has mapped at EFI index i is the resourceX
\* file of the BAR whose ordinal is i, whole: 64-bit BARs before it take
\* two offsets but one index, and BARs without a resource file still
\* take their index, as in the examples of ggl_pci.h (gq: index 3 is
\* offset 4).
BarsAtEfiIndex ==
    \A id \in live :
        LET dev == pdevs[id].path
            flags == GetBARFlags(dev).flags
        IN \A i \in 0..kMaxPciBars - 1 :
              pdevs[id].bars[i] # NULL =>
                 \E o \in SYSFS[dev].files :
                    /\ IsBarStart(flags, o) /\ EfiBarIndex(flags, o) = i
                    /\ pdevs[id].bars[i] = [offset |-> o, size |-> SYSFS[dev].size[o]]

\* Every ggl_pci_mpoll32 call returns, also when the device never puts
\* the expected value in the register: the deadline is fixed once, before
\* the loop, and time moves; the loop itself changes nothing.
PollTerminates == poll # NULL ~> poll = NULL

\* Every file descriptor, mapping and device object the helpers hold
\* belongs to a device the program holds and can still close, and each
\* of those devices has its own config descriptor open: no path of
\* ggl_pci_open that returns nullptr, and no ggl_pci_close that returns
\* -1, leaves a descriptor or a mapping behind.
ResourcesOwned ==
    /\ fds = {pdevs[id].pci_config : id \in live}
    /\ \A id, jd \in live : id # jd => pdevs[id].pci_config # pdevs[jd].pci_config
    /\ maps = {[dev |-> id, offset |-> pdevs[id].bars[i].offset] :
                <<id, i>> \in {<<id, i>> \in live \X (0..kMaxPciBars - 1) : pdevs[id].bars[i] # NULL}}
    /\ heap = live
=============================================================================
