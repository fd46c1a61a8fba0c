-------------------------------- MODULE EfiPci --------------------------------
(***************************************************************************)
(* The PCI helpers of the EFI adapter (src/efi/ggl_pci.c): ggl_pci_open    *)
(* parses a "DDDD:BB:dd.f" or "BB:dd.f" locator, looks for the firmware    *)
(* handle whose PCI IO protocol reports that location, opening and closing  *)
(* the protocol on each handle it tries and keeping it open on the one it  *)
(* finds, and enables memory and bus-master accesses; ggl_pci_close closes  *)
(* the protocol and frees the device.  The register accessors forward one  *)
(* firmware call each.                                                     *)
(*                                                                         *)
(* A locator is a sequence of one-character strings ("NUL" past its end).  *)
(* Every firmware call may fail; which ones do is chosen per call.  UEFI    *)
(* runs the program on one processor with no preemption, so each library   *)
(* call is one step.  `opened` counts, per handle, the PCI IO protocol      *)
(* opens by the image not yet closed; `heap` is the set of live pdev        *)
(* allocations.                                                            *)
(***************************************************************************)
EXTENDS Integers, Sequences, SequencesExt, FiniteSets

CONSTANTS
    LOCATORS,    \* device_locator arguments the program passes (or NULL)
    HandleBuffer,\* what LocateHandleBuffer returns: a sequence of handles
    Location,    \* handle -> [domain, bus, device, function] from GetLocation
    TIMEOUTS,    \* timeout_usecs values passed to ggl_pci_mpoll32
    UINT_BITS,   \* bits of unsigned int
    MaxOpens,    \* bound: ggl_pci_open calls
    NULL

Handles == {HandleBuffer[i] : i \in DOMAIN HandleBuffer}
NUL == "NUL"
HexVal == [c \in {"0", "1", "8", "f"} |-> CASE c = "f" -> 15 [] c = "8" -> 8
                                               [] c = "1" -> 1 [] OTHER -> 0]
isxdigit(c) == c \in DOMAIN HexVal
\* The firmware call outcomes for one handle of the lookup loop.
HandleOutcome == {"OpenProtocol_fails", "GetLocation_fails", "ok"}

ASSUME MaxOpens \in Nat /\ UINT_BITS \in Nat \ {0}

VARIABLES
    opened,      \* handle -> open PCI IO protocol instances of the image
    heap,        \* ids of pdev allocations not yet freed
    pdevs,       \* id -> [location, Handle, PciIo] of each allocation
    live,        \* ids ggl_pci_open returned and ggl_pci_close has not freed
    last_open,        \* the last_open ggl_pci_open: [locator, ret, fw_failed]
    access,      \* the last accessor call: [op, pdev, ret, delay]
    nopen

vars == <<opened, heap, pdevs, live, last_open, access, nopen>>

-----------------------------------------------------------------------------
(* parse_pci_address                                                       *)

At(s, i) == IF i \in 1..Len(s) THEN s[i] ELSE NUL

\* strtoul(s + i - 1, &endptr, 16): an optional "0x" prefix (taken only
\* when a digit follows), then the longest run of hex digits; [val, end]
\* with end the index endptr points at.  No field of LOCATORS is long
\* enough to overflow unsigned long.
RECURSIVE Digits(_, _, _)
Digits(s, i, acc) ==
    IF isxdigit(At(s, i)) THEN Digits(s, i + 1, acc * 16 + HexVal[At(s, i)])
    ELSE [val |-> acc, end |-> i]
strtoul(s, i) ==
    IF At(s, i) = "0" /\ At(s, i + 1) = "x" /\ isxdigit(At(s, i + 2))
    THEN Digits(s, i + 2, 0) ELSE Digits(s, i, 0)

Fail == [ok |-> FALSE]
\* The location of the items, when every one is in range.
Checked(domain, bus, device, function) ==
    IF domain > 65535 \/ bus > 255 \/ device > 255 \/ function > 7 THEN Fail
    ELSE [ok |-> TRUE, loc |-> [domain |-> domain, bus |-> bus,
                                device |-> device, function |-> function]]

\* Mutant: the "00:00.0" items stored from domain on.
Items3_shifted(a, b, c) == Checked(a, b, c, 0)

\* nitems == 3: the domain is 0.
Items3(a, b, c) == Checked(0, a, b, c)

\* parse_pci_address(device_locator, &result): [ok, loc].
parse_pci_address(s) ==
    IF s = NULL \/ ~isxdigit(At(s, 1)) THEN Fail ELSE
    LET a == strtoul(s, 1) IN
    IF At(s, a.end) # ":" \/ ~isxdigit(At(s, a.end + 1)) THEN Fail ELSE
    LET b == strtoul(s, a.end + 1)
        sep == At(s, b.end) IN
    IF sep \notin {":", "."} \/ ~isxdigit(At(s, b.end + 1)) THEN Fail ELSE
    LET c == strtoul(s, b.end + 1) IN
    IF sep = "." THEN
        IF At(s, c.end) # NUL THEN Fail ELSE Items3(a.val, b.val, c.val)
    ELSE IF At(s, c.end) # "." \/ ~isxdigit(At(s, c.end + 1)) THEN Fail ELSE
    LET d == strtoul(s, c.end + 1) IN
    IF At(s, d.end) # NUL THEN Fail ELSE Checked(a.val, b.val, c.val, d.val)

-----------------------------------------------------------------------------
(* lookup_pci_device, ggl_pci_open, ggl_pci_close                          *)

Init ==
    /\ opened = [h \in Handles |-> 0]
    /\ heap = {} /\ pdevs = <<>> /\ live = {}
    /\ last_open = [locator |-> NULL, ret |-> NULL, fw_failed |-> FALSE]
    /\ access = [op |-> "none", pdev |-> NULL, ret |-> 0, delay |-> 0]
    /\ nopen = 0

\* Mutant: the protocol closed on every handle tried, the found one too.
RECURSIVE LookupFrom_closeall(_, _, _, _)
LookupFrom_closeall(loc, fw, i, op) ==
    IF i > Len(HandleBuffer) THEN [Handle |-> NULL, opened |-> op] ELSE
    LET h == HandleBuffer[i] IN
    CASE fw[i] = "OpenProtocol_fails" -> LookupFrom_closeall(loc, fw, i + 1, op)
      [] fw[i] = "ok" /\ Location[h] = loc -> [Handle |-> h, opened |-> op]
      [] OTHER -> LookupFrom_closeall(loc, fw, i + 1, op)

\* The for loop of lookup_pci_device from HandleBuffer[i] on, with the
\* firmware's outcome fw[i] for each handle and op the open counts:
\* OpenProtocol failing skips the handle; otherwise the protocol is
\* closed again unless GetLocation names the location sought.
RECURSIVE LookupFrom(_, _, _, _)
LookupFrom(loc, fw, i, op) ==
    IF i > Len(HandleBuffer) THEN [Handle |-> NULL, opened |-> op] ELSE
    LET h == HandleBuffer[i]
        opn == [op EXCEPT ![h] = @ + 1]
    IN CASE fw[i] = "OpenProtocol_fails" -> LookupFrom(loc, fw, i + 1, op)
         [] fw[i] = "ok" /\ Location[h] = loc -> [Handle |-> h, opened |-> opn]
         [] OTHER -> LookupFrom(loc, fw, i + 1, [opn EXCEPT ![h] = @ - 1])

\* Mutant: the protocol closed but the device not freed.
ggl_pci_close_nofree(op, hp, pdev, id) ==
    [opened |-> IF pdev.PciIo # NULL THEN [op EXCEPT ![pdev.Handle] = @ - 1] ELSE op,
     heap |-> hp]

\* ggl_pci_close(pdev) on open counts op and heap hp: close the protocol
\* if pdev->PciIo is set, free(pdev).
ggl_pci_close_(op, hp, pdev, id) ==
    [opened |-> IF pdev.PciIo # NULL THEN [op EXCEPT ![pdev.Handle] = @ - 1] ELSE op,
     heap |-> hp \ {id}]

\* Mutant: the error paths return NULL without free(pdev).
FreePdev_kept(hp, id) == hp

\* free(pdev) on an error path of ggl_pci_open: allocation id leaves hp.
FreePdev(hp, id) == hp \ {id}

\* ggl_pci_open(device_locator) with the outcomes of malloc,
\* LocateHandleBuffer, the loop's calls and Attributes.  The pdev that
\* malloc returns is freed again on every path that returns NULL.
ggl_pci_open(s) ==
    LET id == nopen + 1
        p == parse_pci_address(s)
        Return(ret, failed) ==
            last_open' = [locator |-> s, ret |-> ret, fw_failed |-> failed]
        allocated == heap \cup {id}              \* pdev = malloc(...) succeeds
        Freed(failed) ==                          \* free(pdev); return NULL
            /\ Return(NULL, failed)
            /\ heap' = FreePdev(allocated, id)
            /\ UNCHANGED <<opened, pdevs, live>>
    IN
    /\ nopen < MaxOpens
    /\ nopen' = id
    /\ UNCHANGED access
    /\ \/ Return(NULL, TRUE)                      \* malloc fails: no pdev
          /\ UNCHANGED <<opened, heap, pdevs, live>>
       \/ ~p.ok /\ Freed(FALSE)
       \/ p.ok /\ Freed(TRUE)                     \* LocateHandleBuffer fails
       \/ p.ok /\
          \E fw \in [DOMAIN HandleBuffer -> HandleOutcome], attrs_ok \in BOOLEAN :
          LET r == LookupFrom(p.loc, fw, 1, opened)
              fw_failed == \E i \in DOMAIN fw : fw[i] # "ok"
              pdev == [location |-> p.loc, Handle |-> r.Handle, PciIo |-> r.Handle]
              c == ggl_pci_close_(r.opened, allocated, pdev, id)
          IN CASE r.Handle = NULL -> Freed(fw_failed)
               [] ~attrs_ok ->                  \* ggl_pci_close(pdev)
                    /\ Return(NULL, TRUE)
                    /\ opened' = c.opened /\ heap' = c.heap
                    /\ pdevs' = pdevs @@ (id :> pdev)
                    /\ UNCHANGED live
               [] OTHER ->
                    /\ Return(id, fw_failed)
                    /\ opened' = r.opened
                    /\ heap' = allocated
                    /\ pdevs' = pdevs @@ (id :> pdev)
                    /\ live' = live \cup {id}

ggl_pci_close(id) ==
    LET c == ggl_pci_close_(opened, heap, pdevs[id], id) IN
    /\ id \in live
    /\ opened' = c.opened /\ heap' = c.heap
    /\ live' = live \ {id}
    /\ UNCHANGED <<pdevs, last_open, access, nopen>>

\* ggl_pci_cfgread16, _cfgwrite16, _cfgread32, _cfgwrite32, _mread32 and
\* _mwrite32: one Pci.Read/Write or Mem.Read/Write of the device's
\* protocol, returning 0, or -1 on EFI_ERROR.
ggl_pci_access(id) ==
    /\ id \in live
    /\ \E ret \in {0, -1} : access' = [op |-> "rw", pdev |-> id, ret |-> ret, delay |-> 0]
    /\ UNCHANGED <<opened, heap, pdevs, live, last_open, nopen>>

\* ggl_pci_mpoll32: PollMem with a Delay of timeout_usecs * 10 (in 100 ns
\* units), computed in unsigned int; 1 on EFI_TIMEOUT, -1 on another error.
ggl_pci_mpoll32(id, timeout_usecs) ==
    /\ id \in live
    /\ \E ret \in {0, 1, -1} :
         access' = [op |-> "mpoll32", pdev |-> id, ret |-> ret,
                    delay |-> (timeout_usecs * 10) % 2^UINT_BITS]
    /\ UNCHANGED <<opened, heap, pdevs, live, last_open, nopen>>

Next ==
    \/ \E s \in LOCATORS : ggl_pci_open(s)
    \/ \E id \in live : ggl_pci_close(id)
    \/ \E id \in live : ggl_pci_access(id)
    \/ \E id \in live, t \in TIMEOUTS : ggl_pci_mpoll32(id, t)

Spec == Init /\ [][Next]_vars

-----------------------------------------------------------------------------
(* A reference reading of the supported locator formats.                   *)

\* A field as strtoul reads it in base 16: hex digits, maybe after "0x".
HexField(f) ==
    LET g == IF Len(f) > 2 /\ SubSeq(f, 1, 2) = <<"0", "x">> THEN SubSeq(f, 3, Len(f)) ELSE f
    IN [digits |-> g, ok |-> g # <<>> /\ \A i \in DOMAIN g : isxdigit(g[i])]
HexValue(f) == FoldLeft(LAMBDA acc, c : acc * 16 + HexVal[c], 0, HexField(f).digits)

\* "DDDD:BB:dd.f" or "BB:dd.f" (ggl_pci.h), with a domain of 16 bits, a bus
\* and a device of 8 and a function of 3: the location it names.
Reference(s) ==
    IF s = NULL THEN Fail ELSE
    LET P == SetToSortSeq({i \in DOMAIN s : s[i] \in {":", "."}}, <)
        b == <<0>> \o P \o <<Len(s) + 1>>
        F == [j \in 1..Len(P) + 1 |-> SubSeq(s, b[j] + 1, b[j + 1] - 1)]
        seps == [j \in DOMAIN P |-> s[P[j]]]
        v == [j \in DOMAIN F |-> HexValue(F[j])]
        loc == IF Len(F) = 3 THEN [domain |-> 0, bus |-> v[1], device |-> v[2], function |-> v[3]]
               ELSE [domain |-> v[1], bus |-> v[2], device |-> v[3], function |-> v[4]]
    IN IF /\ seps \in {<<":", ".">>, <<":", ":", ".">>}
          /\ \A j \in DOMAIN F : HexField(F[j]).ok
          /\ loc.domain < 2^16 /\ loc.bus < 2^8 /\ loc.device < 2^8 /\ loc.function < 2^3
       THEN [ok |-> TRUE, loc |-> loc] ELSE Fail

-----------------------------------------------------------------------------
(* Properties.                                                             *)

TypeOK ==
    /\ opened \in [Handles -> 0..MaxOpens]
    /\ live \subseteq DOMAIN pdevs
    /\ access.delay \in 0..2^UINT_BITS - 1

\* ggl_pci_open hands back a device exactly at the location the locator
\* names in one of the two formats; and when it returns NULL although no
\* firmware call failed, the locator names no location or no handle is
\* at it.
\* The reference reading of every locator, computed once.
ReferenceOf == [s \in LOCATORS |-> Reference(s)]

OpenCorrect ==
    LET ref == IF last_open.locator = NULL THEN Fail ELSE ReferenceOf[last_open.locator] IN
    /\ last_open.ret # NULL => ref.ok /\ Location[pdevs[last_open.ret].Handle] = ref.loc
    /\ last_open.ret = NULL /\ ~last_open.fw_failed =>
          ~ref.ok \/ \A h \in Handles : Location[h] # ref.loc

\* After every ggl_pci_open and ggl_pci_close, whatever firmware calls
\* failed, the image holds the PCI IO protocol of a handle open exactly
\* as many times as there are open devices on that handle: the lookup
\* loop closes each handle it does not keep, and no failure path leaks
\* or closes an open protocol.
ProtocolsBalanced ==
    \A h \in Handles : opened[h] = Cardinality({id \in live : pdevs[id].Handle = h})

\* Every pdev ggl_pci_open allocates is freed on every path that does not
\* return it, and ggl_pci_close frees it: the live allocations are the
\* open devices.
NoLeak == heap = live
====
