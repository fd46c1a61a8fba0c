---------------------------- MODULE MCNativeHost ----------------------------
(* NativeHost for TLC.  The sleep requests of MCNativeSleep.  Two sysfs *)
(* devices: 0000:00:01.0 with the BAR layout of "gq" in ggl_pci.h (64-bit  *)
(* at offset 0, 32-bit at 2, an empty BAR at 3, 64-bit at 4) and a ROM    *)
(* line past the six BARs, and 0000:00:03.0 whose resource file has a     *)
(* malformed seventh line.  Flags 532 (0x214) mark a 64-bit memory BAR, *)
(* 512 (0x200) a 32-bit one.                                              *)
EXTENDS NativeHost, Integers, TLC

\* Requests below 2^UINT_BITS seconds.
MCShort == 0..(2^UINT_BITS * US_PER_S - 1)

Dev(fn) == <<"0000", ":", "00", ":", fn>>

\* A resource line "start end flags", and one with a field missing.
L(flags) == [fields |-> 3, hex |-> TRUE, flags |-> flags]
BadFormat == [fields |-> 2, hex |-> TRUE, flags |-> 0]

MCSysfs ==
    Dev("01.0") :> [config_size |-> 256, resource |-> <<L(532), L(0), L(512), L(0), L(532), L(0), L(0)>>,
                    files |-> {0, 2, 4}, size |-> (0 :> 16 @@ 2 :> 8 @@ 4 :> 16)]
 @@ Dev("03.0") :> [config_size |-> 256,
                    resource |-> <<L(512), L(0), L(0), L(0), L(0), L(0), BadFormat>>,
                    files |-> {0}, size |-> (0 :> 16)]

\* Both forms, a one-part locator and a device not in sysfs.
MCLocators ==
    { <<"00", ":", "01.0">>, Dev("01.0"), <<"00", ":", "03.0">>,
      <<"01.0">>, <<"00", ":", "09.0">> }

\* main either sleeps or drives PCI devices: the two share no state, and
\* exploring them together only multiplies states.
MCNext ==
    \/ nopen = 0 /\ SleepStep
    \/ pc = "idle" /\ PciStep

MCSpec == Init /\ [][MCNext]_vars /\ Fairness
=============================================================================
