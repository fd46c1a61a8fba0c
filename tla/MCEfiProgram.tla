---------------------------- MODULE MCEfiProgram ----------------------------
(* EfiProgram for TLC: the firmware and shell choices of MCEfiStart, and   *)
(* the February to December dates of MCWallClock, at the last second of   *)
(* the first and the last day of the month, in 2000 and 2001, with and     *)
(* without a time zone.  Two PCI handles, at 0000:00:01.0 and            *)
(* 0001:00:01.0, and locators that take every branch of                   *)
(* parse_pci_address.                                                     *)
EXTENDS EfiProgram, Integers

MCArgcs == {-1, 0, 1, 2, 3}

\* The last day of month m of year y (2000 is a leap year, 2001 is not).
LastDay(y, m) ==
    CASE m = 2 -> IF y % 4 = 0 THEN 29 ELSE 28
      [] m \in {4, 6, 9, 11} -> 30
      [] OTHER -> 31

\* 2047 is EFI_UNSPECIFIED_TIMEZONE.
MCDates ==
    UNION {{[Year |-> y, Month |-> m, Day |-> d, Hour |-> 23, Minute |-> 59,
             Second |-> 59, Nanosecond |-> 999999999, TimeZone |-> z]
            : d \in {1, LastDay(y, m)},
              z \in {2047, -60}}
           : y \in {2000, 2001}, m \in 2..12}

MCHandleBuffer == <<"h1", "h2">>
MCLocation == [h \in {"h1", "h2"} |->
                 [domain |-> IF h = "h1" THEN 0 ELSE 1, bus |-> 0, device |-> 1, function |-> 0]]
MCLocators ==
    { NULL,
      <<"0", ":", "1", ".", "0">>,                     \* 00:01.0 form
      <<"0", ":", "0", ":", "1", ".", "0">>,           \* 0000:00:01.0 form
      <<"1", ":", "0", ":", "1", ".", "0">>,           \* domain 1
      <<"0", "x", "1", ":", "0", ":", "1", ".", "0">>, \* 0x prefix
      <<"0", ":", "8", ".", "0">>,                     \* no device there
      <<"0", ":", "1", ".", "8">>,                     \* function out of range
      <<"1", "0", "0", "0", "0", ":", "0", ":", "1", ".", "0">>, \* domain too wide
      <<"0", ":", "1">>,                               \* no function
      <<"0", ":", "1", ".">>,                          \* '.' then NUL
      <<":", "1", ".", "0">>,                          \* no bus
      <<"0", ":", "1", ".", "0", "x">>,                \* trailing "x"
      <<"0", ":", "0", ":", "1", ":", "0">>,           \* ':' for '.'
      <<"0", ":", "0", ":", "1">> }                    \* 4 items, no '.'

\* Buffers of up to 3 bytes over 'a', '\n', NUL and a byte above 127: with
\* 2-byte chunks a write takes two chunks, and a chunk boundary meets each.
MCInputs == UNION {[1..k -> {97, 10, 0, 200}] : k \in 0..3}

\* main either reads the clock, drives PCI devices or prints: the three
\* are independent, and exploring them together only multiplies states.
MCNext ==
    \/ StartStep
    \/ nopen = 0 /\ nwrites = 0 /\ ClockCall
    \/ ncalls = 0 /\ nwrites = 0 /\ PciCall
    \/ ncalls = 0 /\ nopen = 0 /\ ConsoleWrite
    \/ ConsoleStep

MCSpec == Init /\ [][MCNext]_vars /\ WF_vars(ConsoleStep)
=============================================================================
