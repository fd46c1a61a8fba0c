------------------------------ MODULE WallClock ------------------------------
(***************************************************************************)
(* The wall clock of a nanolibc program on UEFI: time, clock_gettime and   *)
(* gettimeofday (src/c/time.c) call the host's gettime_wall, which the EFI *)
(* adapter implements with efi_gettime_wall (src/efi/start_main.c): read  *)
(* the firmware's EFI_TIME with RT->GetTime and turn the date into seconds *)
(* since 1970-01-01 with the Gauss/Linux mktime formula.  The EFI adapter  *)
(* binds gettime_monotonic to the same function.                           *)
(*                                                                         *)
(* The EFI_TIME fields keep their C widths: Year is a UINT16, Month a      *)
(* UINT8.  Dates are kept between 1970 and 2037, where the seconds fit     *)
(* the model checker's integers and the uint64 arithmetic does not wrap.   *)
(***************************************************************************)
EXTENDS Integers

CONSTANTS
    DATES,      \* EFI_TIME values the firmware's clock may show
    MaxCalls,   \* bound: number of calls the program makes
    NULL,       \* the null pointer (a model value)
    JUNK        \* a value the call has not stored (a model value)

EFI_UNSPECIFIED_TIMEZONE == 2047      \* 0x07FF
CLOCK_REALTIME == 0
CLOCK_MONOTONIC == 1
ClockIds == {CLOCK_REALTIME, CLOCK_MONOTONIC, 2}

ASSUME MaxCalls \in Nat

VARIABLES
    last,       \* the last call: [op, date, ret, out]; out is what it
                \* stored in the caller's time_t, timespec or timeval
    ncalls

vars == <<last, ncalls>>

-----------------------------------------------------------------------------
(* efi_gettime_wall                                                        *)

\* Mutant: the Gregorian 400-year term left out.
efi_gettime_wall_no400(d) ==
    LET m0 == (d.Month - 2) % 256
        month == IF m0 <= 0 THEN (m0 + 12) % 256 ELSE m0
        year == IF m0 <= 0 THEN (d.Year - 1) % 65536 ELSE d.Year
        days == year \div 4 - year \div 100
                + (367 * month) \div 12 + d.Day + year * 365 - 719499
        secs == ((days * 24 + d.Hour) * 60 + d.Minute) * 60 + d.Second
    IN [rv |-> 0, nsecs |-> d.Nanosecond,
        secs |-> IF d.TimeZone # EFI_UNSPECIFIED_TIMEZONE
                 THEN secs + d.TimeZone * 60 ELSE secs]

\* efi_gettime_wall after a successful GetTime: [rv, secs, nsecs]. The month
\* is rotated in place in the UINT8 field (t.Month -= 2), then tested as
\* an int; March..December become 1..10, February wraps to 0 and takes the
\* branch.
efi_gettime_wall(d) ==
    LET m0 == (d.Month - 2) % 256
        month == IF m0 <= 0 THEN (m0 + 12) % 256 ELSE m0
        year == IF m0 <= 0 THEN (d.Year - 1) % 65536 ELSE d.Year
        days == year \div 4 - year \div 100 + year \div 400
                + (367 * month) \div 12 + d.Day + year * 365 - 719499
        secs == ((days * 24 + d.Hour) * 60 + d.Minute) * 60 + d.Second
    IN [rv |-> 0, nsecs |-> d.Nanosecond,
        secs |-> IF d.TimeZone # EFI_UNSPECIFIED_TIMEZONE
                 THEN secs + d.TimeZone * 60 ELSE secs]

\* The host clock call: GetTime fails (EFI_ERROR: return -1) or returns
\* a date of the firmware's clock.
GetTime == {[date |-> NULL, rv |-> -1, secs |-> 0, nsecs |-> 0]}
           \cup {LET r == efi_gettime_wall(d) IN
                 [date |-> d, rv |-> r.rv, secs |-> r.secs, nsecs |-> r.nsecs]
                 : d \in DATES}

-----------------------------------------------------------------------------
(* src/c/time.c                                                            *)

Init ==
    /\ last = [op |-> "none", date |-> NULL, ret |-> 0, out |-> JUNK]
    /\ ncalls = 0

\* The call op returns ret having stored out; r is the host clock's answer.
Called(op, r, ret, out) ==
    /\ ncalls < MaxCalls
    /\ last' = [op |-> op, date |-> r.date, ret |-> ret, out |-> out]
    /\ ncalls' = ncalls + 1

NoClock == [date |-> NULL]      \* the host clock was not called

\* time(t); arg is NULL or the address of the program's time_t.
time(arg) ==
    \E r \in GetTime :
       IF r.rv # 0 THEN Called("time", r, -1, JUNK)
       ELSE Called("time", r, r.secs, IF arg = NULL THEN JUNK ELSE r.secs)

clock_gettime(clk_id, arg) ==
    IF arg = NULL THEN Called("clock_gettime", NoClock, -1, JUNK)
    ELSE IF clk_id \notin {CLOCK_MONOTONIC, CLOCK_REALTIME}
    THEN Called("clock_gettime", NoClock, -1, JUNK)     \* GGL_WARN_ONCE
    ELSE \E r \in GetTime :
           IF r.rv # 0 THEN Called("clock_gettime", r, r.rv, JUNK)
           ELSE Called("clock_gettime", r, 0,
                       [tv_sec |-> r.secs, tv_nsec |-> r.nsecs])

\* Mutant: tv_usec computed with the wrong divisor.
Usec_wrongdiv(ns) == ns \div 100

Usec(ns) == ns \div 1000

\* gettimeofday(tv, tz): a non-NULL tz is refused after tv is filled.
gettimeofday(arg, tz) ==
    \E r \in GetTime :
       IF r.rv # 0 THEN Called("gettimeofday", r, r.rv, JUNK)
       ELSE Called("gettimeofday", r, IF tz = NULL THEN 0 ELSE -1,
                   IF arg = NULL THEN JUNK
                   ELSE [tv_sec |-> r.secs, tv_usec |-> Usec(r.nsecs)])

Next ==
    \/ \E a \in {NULL, "t"} : time(a)
    \/ \E c \in ClockIds, a \in {NULL, "tp"} : clock_gettime(c, a)
    \/ \E a \in {NULL, "tv"}, z \in {NULL, "tz"} : gettimeofday(a, z)

Spec == Init /\ [][Next]_vars

-----------------------------------------------------------------------------
(* A reference calendar, counted day by day.                               *)

Leap(y) == (y % 4 = 0 /\ y % 100 # 0) \/ y % 400 = 0
MonthDays(y, m) ==
    CASE m = 2 -> IF Leap(y) THEN 29 ELSE 28
      [] m \in {4, 6, 9, 11} -> 30
      [] OTHER -> 31

\* Days from 1970-01-01 to January 1st of year y (y >= 1970).
DaysBeforeYear(y) ==
    LET D[x \in 1970..y] == IF x = 1970 THEN 0
                            ELSE D[x - 1] + (IF Leap(x - 1) THEN 366 ELSE 365)
    IN D[y]

\* Days from January 1st to the first of month m of year y.
DaysBeforeMonth(y, m) ==
    LET D[x \in 1..m] == IF x = 1 THEN 0 ELSE D[x - 1] + MonthDays(y, x - 1)
    IN D[m]

\* Seconds since 1970-01-01 00:00:00 UTC of a firmware date; a TimeZone
\* other than unspecified is the offset in minutes with
\* local time = UTC - TimeZone (UEFI 2.0 and the Linux kernel's reading).
UnixTime(d) ==
    LET days == DaysBeforeYear(d.Year) + DaysBeforeMonth(d.Year, d.Month) + d.Day - 1
        local == ((days * 24 + d.Hour) * 60 + d.Minute) * 60 + d.Second
    IN IF d.TimeZone = EFI_UNSPECIFIED_TIMEZONE THEN local
       ELSE local + d.TimeZone * 60

-----------------------------------------------------------------------------
(* Properties.                                                             *)

TypeOK ==
    /\ \/ last.out = JUNK
       \/ last.op = "time" /\ last.out \in Int
       \/ last.op = "clock_gettime" /\ last.out \in [tv_sec : Int, tv_nsec : 0..999999999]
       \/ last.op = "gettimeofday" /\ last.out \in [tv_sec : Int, tv_usec : 0..999999]
    /\ ncalls \in 0..MaxCalls

\* Every clock reading that succeeds reports the Unix time of the date
\* the firmware showed: time's return value and *t, clock_gettime's
\* tv_sec and tv_nsec, gettimeofday's tv_sec and tv_usec.
WallClockCorrect ==
    LET d == last.date
        o == last.out
    IN d # NULL =>
         CASE last.op = "time" -> last.ret = UnixTime(d) /\ o \in {JUNK, UnixTime(d)}
           [] last.op = "clock_gettime" ->
                 o = [tv_sec |-> UnixTime(d), tv_nsec |-> d.Nanosecond]
           [] OTHER ->
                 o \in {JUNK, [tv_sec |-> UnixTime(d), tv_usec |-> d.Nanosecond \div 1000]}
=============================================================================
