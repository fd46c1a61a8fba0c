---------------------------- MODULE MCWallClock -----------------------------
(* WallClock for TLC: firmware dates on the first and the last day of each *)
(* month of a leap year (2000, a 400-year leap) and a common year, at the *)
(* last second of the day, with and without a time zone.                  *)
EXTENDS WallClock

Date(y, m, d, z) ==
    [Year |-> y, Month |-> m, Day |-> d, Hour |-> 23, Minute |-> 59,
     Second |-> 59, Nanosecond |-> 999999999, TimeZone |-> z]

DatesIn(months) ==
    UNION {{Date(y, m, d, z) : d \in {1, MonthDays(y, m)},
                               z \in {EFI_UNSPECIFIED_TIMEZONE, -60}}
           : y \in {2000, 2001}, m \in months}

\* February to December.
MCDates == DatesIn(2..12)

\* January.
MCJanuary == DatesIn({1})
=============================================================================
