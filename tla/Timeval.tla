------------------------------- MODULE Timeval -------------------------------
(***************************************************************************)
(* The _BSD_SOURCE timeval helpers of src/c/include/sys/time.h: the       *)
(* inline functions timeradd and timersub and the macro timercmp, as      *)
(* operators over struct timeval records [sec, usec].  The header says    *)
(* they "expect timeval params to be normalized", 0 <= tv_usec < 10^6:    *)
(* the program only passes such values.  time_t and suseconds_t are 64    *)
(* bits wide; the seconds the program handles are far from their limits. *)
(* A call of the program is one step; tcall records the last one.         *)
(***************************************************************************)
EXTENDS Integers

CONSTANTS
    SECS,       \* tv_sec values the program passes
    USECS       \* tv_usec values the program passes, normalized

VARIABLE tcall  \* the last call: [op, a, b, cmp, res, holds]

\* _GGL_USECS_PER_SEC
USECS_PER_SEC == 1000000

Normalized == [sec : SECS, usec : USECS]

ASSUME USECS \subseteq 0..USECS_PER_SEC - 1

\* Mutant: the carry taken only above a full second.
timeradd_gt(a, b) ==
    LET usec == a.usec + b.usec
    IN IF usec > USECS_PER_SEC
       THEN [sec |-> a.sec + b.sec + 1, usec |-> usec - USECS_PER_SEC]
       ELSE [sec |-> a.sec + b.sec, usec |-> usec]

\* timeradd(a, b, res): add both fields, then carry one second once.
timeradd(a, b) ==
    LET usec == a.usec + b.usec
    IN IF usec >= USECS_PER_SEC
       THEN [sec |-> a.sec + b.sec + 1, usec |-> usec - USECS_PER_SEC]
       ELSE [sec |-> a.sec + b.sec, usec |-> usec]

\* timersub(a, b, res): subtract both fields, then borrow one second once.
timersub(a, b) ==
    LET usec == a.usec - b.usec
    IN IF usec < 0
       THEN [sec |-> a.sec - b.sec - 1, usec |-> usec + USECS_PER_SEC]
       ELSE [sec |-> a.sec - b.sec, usec |-> usec]

\* The comparison operators a program passes as timercmp's CMP.
CMPS == {"<", "<=", ">", ">=", "==", "!="}

Holds(cmp, x, y) ==
    CASE cmp = "<"  -> x < y
      [] cmp = "<=" -> x <= y
      [] cmp = ">"  -> x > y
      [] cmp = ">=" -> x >= y
      [] cmp = "==" -> x = y
      [] cmp = "!=" -> x # y

\* timercmp(a, b, CMP): the microseconds when the seconds are equal,
\* else the seconds.
timercmp(a, b, cmp) ==
    IF a.sec = b.sec THEN Holds(cmp, a.usec, b.usec) ELSE Holds(cmp, a.sec, b.sec)

Zero == [sec |-> 0, usec |-> 0]

Init ==
    tcall = [op |-> "none", a |-> Zero, b |-> Zero, cmp |-> "==", res |-> Zero,
             holds |-> FALSE]

\* The program calls timeradd(&a, &b, &res).
timeradd_call(a, b) ==
    tcall' = [op |-> "timeradd", a |-> a, b |-> b, cmp |-> "==",
              res |-> timeradd(a, b), holds |-> FALSE]

\* The program calls timersub(&a, &b, &res).
timersub_call(a, b) ==
    tcall' = [op |-> "timersub", a |-> a, b |-> b, cmp |-> "==",
              res |-> timersub(a, b), holds |-> FALSE]

\* The program evaluates timercmp(&a, &b, CMP).
timercmp_call(a, b, cmp) ==
    tcall' = [op |-> "timercmp", a |-> a, b |-> b, cmp |-> cmp, res |-> Zero,
              holds |-> timercmp(a, b, cmp)]

Next ==
    \E a, b \in Normalized :
        \/ timeradd_call(a, b)
        \/ timersub_call(a, b)
        \/ \E cmp \in CMPS : timercmp_call(a, b, cmp)

Spec == Init /\ [][Next]_tcall

-----------------------------------------------------------------------------
(* The reference and the properties.                                      *)

TypeOK ==
    tcall \in [op : {"none", "timeradd", "timersub", "timercmp"},
               a : Normalized \cup {Zero}, b : Normalized \cup {Zero},
               cmp : CMPS, res : [sec : Int, usec : Int], holds : BOOLEAN]

\* The time a timeval stands for, in microseconds.
Usecs(t) == t.sec * USECS_PER_SEC + t.usec

\* On normalized arguments the helpers are exact: timeradd and timersub
\* return the normalized timeval of the sum and the difference (negative
\* ones with a negative tv_sec and a positive tv_usec), and timercmp
\* compares the two times with every operator, although it looks at the
\* microseconds only when the seconds are equal.
TimevalCorrect ==
    CASE tcall.op = "timeradd" ->
            /\ tcall.res.usec \in 0..USECS_PER_SEC - 1
            /\ Usecs(tcall.res) = Usecs(tcall.a) + Usecs(tcall.b)
      [] tcall.op = "timersub" ->
            /\ tcall.res.usec \in 0..USECS_PER_SEC - 1
            /\ Usecs(tcall.res) = Usecs(tcall.a) - Usecs(tcall.b)
      [] tcall.op = "timercmp" ->
            tcall.holds = Holds(tcall.cmp, Usecs(tcall.a), Usecs(tcall.b))
      [] OTHER -> TRUE
=============================================================================
