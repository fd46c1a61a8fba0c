----------------------------- MODULE NativeSleep -----------------------------
(***************************************************************************)
(* nnlc_usleep64 (src/native/start_main.c), the sysdeps usleep of the      *)
(* native adapter: split a uint64 number of microseconds into seconds for  *)
(* glibc's sleep(unsigned int) and the rest for usleep(), and report the  *)
(* time left when a signal interrupts the sleep (libc.h: "return us left  *)
(* to sleep when interrupted").                                            *)
(*                                                                         *)
(* A call is three steps: the split, sleep() returning, usleep()          *)
(* returning.  A signal may end either host sleep early.  The constants    *)
(* scale the C ones down: US_PER_S stands for NNLC_USECS_IN_ONE_SEC        *)
(* (10^6) and UINT_BITS for the width of unsigned int (32).                *)
(***************************************************************************)
EXTENDS Integers

CONSTANTS
    US_PER_S,    \* NNLC_USECS_IN_ONE_SEC
    UINT_BITS,   \* bits of unsigned int, the type of sleep()'s argument
    REQUESTS,    \* micro_seconds values the caller passes
    Signals      \* may a signal interrupt a sleep?

ASSUME US_PER_S \in Nat \ {0} /\ UINT_BITS \in Nat \ {0} /\ Signals \in BOOLEAN

VARIABLES
    pc,          \* "idle", "sleep", "usleep" or "done"
    req,         \* micro_seconds of the running call
    usecs,       \* the usecs local of the running call
    secs_arg,    \* the argument sleep() receives
    elapsed,     \* microseconds actually slept so far in this call
    ret          \* what nnlc_usleep64 returned

vars == <<pc, req, usecs, secs_arg, elapsed, ret>>

-----------------------------------------------------------------------------

Init ==
    /\ pc = "idle" /\ req = 0 /\ usecs = 0 /\ secs_arg = 0
    /\ elapsed = 0 /\ ret = 0

\* The glibc call may be cut short by a signal: it sleeps k of n units.
Slept(n) == IF Signals THEN 0..n ELSE {n}

Return(v) == /\ ret' = v /\ pc' = "done"

\* Mutant: the remainder taken with the wrong operator.
Usecs_div(micro_seconds) == micro_seconds \div US_PER_S

\* const uint64_t usecs = micro_seconds % NNLC_USECS_IN_ONE_SEC;
Usecs(micro_seconds) == micro_seconds % US_PER_S

\* nnlc_usleep64(micro_seconds) up to the first host call.
nnlc_usleep64(micro_seconds) ==
    LET seconds == micro_seconds \div US_PER_S
        us == Usecs(micro_seconds)
    IN /\ pc \in {"idle", "done"}
       /\ req' = micro_seconds /\ usecs' = us /\ elapsed' = 0
       /\ secs_arg' = seconds % 2^UINT_BITS      \* sleep(seconds): unsigned int
       /\ IF seconds # 0 THEN pc' = "sleep" /\ UNCHANGED ret
          ELSE IF us # 0 THEN pc' = "usleep" /\ UNCHANGED ret
          ELSE Return(0)

\* `if (rv > 0) /* interrupted */`
Interrupted(rv) == rv > 0

\* `unsigned int rv = sleep(seconds);` returns the seconds not slept.
sleep_returns ==
    /\ pc = "sleep"
    /\ \E k \in Slept(secs_arg) :
         LET rv == secs_arg - k IN
         /\ elapsed' = elapsed + k * US_PER_S
         /\ IF Interrupted(rv) THEN Return(rv * US_PER_S)
            ELSE IF usecs # 0 THEN pc' = "usleep" /\ UNCHANGED ret
            ELSE Return(0)
    /\ UNCHANGED <<req, usecs, secs_arg>>

\* `if (usecs) usleep(usecs);` whose result is ignored, then `return 0`.
usleep_returns ==
    /\ pc = "usleep"
    /\ \E k \in Slept(usecs) : elapsed' = elapsed + k
    /\ Return(0)
    /\ UNCHANGED <<req, usecs, secs_arg>>

Next ==
    \/ \E us \in REQUESTS : nnlc_usleep64(us)
    \/ sleep_returns
    \/ usleep_returns

Spec == Init /\ [][Next]_vars

-----------------------------------------------------------------------------
(* Properties.                                                             *)

TypeOK ==
    /\ pc \in {"idle", "sleep", "usleep", "done"}
    /\ usecs \in 0..US_PER_S - 1
    /\ secs_arg \in 0..2^UINT_BITS - 1
    /\ elapsed \in 0..req

\* However signals cut the host sleeps short, the time nnlc_usleep64
\* reports as left never exceeds the time it did not sleep, so a caller
\* that sleeps again for the returned time never sleeps longer in total
\* than it asked: the seconds and the sub-second part are not both slept
\* in full when only one was due.
NoOversleep == pc = "done" => elapsed + ret <= req

\* When nnlc_usleep64 returns, the time it reports as left plus the time
\* slept is the time asked for, so a caller that sleeps again for the
\* returned time sleeps exactly as long as it asked (libc.h: "return us
\* left to sleep when interrupted"; spec.md: callers loop on it).
RemainingExact == pc = "done" => elapsed + ret = req
=============================================================================
