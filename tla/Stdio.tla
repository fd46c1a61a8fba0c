-------------------------------- MODULE Stdio --------------------------------
(***************************************************************************)
(* The stdio functions of src/c/stdio.c together: the stream functions    *)
(* over the sysdeps writers (Runtime) and the formatting into a caller's   *)
(* buffer (Sprintf).  The two share no state: snprintf and sprintf touch   *)
(* only the caller's buffer, so they may run before _nnlc_initialize or    *)
(* between any two stream calls.  The same holds of strcasecmp and         *)
(* strncasecmp (CaseCompare, src/c/strings.c), which only read their       *)
(* arguments, of the timeval helpers of sys/time.h (Timeval), and of      *)
(* inet_ntop (Inet, src/c/inet.c), which formats into its own dst buffer   *)
(* with snprintf.                                                          *)
(***************************************************************************)
CONSTANTS TABLES, TEXTS, CHARS, NMEMB, BUFSIZE, PARTIAL, UNSUPPORTED,
          WARNINGS, ASSERT_TEXT, DEFAULT_ASSERT_TEXT, MaxCalls, PreInitCalls, NULL,
          SPRINTF_TEXTS, SIZES, CAP, JUNK,
          STRS, LENS, UINT_BITS,
          SECS, USECS,
          AF_INET, AFS, ADDRS, NTOP_SIZES, DST_CAP, MaxNtop

VARIABLES sysdeps, files, vdata, dev, expected, last, crashed, warned,
          errno, ncalls, assertion,
          str, stray, data, slast,
          cmp,
          tcall,
          ntop, nntop, dst, dstray, ddata, dlast

R == INSTANCE Runtime
F == INSTANCE Sprintf WITH TEXTS <- SPRINTF_TEXTS, last <- slast
K == INSTANCE CaseCompare
T == INSTANCE Timeval
N == INSTANCE Inet

streamvars == <<sysdeps, files, vdata, dev, expected, last, crashed, warned,
                errno, ncalls, assertion>>
sprintfvars == <<str, stray, data, slast>>
ntopvars == <<ntop, nntop, dst, dstray, ddata, dlast>>
purevars == <<cmp, tcall, ntopvars>>
vars == <<streamvars, sprintfvars, purevars>>

Init == R!Init /\ F!Init /\ K!Init /\ T!Init /\ N!Init

\* A stream call, or a step of one.
StreamStep == R!Next /\ UNCHANGED <<sprintfvars, purevars>>

\* An snprintf or sprintf call, or a step of one.
SprintfStep == F!Next /\ UNCHANGED <<streamvars, purevars>>

\* A strcasecmp or strncasecmp call.
CompareStep == K!Next /\ UNCHANGED <<streamvars, sprintfvars, tcall, ntopvars>>

\* A timeradd, timersub or timercmp call.
TimerStep == T!Next /\ UNCHANGED <<streamvars, sprintfvars, cmp, ntopvars>>

\* An inet_ntop call, or a step of its snprintf.
NtopStep == N!Next /\ UNCHANGED <<streamvars, sprintfvars, cmp, tcall>>

Next == StreamStep \/ SprintfStep \/ CompareStep \/ TimerStep \/ NtopStep

Spec == Init /\ [][Next]_vars

-----------------------------------------------------------------------------
(* Properties: those of the components, checked on their composition.    *)

TypeOK == R!TypeOK /\ F!TypeOK /\ K!TypeOK /\ T!TypeOK /\ N!TypeOK

\* See Runtime.
NoCrash == R!NoCrash

\* See Runtime.
ReturnsHonest == R!ReturnsHonest

\* See Runtime.
Delivered == R!Delivered

\* See Sprintf: after snprintf or sprintf the buffer holds the text, cut
\* to size - 1 characters and NUL-terminated, and the full length is
\* returned.
FormattedString == F!FormattedString

\* See Sprintf: snprintf stores nothing at or past str[size].
WritesWithinSize == F!WritesWithinSize

\* See CaseCompare: strcasecmp and strncasecmp order their arguments as
\* the lowered byte-by-byte comparison does.
CaseCompareCorrect == K!CaseCompareCorrect

\* See Timeval: on normalized timevals timeradd and timersub are exact
\* and normalized, and timercmp orders the two times.
TimevalCorrect == T!TimevalCorrect

\* See Inet: inet_ntop returns dst only with the whole address in it as a
\* NUL-terminated dotted quad.
InetNtopCorrect == N!InetNtopCorrect
=============================================================================
