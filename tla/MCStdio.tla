------------------------------ MODULE MCStdio ------------------------------
(* Stdio for TLC: the host tables, texts and unsupported functions of     *)
(* MCRuntime, and the 4-cell buffer and texts of MCSprintf.               *)
EXTENDS Stdio, Integers

CONSTANTS fd1, fd2, conout, af6

MCTables == {[write_stdout |-> fd1, write_stderr |-> fd2],
             [write_stdout |-> conout, write_stderr |-> conout]}

\* The native stderr may write short (a pipe, a signal); the others not.
MCPartial == {fd2}

\* Characters are their codes: 97 is 'a', 98 is 'b'.
MCTexts == {<<>>, <<97>>, <<97, 98, 97>>}

\* Two unsupported functions; their warnings are told apart by their first
\* character, which no other text contains (87 'W', 73 'I').  10 is '\n'.
MCUnsupported == {"getenv", "inet_aton"}
MCWarnings == [f \in MCUnsupported |-> <<IF f = "getenv" THEN 87 ELSE 73, 10>>]

\* The assertion reports: 'A', 'A', '\n' (three characters, so that
\* vfprintf's 2-byte buffer is flushed once before the end) and 'F', '\n'.
MCAssertText == <<65, 65, 10>>
MCDefaultAssertText == <<70, 10>>

\* fputc(EOF) and putchar(EOF) are legal calls: they print 0xFF.
MCChars == {-1, 98}

\* Texts of 0, 1, 3 and 4 characters (97 is 'a', 98 is 'b'), so that
\* snprintf truncates at every size and the 4-character text does not fit
\* sprintf's buffer with its NUL.
MCSprintfTexts == {<<>>, <<97>>, <<97, 98, 97>>, <<98, 97, 98, 97>>}

\* Strings of up to 2 bytes over 'A', 'a', 'b', '[' (between 'Z' and 'a')
\* and a byte above 127.
MCStrs == UNION {[1..k -> {65, 97, 98, 91, 200}] : k \in 0..2}

\* Seconds 0, 1 and 3 and microseconds 0, 1, 500000 and 999999: sums
\* that reach exactly one second, borrows, and equal seconds.
MCSecs == {0, 1, 3}
MCUsecs == {0, 1, 500000, 999999}

\* AF_INET and AF_INET6; the longest address (15 characters), the
\* shortest, and one of mixed field lengths.
MCAfs == {AF_INET, af6}
MCAddrs == {<<255, 255, 255, 255>>, <<0, 0, 0, 0>>, <<10, 0, 9, 100>>}

\* Which kind of call a program has made so far.
StreamIdle == ncalls = 0 /\ sysdeps = NULL
SprintfIdle == slast.fn = "none"
CompareIdle == cmp.op = "none"
TimerIdle == tcall.op = "none"
NtopIdle == nntop = 0

\* The stream calls, the buffer formatting, the comparisons, the timeval
\* helpers and inet_ntop share no state: a program makes only one kind of
\* them, and exploring their interleavings only multiplies states.  The
\* comparisons and the timeval helpers keep no state, so one call of
\* either is enough.
MCNext ==
    \/ SprintfIdle /\ CompareIdle /\ TimerIdle /\ NtopIdle /\ StreamStep
    \/ StreamIdle /\ CompareIdle /\ TimerIdle /\ NtopIdle /\ SprintfStep
    \/ StreamIdle /\ SprintfIdle /\ TimerIdle /\ NtopIdle /\ CompareIdle /\ CompareStep
    \/ StreamIdle /\ SprintfIdle /\ CompareIdle /\ NtopIdle /\ TimerIdle /\ TimerStep
    \/ StreamIdle /\ SprintfIdle /\ CompareIdle /\ TimerIdle /\ NtopStep

MCSpec == Init /\ [][MCNext]_vars
=============================================================================
