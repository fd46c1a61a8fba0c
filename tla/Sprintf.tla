------------------------------- MODULE Sprintf -------------------------------
(***************************************************************************)
(* Formatting into a caller's buffer (src/c/stdio.c): vsnprintf/snprintf  *)
(* and vsprintf/sprintf hand tfp_format a callback, _vsnprintf_putcf or   *)
(* _vsprintf_putcf, that stores each character it produces in str, and    *)
(* NUL-terminate the result when tfp_format returns.                       *)
(*                                                                         *)
(* tfp_format is outside the repository: it is the text it produces, one  *)
(* callback per character, each a step.  The caller's buffer is an array  *)
(* of CAP cells (str[0..CAP-1]) that keeps its contents between calls; a  *)
(* store outside it is recorded in `stray`.                                *)
(***************************************************************************)
EXTENDS Integers, Sequences

CONSTANTS
    TEXTS,      \* what tfp_format produces for the calls' formats
    SIZES,      \* the size argument passed to snprintf
    CAP,        \* cells in the caller's buffer str
    JUNK,       \* a cell never written (a model value)
    NULL

NUL == 0

ASSUME CAP \in Nat /\ SIZES \subseteq 0..CAP

VARIABLES
    str,        \* 0..CAP-1 -> cell: the caller's buffer
    stray,      \* indices written outside str
    data,       \* the running call's putcf data, or NULL
    last        \* the last call: [fn, text, size, before, ret]

vars == <<str, stray, data, last>>

-----------------------------------------------------------------------------

Init ==
    /\ str = [i \in 0..CAP-1 |-> JUNK]
    /\ stray = {}
    /\ data = NULL
    /\ last = [fn |-> "none", text |-> <<>>, size |-> 0, before |-> str, ret |-> 0]

\* data->dest[i] = c
Store(i, c) ==
    IF i \in 0..CAP-1
    THEN str' = [str EXCEPT ![i] = c] /\ UNCHANGED stray
    ELSE stray' = stray \cup {i} /\ UNCHANGED str

\* vsnprintf(str, size, format, ap) up to tfp_format's first callback.
vsnprintf(text, size) ==
    /\ data = NULL
    /\ data' = [fn |-> "snprintf", pending |-> text, dest_used |-> 0,
                dest_capacity |-> size]
    /\ last' = [fn |-> "snprintf", text |-> text, size |-> size, before |-> str, ret |-> 0]
    /\ UNCHANGED <<str, stray>>

\* vsprintf(str, format, ap), for a buffer the text fits in with its NUL
\* (sprintf's precondition on its caller).
vsprintf(text) ==
    /\ data = NULL
    /\ Len(text) < CAP
    /\ data' = [fn |-> "sprintf", pending |-> text, dest_used |-> 0,
                dest_capacity |-> CAP]
    /\ last' = [fn |-> "sprintf", text |-> text, size |-> CAP, before |-> str, ret |-> 0]
    /\ UNCHANGED <<str, stray>>

\* Mutant: the capacity test off by one.
_vsnprintf_putcf_le ==
    /\ data # NULL /\ data.fn = "snprintf" /\ data.pending # <<>>
    /\ IF data.dest_used <= data.dest_capacity
       THEN Store(data.dest_used, Head(data.pending))
       ELSE UNCHANGED <<str, stray>>
    /\ data' = [data EXCEPT !.pending = Tail(@), !.dest_used = @ + 1]
    /\ UNCHANGED last

\* _vsnprintf_putcf(data, c): store c only while it fits; count it always.
_vsnprintf_putcf ==
    /\ data # NULL /\ data.fn = "snprintf" /\ data.pending # <<>>
    /\ IF data.dest_used < data.dest_capacity
       THEN Store(data.dest_used, Head(data.pending))
       ELSE UNCHANGED <<str, stray>>
    /\ data' = [data EXCEPT !.pending = Tail(@), !.dest_used = @ + 1]
    /\ UNCHANGED last

\* _vsprintf_putcf(data, c): data->dest[data->dest_used++] = c
_vsprintf_putcf ==
    /\ data # NULL /\ data.fn = "sprintf" /\ data.pending # <<>>
    /\ Store(data.dest_used, Head(data.pending))
    /\ data' = [data EXCEPT !.pending = Tail(@), !.dest_used = @ + 1]
    /\ UNCHANGED last

\* Mutant: the truncated result left without its terminating NUL.
Terminator_notrunc(used, size) == IF used < size THEN {used} ELSE {}

\* The cell vsnprintf NUL-terminates: dest[dest_used] when the text fit,
\* else dest[size - 1] unless size is 0.
Terminator(used, size) ==
    IF used < size THEN {used} ELSE IF size > 0 THEN {size - 1} ELSE {}

\* tfp_format has returned: terminate, `return data.dest_used`.
vsnprintf_return ==
    /\ data # NULL /\ data.fn = "snprintf" /\ data.pending = <<>>
    /\ IF Terminator(data.dest_used, data.dest_capacity) = {}
       THEN UNCHANGED <<str, stray>>
       ELSE \E i \in Terminator(data.dest_used, data.dest_capacity) : Store(i, NUL)
    /\ last' = [last EXCEPT !.ret = data.dest_used]
    /\ data' = NULL

\* tfp_format has returned: data.dest[data.dest_used] = '\0'.
vsprintf_return ==
    /\ data # NULL /\ data.fn = "sprintf" /\ data.pending = <<>>
    /\ Store(data.dest_used, NUL)
    /\ last' = [last EXCEPT !.ret = data.dest_used]
    /\ data' = NULL

Next ==
    \/ \E t \in TEXTS, n \in SIZES : vsnprintf(t, n)
    \/ \E t \in TEXTS : vsprintf(t)
    \/ _vsnprintf_putcf
    \/ _vsprintf_putcf
    \/ vsnprintf_return
    \/ vsprintf_return

Spec == Init /\ [][Next]_vars

-----------------------------------------------------------------------------
(* Properties.                                                             *)

Cells == {JUNK, NUL} \cup UNION {{t[i] : i \in DOMAIN t} : t \in TEXTS}

TypeOK ==
    /\ str \in [0..CAP-1 -> Cells]
    /\ data = NULL \/ data.dest_used + Len(data.pending) = Len(last.text)

\* How many characters of the text the C-string in str holds after a call.
Kept(l) == IF l.fn = "snprintf" /\ Len(l.text) > l.size - 1
           THEN l.size - 1 ELSE Len(l.text)

\* Once snprintf or sprintf has returned, str holds a C-string: the text
\* tfp_format produced, cut to size - 1 characters by snprintf, followed by
\* a NUL (snprintf with size 0 stores nothing); and the value returned is
\* the length of the whole text, truncated or not (C11 7.21.6.5).
FormattedString ==
    data = NULL /\ last.fn # "none" =>
        /\ last.ret = Len(last.text)
        /\ last.size > 0 =>
              /\ \A i \in 0..Kept(last) - 1 : str[i] = last.text[i + 1]
              /\ str[Kept(last)] = NUL

\* snprintf never stores at or past str[size], whatever the length of the
\* text: the cells beyond size keep what they held before the call, and
\* nothing is written outside the buffer.
WritesWithinSize ==
    /\ stray = {}
    /\ data = NULL /\ last.fn = "snprintf" =>
          \A i \in 0..CAP-1 : i >= last.size => str[i] = last.before[i]
=============================================================================
