----------------------------- MODULE EfiConsole -----------------------------
(***************************************************************************)
(* The console writers the EFI adapter gives nanolibc                     *)
(* (src/efi/start_main.c): write_stdout and write_stderr hand the bytes    *)
(* to efi_conio_write, which cuts them into chunks of _EFI_IO_CHUNK8_SIZE  *)
(* bytes, converts each chunk to a NUL-terminated UCS-2 string in a stack  *)
(* buffer with conio_a2u (turning "\n" into "\r\n"), and passes it to the  *)
(* firmware's OutputString.                                                *)
(*                                                                         *)
(* One loop iteration of efi_conio_write is one step.  A byte is a number  *)
(* in 0..255; a CHAR16 a number in 0..65535.                               *)
(***************************************************************************)
EXTENDS Integers, Sequences, SequencesExt

CONSTANTS
    CHUNK8,       \* _EFI_IO_CHUNK8_SIZE: 64
    CharSigned,   \* is plain char signed on the target (x86: yes)?
    INPUTS,       \* byte strings nanolibc passes to the writer
    MaxCalls      \* bound: number of writes

NUL == 0
LF == 10      \* '\n'
CR == 13      \* '\r'
Writers == {"ConOut", "StdErr"}     \* efi_stdout_writer, efi_stderr_writer
S16SIZE == CHUNK8 * 2 + 1           \* wchars in s16[] of efi_conio_write

ASSUME CHUNK8 \in Nat \ {0} /\ CharSigned \in BOOLEAN /\ MaxCalls \in Nat

VARIABLES
    console,   \* Writers -> Seq(CHAR16): what each firmware stream displayed
    s16,       \* the wchars conio_a2u stored in s16[] in the last iteration
    w,         \* the running write [writer, s8, sz, input], or Idle
    last,      \* the last completed write: [input, ret, writer]
    sent,      \* Writers -> Seq of the buffers written to each, in order
    ncalls

vars == <<console, s16, w, last, sent, ncalls>>

-----------------------------------------------------------------------------

Idle == [writer |-> "none", s8 |-> <<>>, sz |-> 0, input |-> <<>>]

\* Mutant: the sign-extended char stored without the CHAR16 truncation.
ToChar16_nocast(b) == IF CharSigned /\ b >= 128 THEN b - 256 ELSE b

\* (CHAR16)*s8: the char is sign-extended first where char is signed.
ToChar16(b) == IF CharSigned /\ b >= 128 THEN 65536 - 256 + b ELSE b

\* conio_a2u(s16, s8, len): the outcome [n, out], where n is the number
\* of chars converted and out what was stored in s16, trailing NUL
\* included.  The loop stops at len chars or at a NUL byte.
RECURSIVE a2u(_, _)
a2u(s8, len) ==
    IF len = 0 \/ s8 = <<>> \/ Head(s8) = NUL
    THEN [n |-> 0, out |-> <<NUL>>]
    ELSE LET r == a2u(Tail(s8), len - 1)
             c == Head(s8)
         IN [n |-> r.n + 1,
             out |-> (IF c = LF THEN <<CR>> ELSE <<>>) \o <<ToChar16(c)>> \o r.out]

\* Mutant: "\n" copied without the "\r" before it.
RECURSIVE a2u_nocr(_, _)
a2u_nocr(s8, len) ==
    IF len = 0 \/ s8 = <<>> \/ Head(s8) = NUL
    THEN [n |-> 0, out |-> <<NUL>>]
    ELSE LET r == a2u_nocr(Tail(s8), len - 1)
         IN [n |-> r.n + 1, out |-> <<ToChar16(Head(s8))>> \o r.out]

conio_a2u_nocr(s8, len) == a2u_nocr(s8, len)

conio_a2u(s8, len) == a2u(s8, len)

\* Mutant: the whole remaining size passed to conio_a2u.
ChunkLen_nomin(sz) == sz

\* The length efi_conio_write passes: (_EFI_IO_CHUNK8_SIZE > sz) ? sz : ...
ChunkLen(sz) == IF CHUNK8 > sz THEN sz ELSE CHUNK8

-----------------------------------------------------------------------------

Init ==
    /\ console = [x \in Writers |-> <<>>]
    /\ s16 = <<>>
    /\ w = Idle
    /\ last = [input |-> <<>>, ret |-> 0, writer |-> "ConOut"]
    /\ sent = [x \in Writers |-> <<>>]
    /\ ncalls = 0

\* write_stdout(s8, sz) or write_stderr(s8, sz): enter efi_conio_write.
write(writer, input) ==
    /\ w = Idle /\ ncalls < MaxCalls
    /\ w' = [writer |-> writer, s8 |-> input, sz |-> Len(input), input |-> input]
    /\ ncalls' = ncalls + 1
    /\ UNCHANGED <<console, s16, last, sent>>

\* Return from efi_conio_write, then `return sz;` of write_stdout.
Return ==
    /\ last' = [input |-> w.input, ret |-> Len(w.input), writer |-> w.writer]
    /\ sent' = [sent EXCEPT ![w.writer] = Append(@, w.input)]
    /\ w' = Idle

\* Mutant: no `if (converted <= 0) break;`, so a NUL byte is retried.
efi_conio_write_step_nobreak ==
    /\ w # Idle
    /\ IF w.sz > 0
       THEN LET r == conio_a2u(w.s8, ChunkLen(w.sz)) IN
            /\ s16' = r.out
            /\ console' = [console EXCEPT ![w.writer] =
                             @ \o SubSeq(r.out, 1, Len(r.out) - 1)]
            /\ IF r.n >= w.sz
               THEN Return
               ELSE /\ w' = [w EXCEPT !.s8 = SubSeq(@, r.n + 1, Len(@)),
                                      !.sz = @ - r.n]
                    /\ UNCHANGED <<last, sent>>
       ELSE /\ Return /\ UNCHANGED <<console, s16>>
    /\ UNCHANGED ncalls

\* One iteration of the while (sz > 0) loop of efi_conio_write.
efi_conio_write_step ==
    /\ w # Idle
    /\ IF w.sz > 0
       THEN LET r == conio_a2u(w.s8, ChunkLen(w.sz)) IN
            /\ s16' = r.out
            /\ IF r.n <= 0
               THEN /\ Return /\ UNCHANGED console
               ELSE /\ console' = [console EXCEPT ![w.writer] =
                                     @ \o SubSeq(r.out, 1, Len(r.out) - 1)]
                    /\ IF r.n >= w.sz
                       THEN Return
                       ELSE /\ w' = [w EXCEPT !.s8 = SubSeq(@, r.n + 1, Len(@)),
                                              !.sz = @ - r.n]
                            /\ UNCHANGED <<last, sent>>
       ELSE /\ Return /\ UNCHANGED <<console, s16>>
    /\ UNCHANGED ncalls

Next ==
    \/ \E x \in Writers, s \in INPUTS : write(x, s)
    \/ efi_conio_write_step

Spec == Init /\ [][Next]_vars

-----------------------------------------------------------------------------
(* Properties.                                                             *)

TypeOK ==
    /\ console \in [Writers -> Seq(0..65535)]
    /\ s16 \in Seq(0..65535)
    /\ ncalls \in 0..MaxCalls

\* The number of bytes of s before its first NUL: what a C-string holds.
PrintedLen(s) ==
    LET k == SelectInSeq(s, LAMBDA c : c = NUL) IN IF k = 0 THEN Len(s) ELSE k - 1

\* What a C-string of these bytes should look like on an EFI console: the
\* bytes up to the first NUL, each "\n" preceded by "\r".
Displayed(s) ==
    FoldLeft(LAMBDA acc, c : acc \o (IF c = LF THEN <<CR, ToChar16(c)>>
                                     ELSE <<ToChar16(c)>>),
             <<>>, SubSeq(s, 1, PrintedLen(s)))

\* conio_a2u never stores more wchars than s16[] of efi_conio_write holds,
\* whatever the length of the buffer nanolibc hands to the writer and
\* however many "\n" it contains.
NoS16Overflow == Len(s16) <= S16SIZE

\* Between writes, each firmware stream has displayed exactly the C-string
\* conversion of the buffers written to it, in order: chunking loses,
\* repeats and reorders nothing, also when a chunk boundary falls next to
\* a "\n" or a NUL.
ConsoleFaithful ==
    w = Idle =>
        \A x \in Writers :
            console[x] = FoldLeft(LAMBDA acc, s : acc \o Displayed(s), <<>>, sent[x])

\* Every write_stdout or write_stderr call returns: the loop of
\* efi_conio_write ends also when a NUL byte or a zero-length chunk
\* converts nothing, with the loop running as long as it is not done
\* (weak fairness of efi_conio_write_step: OutputString returns and
\* nothing in the loop blocks).
WriteReturns == w # Idle ~> w = Idle

\* write_stdout and write_stderr return the number of bytes actually
\* printed, as libc.h (nnlc_sysdeps.write_stdout) requires of every host.
ReturnsPrinted == w = Idle => last.ret = PrintedLen(last.input)
=============================================================================
