-------------------------------- MODULE Inet --------------------------------
(***************************************************************************)
(* inet_ntop of src/c/inet.c: for AF_INET it refuses a dst shorter than   *)
(* INET_ADDRSTRLEN (netinet/in.h) and formats the four bytes of the       *)
(* address with snprintf(dst, size, "%d.%d.%d.%d", ...); every other      *)
(* family is refused.  The snprintf is Sprintf's, run over the caller's   *)
(* buffer dst of DST_CAP cells, one callback per character.               *)
(*                                                                         *)
(* The reference reads the C string in dst back as a dotted quad: four    *)
(* fields of one to three decimal digits without a leading zero,          *)
(* separated by '.', each at most 255.                                    *)
(***************************************************************************)
EXTENDS Integers, SequencesExt

CONSTANTS
    AF_INET,        \* the supported address family
    AFS,            \* address families the program passes
    ADDRS,          \* addresses (in_addr bytes, network order) it passes
    NTOP_SIZES,     \* the size argument it passes
    DST_CAP,        \* cells in its dst buffer
    MaxNtop,        \* calls per behaviour
    JUNK,
    NULL

VARIABLES
    ntop,           \* the running or last call: [state, af, src, size, ret]
    nntop,          \* calls made
    dst, dstray, ddata, dlast   \* snprintf's buffer and state (Sprintf)

\* INET_ADDRSTRLEN
INET_ADDRSTRLEN == 16

DOT == 46  \* '.'
DIGIT0 == 48

\* What "%d" produces for a non-negative int: its decimal digits.
RECURSIVE Decimal(_)
Decimal(n) == IF n < 10 THEN <<DIGIT0 + n>> ELSE Decimal(n \div 10) \o <<DIGIT0 + (n % 10)>>

\* What tfp_format produces for "%d.%d.%d.%d" with a[0] & 0xff .. a[3] & 0xff.
Dotted(a) ==
    Decimal(a[1] % 256) \o <<DOT>> \o Decimal(a[2] % 256) \o <<DOT>>
    \o Decimal(a[3] % 256) \o <<DOT>> \o Decimal(a[4] % 256)

G == INSTANCE Sprintf WITH TEXTS <- {Dotted(a) : a \in ADDRS}, SIZES <- NTOP_SIZES,
                           CAP <- DST_CAP, str <- dst, stray <- dstray,
                           data <- ddata, last <- dlast

dvars == <<dst, dstray, ddata, dlast>>
vars == <<ntop, nntop, dvars>>

Init ==
    /\ ntop = [state |-> "none", af |-> AF_INET, src |-> <<0, 0, 0, 0>>, size |-> 0,
               ret |-> NULL]
    /\ nntop = 0
    /\ G!Init

Call(af, a, size, state) ==
    /\ ntop' = [state |-> state, af |-> af, src |-> a, size |-> size, ret |-> NULL]
    /\ nntop' = nntop + 1

\* Mutant: dst refused only below INET_ADDRSTRLEN - 1 bytes.
inet_ntop_short(af, a, size) ==
    /\ ntop.state # "formatting" /\ nntop < MaxNtop
    /\ \/ af = AF_INET /\ size < INET_ADDRSTRLEN - 1
          /\ Call(af, a, size, "returned") /\ UNCHANGED dvars
       \/ af = AF_INET /\ size >= INET_ADDRSTRLEN - 1
          /\ Call(af, a, size, "formatting") /\ G!vsnprintf(Dotted(a), size)
       \/ af # AF_INET /\ Call(af, a, size, "returned") /\ UNCHANGED dvars

\* inet_ntop(af, src, dst, size) up to snprintf's first callback: NULL for
\* a short dst or another family, else snprintf starts.
inet_ntop(af, a, size) ==
    /\ ntop.state # "formatting" /\ nntop < MaxNtop
    /\ \/ af = AF_INET /\ size < INET_ADDRSTRLEN
          /\ Call(af, a, size, "returned") /\ UNCHANGED dvars
       \/ af = AF_INET /\ size >= INET_ADDRSTRLEN
          /\ Call(af, a, size, "formatting") /\ G!vsnprintf(Dotted(a), size)
       \/ af # AF_INET /\ Call(af, a, size, "returned") /\ UNCHANGED dvars

\* One character of the dotted quad reaches _vsnprintf_putcf.
inet_ntop_putcf == G!_vsnprintf_putcf /\ UNCHANGED <<ntop, nntop>>

\* snprintf returns; `return dst`.
inet_ntop_return ==
    /\ ntop.state = "formatting"
    /\ G!vsnprintf_return
    /\ ntop' = [ntop EXCEPT !.state = "returned", !.ret = "dst"]
    /\ UNCHANGED nntop

Next ==
    \/ \E af \in AFS, a \in ADDRS, size \in NTOP_SIZES : inet_ntop(af, a, size)
    \/ inet_ntop_putcf
    \/ inet_ntop_return

Spec == Init /\ [][Next]_vars

-----------------------------------------------------------------------------
(* The reference and the properties.                                      *)

TypeOK ==
    /\ ntop \in [state : {"none", "formatting", "returned"}, af : AFS \cup {AF_INET},
                 src : ADDRS \cup {<<0, 0, 0, 0>>}, size : NTOP_SIZES \cup {0},
                 ret : {NULL, "dst"}]
    /\ nntop \in 0..MaxNtop
    /\ G!TypeOK

\* The C string at dst: the cells before the first NUL, or no string.
CString(buf) ==
    LET Z == {i \in DOMAIN buf : buf[i] = G!NUL}
    IN IF Z = {} THEN <<>> ELSE [j \in 1..Min(Z) |-> buf[j - 1]]

\* The text cut at each '.'.
RECURSIVE SplitDots(_)
SplitDots(s) ==
    IF \A i \in DOMAIN s : s[i] # DOT THEN <<s>>
    ELSE LET k == SelectInSeq(s, LAMBDA c : c = DOT)
         IN <<SubSeq(s, 1, k - 1)>> \o SplitDots(SubSeq(s, k + 1, Len(s)))

DecValue(f) == FoldLeft(LAMBDA acc, c : acc * 10 + c - DIGIT0, 0, f)

IsField(f) ==
    /\ Len(f) \in 1..3
    /\ \A i \in DOMAIN f : f[i] \in DIGIT0..DIGIT0 + 9
    /\ Len(f) > 1 => f[1] # DIGIT0
    /\ DecValue(f) <= 255

\* The dotted quad s reads as address a.
ReadsAs(s, a) ==
    LET fs == SplitDots(s)
    IN /\ Len(fs) = 4
       /\ \A i \in 1..4 : IsField(fs[i]) /\ DecValue(fs[i]) = a[i]

\* inet_ntop returns dst exactly for an AF_INET address and a dst of at
\* least INET_ADDRSTRLEN bytes, and then dst holds the whole address as a
\* NUL-terminated dotted quad: snprintf never cut it, however long the
\* address, and no earlier, longer text shows through after the NUL.
InetNtopCorrect ==
    ntop.state = "returned" =>
        /\ (ntop.ret = "dst") = (ntop.af = AF_INET /\ ntop.size >= INET_ADDRSTRLEN)
        /\ ntop.ret = "dst" => ReadsAs(CString(dst), ntop.src)
=============================================================================
