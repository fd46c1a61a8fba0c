----------------------------- MODULE CaseCompare -----------------------------
(***************************************************************************)
(* strcasecmp and strncasecmp of src/c/strings.c as operators over C      *)
(* strings, and the reference they are checked against: the strings      *)
(* compared byte by byte as unsigned char after tolower, the shorter one  *)
(* first when it is a prefix of the other (POSIX strcasecmp).             *)
(*                                                                         *)
(* A C string is the sequence of its bytes before the NUL; reading at or   *)
(* past its end reads the NUL.  tolower is the host's (ctype.h is not part *)
(* of nanolibc); in the C locale it maps 'A'..'Z' to 'a'..'z' and leaves   *)
(* every other unsigned char alone.  unsigned int is UINT_BITS wide.       *)
(* A call of the program is one step; cmp records the last one.           *)
(***************************************************************************)
EXTENDS Integers, Sequences

CONSTANTS
    STRS,        \* C strings the program compares
    LENS,        \* n values passed to strncasecmp
    UINT_BITS    \* width of unsigned int (32, scaled)

VARIABLE cmp     \* the last call: [op, s1, s2, n, ret]

NUL == 0

\* *s++ at index i: the NUL once past the last byte.
Char(s, i) == IF i <= Len(s) THEN s[i] ELSE NUL

\* tolower of the C locale.
tolower(c) == IF c \in 65..90 THEN c + 32 ELSE c

\* An unsigned int value read back as the int strcasecmp returns: the
\* conversion wraps, as it does with gcc and clang.
ToInt(u) == IF u >= 2^(UINT_BITS - 1) THEN u - 2^UINT_BITS ELSE u

\* Mutant: the bytes read as plain (signed) char instead of unsigned char.
RECURSIVE strcasecmp_signed(_, _, _)
strcasecmp_signed(s1, s2, i) ==
    LET S(c) == IF c >= 128 THEN c - 256 ELSE c
        c1 == tolower(S(Char(s1, i)))
        c2 == tolower(S(Char(s2, i)))
    IN IF c1 = NUL \/ c1 # c2 THEN c1 - c2
       ELSE strcasecmp_signed(s1, s2, i + 1)

\* The while (1) loop of strcasecmp from byte i on: c1 and c2 are
\* unsigned int, so c1 - c2 wraps and is converted back to int.
RECURSIVE strcasecmp_loop(_, _, _)
strcasecmp_loop(s1, s2, i) ==
    LET c1 == tolower(Char(s1, i))
        c2 == tolower(Char(s2, i))
    IN IF c1 = NUL \/ c1 # c2 THEN ToInt((c1 - c2) % 2^UINT_BITS)
       ELSE strcasecmp_loop(s1, s2, i + 1)

strcasecmp(s1, s2) == strcasecmp_loop(s1, s2, 1)

\* Mutant: the loop runs while n >= 0, one byte too far.
RECURSIVE strncasecmp_over(_, _, _, _)
strncasecmp_over(s1, s2, n, i) ==
    IF n < 0 THEN 0
    ELSE LET c1 == tolower(Char(s1, i)) % 256
             c2 == tolower(Char(s2, i)) % 256
         IN IF c1 = NUL \/ c1 # c2 THEN c1 - c2
            ELSE strncasecmp_over(s1, s2, n - 1, i + 1)

\* The while (n > 0) loop of strncasecmp from byte i on: c1 and c2 are
\* unsigned char, promoted to int for the subtraction.
RECURSIVE strncasecmp_loop(_, _, _, _)
strncasecmp_loop(s1, s2, n, i) ==
    IF n = 0 THEN 0
    ELSE LET c1 == tolower(Char(s1, i)) % 256
             c2 == tolower(Char(s2, i)) % 256
         IN IF c1 = NUL \/ c1 # c2 THEN c1 - c2
            ELSE strncasecmp_loop(s1, s2, n - 1, i + 1)

strncasecmp(s1, s2, n) == strncasecmp_loop(s1, s2, n, 1)

Init == cmp = [op |-> "none", s1 |-> <<>>, s2 |-> <<>>, n |-> 0, ret |-> 0]

\* The program calls strcasecmp(s1, s2).
strcasecmp_call(s1, s2) ==
    cmp' = [op |-> "strcasecmp", s1 |-> s1, s2 |-> s2, n |-> 0,
            ret |-> strcasecmp(s1, s2)]

\* The program calls strncasecmp(s1, s2, n).
strncasecmp_call(s1, s2, n) ==
    cmp' = [op |-> "strncasecmp", s1 |-> s1, s2 |-> s2, n |-> n,
            ret |-> strncasecmp(s1, s2, n)]

Next ==
    \E s1, s2 \in STRS :
        \/ strcasecmp_call(s1, s2)
        \/ \E n \in LENS : strncasecmp_call(s1, s2, n)

Spec == Init /\ [][Next]_cmp

-----------------------------------------------------------------------------
(* The reference and the properties.                                      *)

TypeOK ==
    cmp \in [op : {"none", "strcasecmp", "strncasecmp"}, s1 : STRS \cup {<<>>},
            s2 : STRS \cup {<<>>}, n : LENS \cup {0}, ret : Int]

Sign(x) == IF x > 0 THEN 1 ELSE IF x < 0 THEN -1 ELSE 0

Lower(s) == [i \in 1..Len(s) |-> tolower(s[i])]

\* The order of the two lowered strings: at the first index where they
\* differ, or by length when one is a prefix of the other.
RefCompare(s1, s2) ==
    LET a == Lower(s1)
        b == Lower(s2)
        D == {i \in 1..Len(a) : i <= Len(b) /\ a[i] # b[i]}
    IN IF D # {}
       THEN LET k == CHOOSE i \in D : \A j \in D : i <= j IN Sign(a[k] - b[k])
       ELSE Sign(Len(a) - Len(b))

Prefix(s, n) == SubSeq(s, 1, IF n < Len(s) THEN n ELSE Len(s))

\* strcasecmp and strncasecmp order every pair of strings as the
\* reference does: the sign of the value returned is that of the lowered
\* comparison, with bytes above 127 after 'z' (unsigned char), a string
\* before its extensions, and only the first n bytes counted by
\* strncasecmp; the unsigned difference strcasecmp returns as int keeps
\* its sign.
CaseCompareCorrect ==
    CASE cmp.op = "strcasecmp" ->
            Sign(cmp.ret) = RefCompare(cmp.s1, cmp.s2)
      [] cmp.op = "strncasecmp" ->
            Sign(cmp.ret) = RefCompare(Prefix(cmp.s1, cmp.n), Prefix(cmp.s2, cmp.n))
      [] OTHER -> TRUE
=============================================================================
