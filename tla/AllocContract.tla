--------------------------- MODULE AllocContract ---------------------------
(***************************************************************************)
(* What the nanolibc allocator promises its callers (src/c/malloc.c and    *)
(* the contract of spec.md section 4.1), with no header, no host and no    *)
(* address arithmetic.  The state is the set of live blocks, each a        *)
(* pointer mapped to the bytes its owner may use, and the last call made   *)
(* through the interface with its result.                                  *)
(*                                                                         *)
(* A step reads its arguments and result from call', the call being       *)
(* made; the detailed module Allocator records the same call and is        *)
(* checked to implement this specification.                                *)
(***************************************************************************)
EXTENDS Integers

CONSTANTS
    Mem,            \* 2^(width of size_t): sizes are < Mem
    Alignment,      \* NNLC_MALLOC_ALIGNMENT
    NULL            \* the null pointer

VARIABLES
    blocks,         \* live pointer -> [0..n-1 -> byte value]
    call            \* [op, ptr, n, m, ret]: the last call and its result

vars == <<blocks, call>>

NoCall == [op |-> "none", ptr |-> NULL, n |-> 0, m |-> 0, ret |-> NULL]

\* A pointer fit to be handed out as a new block: aligned, and not the
\* pointer of a block that stays live.
Fresh(r, live) == r # NULL /\ r % Alignment = 0 /\ r \notin live

\* blocks' has the live pointers `live`, and every block other than `r`
\* keeps its bytes.
Keeps(live, r) ==
    /\ DOMAIN blocks' = live
    /\ \A q \in live \ {r} : blocks'[q] = blocks[q]

Drop(p) == [q \in DOMAIN blocks \ {p} |-> blocks[q]]

Init ==
    /\ blocks = [q \in {} |-> <<>>]
    /\ call = NoCall

\* malloc(n): NULL for n = 0; otherwise NULL or a fresh aligned block of
\* n bytes of unspecified content.
Malloc(n, r) ==
    IF r = NULL THEN blocks' = blocks
    ELSE /\ n # 0
         /\ Fresh(r, DOMAIN blocks)
         /\ Keeps(DOMAIN blocks \cup {r}, r)
         /\ DOMAIN blocks'[r] = 0..n-1

\* calloc(num, size): NULL when num * size does not fit a size_t;
\* otherwise NULL or a fresh block of num * size zero bytes.
Calloc(num, size, r) ==
    IF r = NULL THEN blocks' = blocks
    ELSE /\ num * size < Mem
         /\ Fresh(r, DOMAIN blocks)
         /\ Keeps(DOMAIN blocks \cup {r}, r)
         /\ blocks'[r] = [i \in 0..num * size - 1 |-> 0]

\* free(p): no effect for NULL, otherwise the block is gone.
Free(p) ==
    IF p = NULL THEN blocks' = blocks
    ELSE /\ p \in DOMAIN blocks
         /\ blocks' = Drop(p)

\* realloc(p, n): malloc(n) for p = NULL; free(p) and NULL for n = 0;
\* otherwise a block of n bytes whose first min(old, n) bytes are those of
\* p, or NULL, and in both cases p itself is released (nanolibc releases
\* p even when the new allocation fails).
Realloc(p, n, r) ==
    IF p = NULL THEN Malloc(n, r)
    ELSE /\ p \in DOMAIN blocks
         /\ IF n = 0 \/ r = NULL
              THEN /\ r = NULL
                   /\ blocks' = Drop(p)
              ELSE /\ Fresh(r, DOMAIN blocks \ {p})
                   /\ Keeps((DOMAIN blocks \ {p}) \cup {r}, r)
                   /\ DOMAIN blocks'[r] = 0..n-1
                   /\ \A i \in DOMAIN blocks[p] \cap 0..n-1 :
                          blocks'[r][i] = blocks[p][i]

\* The owner of block p stores v at offset i.
Write(p, i, v) ==
    /\ p \in DOMAIN blocks
    /\ i \in DOMAIN blocks[p]
    /\ blocks' = [blocks EXCEPT ![p][i] = v]

Next ==
    LET c == call' IN
    \/ c.op = "malloc"  /\ Malloc(c.n, c.ret)
    \/ c.op = "calloc"  /\ Calloc(c.n, c.m, c.ret)
    \/ c.op = "free"    /\ Free(c.ptr)
    \/ c.op = "realloc" /\ Realloc(c.ptr, c.n, c.ret)
    \/ c.op = "write"   /\ Write(c.ptr, c.n, c.m)

Spec == Init /\ [][Next]_vars
=============================================================================
