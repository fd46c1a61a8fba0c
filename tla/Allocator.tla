----------------------------- MODULE Allocator -----------------------------
(***************************************************************************)
(* The nanolibc allocator, src/c/malloc.c: malloc, calloc, realloc and     *)
(* free on top of the host's raw allocator (sysdeps->malloc/free, whose    *)
(* contract is stated in src/c/libc.h).                                    *)
(*                                                                         *)
(* Memory is an array of cells indexed by the addresses of a machine whose *)
(* size_t and intptr_t are WORD_BITS wide, so the padding, masking and     *)
(* size arithmetic of malloc.c are computed modulo 2^WORD_BITS as in C.    *)
(* A cell holds a byte written by the program or a whole header field      *)
(* (the raw pointer `mem` at offset 0 of struct malloc_block and `nbytes`  *)
(* at offset HDR \div 2).  The library keeps no state of its own besides   *)
(* these headers: the variables are the memory, the host's live raw        *)
(* blocks, the undefined behaviours the code has committed, the client's   *)
(* live pointers and the last call through the interface.                 *)
(*                                                                         *)
(* Every library call is one atomic step: the system is single-threaded    *)
(* (spec.md section 5) and nothing interrupts a call.  The host may place  *)
(* a raw block anywhere free at its own alignment and, when HostFails, may *)
(* return NULL for any request.                                            *)
(***************************************************************************)
EXTENDS Integers, FiniteSets, TLC
LOCAL INSTANCE Bitwise

CONSTANTS
    WORD_BITS,              \* width of size_t / intptr_t in the model
    NNLC_MALLOC_ALIGNMENT,  \* src/c/include/malloc.h: 16, a power of two
    HDR,                    \* sizeof(struct malloc_block)
    HOST_ALIGN,             \* alignment of the host's raw blocks
    HostFails,              \* may sysdeps->malloc return NULL?
    SIZES,                  \* sizes the client passes to malloc/realloc
    COUNTS,                 \* element counts the client passes to calloc
    VAL,                    \* the byte value the client writes
    MaxLive                 \* bound: most blocks the client holds at once

Mem == 2^WORD_BITS
Addr == 0..Mem-1
NULL == 0
JUNK == -1                  \* content of memory never written
Cell == {JUNK} \cup Addr

ASSUME /\ WORD_BITS \in Nat \ {0}
       /\ \E k \in 0..WORD_BITS : NNLC_MALLOC_ALIGNMENT = 2^k
       /\ HDR \in 2..Mem-1 /\ HDR % 2 = 0
       /\ HOST_ALIGN \in 1..Mem-1
       /\ HostFails \in BOOLEAN
       /\ SIZES \subseteq Addr /\ COUNTS \subseteq Addr
       /\ VAL \in Addr \ {0}
       /\ MaxLive \in Nat

Faults == {"stray_write", "host_malloc_zero", "host_free_invalid"}

VARIABLES
    mem,        \* Addr -> Cell: the machine's memory
    heap,       \* raw pointer -> size: the host's live raw blocks
    fault,      \* undefined behaviours committed so far (subset of Faults)
    owned,      \* client's live pointer -> the size it asked for
    call        \* the last call made and its result

vars == <<mem, heap, fault, owned, call>>

-----------------------------------------------------------------------------
(* Address arithmetic of malloc.c.                                         *)

NNLC_ALIGNMENT_MASK == NNLC_MALLOC_ALIGNMENT - 1
NBYTES_OFF == HDR \div 2    \* offsetof(struct malloc_block, nbytes)

pad_for_alignment(requested_size) ==
    requested_size + NNLC_MALLOC_ALIGNMENT - 1

\* Faulty variant: the pointer is not rounded down to the alignment.
align_after_nomask(m, reserved_space) == (m + reserved_space) % Mem

\* (pad_for_alignment((intptr_t)p) & ~mask) on a WORD_BITS-bit word.
align_after(m, reserved_space) ==
    LET p == (m + reserved_space) % Mem
    IN  (pad_for_alignment(p) % Mem) & (Mem - 1 - NNLC_ALIGNMENT_MASK)

get_malloc_block(p) == (p - HDR) % Mem

\* size_t mem_size = pad_for_alignment(size) + sizeof(*m), wrapping.
MemSize(size) == (pad_for_alignment(size) + HDR) % Mem

-----------------------------------------------------------------------------
(* The machine: a record st = [mem, heap, fault].  A C function is an      *)
(* operator from a machine to the set of its possible outcomes            *)
(* [st, ret]; only the host makes a call nondeterministic.                *)

InHeap(h, a) == \E b \in DOMAIN h : b <= a /\ a < b + h[b]

\* A store of v at a; a store outside every live raw block is undefined.
Store(st, a, v) ==
    [st EXCEPT !.mem[a] = v,
               !.fault = IF InHeap(st.heap, a) THEN @ ELSE @ \cup {"stray_write"}]

\* memset(dst, c, n) and memcpy(dst, src, n) on the machine.
Memset(st, dst, c, n) ==
    LET D == {(dst + i) % Mem : i \in 0..n-1}
    IN  [st EXCEPT !.mem = [a \in Addr |-> IF a \in D THEN c ELSE @[a]],
                   !.fault = IF \A a \in D : InHeap(st.heap, a) THEN @
                             ELSE @ \cup {"stray_write"}]

Memcpy(st, dst, src, n) ==
    LET D == {(dst + i) % Mem : i \in 0..n-1}
    IN  [st EXCEPT !.mem = [a \in Addr |->
                              IF a \in D THEN @[(src + (a - dst)) % Mem] ELSE @[a]],
                   !.fault = IF \A a \in D : InHeap(st.heap, a) THEN @
                             ELSE @ \cup {"stray_write"}]

\* Where the host may place a raw block of n bytes.
FreeBases(h, n) ==
    {b \in Addr \ {NULL} :
        /\ b % HOST_ALIGN = 0
        /\ b + n <= Mem
        /\ \A c \in DOMAIN h : b + n <= c \/ c + h[c] <= b}

\* sysdeps->malloc(n); libc.h promises the host n > 0.
HostMalloc(st, n) ==
    IF n = 0
    THEN {[st |-> [st EXCEPT !.fault = @ \cup {"host_malloc_zero"}], ret |-> NULL]}
    ELSE {[st |-> [st EXCEPT !.heap = (b :> n) @@ @], ret |-> b] : b \in FreeBases(st.heap, n)}
         \cup (IF HostFails THEN {[st |-> st, ret |-> NULL]} ELSE {})

\* sysdeps->free(a); libc.h promises the host a live, non-NULL raw pointer.
\* What the freed bytes hold afterwards is the host's business (a pool
\* allocator keeps its own links there): they become JUNK.
HostFree(st, a) ==
    IF a \in DOMAIN st.heap
    THEN [st EXCEPT !.heap = [b \in DOMAIN @ \ {a} |-> @[b]],
                    !.mem = [c \in Addr |-> IF a <= c /\ c < a + st.heap[a]
                                            THEN JUNK ELSE @[c]]]
    ELSE [st EXCEPT !.fault = @ \cup {"host_free_invalid"}]

-----------------------------------------------------------------------------
(* The four entry points of malloc.c.                                      *)

malloc(st, size) ==
    IF size = 0 THEN {[st |-> st, ret |-> NULL]}
    ELSE { IF o.ret = NULL THEN o
           ELSE LET p == align_after(o.ret, HDR)
                    m == get_malloc_block(p)
                IN  [st  |-> Store(Store(o.st, m, o.ret),
                                   (m + NBYTES_OFF) % Mem, size),
                     ret |-> p]
         : o \in HostMalloc(st, MemSize(size)) }

\* Faulty variant: free without its NULL check.
free_nonull(st, ptr) == HostFree(st, st.mem[get_malloc_block(ptr)])

free(st, ptr) ==
    IF ptr = NULL THEN st
    ELSE HostFree(st, st.mem[get_malloc_block(ptr)])

\* Faulty variant: memset one byte past the requested length.
calloc_overset(st, num, size) ==
    LET len == (num * size) % Mem
    IN  IF size = 0 \/ num # len \div size
        THEN {[st |-> st, ret |-> NULL]}
        ELSE {[st |-> Memset(o.st, o.ret, 0, len + 1), ret |-> o.ret]
              : o \in malloc(st, len)}

calloc(st, num, size) ==
    LET len == (num * size) % Mem
    IN  IF size = 0 \/ num # len \div size
        THEN {[st |-> st, ret |-> NULL]}
        ELSE {[st |-> Memset(o.st, o.ret, 0, len), ret |-> o.ret]
              : o \in malloc(st, len)}

\* Faulty variants of realloc's growing path: the old block is not
\* released, or one byte too few is copied.
realloc_leak(st, ptr, size) ==
    IF ptr = NULL THEN malloc(st, size)
    ELSE IF size = 0 THEN {[st |-> free(st, ptr), ret |-> NULL]}
    ELSE LET prev_size == st.mem[(get_malloc_block(ptr) + NBYTES_OFF) % Mem]
         IN  IF size <= prev_size
             THEN {[st |-> st, ret |-> ptr]}
             ELSE {[st  |-> IF o.ret # NULL
                            THEN Memcpy(o.st, o.ret, ptr, prev_size)
                            ELSE o.st,
                    ret |-> o.ret]
                   : o \in malloc(st, size)}

realloc_shortcopy(st, ptr, size) ==
    IF ptr = NULL THEN malloc(st, size)
    ELSE IF size = 0 THEN {[st |-> free(st, ptr), ret |-> NULL]}
    ELSE LET prev_size == st.mem[(get_malloc_block(ptr) + NBYTES_OFF) % Mem]
         IN  IF size <= prev_size
             THEN {[st |-> st, ret |-> ptr]}
             ELSE {[st  |-> free(IF o.ret # NULL
                                 THEN Memcpy(o.st, o.ret, ptr, prev_size - 1)
                                 ELSE o.st, ptr),
                    ret |-> o.ret]
                   : o \in malloc(st, size)}

\* Faulty variant: the recorded size is read from the header's first
\* field (mem) instead of nbytes.
realloc_wrongfield(st, ptr, size) ==
    IF ptr = NULL THEN malloc(st, size)
    ELSE IF size = 0 THEN {[st |-> free(st, ptr), ret |-> NULL]}
    ELSE LET prev_size == st.mem[get_malloc_block(ptr)]
         IN  IF size <= prev_size
             THEN {[st |-> st, ret |-> ptr]}
             ELSE {[st  |-> free(IF o.ret # NULL
                                 THEN Memcpy(o.st, o.ret, ptr, prev_size)
                                 ELSE o.st, ptr),
                    ret |-> o.ret]
                   : o \in malloc(st, size)}

realloc(st, ptr, size) ==
    IF ptr = NULL THEN malloc(st, size)
    ELSE IF size = 0 THEN {[st |-> free(st, ptr), ret |-> NULL]}
    ELSE LET prev_size == st.mem[(get_malloc_block(ptr) + NBYTES_OFF) % Mem]
         IN  IF size <= prev_size
             THEN {[st |-> st, ret |-> ptr]}
             ELSE {[st  |-> free(IF o.ret # NULL
                                 THEN Memcpy(o.st, o.ret, ptr, prev_size)
                                 ELSE o.st, ptr),
                    ret |-> o.ret]
                   : o \in malloc(st, size)}

-----------------------------------------------------------------------------
(* The client: a program that holds at most MaxLive blocks, only frees or *)
(* reallocates what it holds, and writes only inside what it asked for:   *)
(* its first and its last byte, where an off-by-one in the layout or in a *)
(* copy shows.                                                             *)

St == [mem |-> mem, heap |-> heap, fault |-> fault]

Apply(o) == /\ mem' = o.st.mem
            /\ heap' = o.st.heap
            /\ fault' = o.st.fault

Call(op, ptr, n, m, ret) == [op |-> op, ptr |-> ptr, n |-> n, m |-> m, ret |-> ret]

Without(p) == [q \in DOMAIN owned \ {p} |-> owned[q]]

\* The client's pointers after a call returned r for a request of n bytes.
Gain(f, r, n) == IF r = NULL THEN f ELSE (r :> n) @@ f

Room == Cardinality(DOMAIN owned) < MaxLive

Init ==
    /\ mem = [a \in Addr |-> JUNK]
    /\ heap = [b \in {} |-> 0]
    /\ fault = {}
    /\ owned = [p \in {} |-> 0]
    /\ call = Call("none", NULL, 0, 0, NULL)

Malloc(size) ==
    /\ Room
    /\ \E o \in malloc(St, size) :
        /\ Apply(o)
        /\ owned' = Gain(owned, o.ret, size)
        /\ call' = Call("malloc", NULL, size, 0, o.ret)

Calloc(num, size) ==
    /\ Room
    /\ \E o \in calloc(St, num, size) :
        /\ Apply(o)
        /\ owned' = Gain(owned, o.ret, (num * size) % Mem)
        /\ call' = Call("calloc", NULL, num, size, o.ret)

Free(ptr) ==
    /\ Apply([st |-> free(St, ptr)])
    /\ owned' = Without(ptr)
    /\ call' = Call("free", ptr, 0, 0, NULL)

Realloc(ptr, size) ==
    /\ ptr = NULL => Room
    /\ \E o \in realloc(St, ptr, size) :
        /\ Apply(o)
        /\ owned' = Gain(Without(ptr), o.ret, size)
        /\ call' = Call("realloc", ptr, size, 0, o.ret)

\* The client stores VAL at offset i of a block it holds.
Write(ptr, i) ==
    /\ i \in 0..owned[ptr]-1
    /\ Apply([st |-> Store(St, (ptr + i) % Mem, VAL)])
    /\ UNCHANGED owned
    /\ call' = Call("write", ptr, i, VAL, NULL)

Next ==
    \/ \E n \in SIZES : Malloc(n)
    \/ \E k \in COUNTS, n \in SIZES : Calloc(k, n)
    \/ \E p \in DOMAIN owned \cup {NULL} :
          \/ Free(p)
          \/ \E n \in SIZES : Realloc(p, n)
    \/ \E p \in DOMAIN owned : \E i \in {0, owned[p] - 1} : Write(p, i)

Spec == Init /\ [][Next]_vars

-----------------------------------------------------------------------------
(* Properties.                                                             *)

AlignedPtr == {p \in Addr \ {NULL} : p % NNLC_MALLOC_ALIGNMENT = 0}

TypeOK ==
    /\ mem \in [Addr -> Cell]
    /\ DOMAIN heap \subseteq Addr \ {NULL}
    /\ \A b \in DOMAIN heap : heap[b] \in 1..Mem-b
    /\ fault \subseteq Faults
    /\ DOMAIN owned \subseteq AlignedPtr
    /\ \A p \in DOMAIN owned : owned[p] \in Addr
    /\ call.op \in {"none", "malloc", "calloc", "free", "realloc", "write"}

\* The raw pointer and the size recorded in the header of client pointer p.
HdrMem(p) == mem[get_malloc_block(p)]
HdrNbytes(p) == mem[(get_malloc_block(p) + NBYTES_OFF) % Mem]

\* Representation invariant of a live block (malloc.c lines 31-75): the
\* header in front of every pointer the client holds still names a live
\* raw block of the host, and that raw block contains the whole header and
\* the nbytes bytes after the pointer, which are at least what the client
\* asked for.  Breaking it takes a wrong pad, a wrong mask, or a neighbour's
\* header overwritten by a write that the layout let out of its block.
BlockLayout ==
    \A p \in DOMAIN owned :
        LET b == HdrMem(p) IN
        /\ b \in DOMAIN heap
        /\ b <= get_malloc_block(p)
        /\ HdrNbytes(p) \in owned[p]..Mem
        /\ p + HdrNbytes(p) <= b + heap[b]

\* Host blocks and client pointers correspond one to one: every raw block
\* the host has handed out is the raw block of exactly one pointer the
\* client holds (nothing leaks through realloc's paths, no two pointers
\* share a raw block).  This is spec.md's "the arena's outstanding bytes
\* return to their value" scenario.
HeapOwnership ==
    /\ DOMAIN heap = {HdrMem(p) : p \in DOMAIN owned}
    /\ \A p, q \in DOMAIN owned : p # q => HdrMem(p) # HdrMem(q)

\* Neither the library nor a client staying inside what malloc, calloc or
\* realloc gave it ever stores outside a live raw block of the host (the
\* header stores of malloc, calloc's memset, realloc's memcpy, and the
\* client's own stores).
WritesInBounds == "stray_write" \notin fault

\* The library keeps the host contract of libc.h: sysdeps->malloc is never
\* asked for 0 bytes and sysdeps->free only gets live raw pointers.
HostContractKept == fault \cap {"host_malloc_zero", "host_free_invalid"} = {}

\* The allocator implements its abstract contract, where each pointer the
\* client holds stands for the bytes it may use.
Contract == INSTANCE AllocContract WITH
    Alignment <- NNLC_MALLOC_ALIGNMENT,
    blocks <- [p \in DOMAIN owned |-> [i \in 0..owned[p]-1 |-> mem[(p + i) % Mem]]]

\* The allocator behaves as AllocContract says: malloc(0) is NULL, every
\* new block is aligned and distinct from the live ones, calloc's block is
\* zero, realloc keeps the first min(old, new) bytes, and no call or store
\* changes the bytes of a block other than the one it is about.
ContractSpec == Contract!Spec
=============================================================================
