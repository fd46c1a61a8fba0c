---------------------------- MODULE MCAllocator ----------------------------
(***************************************************************************)
(* Model-checking instance of Allocator: a 5-bit machine (32 addresses),   *)
(* NNLC_MALLOC_ALIGNMENT scaled from 16 to 4 and the header from 16 to 4   *)
(* bytes (the 64-bit layout, where the header is as wide as the alignment) *)
(* and a host that gives raw blocks at any byte address, so every offset   *)
(* of the raw pointer modulo the alignment occurs.                         *)
(***************************************************************************)
EXTENDS Allocator

MCSizes == {0, 1, 3}
MCCounts == {0, 2}

\* Sizes within a few bytes of SIZE_MAX (2^5 - 1): 26 = SIZE_MAX - 5.
MCWrapSizes == {1, 26}
=============================================================================
