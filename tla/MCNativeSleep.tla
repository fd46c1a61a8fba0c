---------------------------- MODULE MCNativeSleep ----------------------------
(* NativeSleep for TLC: 5 microseconds to the second and a 3-bit unsigned  *)
(* int, so that requests of whole seconds, of a fraction, of both, and of *)
(* 2^UINT_BITS seconds or more can all be made.                            *)
EXTENDS NativeSleep

\* Requests below 2^UINT_BITS seconds.
MCShort == 0..(2^UINT_BITS * US_PER_S - 1)

\* Requests of 2^UINT_BITS seconds and a little more.
MCLong == {2^UINT_BITS * US_PER_S, 2^UINT_BITS * US_PER_S + 1}

MCAll == MCShort \cup MCLong
=============================================================================
