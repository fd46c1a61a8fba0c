---------------------------- MODULE MCEfiConsole ----------------------------
(* EfiConsole for TLC: chunks of 2 bytes ("any size >= 1 Ok"), and every  *)
(* buffer of up to 4 bytes over 'a', '\n', NUL and a byte above 127, so   *)
(* that a chunk boundary meets each of them.                              *)
EXTENDS EfiConsole

MCInputs == UNION {[1..k -> {97, LF, NUL, 200}] : k \in 0..4}
=============================================================================
