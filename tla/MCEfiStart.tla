----------------------------- MODULE MCEfiStart -----------------------------
(* EfiStart for TLC: GetShellArgcArgv failing (-1), returning no argument *)
(* or one to three; main ending with 0, EXIT_FAILURE or another failure.    *)
EXTENDS EfiStart

MCArgcs == {-1, 0, 1, 2, 3}
=============================================================================
