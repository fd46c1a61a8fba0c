------------------------------- MODULE EfiStart -------------------------------
(***************************************************************************)
(* The start of a nanolibc program on UEFI (src/efi/start_main.c):        *)
(* libnanolibc_start fills the sysdeps table from the firmware's system    *)
(* table, initialises nanolibc, converts the shell's arguments with        *)
(* retrieve_argv, and runs main inside call_main's EFI_NANOLIBC_TRY, to    *)
(* which exit() (efi_exit) longjmps (src/efi/gnu_efi_crt.h).  The EFI      *)
(* status it returns is derived from main's result.                        *)
(*                                                                         *)
(* The firmware is a choice made at the start: whether ConOut and StdErr   *)
(* exist, what GetShellArgcArgv returns and whether AllocatePool fails.    *)
(* main is a choice of its outcome: return r, or exit(s) from any depth.   *)
(***************************************************************************)
EXTENDS Integers, Sequences

CONSTANTS
    ARGCS,       \* values GetShellArgcArgv may return
    RETVALS,     \* values main returns or passes to exit()
    NULL

EXIT_SUCCESS == 0
EXIT_FAILURE == 1
Status == {"EFI_SUCCESS", "EFI_UNSUPPORTED", "EFI_OUT_OF_RESOURCES", "EFI_LOAD_ERROR"}
Messages == {"argv_warning", "exit_called", "main_failed"}

VARIABLES
    pc,          \* where libnanolibc_start is
    systab,      \* [ConOut, StdErr]: which firmware consoles exist
    sysdeps,     \* the table passed to _nnlc_initialize, or NULL
    argc, argv,  \* what main receives; argv is NULL or the array built
    jmpbuf,      \* frame whose setjmp filled exc_jmp_buf, or NULL
    frames,      \* frames on the stack that can be longjmp'ed to
    main_retval, \* private_nnlc_efi_context.main_retval
    exitcode,    \* what the program asked to end with: main's value or exit's
    stderr,      \* Seq of [dev, msg]: the lines printed on stderr
    status       \* what libnanolibc_start returned, or NULL

vars == <<pc, systab, sysdeps, argc, argv, jmpbuf, frames, main_retval,
          exitcode, stderr, status>>

-----------------------------------------------------------------------------

Init ==
    /\ pc = "start"
    /\ systab \in [ConOut : BOOLEAN, StdErr : BOOLEAN]
    /\ sysdeps = NULL /\ argc = 0 /\ argv = NULL
    /\ jmpbuf = NULL /\ frames = {}
    /\ main_retval = 0 /\ exitcode = NULL
    /\ stderr = <<>> /\ status = NULL

\* fprintf(stderr, ...): through the writer the table bound to stderr.
Eprint(msg) == stderr' = Append(stderr, [dev |-> sysdeps.write_stderr, msg |-> msg])

\* Mutant: the else branch missing; the static table keeps NULL.
StderrWriter_unset(st) == IF st.StdErr THEN "StdErr" ELSE NULL

\* `if (systab->StdErr) ... = write_stderr; else ... = write_stdout;`
StderrWriter(st) == IF st.StdErr THEN "StdErr" ELSE "ConOut"

\* libnanolibc_start up to and including _nnlc_initialize.
libnanolibc_start ==
    /\ pc = "start"
    /\ main_retval' = EXIT_FAILURE
    /\ IF ~systab.ConOut
       THEN /\ status' = "EFI_OUT_OF_RESOURCES" /\ pc' = "returned"
            /\ UNCHANGED sysdeps
       ELSE /\ sysdeps' = [write_stdout |-> "ConOut",
                           write_stderr |-> StderrWriter(systab)]
            /\ pc' = "argv"            \* _nnlc_initialize returns 0
            /\ UNCHANGED status
    /\ UNCHANGED <<systab, argc, argv, jmpbuf, frames, exitcode, stderr>>

\* retrieve_argv(&argv), and the warning when it fails.  With Argc >= 0
\* the size needed is the sum of StrLen + 1 over the arguments, which is
\* 0 exactly when Argc = 0; AllocatePool may fail.
retrieve_argv ==
    /\ pc = "argv"
    /\ \E Argc \in ARGCS, pool_ok \in BOOLEAN :
         LET ok == Argc > 0 /\ pool_ok IN
         /\ argc' = IF ok THEN Argc ELSE -1
         /\ argv' = IF ok THEN "argv" ELSE NULL
         /\ IF ok THEN UNCHANGED stderr ELSE Eprint("argv_warning")
    /\ pc' = "call_main"
    /\ UNCHANGED <<systab, sysdeps, jmpbuf, frames, main_retval, exitcode, status>>

\* EFI_NANOLIBC_TRY (gnu_efi_crt.h): setjmp fills exc_jmp_buf with the
\* frame of the function that runs it, which stays live until it returns.
EFI_NANOLIBC_TRY(frame) ==
    /\ jmpbuf' = frame
    /\ frames' = frames \cup {frame}

\* EFI_NANOLIBC_THROW: longjmp to exc_jmp_buf, defined only while the frame
\* that filled it is live; the control reaches that frame's CATCH branch.
EFI_NANOLIBC_THROW == jmpbuf \in frames

\* call_main: main_retval = EXIT_FAILURE, then EFI_NANOLIBC_TRY's setjmp,
\* then the call of main.
call_main ==
    /\ pc = "call_main"
    /\ main_retval' = EXIT_FAILURE
    /\ EFI_NANOLIBC_TRY("call_main")
    /\ pc' = "main"
    /\ UNCHANGED <<systab, sysdeps, argc, argv, exitcode, stderr, status>>

\* main returns r: `main_retval = main(argc, argv)`, and the TRY block ends.
main_returns(r) ==
    /\ pc = "main"
    /\ main_retval' = r /\ exitcode' = r
    /\ pc' = "after_main"
    /\ UNCHANGED <<systab, sysdeps, argc, argv, jmpbuf, frames, stderr, status>>

\* main (at any depth) calls exit(s), which nanolibc forwards to
\* sysdeps->exit = efi_exit: main_retval = s, then EFI_NANOLIBC_THROW
\* longjmps to the frame that filled exc_jmp_buf, whose CATCH branch
\* prints "exit(%d) was called" on stderr.
efi_exit(s) ==
    /\ pc = "main"
    /\ EFI_NANOLIBC_THROW
    /\ main_retval' = s /\ exitcode' = s
    /\ Eprint("exit_called")
    /\ pc' = "after_main"
    /\ UNCHANGED <<systab, sysdeps, argc, argv, jmpbuf, frames, status>>

\* call_main returns main_retval; libnanolibc_start turns it into a status.
libnanolibc_return ==
    /\ pc = "after_main"
    /\ frames' = frames \ {"call_main"}
    /\ IF main_retval # EXIT_SUCCESS
       THEN /\ Eprint("main_failed") /\ status' = "EFI_UNSUPPORTED"
       ELSE /\ UNCHANGED stderr /\ status' = "EFI_SUCCESS"
    /\ pc' = "returned"
    /\ UNCHANGED <<systab, sysdeps, argc, argv, jmpbuf, main_retval, exitcode>>

Next ==
    \/ libnanolibc_start
    \/ retrieve_argv
    \/ call_main
    \/ \E r \in RETVALS : main_returns(r)
    \/ \E s \in RETVALS : efi_exit(s)
    \/ libnanolibc_return

Spec == Init /\ [][Next]_vars

-----------------------------------------------------------------------------
(* Properties.                                                             *)

TypeOK ==
    /\ pc \in {"start", "argv", "call_main", "main", "after_main", "returned"}
    /\ argc \in ARGCS \cup {-1, 0}
    /\ main_retval \in RETVALS \cup {EXIT_FAILURE}
    /\ status \in Status \cup {NULL}
    /\ stderr \in Seq([dev : {"ConOut", "StdErr"}, msg : Messages])

\* main is entered the way a hosted C program expects: argc >= 0 and
\* argv a valid array ending with argv[argc] == NULL (C11 5.1.2.2.1; the
\* code's own comment: "We expect at least argv[0]").
MainArgsValid == pc = "main" => argc >= 0 /\ argv # NULL
=============================================================================
