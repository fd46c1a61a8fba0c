------------------------------ MODULE Runtime ------------------------------
(***************************************************************************)
(* The runtime bootstrap and the stream output of nanolibc:                *)
(* _nnlc_initialize (src/c/libc.c) binding a host's nnlc_sysdeps table     *)
(* into __nnlc_internal_data, and the stdio.c functions that write through *)
(* the three FILE descriptors it prepares: fputc/putc, fputs, putchar,     *)
(* puts, fwrite, fflush and vfprintf (the engine of fprintf, printf,       *)
(* vprintf and perror) with its 64-byte buffer; the unsupported          *)
(* functions of unsup.c, which print a warning on stderr the first time    *)
(* each is called (GGL_WARN_UNSUPPORTED, google_warn.h); and the assertion *)
(* functions of assert.c, which report a failure on stderr and abort.      *)
(*                                                                         *)
(* Text is abstracted to sequences over a small alphabet; the formatter    *)
(* tfp_format (outside this repository) is the sequence of characters it   *)
(* hands to the callback.  A host write delivers a prefix of its bytes to *)
(* a device and returns how many (libc.h: "MUST return number of bytes     *)
(* actually printed"); one of the PARTIAL devices may also deliver fewer  *)
(* or return -1, as write(2) under the native adapter can.                 *)
(*                                                                         *)
(* The program is single-threaded: a call runs to completion before the    *)
(* next one, except that vfprintf is split into the callbacks tfp_format   *)
(* makes, one step each, between which nothing else runs.                  *)
(***************************************************************************)
EXTENDS Integers, Sequences, FiniteSets

CONSTANTS
    TABLES,         \* sysdeps tables the host adapter may pass
    TEXTS,          \* strings the program prints (sequences of characters)
    CHARS,          \* characters the program passes to fputc/putchar
    NMEMB,          \* item counts the program passes to fwrite
    BUFSIZE,        \* sizeof(buff) in vfprintf: 64
    PARTIAL,        \* devices whose writes may deliver fewer bytes than asked
    UNSUPPORTED,    \* unsup.c functions the program calls
    WARNINGS,       \* UNSUPPORTED -> the text each one's warning prints
    ASSERT_TEXT,    \* what _nnlc_assert's fprintf prints for the assertion
    DEFAULT_ASSERT_TEXT, \* "Assertion failed!\n"
    MaxCalls,       \* bound: number of calls the program makes
    PreInitCalls,   \* does the program call before _nnlc_initialize?
    NULL            \* the null pointer (a model value)

EOF == -1
NL == 10          \* '\n'
FilePtrs == {"stdin", "stdout", "stderr"}   \* &__nnlc_internal_data.libc_*
Streams == FilePtrs \cup {NULL}              \* what a program may pass as FILE*
Devices == UNION {{t.write_stdout, t.write_stderr} : t \in TABLES}

ASSUME /\ TABLES # {}
       /\ \A t \in TABLES : DOMAIN t = {"write_stdout", "write_stderr"}
       /\ BUFSIZE \in Nat \ {0}
       /\ PARTIAL \subseteq Devices
       /\ MaxCalls \in Nat
       /\ PreInitCalls \in BOOLEAN
       /\ WARNINGS \in [UNSUPPORTED -> Seq(Nat) \ {<<>>}]

VARIABLES
    sysdeps,    \* __nnlc_internal_data.sysdeps: NULL or the bound table
    files,      \* FilePtrs -> [magic, write]: the three _FILE_DESCR
    vdata,      \* struct _vprintf_putcf_data of a running vfprintf, or NULL
    dev,        \* Devices -> Seq: what each host output device received
    expected,   \* Devices -> Seq: what the program has asked to print there
    last,       \* the last completed call: [op, want, got, ret]
    crashed,    \* the program crashed (NULL function call or abort)
    warned,     \* the unsup.c functions whose static _warned is set
    errno,      \* nanolibc's errno
    ncalls,     \* calls made so far
    assertion   \* a failed assertion: [state: none/reporting/aborted, text]

vars == <<sysdeps, files, vdata, dev, expected, last, crashed, warned, errno, ncalls,
          assertion>>

-----------------------------------------------------------------------------
(* The host's write function w given bytes b: the outcomes [n, got],      *)
(* where got is what the device receives and n the value returned.        *)

HostWrite(w, b) ==
    IF w \in PARTIAL
    THEN {[n |-> -1, got |-> <<>>]}
         \cup {[n |-> k, got |-> SubSeq(b, 1, k)] : k \in 0..Len(b)}
    ELSE {[n |-> Len(b), got |-> b]}

\* Write the chunks in order through w, stopping after the first write that
\* does not return the chunk's length (the loops of puts and fwrite).
\* Outcomes [k, got]: k chunks were written whole, got was delivered.
RECURSIVE WriteChunks(_, _)
WriteChunks(w, chunks) ==
    IF chunks = <<>> THEN {[k |-> 0, got |-> <<>>]}
    ELSE UNION {IF r.n = Len(Head(chunks))
                THEN {[k |-> 1 + o.k, got |-> r.got \o o.got]
                      : o \in WriteChunks(w, Tail(chunks))}
                ELSE {[k |-> 0, got |-> r.got]}
                : r \in HostWrite(w, Head(chunks))}

\* nmemb copies of the item s: the memory fwrite reads.
Items(s, nmemb) == [i \in 1..nmemb |-> s]

Flatten(chunks) == IF chunks = <<>> THEN <<>>
                   ELSE LET F[i \in 0..Len(chunks)] ==
                              IF i = 0 THEN <<>> ELSE F[i-1] \o chunks[i]
                        IN F[Len(chunks)]

-----------------------------------------------------------------------------
(* src/c/libc.c and src/c/stdio.c.                                         *)

Unbound == [magic |-> FALSE, write |-> NULL]    \* zero-initialised static

_is_valid_FILE(stream) == stream # NULL /\ files[stream].magic

\* The stream can be written: the guard of fputc, fputs, fwrite, vfprintf.
Writable(stream) == _is_valid_FILE(stream) /\ files[stream].write # NULL

Init ==
    /\ sysdeps = NULL
    /\ files = [f \in FilePtrs |-> Unbound]
    /\ vdata = NULL
    /\ dev = [d \in Devices |-> <<>>]
    /\ expected = [d \in Devices |-> <<>>]
    /\ last = [op |-> "none", want |-> <<>>, unit |-> 1, got |-> <<>>, ret |-> 0]
    /\ crashed = FALSE
    /\ warned = {} /\ errno = 0
    /\ ncalls = 0
    /\ assertion = [state |-> "none", text |-> <<>>]

\* _nnlc_initialize(sysdeps), called once by the host adapter before main,
\* between two calls of the program.
_nnlc_initialize(t) ==
    /\ sysdeps = NULL /\ vdata = NULL
    /\ sysdeps' = t
    /\ files' = [stdin  |-> [magic |-> TRUE, write |-> NULL],
                 stdout |-> [magic |-> TRUE, write |-> t.write_stdout],
                 stderr |-> [magic |-> TRUE, write |-> t.write_stderr]]
    /\ UNCHANGED <<vdata, dev, expected, last, crashed, ncalls>>

\* The device the spec binds a stream to once the table t is bound.
BoundDevice(t, stream) ==
    CASE stream = "stdout" -> {t.write_stdout}
      [] stream = "stderr" -> {t.write_stderr}
      [] OTHER             -> {}

\* A call of the program may start: no call is running, the program has
\* not crashed, the bound is not reached, and the host adapter has
\* initialised the library, as both adapters do before main; or, with
\* PreInitCalls, before that: the C++ static constructors of the
\* nanolibc program run from the native executable's start-up code,
\* before native/start_main.c's main calls _NAT2NNL__nnlc_initialize.
CanCall ==
    /\ vdata = NULL /\ ~crashed /\ ncalls < MaxCalls /\ assertion.state = "none"
    /\ sysdeps # NULL \/ PreInitCalls

\* Bookkeeping shared by every call: the program asked for `want`, made
\* of items of `unit` bytes, on `stream`; the call delivered `got` in all,
\* of which `new` in this step, to device w, and returned ret.
Complete(op, stream, want, unit, w, new, got, ret) ==
    /\ dev' = IF new = <<>> THEN dev ELSE [dev EXCEPT ![w] = @ \o new]
    /\ expected' = IF sysdeps = NULL THEN expected
                   ELSE [d \in Devices |->
                           IF d \in BoundDevice(sysdeps, stream)
                           THEN expected[d] \o want ELSE expected[d]]
    /\ last' = [op |-> op, want |-> want, unit |-> unit, got |-> got, ret |-> ret]
    /\ ncalls' = ncalls + 1
    /\ UNCHANGED <<sysdeps, files, crashed>>

\* A call that returns at once with ret, having written nothing.
Refuse(op, stream, want, ret) ==
    /\ Complete(op, stream, want, 1, NULL, <<>>, <<>>, ret)
    /\ UNCHANGED vdata

\* A call that made its host writes and returned ret.
Done(op, stream, want, w, got, ret) ==
    /\ Complete(op, stream, want, 1, w, got, got, ret)
    /\ UNCHANGED vdata

\* A call through stdout->write with no check that it is bound: when it
\* is NULL the program jumps to address 0.
CrashOnNull ==
    /\ crashed' = TRUE
    /\ ncalls' = ncalls + 1
    /\ UNCHANGED <<sysdeps, files, vdata, dev, expected, last>>

\* const unsigned char uc = c
UChar(c) == c % 256

\* Mutant: the int c written and returned without the conversion.
fputc_nouc(c, stream) ==
    /\ CanCall
    /\ IF ~Writable(stream)
       THEN Refuse("fputc", stream, <<c>>, EOF)
       ELSE \E r \in HostWrite(files[stream].write, <<c>>) :
              Done("fputc", stream, <<c>>, files[stream].write, r.got,
                       IF r.n = 1 THEN c ELSE EOF)

\* fputc(c, stream); putc is the same function.
fputc(c, stream) ==
    /\ CanCall
    /\ IF ~Writable(stream)
       THEN Refuse("fputc", stream, <<UChar(c)>>, EOF)
       ELSE \E r \in HostWrite(files[stream].write, <<UChar(c)>>) :
              Done("fputc", stream, <<UChar(c)>>, files[stream].write, r.got,
                       IF r.n = 1 THEN UChar(c) ELSE EOF)

fputs(s, stream) ==
    /\ CanCall
    /\ IF ~Writable(stream)
       THEN Refuse("fputs", stream, s, EOF)
       ELSE \E r \in HostWrite(files[stream].write, s) :
              Done("fputs", stream, s, files[stream].write, r.got,
                       IF r.n = Len(s) THEN 1 ELSE EOF)

\* putchar(c): stdout->write is called unchecked.
putchar(c) ==
    /\ CanCall
    /\ IF files["stdout"].write = NULL
       THEN CrashOnNull
       ELSE \E r \in HostWrite(files["stdout"].write, <<UChar(c)>>) :
              Done("putchar", "stdout", <<UChar(c)>>, files["stdout"].write,
                       r.got, IF r.n = 1 THEN UChar(c) ELSE EOF)

\* puts(s): s then "\n" through stdout->write, unchecked.
puts(s) ==
    /\ CanCall
    /\ IF files["stdout"].write = NULL
       THEN CrashOnNull
       ELSE \E o \in WriteChunks(files["stdout"].write, <<s, <<NL>>>>) :
              Done("puts", "stdout", s \o <<NL>>, files["stdout"].write,
                       o.got, IF o.k = 2 THEN 1 ELSE EOF)

\* fwrite(s, Len(s), nmemb, stream): returns the number of whole items.
fwrite(s, nmemb, stream) ==
    /\ CanCall
    /\ IF ~Writable(stream)
       THEN /\ Complete("fwrite", stream, Flatten(Items(s, nmemb)), Len(s),
                         NULL, <<>>, <<>>, 0)
            /\ UNCHANGED vdata
       ELSE \E o \in WriteChunks(files[stream].write, Items(s, nmemb)) :
              /\ Complete("fwrite", stream, Flatten(Items(s, nmemb)), Len(s),
                          files[stream].write, o.got, o.got, o.k)
              /\ UNCHANGED vdata

\* fflush(stream): nothing is buffered between calls; only the check.
fflush(stream) ==
    /\ CanCall
    /\ Refuse("fflush", stream, <<>>, IF _is_valid_FILE(stream) THEN 0 ELSE -1)

\* vfprintf(stream, format, ap) whose formatting produces `text`: the
\* guard, then the set-up of data before tfp_format starts calling back.
vfprintf(stream, text) ==
    /\ CanCall
    /\ IF ~Writable(stream)
       THEN Refuse("vfprintf", stream, text, -1)
       ELSE /\ vdata' = [stream |-> stream, pending |-> text, want |-> text,
                         buff |-> <<>>, got |-> <<>>, total_written |-> 0]
            /\ UNCHANGED <<sysdeps, files, dev, expected, last, crashed, ncalls>>

\* Mutant: the buffer flushed only once it is past its capacity.
_vprintf_putcf_late ==
    /\ vdata # NULL /\ vdata.pending # <<>>
    /\ LET c == Head(vdata.pending)
           w == files[vdata.stream].write
           b == Append(vdata.buff, c)
       IN IF Len(vdata.buff) >= BUFSIZE
          THEN /\ crashed' = TRUE     \* abort()
               /\ vdata' = NULL
               /\ UNCHANGED <<sysdeps, files, dev, expected, last, ncalls>>
          ELSE /\ IF Len(b) > BUFSIZE
                  THEN \E r \in HostWrite(w, b) :
                         /\ vdata' = [vdata EXCEPT !.pending = Tail(@),
                                        !.buff = <<>>, !.got = @ \o r.got,
                                        !.total_written = @ + (IF r.n > 0 THEN r.n ELSE 0)]
                         /\ dev' = [dev EXCEPT ![w] = @ \o r.got]
                  ELSE /\ vdata' = [vdata EXCEPT !.pending = Tail(@), !.buff = b]
                       /\ UNCHANGED dev
               /\ UNCHANGED <<sysdeps, files, expected, last, crashed, ncalls>>

\* One call of _vprintf_putcf(data, c) by tfp_format for its next character.
_vprintf_putcf ==
    /\ vdata # NULL /\ vdata.pending # <<>>
    /\ LET c == Head(vdata.pending)
           w == files[vdata.stream].write
           b == Append(vdata.buff, c)
       IN IF Len(vdata.buff) >= BUFSIZE
          THEN /\ crashed' = TRUE     \* abort()
               /\ vdata' = NULL
               /\ UNCHANGED <<sysdeps, files, dev, expected, last, ncalls>>
          ELSE /\ IF Len(b) >= BUFSIZE
                  THEN \E r \in HostWrite(w, b) :
                         /\ vdata' = [vdata EXCEPT !.pending = Tail(@),
                                        !.buff = <<>>, !.got = @ \o r.got,
                                        !.total_written = @ + (IF r.n > 0 THEN r.n ELSE 0)]
                         /\ dev' = [dev EXCEPT ![w] = @ \o r.got]
                  ELSE /\ vdata' = [vdata EXCEPT !.pending = Tail(@), !.buff = b]
                       /\ UNCHANGED dev
               /\ UNCHANGED <<sysdeps, files, expected, last, crashed, ncalls>>

\* Mutant: a failed final write (-1) added to total_written.
vfprintf_return_negcount ==
    /\ vdata # NULL /\ vdata.pending = <<>>
    /\ LET w == files[vdata.stream].write IN
       \E r \in IF vdata.buff = <<>> THEN {[n |-> 0, got |-> <<>>]}
                ELSE HostWrite(w, vdata.buff) :
          /\ vdata' = NULL
          /\ Complete("vfprintf", vdata.stream, vdata.want, 1, w, r.got,
                      vdata.got \o r.got,
                      vdata.total_written + r.n)

\* Mutant: the rest of the buffer is never written.
vfprintf_return_noflush ==
    /\ vdata # NULL /\ vdata.pending = <<>>
    /\ LET w == files[vdata.stream].write IN
       \E r \in IF TRUE THEN {[n |-> 0, got |-> <<>>]}
                ELSE HostWrite(w, vdata.buff) :
          /\ vdata' = NULL
          /\ Complete("vfprintf", vdata.stream, vdata.want, 1, w, r.got,
                      vdata.got \o r.got,
                      vdata.total_written + (IF r.n > 0 THEN r.n ELSE 0))

\* tfp_format has returned: flush what remains in the buffer and return.
vfprintf_return ==
    /\ vdata # NULL /\ vdata.pending = <<>>
    /\ LET w == files[vdata.stream].write IN
       \E r \in IF vdata.buff = <<>> THEN {[n |-> 0, got |-> <<>>]}
                ELSE HostWrite(w, vdata.buff) :
          /\ vdata' = NULL
          /\ Complete("vfprintf", vdata.stream, vdata.want, 1, w, r.got,
                      vdata.got \o r.got,
                      vdata.total_written + (IF r.n > 0 THEN r.n ELSE 0))

-----------------------------------------------------------------------------
(* src/c/unsup.c                                                           *)

\* What each unsupported function returns and stores in errno ("kept":
\* errno is left alone; "void": nothing is returned).
UnsupStubs ==
    LET R(ret, err) == [ret |-> ret, errno |-> err] IN
    [getenv |-> R(NULL, "kept"),     qsort |-> R("void", "EINVAL"),
     signal |-> R(NULL, "EINVAL"),   raise |-> R(-1, "kept"),
     fopen |-> R(NULL, "ENOENT"),    fclose |-> R(-1, "EBADF"),
     fread |-> R(0, "kept"),         fseek |-> R(-1, "EBADF"),
     ftell |-> R(-1, "EBADF"),       rewind |-> R("void", "kept"),
     sscanf |-> R(-1, "kept"),       scanf |-> R(EOF, "EBADF"),
     strtof |-> R(0, "EOPNOTSUPP"),  strtod |-> R(0, "EOPNOTSUPP"),
     fgets |-> R(NULL, "kept"),      localtime |-> R(NULL, "kept"),
     isatty |-> R(0, "EBADF"),       getopt |-> R(-1, "kept"),
     inet_aton |-> R(-1, "kept"),    inet_pton |-> R(-1, "kept"),
     ceilf |-> R("NAN", "kept"),     ceil |-> R("NAN", "kept"),
     floorf |-> R("NAN", "kept"),    floor |-> R("NAN", "kept"),
     truncf |-> R("NAN", "kept"),    trunc |-> R("NAN", "kept"),
     sqrtf |-> R("NAN", "kept"),     sqrt |-> R("NAN", "kept"),
     rintf |-> R("NAN", "kept"),     rint |-> R("NAN", "kept"),
     clock |-> R(0, "kept"),         read |-> R(0, "kept")]

\* _ggl_warn_once: `if (!*warned) fprintf(stderr, ...)`.
_ggl_warn_once(f) == f \notin warned

\* A call of the unsupported function f: GGL_WARN_UNSUPPORTED() (the
\* warning goes through fprintf(stderr) = vfprintf, and *warned = 1),
\* then errno and the return value.  Nothing reads errno while the
\* warning is formatted, so it is set in the first step.
unsupported(f) ==
    /\ warned' = warned \cup {f}
    /\ errno' = IF UnsupStubs[f].errno = "kept" THEN errno ELSE UnsupStubs[f].errno
    /\ IF _ggl_warn_once(f)
       THEN vfprintf("stderr", WARNINGS[f])
       ELSE /\ CanCall /\ Refuse(f, NULL, <<>>, UnsupStubs[f].ret)

-----------------------------------------------------------------------------
(* src/c/assert.c                                                          *)

\* The assertion failed and its report is being printed.
Reporting(text) == assertion' = [state |-> "reporting", text |-> text]

\* _nnlc_assert(val, ...), which assert(expr) calls: nothing when val
\* holds; else fprintf(stderr, "Assertion '%s' failed ...") and abort().
_nnlc_assert(val) ==
    IF val THEN CanCall /\ Refuse("assert", NULL, <<>>, 0) /\ UNCHANGED assertion
    ELSE vfprintf("stderr", ASSERT_TEXT) /\ Reporting(ASSERT_TEXT)

\* _nanolibc_default_assert(val), the weak assert() of programs that do
\* not include assert.h: fputs("Assertion failed!\n", stderr) and abort().
_nanolibc_default_assert(val) ==
    IF val THEN CanCall /\ Refuse("assert", NULL, <<>>, 0) /\ UNCHANGED assertion
    ELSE fputs(DEFAULT_ASSERT_TEXT, "stderr") /\ Reporting(DEFAULT_ASSERT_TEXT)

\* abort() once the report has been printed: the program ends.
abort ==
    /\ assertion.state = "reporting" /\ vdata = NULL
    /\ assertion' = [assertion EXCEPT !.state = "aborted"]
    /\ UNCHANGED <<sysdeps, files, vdata, dev, expected, last, crashed, warned, errno, ncalls>>

Next ==
    \/ /\ \/ \E t \in TABLES : _nnlc_initialize(t)
          \/ \E f \in Streams :
                \/ \E c \in CHARS : fputc(c, f)
                \/ \E s \in TEXTS : fputs(s, f) \/ vfprintf(f, s)
                \/ \E s \in TEXTS, k \in NMEMB : fwrite(s, k, f)
                \/ fflush(f)
          \/ \E c \in CHARS : putchar(c)
          \/ \E s \in TEXTS : puts(s)
          \/ _vprintf_putcf
          \/ vfprintf_return
       /\ UNCHANGED <<warned, errno, assertion>>
    \/ \E f \in UNSUPPORTED : unsupported(f) /\ UNCHANGED assertion
    \/ \E val \in BOOLEAN :
          /\ \/ _nnlc_assert(val)
             \/ _nanolibc_default_assert(val)
          /\ UNCHANGED <<warned, errno>>
    \/ abort

Spec == Init /\ [][Next]_vars

-----------------------------------------------------------------------------
(* Properties.                                                             *)

Alphabet == UNION {{s[i] : i \in DOMAIN s} : s \in TEXTS \cup {WARNINGS[f] : f \in UNSUPPORTED}
                                                  \cup {ASSERT_TEXT, DEFAULT_ASSERT_TEXT}}
            \cup {UChar(c) : c \in CHARS} \cup {NL}

TypeOK ==
    /\ sysdeps \in TABLES \cup {NULL}
    /\ files \in [FilePtrs -> [magic : BOOLEAN, write : Devices \cup {NULL}]]
    /\ dev \in [Devices -> Seq(Alphabet)]
    /\ expected \in [Devices -> Seq(Alphabet)]
    /\ crashed \in BOOLEAN
    /\ warned \subseteq UNSUPPORTED
    /\ ncalls \in 0..MaxCalls
    /\ assertion \in [state : {"none", "reporting", "aborted"},
                      text : {<<>>, ASSERT_TEXT, DEFAULT_ASSERT_TEXT}]

\* The library never crashes the program: no call goes through a NULL
\* function pointer and the sanity check of _vprintf_putcf never calls
\* abort().  spec.md section 7 promises that a stream write on a stream
\* with no writer is turned into a failure return.
NoCrash == ~crashed

\* What a call returns tells the truth about what reached the device, with
\* a host write that may deliver only part of its bytes or fail:
\* fputc/putchar return c, and fputs/puts return 1, only when all they
\* were asked to print (puts: the string and its newline) was delivered,
\* and return EOF only when some of it was not (or there was nothing);
\* fwrite's count k says the first k items were delivered and the next
\* one was not; vfprintf returns -1 having delivered nothing, or the
\* number of bytes delivered over all the flushes of its buffer.
ReturnsHonest ==
    LET l == last IN
    CASE l.op \in {"fputc", "putchar", "fputs", "puts"} ->
            /\ l.ret # EOF => l.got = l.want
            /\ l.ret = EOF => l.got # l.want \/ l.want = <<>>
      [] l.op = "fwrite" ->
            \/ l.ret * l.unit = Len(l.want) /\ l.got = l.want
            \/ /\ l.ret * l.unit <= Len(l.got)
               /\ l.unit = 0 \/ Len(l.got) < (l.ret + 1) * l.unit
               /\ SubSeq(l.got, 1, l.ret * l.unit) = SubSeq(l.want, 1, l.ret * l.unit)
      [] l.op = "vfprintf" -> (l.ret = -1 /\ l.got = <<>>) \/ l.ret = Len(l.got)
      [] OTHER -> TRUE

\* Once no call is running, each device whose writes deliver everything
\* has received exactly what the program printed on the streams bound to
\* it, in the order of the calls, whatever the other device's writes did:
\* vfprintf's buffer loses and repeats nothing, and stdout and stderr
\* reach the writers the sysdeps table names for them, also when both name
\* the same device.
Delivered == vdata = NULL => \A d \in Devices \ PARTIAL : dev[d] = expected[d]

=============================================================================
