# TLA+ models of nanolibc

nanolibc is a small C library meant to run on top of a host runtime.
The host is either UEFI firmware (`src/efi`) or a Linux process using glibc (`src/native`).
This directory holds TLA+ models of the library's stateful parts and the TLC configurations that check them.

## The system and how its parts interact

* **Host adapter** (`src/efi/start_main.c`, `src/native/start_main.c`).
  It fills a `struct nnlc_sysdeps` table (`src/c/libc.h`) with host functions: malloc, free, write_stdout, write_stderr, exit, usleep and two clocks.
  It then calls `_nnlc_initialize` and after that `main`.
  On EFI, `exit()` longjmps back to `call_main` (`gnu_efi_crt.h`).
* **Runtime bootstrap** (`src/c/libc.c`, `libc_internals.h`).
  `_nnlc_initialize` stores the table in `__nnlc_internal_data`.
  It also marks the three `FILE` descriptors valid and gives stdout and stderr the host writers.
* **Heap** (`src/c/malloc.c`).
  `malloc`, `free`, `calloc` and `realloc` sit on the host malloc/free.
  They over-allocate, align the data pointer to `NNLC_MALLOC_ALIGNMENT`, and keep a header `{mem, nbytes}` just before the data.
  `free` and `realloc` need that header.
* **Stream output** (`src/c/stdio.c`).
  `fputc`, `fputs`, `putchar`, `puts`, `fwrite` and `fflush` write through `FILE.write`.
  `vfprintf` (and so `fprintf`, `printf` and `perror`) receives characters from the external formatter `tfp_format` through a callback.
  It collects them in a 64-byte stack buffer and flushes the buffer to the host when it is full and at the end.
* **Unsupported functions** (`src/c/unsup.c`, `src/c/nostd/google_warn.h`).
  Stubs that return a failure value and may set `errno`; each prints a warning on stderr the first time it is called, through `fprintf` and so `vfprintf`.
* **PCI helpers** (`src/efi/ggl_pci.c`).
  `ggl_pci_open` mallocs a device, parses a locator, finds the firmware handle at that location (opening the PCI IO protocol on each handle it tries), and enables accesses; `ggl_pci_close` closes the protocol and frees the device.
* **Linux PCI helpers** (`src/efi/ggl_pci_linux.cc`).
  The same `ggl_pci.h` interface for a native program, over sysfs: `ggl_pci_open` opens `config`, reads the BAR flags from `resource` and mmaps each `resourceN`; `ggl_pci_close` unmaps and closes; the accessors read and write config space with `pread`/`pwrite` and BARs through the mappings; `ggl_pci_mpoll32` spins with `sched_yield` until a value matches or the deadline passes.
* **Pure helpers**: time conversion (`time.c`), strings (`strings.c`), `inet_ntop` (`inet.c`, which formats through `snprintf`), the timeval helpers of `sys/time.h`, the EFI date arithmetic and console conversion, and the PCI address parser.

The program is single-threaded; no part of the library takes a lock or runs concurrently.
The hard behaviours are therefore:

* sequences of calls, such as realloc after a shrink, or free after a failed realloc;
* arithmetic at the edges of a machine word;
* a host that fails (malloc returns NULL, a write is short or returns -1);
* calls made before initialisation;
* the split of `vfprintf` into callbacks, with buffer flushes between them.

## Modules

| Module | Models | Source |
|---|---|---|
| `AllocContract` | Abstract spec of the heap: a map from live pointers to byte arrays, and what each call does to it | spec of malloc/free/calloc/realloc |
| `Allocator` | The heap over a byte-addressed memory of `2^WORD_BITS` cells and a host malloc/free | `malloc.c`, `libc.h` |
| `MCAllocator` | Allocator instantiated for TLC | – |
| `Runtime` | `_nnlc_initialize`, the stream functions over host writers, the unsupported stubs with their warn-once, and `_nnlc_assert`/`_nanolibc_default_assert` with `abort` | `libc.c`, `stdio.c`, `unsup.c`, `google_warn.h`, `assert.c` |
| `CaseCompare` | `strcasecmp` and `strncasecmp` as recursive operators, checked against a reference ordering of the lowered strings | `strings.c` |
| `Timeval` | `timeradd`, `timersub` and the `timercmp` macro as operators, checked against time in microseconds | `include/sys/time.h` |
| `Inet` | `inet_ntop`: its guards, and its `snprintf` into `dst` as an instance of `Sprintf`, checked by reading the dotted quad back | `inet.c`, `include/netinet/in.h` |
| `Stdio` | The composition of `Runtime`, `Sprintf`, `CaseCompare`, `Timeval` and `Inet`: the stream functions, assertions, the string formatters, the case-insensitive comparisons, the timeval helpers and `inet_ntop` of one program | `stdio.c`, `strings.c`, `inet.c`, `sys/time.h` |
| `MCStdio` | Stdio instantiated for TLC, with a native and an EFI host table | – |
| `EfiConsole` | The EFI console writers: `conio_a2u`, `efi_conio_write`, `write_stdout`/`write_stderr` | `efi/start_main.c` 55-118 |
| `WallClock` | `time`, `clock_gettime`, `gettimeofday` over the EFI wall clock `efi_gettime_wall`, with a day-by-day reference calendar | `time.c`, `efi/start_main.c` 147-176 |
| `EfiStart` | The EFI program start: `libnanolibc_start`, `retrieve_argv`, `call_main`, `efi_exit` and the TRY/THROW macros | `efi/start_main.c` 120-344, `gnu_efi_crt.h` |
| `NativeSleep` | The native adapter's `nnlc_usleep64` over glibc `sleep`/`usleep`, with signals | `native/start_main.c` 49-64 |
| `EfiProgram` | The composition of `EfiStart`, `WallClock`, `EfiPci` and `EfiConsole`: main, started by `libnanolibc_start`, reads the clock, drives PCI devices, or writes to stdout/stderr through the console writers it bound | `efi/start_main.c` 291-334 |
| `EfiPci` | The PCI helpers: `parse_pci_address` (with `strtoul`'s reading) as an operator, `lookup_pci_device`, `ggl_pci_open`, `ggl_pci_close`, the accessors and `ggl_pci_mpoll32` | `efi/ggl_pci.c` |
| `Sprintf` | `vsnprintf`/`snprintf` and `vsprintf`/`sprintf` with their `tfp_format` callbacks, writing into a caller's buffer | `stdio.c` 169-243 |
| `PciLinux` | The Linux PCI helpers over sysfs: `parse_pci_address`, `GetBARFlags`, `MapBars`, `ggl_pci_open`, `ggl_pci_close`, the accessors and `ggl_pci_mpoll32` with its deadline loop | `efi/ggl_pci_linux.cc` |
| `NativeHost` | The composition of `NativeSleep` and `PciLinux`: a native program that sleeps or drives PCI devices | `native/start_main.c`, `efi/ggl_pci_linux.cc` |
| `MCEfiConsole` (only for the NUL violation run), `MCWallClock`, `MCEfiStart`, `MCEfiProgram`, `MCNativeSleep`, `MCNativeHost` | Their instantiations for TLC | – |

### Allocator

**State.**
* `mem`: the address space, `Addr -> Cell`. Never-written cells and cells freed back to the host are `JUNK`.
* `heap`: the host's live blocks, base -> size.
* `fault`: contract violations observed, such as a store outside every live block.
* `owned`: the client's live pointers -> requested size.
* `call`: the last call, for the refinement mapping.

**Operators.**
Each C function is an operator from a machine state `[mem, heap, fault]` to the set of its possible outcomes `[st, ret]`.
The set holds more than one outcome only where the host chooses: which base the host returns, or whether it fails.
* `malloc` computes `mem_size` with the C wrap-around (`% Mem`). It calls `HostMalloc`, aligns with `align_after` (a bitwise AND with the complement of the mask), and stores the header.
* `free` passes the header's `mem` to `HostFree`.
* `calloc` is the overflow check, then `malloc`, then `memset`. It runs `memset` even when `malloc` returned NULL, as the code does.
* `realloc` follows every branch of the C.
* `Store`, `Memset` and `Memcpy` record `"stray_write"` when they touch a cell outside every host block.
* `HostMalloc` records `"host_malloc_zero"` when asked for 0 bytes (libc.h:30).
* `HostFree` records `"host_free_invalid"` for a pointer that is not a live base.

The client actions `Malloc`, `Calloc`, `Free`, `Realloc` and `Write` call these with small inputs.
* A client frees and reallocs only pointers it owns, or NULL.
* A client writes only inside its blocks, at the first and last byte.

**Refinement.**
`Allocator` maps `owned` and `mem` to `AllocContract`'s `blocks`: each live pointer's first `n` bytes.
The contract's `Spec` is checked as a PROPERTY.
The contract says, for example:
* a grown realloc keeps the old bytes;
* a shrinking realloc keeps the pointer;
* a failed realloc has released the old block (the code frees it);
* calloc's bytes are 0.

### Runtime

**State.**
* `sysdeps`: the bound table.
* `files`: the three `_FILE_DESCR`, each `[magic, write]`.
* `vdata`: a running `vfprintf`'s `_vprintf_putcf_data`: buffer, pending characters and `total_written`.
* `dev`: what each host device received.
* `expected`: what the program printed on streams bound to that device.
* `last`: the last call's request, delivery and return value.
* `crashed`.
* `warned`: the unsup.c functions whose static `_warned` flag is set; `errno`.

**Writes and calls.**
* A host write (`HostWrite`) delivers all its bytes. On a device of `PARTIAL` it may instead deliver a prefix and return its length, or return -1.
* Each stream function is one action, with its guards and its loop (`WriteChunks` for `puts` and `fwrite`).
* `vfprintf` is three actions:
  1. the guard and the set-up;
  2. one `_vprintf_putcf` per character `tfp_format` produces;
  3. the final flush and return.
* `tfp_format` itself is outside the repository. It is represented by the text it produces.
* Characters are their integer codes; `fputc` converts with `% 256` as `unsigned char` does.
* `unsupported(f)` is a call of an unsup.c stub: `UnsupStubs` is the table of what each of the 32 stubs returns and stores in `errno`. The first call starts `vfprintf` on stderr with the function's warning text (`WARNINGS`); later calls return at once. The stub's return value after a warning is not recorded.
* `assertion` is the state of a failed assertion: `none`, `reporting` (the message is being printed through `vfprintf`/`fputs` on stderr) or `aborted`. `_nnlc_assert(val)` and `_nanolibc_default_assert(val)` do nothing when `val` holds; otherwise they start printing their text (`ASSERT_TEXT`, `DEFAULT_ASSERT_TEXT`). `abort` ends the program once the printing `vfprintf` has returned; no call follows it.
* `PreInitCalls` says whether stream calls may come before `_nnlc_initialize` (a C++ static constructor runs before the native `main`). `CanCall` is the guard every stream call shares.

### EfiConsole

* **State.** `console`: what each firmware stream (ConOut, StdErr) displayed, as CHAR16 codes. `s16`: what the last `conio_a2u` stored in the stack buffer. `w`: the running write (remaining `s8`, `sz`). `sent`: the buffers handed to each writer, in order. `last`: the last write's return value.
* **Actions.** `write` enters `efi_conio_write`. `efi_conio_write_step` is one iteration of its `while (sz > 0)` loop, with both `break`s. `Return` is the writer's `return sz`.
* `conio_a2u` is a recursive operator returning the count converted and the wchars stored, trailing NUL included. `ToChar16` is `(CHAR16)*s8` with plain `char` signed (as on x86), so a byte >= 128 is sign-extended.
* The reference `Displayed` is the C-string conversion of a buffer: the bytes before the first NUL, with `\r` before each `\n`.

### WallClock

* `efi_gettime_wall` keeps the C widths: `Month` is a UINT8 (`% 256`), `Year` a UINT16 (`% 65536`). `GetTime` is the firmware's answer: a failure, or a date.
* `time`, `clock_gettime` and `gettimeofday` are one action each, with their NULL and error paths; `last` records what each returned and stored.
* `UnixTime` is the reference: days counted year by year and month by month, plus the time zone in minutes.

### EfiStart

* **State.** `pc`; `systab` (do ConOut and StdErr exist); `sysdeps` (the writers bound); `argc`, `argv`; `jmpbuf` and `frames` (the setjmp buffer and the live frames it may point into); `main_retval`; `exitcode` (what the program asked to end with); the lines printed on `stderr` and the device they reach; the returned `status`.
* **Actions.** `libnanolibc_start` (up to `_nnlc_initialize`), `retrieve_argv` (the shell's `Argc` and `AllocatePool` are choices), `call_main` (the setjmp), `main_returns(r)`, `efi_exit(s)` (the longjmp), and `libnanolibc_return`. The macros `EFI_NANOLIBC_TRY` (setjmp into a frame that stays live) and `EFI_NANOLIBC_THROW` (longjmp, defined only into a live frame) are operators that these actions use.

### EfiProgram

`EfiProgram` instantiates `EfiStart`, `WallClock` and `EfiPci` over disjoint variables. A step is a step of the start-up code (`StartStep`), or, while `pc = "main"`, a clock call (`ClockCall`) a PCI helper call (`PciCall`), or a console write (`ConsoleWrite`: `write_stdout` or `write_stderr` through the `sysdeps` the start-up code bound, then `ConsoleStep`s of `efi_conio_write`'s loop) of main. `EfiConsole` is instantiated with its variables renamed (`clast`, `nwrites`). `MCEfiProgram` explores programs whose main either reads the clock, drives PCI devices or writes to the console (`MCNext`): the three never interact, and exploring both together only multiplies states. The properties of the components are checked on the composition; the start-up code's runs with a failing `retrieve_argv`, an `exit()` and a missing StdErr then all include clock reads.

### EfiPci

* **State.** `opened`: per firmware handle, the PCI IO protocol opens by the image not yet closed. `heap`: the live pdev allocations; `pdevs`: what each holds (location, `Handle`, `PciIo`). `live`: the devices the program holds. `last_open`: the last `ggl_pci_open`'s locator and result, and whether a firmware call failed in it. `access`: the last accessor call.
* **Actions.** `ggl_pci_open(s)` is one step: malloc (the allocation joins `heap`, and each error path frees it with `FreePdev`), `parse_pci_address`, `LocateHandleBuffer`, the lookup loop (`LookupFrom`, recursive over `HandleBuffer`) and `enable_pci_accesses`, each firmware call able to fail. `ggl_pci_close`, `ggl_pci_access` (the six register accessors) and `ggl_pci_mpoll32` (with its delay `timeout_usecs * 10` in unsigned int).
* Locators are sequences of one-character strings. `parse_pci_address` follows the code's checks; `strtoul` takes an optional `0x` prefix and the longest run of hex digits.
* `Reference` reads the two formats of `ggl_pci.h` independently: split at `:` and `.`, separators `:.` or `::.`, each field hex digits (maybe after `0x`), and the ranges of a domain, bus, device and function.

### NativeSleep

* `nnlc_usleep64` splits its argument into seconds for `sleep(unsigned int)` and microseconds for `usleep`. A call is three steps: the split, `sleep` returning, `usleep` returning.
* A signal may end either host call early (`Signals`). The constants scale down the C ones: `US_PER_S` for 10^6 and `UINT_BITS` for the 32 bits of `unsigned int`.

### PciLinux

* **State.** `fds`: the file descriptors the process holds (a new one gets the lowest free number, as `open(2)` does). `maps`: the live mmaps, `[offset, size]` per BAR file. `heap`: the `new GglPciDev` not yet deleted. `pdevs`: what each device holds (path, config fd, config size, `bars[6]`). `live`: the devices the program holds. `poll`: a running `ggl_pci_mpoll32` (its arguments and `left`, the time left to its deadline; -1 once passed). `reg`: the value the device holds in the polled register. `plast`: the last call and its result. `nopen`: opens made, bounded by `MaxOpens`.
* **sysfs.** `SYSFS` is the constant directory: per device, the lines of `resource` (each a record: the field count, whether the fields are hex, the flags) and the `resourceN` files that exist with their sizes. `LinuxFileOps` is outside the repository; its calls are choices: `open` may fail with `EACCES`, `fstat`, the read of `resource` and each `mmap` may fail.
* **Operators.** `parse_pci_address` counts the `:`-separated parts as `absl::StrSplit` does and prefixes `0000:` to a short locator. `ReadFlags` is the recursive line loop of `GetBARFlags` with its three exits. `MapBars` is the loop of `ggl_pci_open` that maps each BAR file: a 64-bit BAR (`(flags & 7) == 4`) consumes two file offsets and one EFI index.
* **Actions.** `ggl_pci_open(s)` is one step with every early return, including those that return NULL after the config fd was opened. `ggl_pci_close(id)`: `close` releases the descriptor whatever it returns (Linux does), and a failure returns -1 before the BARs are unmapped and the device deleted. `ggl_pci_cfgaccess` (reads and writes of 16 and 32 bits, with the bounds check against `config_size_bytes`), `ggl_pci_maccess` (with the offset check in `OFFSET_BITS`-bit arithmetic), and `ggl_pci_mpoll32`, which is three actions: the call, `mpoll32_read` (one iteration: the MMIO read of `reg`, the match, the deadline test, `sched_yield`) and `mpoll32_tick` (real time passing); `device_writes` is the device, the environment, changing `reg` during a poll.
* **References.** `IsBarStart` and `EfiBarIndex` give, independently of `MapBars`'s loop, the offsets at which a BAR starts and the index EFI gives it; `BarsAtEfiIndex` compares the two.

### NativeHost

`NativeHost` composes `NativeSleep` and `PciLinux` over disjoint variables: a step sleeps (when no poll runs) or calls a PCI helper (when no sleep runs). `MCNativeHost` explores programs that either sleep or drive PCI devices; the two share no state.

### Stdio

`Stdio` composes `Runtime`, `Sprintf`, `CaseCompare`, `Timeval` and `Inet`: the stream functions, assertions, the string formatters, the comparisons, the timeval helpers and `inet_ntop` of one program, interleaved call by call (`StreamStep`, `SprintfStep`, `CompareStep`, `TimerStep`, `NtopStep`). `MCStdio` makes a program's calls all of one kind (the `...Idle` predicates): stream calls, or, before the table is bound, string formatting, one comparison, one timeval helper call, or `inet_ntop` calls, since none of these needs a host. The comparisons and the timeval helpers keep no state, so one call of them shows all they can do.

### Timeval

* `timeradd` and `timersub` add or subtract both fields and then carry or borrow one second once; `timercmp(a, b, CMP)` compares the microseconds when the seconds are equal and the seconds otherwise. `CMP` is one of the six C comparison operators, named by a string and applied by `Holds`.
* The header requires normalized arguments (`0 <= tv_usec < 1000000`), and the model passes only those. `time_t` and `suseconds_t` are 64-bit and the seconds used are far from overflow, so they are unbounded integers.
* `tcall` records the last call; `Usecs` is the reference.

### Inet

* `inet_ntop(af, a, size)` is three actions: the guards (`AF_INET`, then `size < INET_ADDRSTRLEN`) and the start of `snprintf`; each `_vsnprintf_putcf` of the text (`inet_ntop_putcf`); and `snprintf`'s return with `return dst` (`inet_ntop_return`).
* `Dotted(a)` is what `tfp_format` produces for `"%d.%d.%d.%d"`: the decimal digits (`Decimal`) of each byte `& 0xff`, joined by `.`. `Sprintf` is instantiated over a separate 17-cell `dst`.
* `ReadsAs` is the reference. It cuts the C string at each `.` and reads four decimal fields of at most three digits and no leading zero; it never formats.

### CaseCompare

* `strcasecmp_loop` and `strncasecmp_loop` are the two `while` loops as recursive operators; `Char` reads the NUL past the end of a C string.
* `tolower` is the host's (`ctype.h` is not part of nanolibc), taken in the C locale.
* `strcasecmp` subtracts two `unsigned int` and returns the difference as `int`: the model wraps it at `2^UINT_BITS` and converts it back. `strncasecmp` uses `unsigned char`, promoted to `int`.
* A call is one step recording its arguments and result in `cmp`, so that the invariant only evaluates the last call. `RefCompare` is the reference: the first differing byte of the lowered strings, or their lengths.

## Runs

| Run | cfg | Expect | What it shows |
|---|---|---|---|
| alloc_main | `MCAllocator.cfg` | pass | 5-bit machine, alignment 4, header 4, host at any byte. Any sequence of the four calls and client writes (up to 2 live blocks, sizes 0, 1 and 3, calloc counts 0 and 2) keeps: headers intact (`BlockLayout`); one host block per client pointer (`HeapOwnership`); no store outside the heap (`WritesInBounds`); the host contract (`HostContractKept`); and the refinement (`ContractSpec`). 745,660 states. |
| alloc_failing_host | `MCAllocatorFail.cfg` | pass | Header 2, host alignment 2, and a host malloc that may fail. Covers realloc's failure path. |
| alloc_stray_writes | `MCAllocatorStray.cfg` | violation | `WritesInBounds` fails two ways. `malloc(26)` on the 5-bit machine (within 6 of SIZE_MAX, as with the 64-bit word) wraps `mem_size` and the header lands outside the host block: this is the trace TLC reports. With a refusing host, `calloc(1, 1)` zeroes through NULL: setting `SIZES = {1}` in the cfg shows that trace. |
| stdio_output | `MCStdio.cfg` | pass | Three calls over all stream functions on both host tables; the native stderr (`fd2`) may write short or fail. Every return value agrees with what reached the device (`ReturnsHonest`); each fully-writing device gets exactly what was printed on the streams bound to it (`Delivered`); nothing crashes or aborts (`NoCrash`). With them, any sequence of `snprintf` (size 0..4) and `sprintf` calls into one 4-cell buffer with texts of 0, 1, 3 and 4 characters leaves the text cut to `size - 1` characters and a NUL, and returns the full length (`FormattedString`); nothing is stored at or past `str[size]` (`WritesWithinSize`). `strcasecmp`/`strncasecmp` over strings of up to 2 bytes from {`A`, `a`, `b`, `[`, 200} and n in 0..3 order them as the reference (`CaseCompareCorrect`). One `timeradd`, `timersub` or `timercmp` (any operator) over seconds {0, 1, 3} and microseconds {0, 1, 500000, 999999} gives the exact, normalized sum, difference or comparison (`TimevalCorrect`). Two `inet_ntop` calls (AF_INET or AF_INET6, sizes 0, 15, 16 and 17) over 0.0.0.0, 10.0.9.100 and 255.255.255.255 return `dst` exactly when the family is AF_INET and the size is at least 16, and `dst` then reads back as the address (`InetNtopCorrect`). 192,180 states. |
| stdio_preinit | `MCStdioPreInit.cfg` | violation | With calls before `_nnlc_initialize` (a C++ static constructor on the native host), `putchar` or `puts` calls through the NULL `write` and crashes (`NoCrash`); spec.md §7 says calls before init fail gracefully, and `fputc` does check. |
| efi_console_nul | `MCEfiConsoleNul.cfg` | violation | `write_stdout` returns `sz` though printing stopped at a NUL (`ReturnsPrinted`, libc.h's contract). |
| wallclock_january | `MCWallClockJanuary.cfg` | violation | January dates: `t.Month -= 2` wraps to 255 in the UINT8 field and the result is 21 years late. |
| efi_program | `MCEfiProgram.cfg` | pass | The composition `EfiProgram`. PCI: two handles at 0000:00:01.0 and 0001:00:01.0; up to two `ggl_pci_open` calls with 14 locators (both formats, a `0x` prefix, a free location, out-of-range fields, missing and extra characters, NULL), every firmware call failing or not, then accessor, poll and close calls: a returned device is at the location the locator names and NULL without a firmware failure means there is none (`OpenCorrect`); each protocol is held open once per open device (`ProtocolsBalanced`); no pdev leaks: every error path of `ggl_pci_open` after the malloc frees it, and `ggl_pci_close` frees it (`NoLeak`). Clock: Every console configuration, `Argc` in -1..3, pool failure; main reads the clock once (any call, February to December dates of 2000, a 400-year leap, and 2001, first and last day, with and without a time zone) and returns or exits with 0, 1 or 2. Every clock reading is the Unix time of the date (`WallClockCorrect`). Console: two writes of up to 3 bytes (a letter, `\n`, NUL, 200) to either stream, 2-byte chunks: `s16[]` never overflows (`NoS16Overflow`), and each console shows exactly the C-string conversion of what was written, in order (`ConsoleFaithful`); every write returns, also one that stops at a NUL (`WriteReturns`, under weak fairness of `ConsoleStep`). 2,442,848 states. |
| efi_start_argv | `MCEfiStartArgv.cfg` | violation | After a failed `retrieve_argv`, main is called with argc -1 and argv NULL (`MainArgsValid`). |
| native_host | `MCNativeHost.cfg` | pass | Sleeps: every request below `2^UINT_BITS` seconds, with signals cutting either host sleep short; the time reported left never exceeds the time not slept (`NoOversleep`). PCI: two devices in sysfs (one with the gq layout of two 64-bit BARs at offsets 0 and 4 and a 32-bit BAR at 2, one whose 7th resource line is malformed), five locators, up to two opens with every host call failing or not, then config, MMIO, poll and close calls: each mapped BAR sits at the EFI index of its offset (`BarsAtEfiIndex`); and every poll ends, also one whose register the device never sets to the expected value (`PollTerminates`, under weak fairness of the read and of time, none of the device). 474,452 states. |
| pci_linux_leak | `MCNativeHostLeak.cfg` | violation | The process holds exactly the descriptors, mappings and allocations of the devices the program holds (`ResourcesOwned`). An open whose `fstat` or `resource` read fails returns NULL with the config fd still open (the trace TLC reports); a failed `close` returns -1 and leaves the mappings and the `GglPciDev`, which the caller cannot free. |
| native_sleep_signal | `MCNativeSleepSignal.cfg` | violation | The time reported left plus the time slept falls short of the request (`RemainingExact`). Three causes: an interrupted `usleep` is ignored (the trace TLC reports); after an interrupted `sleep` the sub-second part is dropped; a request of `2^UINT_BITS` seconds is truncated by `sleep(unsigned int)` and returns 0 having slept 0. |
### Sprintf

* `tfp_format` is outside the repository; it is the text it produces, each callback (`_vsnprintf_putcf`, `_vsprintf_putcf`) one step. `data` is the callback's struct plus the characters still to come.
* The caller's buffer `str` is `CAP` cells that keep their contents between calls, so a missing terminator shows up as stale text. A store outside it is recorded in `stray`.
* `vsprintf` is only called with a text that fits, which is sprintf's precondition on its caller.
* `Terminator` is the `if`/`else if` that NUL-terminates after `tfp_format` returns.

Each property of a passing run has a mutant in `PROJECT.json`: a plausible bug in the modelled code that TLC finds.
Examples:
* the alignment mask dropped;
* realloc reading `mem` as `nbytes`;
* realloc not freeing the old block;
* calloc zeroing one byte too many;
* `free(NULL)` forwarded to the host;
* realloc copying one byte short;
* `fputc` without the `unsigned char` conversion;
* the buffer flushed one character late;
* the final flush missing;
* a `-1` write added to the total.

### Bounds

**Allocator.**
* A 5-bit word is the smallest on which a 4-byte header, 4-byte alignment and two blocks of 3 bytes fit with room for the host to place them anywhere.
* Requests near `2^5` exercise the same wrap as near `2^64`.
* Sizes 0, 1 and 3 hit: malloc's zero check; a size that needs no padding; a size that rounds up.
* realloc from 1 to 3 grows, and from 3 to 1 shrinks.
* Calloc counts 0 and 2 hit the zero-size check and a multiply.

**Runtime.**
* The buffer is cut from 64 to 2 bytes. The code's comment says any size >= 1 works. A 3-character text then fills the buffer, flushes it, and leaves a rest for the final flush.
* The empty text covers zero-length writes.
* `fputc(EOF)` covers the `unsigned char` conversion.
* Three calls are enough to interleave stdout and stderr on a shared device.
* Only the native stderr writes short, so that `Delivered` is checked on the other devices in the same run in which `ReturnsHonest` sees short and failed writes.
* Calls before `_nnlc_initialize` are made only in `stdio_preinit` (`PreInitCalls`): both adapters initialise first, but a C++ static constructor runs before the native `main`. The violation is the first call, one step from the initial state.
* Assertion texts of 3 and 2 characters: with a 2-byte buffer one flushes in the loop and the other only at the end.

**Timeval.** Microseconds 0, 1, 500000 and 999999 make sums of exactly one second (500000 + 500000, 1 + 999999), sums above it, borrows and none; seconds 0, 1 and 3 give equal and unequal seconds with the microseconds pointing either way, and negative differences.

**Inet.** 255.255.255.255 is the longest text (15 characters), so size 16 is the exact fit and 15 would cut it; 0.0.0.0 is the shortest; 10.0.9.100 mixes field lengths. Two calls let a shorter address follow a longer one in the same `dst`. `AF_INET6` stands for every other family.

**CaseCompare.** Strings of up to 2 bytes from `A`, `a`, `b`, `[` (between the two cases in ASCII) and 200 (above 127) and n in 0..3 give: equal strings up to case, a prefix, a difference in the first or second byte, n shorter than, equal to and longer than the strings, and a byte whose sign matters. `UINT_BITS = 16` keeps the wrap of the `unsigned int` difference in TLC's integers.

**EfiConsole.** Chunks of 2 bytes instead of 64 (any size >= 1 behaves alike); inputs up to 3 bytes (4 in `efi_console_nul`) make two chunks, a `\n` at a chunk boundary, a NUL in the first or second chunk, and a byte >= 128. Two writes interleave the two streams.

**WallClock.** 23:59:59.999999999 on the first and last day of each month, in a leap year and a common one, with the unspecified time zone and -60 minutes, hit the day, month, year and zone carries. Dates stay before 2038 so that seconds fit TLC's 32-bit integers.

**EfiStart.** `Argc` -1, 0, 1..3 covers both failure paths of `retrieve_argv` and its success; main's values 0, 1 and 2 cover success, `EXIT_FAILURE` and another value.

**NativeSleep.** 5 microseconds to the second and a 3-bit `unsigned int`: every request below 8 seconds, and in the violation run also 8 seconds and 8 seconds and 1 microsecond, where the truncation appears exactly as at 2^32 seconds. A signal may end either sleep after any number of units.

**EfiPci.** Two handles at locations differing only in the domain, so that the two formats and the domain field matter; one locator names a free location. Two opens make a second open of the same device and a close between them possible. `UINT_BITS = 8` with a timeout of 26 makes the poll delay wrap as timeouts above 429 s do with 32 bits.

**Sprintf.** A 4-cell buffer with sizes 0 to 4 and texts of 0, 1, 3 and 4 characters gives every case of the terminator: text shorter than, equal to and longer than `size - 1`, and `size` 0. Repeated calls over the same buffer make stale contents visible.

**PciLinux.** One device with the layout of `ggl_pci.h`'s gq example (64-bit, 32-bit, 64-bit BARs, so offsets 0, 2, 4 map to EFI indices 0, 1, 2 and offsets 1, 3, 5 are upper halves), and one whose `resource` has a malformed 7th line, which `GetBARFlags` rejects although only 6 lines are needed. Locators in both formats, a bare `01.0` and a free location. Two opens reuse a descriptor number after a close. A config offset of 254 makes 16-bit accesses fit and 32-bit ones fail; BAR indices 1 and 3 hit a mapped BAR and an upper half; register values 0 and 1 under mask 1 with expected 1 and 2 give a match, a register that never matches unless the device writes 1, and an invalid mask; a timeout of 1 lets a poll end by a match or by the deadline, before or after a tick. `OFFSET_BITS = 16` stands for `uint64_t`: only the wrap, not the width, matters to `MmioOK`.

### Fairness

There are two liveness properties.
`WriteReturns` is checked in `efi_program` under weak fairness of `ConsoleStep`: `efi_conio_write`'s loop calls only `conio_a2u` and the firmware's `OutputString`, which returns, so a running write keeps stepping. Removing the `converted <= 0` break makes TLC find a write that never returns.
`PollTerminates` is checked in `native_host` under weak fairness of `mpoll32_read` and `mpoll32_tick`.
* `mpoll32_read`: the loop in `ggl_pci_mpoll32` (`ggl_pci_linux.cc`) has no other exit and no blocking call; `sched_yield` returns, so a running poll keeps reading.
* `mpoll32_tick`: `absl::Now()` is real time, which keeps passing while the loop spins.
* `device_writes`, the device changing the register, has no fairness: nothing in the program makes it happen. A read of a register that does not match before the deadline changes no variable, so weak fairness of `mpoll32_read` cannot force a match; only time and the deadline end such a poll. Taking the deadline again on each iteration (`sched_yield_rearm`) makes TLC find a poll that never returns.
No fairness is assumed for the program's own calls: a program may stop calling at any point, and the runs set `CHECK_DEADLOCK FALSE` because the program makes its bounded number of calls and returns from main.

## Not modelled yet, and the plan

In order of what they can still reveal:

1. **`ggl_pci_mpoll32`'s delay.** `EfiPci` computes the wrapped `timeout_usecs * 10`, but no run checks it against `ggl_pci.h`'s promise of a timeout in microseconds; above 429,496,729 us the firmware is given a much shorter delay.
2. **`inet_aton`'s stub** returns -1, which POSIX callers read as a valid address (0 means invalid). `UnsupStubs` records the value; no run states POSIX's contract.
3. `perror` prints `"Error: %s\n"` through `fprintf` and returns 0 whatever happened; its output is a `vfprintf` like any other, and it is not a separate action. In `ggl_pci_linux.cc`, `ggl_pci_mpoll32` rejects an `expected_val` with bits outside `mask`, while `ggl_pci.h` describes the comparison as `(value & mask) == (expected_val & mask)`; the model follows the code and no run states the header's reading.
4. In `ggl_pci_linux.cc`: the `mread32`/`mwrite32` offset check wraps in `uint64_t` (`offset + 4`), and `bar_index` is used unchecked to index `bars[6]`; both are undefined or out-of-bounds accesses the model's inputs do not reach (`BAR_INDICES` stays in 0..5, offsets small). `ggl_pci_efi_pciio` only reads a field.
5. `efi_usleep64` (one firmware `Stall`, returns 0) and `EFI_NANOLIBC_CALL` (not used in the repository).

Also not modelled: the other headers (declarations, constants, and `endian.h`/`byteswap.h` macros that forward to compiler builtins), `cxxrt.cc` (new/delete forward to malloc/free), the tests, and glibc or firmware internals.
