# A TLA+ model of Dr. Mingw

Dr. Mingw is a set of crash reporting tools for Windows: a just-in-time
debugger (`drmingw`), a command line debugger for test automation
(`catchsegv`), a library that reports crashes of the program it is loaded into
(`exchndl`), a replacement for DbgHelp that reads DWARF data (`mgwhelp`), and
`addr2line`, a front end of it.
This directory models what those tools do and checks what they promise.

Paths below are relative to the root of the repository; line numbers are those
of the sources modelled.

## 1. The system

| Component | Source | State | Operations | What makes it correct |
|---|---|---|---|---|
| debugger loop | `src/common/debugger.cpp`, `debugger.h` | `g_Processes` (per process: handle, threads, three flags), `fTerminating`, `fFinished`, the DbgHelp sessions, `debugOptions` | one handler per debug event, `TrapThread` | the table agrees with the system; every crash is reported, once; programs may handle their own exceptions; whatever waits for the debugger is released; the loop ends when, and only when, all processes have |
| catchsegv | `src/catchsegv/catchsegv.cpp` | its options, `g_TimeOut`, `g_ElapsedTime`, `g_TimerIgnore`, the console counters | options, the program's command line, launch, timer callback (dialogs, time-out), console handler, exit code | the program gets the arguments it was given; the time-out is neither early nor missed nor mistaken for success; dialogs are trapped |
| drmingw | `src/drmingw/main.cpp`, `dialog.cpp`, `common/errmsg.cpp` | its options, the AeDebug key of the registry, the window, its text control and message queue | options, install / uninstall, attach, show and save the report | what the system starts is what was installed; messages say what was done; the whole report is shown, in order, and no buffer is used after it is freed |
| MgwHelp | `src/mgwhelp/mgwhelp.cpp` | list of processes, each with a list of modules (mapping, DWARF object) | SymInitialize, SymLoadModuleEx, lookups, SymCleanup, UnDecorateSymbolName | a lookup uses the module now mapped at the address; what is opened is closed; DbgHelp is the fallback |
| DWARF reader | `src/mgwhelp/dwarf_pe.cpp`, `dwarf_find.cpp` | sections of a PE image, ranges of compile units | init, finish, search | the line found is the one whose range holds the address; a failed init leaves nothing behind |
| ExcHndl | `src/exchndl/exchndl.cpp` | previous filter, report file, re-entrancy flags | install, remove, the filter | one report at a time, each whole; what is borrowed is given back; the previous filter is called and restored |
| symbols | `src/common/symbols.cpp` | DbgHelp options | GetSymFromAddr, GetLineFromAddr | none of its own |
| reports | `src/common/log.cpp` | the dump callback | dumpException, dumpStack, dumpModules, dumpSourceCode | the frame loop ends; each text is handed on once, in order |
| addr2line | `src/addr2line/addr2line.cpp` | its options | one lookup per address | one line of output per address |
| option parser | `thirdparty/getoptW/getoptW.c` | a place in `argv`, which it permutes | `getoptW`, `getoptW_long`, `getoptW_long_only` | options and operands mean the same in any order they may be written in |
| C++ demangler | `thirdparty/libiberty/cp-demangle.c` | the parser's `d_info` | parse, print | a name demangles to the declaration it is of; the pools sized beforehand suffice |

How they interact. `drmingw` starts a thread that attaches to a process and
runs `DebugMainLoop`; `catchsegv` launches a program with `DEBUG_PROCESS`,
starts a timer queue and runs `DebugMainLoop` in its main thread. The loop
takes one event at a time from the kernel, calls DbgHelp through `mgwhelp` for
symbols and `log.cpp` for reports, and continues the event. The timer callback
of `catchsegv` runs in pool threads and shares the loop's table without a lock.
In `drmingw` the loop runs in a thread that posts its report, text by text, to
the window of the main thread. `drmingw -i` writes the command into the registry
which the system starts, filled in, when a program crashes. `exchndl` does the
reporting inside the crashing process instead.

What is hard: the debuggees and the kernel run concurrently with the loop, so
several reports are queued at once; a terminated process still has reports
outstanding; identifiers and handles are used again; the flags of the loop
outlive what they were set for; the timer races with the loop and with itself; the
window may go while the report is being made; command lines are written by one
program and read by another; a mangled name refers to its own parts by numbers
that every function of the parser has to keep in step.
`PROJECT.json` lists these hazards line by line.

## 2. Modules

| Module | Models |
|---|---|
| `DebugPort` | Windows and the programs: processes, threads, queued debug events, exception dispatch, libraries. External: it is modelled from how the loop uses it |
| `Debugger` (extends `DebugPort`) | `DebugMainLoop` and all it calls that has state, how it is entered (launched, attached, attached just in time), its properties |
| `MCDebugger` + 3 configurations | values for the constants of `Debugger` |
| `DebuggerProofs` (extends `Debugger`) | the inductive invariant, what follows from it, how processes end, and the symbol sessions |
| `CatchSegv` (extends `Debugger`) | the timer callbacks, `TrapThread`, the console handler and the exit code, composed with the loop and the programs |
| `MCCatchSegv` + 3 configurations | values for the constants of `CatchSegv` |
| `CatchSegvProofs` (extends `CatchSegv`, `DebuggerProofs`) | its types, that the time-out is not early, and that a target catchsegv has terminated is no success |
| `ExcHndl` | the embeddable handler in a program with several threads: loading and freeing, `ExcHndlInit`, the filter, the report file |
| `ReportLog` | the abstract specification of a handler: reports are made one at a time, each about one fault, its parts in order, and stay. `ExcHndl` instantiates it with a refinement mapping (`Log`) |
| `MCExcHndl` + 1 configuration | values for the constants of `ExcHndl` |
| `ExcHndlProofs` (extends `ExcHndl`) | the inductive invariants of `ExcHndl`, and that it implements `ReportLog` |
| `MgwHelp` | the symbol library: processes, modules, sessions, lookups, what failures leave open; and the frame loop of `dumpStack` above it |
| `MCMgwHelp` + 2 configurations | images, address spaces and symbol tables for `MgwHelp` |
| `MgwHelpProofs` (extends `MgwHelp`) | the lists, the sessions, what is left open, and the symbols of a dump |
| `Counting` | induction over numbers, and that functions defined by recursion over an interval exist; nothing of the code |
| `GetOpt` | the option parser, a pure function of its record of globals |
| `CmdLine` | quoting the program's command line, and the rules by which a program reads it back |
| `CmdLineProofs` (extends `CmdLine`) | what a program reads back from the command line written for it |
| `Tools` (extends `GetOpt`, `CmdLine`) | the main functions of `catchsegv`, `addr2line` and `drmingw` from the command line on, and the registry between two runs of `drmingw` |
| `MCTools` + 1 configuration | the command lines |
| `ToolsProofs` (extends `Tools`, `CmdLineProofs`) | that getopt reads what a command line means, and what the tools make of it |
| `Dialog` | `drmingw` attached: the window, the user, the message queue and the debugger thread |
| `MCDialog` + 1 configuration | |
| `DialogProofs` (extends `Dialog`) | that the report is shown in order, and who owns its copies |
| `Demangle` | the parser of C++ names, a pure function |
| `Demangler` (extends `Demangle`) | the calls `mgwhelp` makes of it, and the mangler of the C++ ABI as the reference |
| `MCDemangle` + 1 configuration | declarations, and names with a character wrong |

Which compose which: `CatchSegv` runs the actions of `Debugger`, and so of
`DebugPort`, beside its own. `Tools` ends where `CatchSegv`, `Debugger` (attached)
and `Dialog` begin: `Launch`, `StartTimer` and "attach" are the states they start
from. `Dialog` takes the debugger loop as a thread that emits texts, may end and
may end the tool, which is what `Debugger` does seen from the window.
`ExcHndl` takes InitializeSym and SymCleanup as steps on one session, which
`MgwHelp` models in detail for any number of them.

### Debugger

| Model | Code |
|---|---|
| `g_Processes[p]`, `Find`, `FindThread` | the maps; absence is `listed = FALSE` or `"absent"`, `operator[]` makes a zeroed entry |
| `OnCreateProcess` ... `OnOtherEvent` | the cases of the switch, from the return of `WaitForDebugEvent` to `ContinueDebugEvent` |
| `OnIgnoredException`, `OnDeclinedException`, `OnReportedException` | the three ways out of `EXCEPTION_DEBUG_EVENT`: continue, leave to the program, report (and terminate at the second chance) |
| `Noted`, `NoteException`, `ResumedThreads` | the flags, `SetEvent(hEvent)`, `ResumeThread`, which come before all three |
| `writeDump` / `WithDump`, `WithStacks` | `fDumpWritten` and the minidump file; which threads' stacks were dumped. `log` is a history variable; no action reads it |
| `CloseSession`, `MissSession` | `SymCleanup` with the handle read from the erased entry: the freed node still holds it (`"intact"`), or not (`"clobbered"`), and the session stays. `FreedReads` has the outcomes a run allows, both in every run; `leftOpen`, a history variable, the handles whose session stayed |
| `sessions`, `loaded` | the DbgHelp sessions `InitializeSym`, `loadModule` and `SymUnloadModule64` maintain |
| `loop` | running; returned TRUE (`finished`) or FALSE (`failed`); `exit(EXIT_FAILURE)` (`exited`) |

A handler is one action: the process whose event is handled is frozen until
`ContinueDebugEvent`, and the loop is the only thread that touches the table
(except for `TrapThread`, modelled in `CatchSegv`).

### DebugPort

A thread that reports is blocked until its event is continued; any number of
threads may be blocked so, and their events are delivered in any order, except
that a process is announced before any other event of it, and the thread
injected by attaching after the threads attached to. Exceptions not handled by
the debugger go to the program, which catches them or not; then there is a
second chance. A process that is terminated lets each of its threads finish the
report it is in, and the last thread reports the end of the process.
Simplifications, all on the side of the environment:

* exception codes are the six the loop distinguishes; `NTSTATUS` (256) stands
  for all of them as exit codes, and a process that is dying keeps its code;
* a new thread exists from its announcement on; the loader loads or unloads one
  library at a time; the image of the process is not among its libraries;
* `GetThreadContext` and `SuspendThread` succeed for a thread that exists and
  whose handle is in the table;
* the identifier of the target is not used again, because the tool keeps a
  handle of it; identifiers of children, of threads, and handle values are;
* there is no exception inside an exception handler;
* attaching follows one process (`DebugActiveProcess`), launching all children.

### CatchSegv

Each callback of the timer is a process of its own with a program counter
(`timer[w].pc`); a step is an access to a global or a call of the system.

| Model | Code |
|---|---|
| `TimerFires`, `FindDialog`, `FindNoDialog`, `Count`, `TimeOutExceeded` | `TimeOutCallback` and `EnumWindowCallback`, cut at the accesses to `g_TimerIgnore`; the last is the message and `g_TimerIgnore = TRUE` |
| `Elapsed`, `Deadline` | `g_ElapsedTime` and `g_TimeOut * 1000`, counted in timer periods modulo `Word`; an addition may be lost when two callbacks add at once |
| `TerminateProcessById`, `TerminateFails` | `OpenProcess` and `TerminateProcess`, which fail for a process that is dying or gone, and `exit(EXIT_FAILURE)` after that, steps of their own: the target may end, and `wmain` return, before each |
| `TrapLookup`, `TrapSuspend`, `TrapDump` | `TrapThread`: the lookups with `operator[]`, `SuspendThread`, the dump and `exit(3)`; `AssertFails` is what the assertions do without `NDEBUG` |
| `TrapRaces` | the lookup while the main thread changes the maps, an undefined behaviour: catchsegv may crash, or (`TrapLookup`) get away with it |
| `MainStep`, `Return` | `DebugMainLoop` as called by `wmain`, and `GetExitCodeProcess` afterwards |
| `consoleCtrlHandler` | the first event of a type is ignored, the second ends catchsegv |

`ticks` and `killed` (catchsegv has terminated the target, from either place) are history variables.

### ExcHndl

| Model | Code |
|---|---|
| `pc[<<t, n>>]` | where the n-th call of the filter in thread t is; a fault inside a report is a call at the next level, on the same stack |
| `Attach`, `Detach` | `DllMain`; the globals start afresh, the file and the filter are given back |
| `InitTest`, `InitInstall`, `InitFlag` | `SetupHandler` called by `ExcHndlInit`, which holds no lock |
| `Enter`, `Leave` | the two interlocked operations on `cBeenHere` |
| `SetErrorModeAndOpen`, `EndOfFile` | the first report opens the file (`ReportFile`), each seeks its end |
| `Banner`, `dumpException`, `dumpStack`, `dumpModules` | the parts of `GenerateExceptionReport`, each a write at the file pointer |
| `InitializeSym`, `SymCleanup` | `SetSymOptions` and the session; a report that cannot open one has neither exception nor stack |
| `symOptions` | whose options DbgHelp has; `SetSymOptions` adds those of the handler for the whole process and nothing gives the program's back |
| `CallPrevious` | the filter found by `SetupHandler`, or the default action |

`content`, `crash` and `abandoned` are history variables: what the files hold and
which fault a call is about, and whether the program unwound through a call.
A fault of any thread reaches the filter that Windows was last given: nothing in the code
tells the thread that called `ExcHndlInit` from another (see the observations).
The program frees the library only when no thread executes it. Which program
filters there are is abstracted to one, `"app"`, that ends the process, unwinds
or resumes.

### MgwHelp

| Model | Code |
|---|---|
| `processes` | the list of `mgwhelp_process`, each with its list of modules, newest first |
| `mgwhelp_module_create`, `Held`, `Freed`, `Leftover` | the outcomes of creating and destroying a module, with the resources that stay open |
| `mgwhelp_dwarf_pe_init`, `Reading`, `PeHeld`, `PeFreed` | the same for the DWARF data. The function calls itself for the file a debug link names; that file is assumed to have no link of its own, so `Reading` is used at most twice and nothing is recursive |
| `pe_find_symbol`, `Next_` | the loop over the symbol table with its auxiliary records |
| `SymFromAddr`, `GetLineFromAddr` | DWARF first, then the symbol table (names only), then DbgHelp |
| `info` | the static variable of `MgwSymGetLineFromAddrW64` |
| `mapped`, `remapped` | what the processes have at each base, and (a history variable) where that changed after a module was created |
| `DumpStart`, `WalkFrame`, `GetSymFromAddr`, `GetLineFromAddr`, `CheckFrame` | one iteration of the loop of `dumpStack` |

Addresses are small numbers and an answer is represented by where it was read
from, so that "the function named is the one at the address" compares a file and
an offset. StackWalk64 gives any frame. libdwarf either has a name and a line for
an offset or neither. Names are undecorated in `Demangle`.

### ReportLog

The mapping of `ExcHndl`: `log` is `content`, `busy` says that a call is between
its two interlocked operations, `about` and `due` are the fault and the next part
of that call, `place` is `g_hReportFile`. `Enter` is `Begin`, opening the file
`Open`, each part `Write`, a report without symbols `Omit`, `Leave` is `Finish`,
and a program that unwinds through the call is `Abandon`.

### GetOpt, CmdLine and Tools

| Model | Code |
|---|---|
| `g` | `optind`, `optarg`, `optopt` and the static variables of `getoptW_parse`; `argv`, which it permutes |
| `getoptW_parse`, `Permuted`, `Scan`, `ShortOption`, `Candidate`, ... | one call: finish the permutation the last call put off, find the next option, match it |
| `needsQuote`, `quoteArg`, `commandLine` | the lambdas of `catchsegv.cpp` |
| `ArgumentsOf` | external: how a Windows program splits its command line |
| `CatchSegvOption`, `Addr2LineOption`, `DrmingwOption` | one turn of the option loop of each tool |
| `Launch`, `StartTimer` | `CreateProcess` and the timer queue, which may fail |
| `LoadModule`, `InitSymbols`, `Answer`, `Cleanup` | `addr2line` after its options, one address a step |
| `Install`, `Uninstall` | `install` and `uninstall` for one view of the registry, cut short by any failure |
| `RunAgain`, `SystemStarts` | external: a second run, by the user, or by the system with `%ld` filled in |

Arguments are sequences of characters, because quoting and abbreviation are about
them; no other text is. Numbers are read as `wcstoul`, `wcstol` and `wcstoull` do, with
blanks, a sign and a prefix, and saturate at the widths `ULONG` and `ULONGLONG`; `szFile` is
the path as `GetModuleFileNameW` cuts it off at `MAX_PATH`. `typed`, `got`, `asked` and `started` are history
variables.

### Dialog

| Model | Code |
|---|---|
| `createDialog`, `AppendText`, `Close`, `Destroyed` | `createDialog`, and `WndProc` for `WM_USER_APPEND_TEXT`, `WM_CLOSE`, `WM_DESTROY` |
| `OpenDialog`, `Save`, `Dismiss` | `CM_HELP_ABOUT`, `CM_FILE_SAVEAS` with their modal loops, `_ErrorMessageBox` of the main thread |
| `PostClose`, `UserCloses`, `Quit` | `CM_FILE_EXIT`, the close box, the end of `mainLoop` |
| `debugThread`, `lprintf`, `appendText`, `DebugMainLoop` | the debugger thread; `memory` says what each buffer holds |

### Demangle and Demangler

A name is a sequence of characters, a component of the tree a tuple. Each
function of the parser is an operator of its name from `d_info` to `d_info`.
`Parse` stands for the calls between them, so that a single operator is recursive.
`d_make_empty` and `d_add_substitution` fail when their pool is used up and set
`short`, a history field. `Mangle`, in `Demangler`, is not of this repository: it
is the mangler the Itanium C++ ABI prescribes, written as a walk over the tree a
name should demangle to.

## 3. Runs

| Run | Instance | Shows |
|---|---|---|
| `debugger_attach` | one process, two threads, one library, all exceptions, options of drmingw and catchsegv, one thread faulted or suspended beforehand, failures of the system | the reports and the signalling are right, only what has crashed is terminated; no report stays unanswered; the faulted thread is dumped and the suspended one resumed |
| `debugger_follow` | three processes, three handle values, one library, crash and abort, both outcomes of the read from the erased entry, symmetric children | the table, the end of the loop and the sessions with their libraries, with identifiers and handles used again |
| `child_left_behind` | two processes | finding: the loop ends before a child is announced |
| `catchsegv_races` | target and child, two callbacks at once, console events, time-outs that fit a DWORD and one that does not | the time-out is never early, and a target that catchsegv terminated never makes it return 0 |
| `catchsegv_ends` | target and child, one callback at a time, `NDEBUG` | the time-out strikes, dialogs are trapped, catchsegv ends unless `TrapThread` has put an entry back into the table |
| `trap_without_process` | as before, `NDEBUG` | finding: `assert(hProcess)` of `TrapThread` can fail |
| `exchndl_filter` | two threads, one fault inside a report, two faults, one file that can be opened and one that cannot | the handler implements `ReportLog`; every fault that reaches it is reported, unless it is busy or was left by unwinding; the error mode, the session, the file and the filters are given back; the filter returns |
| `mgwhelp_lookup` | two process handles used again, two bases, four images, libraries unloaded and loaded at one base, failures | modules and sessions are current, nothing but mappings stays open, symbols are those of the address, the dump ends |
| `stale_line` | as before | finding: a lookup without a line returns the previous one |
| `tools_command_line` | some 18000 command lines of the three tools; two views of the registry, two runs | getopt reads what a command line means, the launched program gets its arguments, every address is answered, messages about the registry are true, the system starts what was installed |
| `drmingw_dialog` | four texts, four buffers, a queue of three, two saves | the report is shown in order and whole but for what could not be posted; no buffer is used after it is freed; all is shown in the end |
| `demangle` | 6368 names: thousands of declarations, and names damaged in one character | names demangle to their declarations, the pools suffice, the name alone is that of the whole |

Bounds. Two threads of a process are enough for the interleavings of a crash
with another crash, with the end of the other thread and with the breakpoint of
the injected thread; three processes for a child that starts, crashes or
terminates a sibling while the identifier and handle of a third are used again.
`signals`, `dumps` and `ignored` are counted up to 2, which is one more than the
properties allow. `ticks` and the elapsed time count up to `Word`; of the time-outs
0 is none, 1 is below `Word` and 2 above it. A run with two callbacks at a time has no liveness property
and the run with liveness one callback at a time, to keep both in reach. The first is
the build with assertions and the second the one without (`NDEBUG`), where what the
assertions would have stopped goes on. Handles and callbacks are symmetric in the first
(`RacesSymmetry`), handles and children in `debugger_follow` (`FollowSymmetry`). There every process that exits by itself
does so with 3, so that each end looks up the thread as for `abort()`.
In `exchndl_filter` two faults give two concurrent calls or one nested in the
other; a third would find the counter above zero like the second. In
`mgwhelp_lookup` stack pointers are counted modulo 2, enough for the comparison
to hold, to fail and to start at the wrap; frames are at the first and a later
offset of an image, at a base (so that the byte before is in the neighbour) and
at the marker 0xBAADF00D. The images are one of each kind the code tells apart. The
second handle has a single address space, which is enough to confuse the lists of
the two. `InsideWine` is FALSE, because inside Wine a dump only ends earlier.

`tools_command_line` takes every command line of up to three or four arguments
(and five out of a smaller set) from arguments that group options, attach, separate
or omit their arguments, abbreviate long names uniquely or not, end the options, or
look like options and are not. A long is 5 bits wide (`ULONG`) and a long long 8
(`ULONGLONG`), which holds the numbers on the command lines: what saturates is read, but no
property speaks of it. Permutation happens one pair at a time, so four
arguments have each order of operand, option, argument and end marker. In
`drmingw_dialog` the queue is shorter than the report, so that posting may fail,
and there is a buffer for each text, so that one is never reused because no other
is left. The declarations of `demangle` put each kind of type, to a depth of three,
in each kind of function, with a second parameter that repeats parts of the first,
and the damaged names lose, double or are cut at each character. Neither lambdas,
unnamed types, vendor and fixed-point types nor `decltype` are declared: damaged
names reach some of them.

Fairness. Delivery of a report is strongly fair per thread, because the kernel's
queue is first-in first-out and the loop waits again and again; a handler runs to
its end; the kernel finishes what it began for a thread (second chances, the
filter that waits for the event, dying); the timer fires again and a callback
runs to its end. Each call of ExcHndl's filter and each dump goes on: no step of them waits, and
threads are scheduled. In `Dialog` a thread that pumps messages dispatches what is
posted (a modal loop does, too), and the debugger thread goes on. Nothing is assumed
of the programs or of the user: they may stop anywhere. `Tools` and `Demangler` have
no liveness property; their steps are one thread's, and each ends.

Deadlock is checked, but for `demangle`, which stops after its two calls; `Stopped`,
`Ended` and `Gone` are the states in which the tool has ended.

### Findings

1. `g_Processes.empty()` (`debugger.cpp:710`) ends the loop although a child may be
   waiting to be announced, against "will follow all child processes"
   (`README.md:156`).
2. `TrapThread` (`412`) runs concurrently with the loop; a target that ends after
   its dialog was found is not in the table, and `assert(hProcess)` (`414`) fails;
   with `NDEBUG` the entry made by `operator[]` keeps the loop from ever ending
   (`EndsWithLast`, checked for that build, excepts just that: `PutBack`).
3. `info` in `MgwSymGetLineFromAddrW64` (`mgwhelp.cpp:717`) is static and written
   only when a line is found, but tested in any case (`dwarf_find.cpp:120`). An
   address without a line is reported at the file and line of an earlier one, and
   DbgHelp is not asked.

### Observations

Behaviour of the code a reader of the model will meet, and that the properties
allow for by name. No run is listed for it.

* `fTerminating` belongs to the loop and not to a process (`debugger.cpp:457,603`):
  after one crash no process's abort is reported any more (`669`, `691`).
* `SymCleanup(pProcessInfo->hProcess)` (`706`) reads the entry erased at `704`. If
  the freed memory no longer holds the handle the session stays open, and when the
  handle value is used again `SymInitialize` fails and the tool exits (`649`).
  Both outcomes are modelled; `SessionsMatch` says that the sessions which stay are those
  (`leftOpen`) and no other.
* The time-out terminates the target only (`catchsegv.cpp:139`) and sets
  `g_TimerIgnore`, so catchsegv waits for children without a limit.
* Between the message of the time-out (`catchsegv.cpp:135`) and `TerminateProcess` (`67`)
  the target may end by itself and `wmain` return its code, perhaps 0: the message does not
  exclude success. `KilledNotSuccess` is about what catchsegv has terminated.
* `g_TimeOut * 1000` is a 32-bit product (`131`): a time-out of 4294968 seconds or
  more strikes when what is left of it has passed (`NoEarlyTimeOut` says so).
* Without `--` the options of the launched program are taken by catchsegv, because
  getopt permutes; an option it does not know, after the program's name, makes
  catchsegv launch what follows that option.
* An empty argument, a blank after a backslash in an argument that nothing else
  makes it quote, and a backslash at the end of a quoted argument do not reach the
  program as they were (`catchsegv.cpp:189-242`; `Carried`).
* `README.md:62` names the option `--breakpoints`, the code `breakpoint` (`main.cpp:215`).
  getopt takes shorter names and not longer ones, so that the documented one is refused as
  unknown. The model has the name of the code, and the reference of `ArgumentsMeant` is made of the code's table:
  no property covers the documented name.
* `install` does not see that its path was cut off at `MAX_PATH` (`main.cpp:81`): the
  command it writes is then for another file. `-p`, `-t` and `-e` read numbers that do not fit
  a long as the largest there is. `StartedAsInstalled` excepts both (`OrdinaryInstallation`).
* Installing may fail in the second view of the registry after the first has been
  written (`main.cpp:322`); the message is then that of a failure.
* Saving a report that is still empty says "Save file failed." (`dialog.cpp:177`)
  though the code means not to bother (`161`).
* The result of `PostMessage` is not looked at (`dialog.cpp:58`): a text that does
  not fit the queue is lost, and its copy. Closing the window ends the debugger,
  and with it what it debugs.
* An unknown or too large substitution inside a nested name is an error to
  `d_substitution` which `d_prefix` takes for a missing prefix: `_ZNS9_1fEv`
  demangles to `f()`. `d_local_name` makes a default argument, and
  `d_function_type` a ref-qualified type, of an operand that was not there.
* In a conversion operator to a specialization of a template template parameter
  the demangler numbers the arguments before the parameter, unlike the ABI; lambdas
  and unnamed types enter its table twice. Neither is among the declarations.
* `mgwhelp_module_destroy` does not close the mapping object of a module
  (`OnlyMappingsLeft` names the exception);
* MgwHelp keeps the first module it has seen at a base: `SymUnloadModule64` is
  DbgHelp's own. `ModulesCurrent` and `SymbolOfAddress` except the places in
  `remapped`, and fail without the exception;
* `ExcHndlInit` may be called from one thread only; with two in `InitThreads` the
  assertion of `SetupHandler` can fail;
* a handler that unwinds out of a nested fault leaves `cBeenHere` above zero, and
  no report is made from then on (`abandoned` in `FaultsReported`);
* `README.md:117` says that only unhandled exceptions of the thread that called
  `ExcHndlInit` are caught (issue 54). The code has no such limit: the filter is installed
  for the process (`exchndl.cpp:252`) and looks at no thread. `FaultsReported` is about every
  fault that reaches the filter; for which faults Windows does not call it, if there are
  any, is outside the sources;
* a report is not written when the report file is null (`-` without a console, or an empty
  name) or could not be opened (`INVALID_HANDLE_VALUE`): `FaultsReported` says nothing
  of what it should hold then;
* `SetSymOptions(FALSE)` (`exchndl.cpp:96`) changes DbgHelp's options for the process, read
  in `mgwhelp.cpp:654,666` and `symbols.cpp:109,115`, and a report does not restore them
  (`symOptions`);
* the handle of the report file is kept, also when opening it failed or the name
  changes afterwards.

## 4. Proofs

`DebuggerProofs` proves, for all values of the constants that satisfy
`PortAssumption` and `DebuggerAssumption`:

* `Typing`: `Spec => []TypeOK`;
* `TableCorrect`: `Spec => []TableMatchesSystem`;
* `CrashesReported`: `Spec => []CrashReported`;
* `LoopFinishesLast`: `Spec => []FinishesLast`;

all from `Invariance`: `Spec => [](TypeOK /\ IInv)`. `TableMatchesSystem` alone is
not inductive: whether a thread's handle belongs in the table depends on which
events may still be queued. `IInv` adds `ReportersExist` (who reports exists),
`HandlesOpen` (a process without a handle is still to be announced),
`AnnouncedFirst` (while a process is to be announced its other threads are, too,
and none of their events has been delivered) and `LastReportsExit` (the thread
that reports the end of its process is its last). `CrashReported` needs
`DumpsRemembered`: the files counted in the log are those `fDumpWritten` knows.
The proof has one lemma per action, and for the handlers one for the types and
one for the invariant; the handlers that do not touch threads share a lemma.
TLC checked `IInv` as an invariant of both passing instances first.

`ExcHndlProofs` proves, for any number of threads, nested faults, file names and
faults, from `ExcHndlAssumption` and, as a hypothesis of each theorem,
`OneInitializes` (at most one thread calls `ExcHndlInit`):

* `ExcHndlTyping`: `ExcHndlSpec => []ExcHndlTypeOK`;
* `ReportsAlone`: `ExcHndlSpec => []OneReporter`;
* `FiltersRestored`: `ExcHndlSpec => []FilterSane`;
* `ReportsAppended`: `ExcHndlSpec => ReportsKept`;

from `ExcHndlInvariance`. `OneReporter` needs `CallsCounted` (`cBeenHere` is the
number of calls between its two interlocked operations, or more once the program
has unwound through one), which needs `CallsAttached` (loading the library sets
the counter to zero, so no call may be in progress then), which needs
`FilterInstalled` (Windows does not call the filter of a library that has been
freed). `ReportsKept` needs `PosAtEnd`: after the banner the file pointer stays at
the end of the file, because there is one reporter.

and, from the same invariance and under the same hypothesis:

* `ReportsLogged`: `ExcHndlSpec => ImplementsReportLog`, the refinement. Each action
  maps to the step named in section 2 or to a stutter. The argument needs that the
  reporter is unique (`OneReporter`, proved before), so that `About` and `Due`, which
  choose it, are functions of the state that other calls leave alone, and that it
  writes at the end of the file (`PosAtEnd`).
* `BorrowedIsReturned`: `ExcHndlSpec => []BorrowedReturned`, from `BorrowInv`: the
  error mode is quiet, and the session the handler's, only while a call is between
  borrowing and returning.
* `FaultsAreReported`: `ExcHndlSpec => FaultsReported`. That a call which finds another in
  the filter, or one that was left by unwinding, is the only one to skip its report follows
  from `CallsCounted`. That the others leave with a whole report needs `PartsWritten`: the parts
  a call has passed are in the file, because a writable report file stays the same one while a report
  is made, what is written is appended (`PosAtEnd`), and the step that leaves the exception and the stack
  out finds a session, which is the program's own or was left by unwinding (`BorrowInv`).

How processes end, also in `DebuggerProofs` and from `Invariance`:

* `OnlyCrashedTerminated`: `Spec => TerminatesOnlyCrashed`;
* `EventSignalledOnce`: `Spec => []SignalledOnce`, if `Pid = {Root}`;
* `AbortsReported`: `Spec => AbortReported`, if `Pid = {Root}`.

The hypothesis of the last two is what attaching gives (`DebuggerAssumption`): `hEvent`
and `fTerminating` belong to the loop and not to a process, and with children the
second property is false, as the observations say. The first needs `SecondChances` (a
second-chance report is of an exception the debugger left to the program before), the
second `BreakpointSeen` (the flag of the entry remembers the signal, and with one
process nothing resets it), the third `ExitsMatch` (a process whose end is reported is
dying with the code reported). `BarePort` is the part of the invariant that does not
speak of the debugger's table.

The sessions, whatever the read of the erased entry gives:

* `SessionsAlwaysMatch`: `Spec => []SessionsMatch`.

`SInv` is stronger: no two processes have the same handle (`HandlesApart`), each process
has at most one report about a library under way, and the library is mapped or not as
that report says (`LoaderOrder`), a process that is not followed has none mapped
(`UnfollowedBare`), and in `SessionsCurrent` the handle of a process followed is not among those
whose session stayed, because `SymInitialize` fails for such a handle and the tool exits, and the
session of a process agrees with what it has mapped on every library no report is about (`Settled`).

`CatchSegvProofs` proves, from `CatchSegvAssumption` and the two assumptions above:

* `CatchSegvTyping`: `CatchSegvSpec => []CatchSegvTypeOK`;
* `TimeOutNotEarly`: `CatchSegvSpec => []NoEarlyTimeOut`;
* `KilledNeverSucceeds`: `CatchSegvSpec => []KilledNotSuccess`.

`TrapThread` makes entries for processes that have gone, so `TableMatchesSystem` and with
it the invariant of `DebuggerProofs` is false here; the actions of `Debugger` still keep
the types and `BarePort`, by the lemmas about each. The time-out: every callback that
has yet to add its period was started by a period of its own, so as long as `ticks` is
below `Word` the elapsed time and those callbacks together are not more than the periods
that passed (`ElapsedAndPassed`); a lost addition only makes the sum smaller. The exit
code: once `TerminateProcess` has succeeded, the target is dying, or gone with the code of its
end remembered, and that code is 3, unless catchsegv itself has ended with a failure
code (`KilledDies`), whoever reports its last event; if the loop fails before that, the code is
`STILL_ACTIVE`.

`MgwHelpProofs` proves, from `MgwHelpAssumption`, for any handles, images, bases, failures
and stacks:

* `MgwHelpTyping`: `MgwHelpSpec => []MgwHelpTypeOK`;
* `SessionsInStep`: `MgwHelpSpec => []SessionsPaired`;
* `ModulesAreCurrent`: `MgwHelpSpec => []ModulesCurrent`;
* `OnlyMappingsAreLeft`: `MgwHelpSpec => []OnlyMappingsLeft`;
* `SymbolsOfAddresses`: `MgwHelpSpec => []SymbolOfAddress`.

The conjunction of the first four is inductive. A lookup either leaves the list alone or adds
to the process one module it did not have (`ModuleAdded`), because the search finds what
there is at most one of (`FirstOfOne`); and each outcome of creating a module has given
back what it held (`NothingHeld`, `ReadingOutcome`).

`SymbolsOfAddresses` rests on what the loop of `pe_find_symbol` computes: that it visits
the symbols and none of their auxiliary records, and returns the closest function. The
assumption on `Tables` is the format: records 0 to `NumberOfSymbols`, a symbol followed by as
many auxiliary records as it says. The state adds to it, in `Answers`, that the frame
printed is the one the dump is at, with the nudge of a return address.

The library's induction theorems take a predicate as a parameter, which these provers
cannot instantiate. `Counting` states induction about a set of numbers instead: a set that
holds 0, and k + 1 with each k below n, holds 0 to n (`UpTo`; `DownTo` is its mirror). They
follow from the well-foundedness of the naturals. A function defined by recursion over an
interval exists if each value is made from the one before (`Forwards`), or from the one or
two after (`Backwards`): the partial functions that follow the recipe are extended one
number at a time. So a function like
`quoteArg`'s `q` or `MeaningFrom` can be unfolded in a proof, and what it computes shown
for arguments and command lines of every length.

`DialogProofs` proves, from `DialogAssumption`, for reports and queues of any length:

* `TextsInOrder`: `Spec => []TextInOrder`;
* `CopiesOwned`: `Spec => []BuffersOwned`.

The two are inductive with `DialogTypeOK` and four facts the proof needs of the two threads:
`NothingYet` (until there is a debugger thread nothing has been reported, posted or
allocated), `OfTheWindow` (the edit control and the messages in the queue exist
only with the window, and the window only with a debugger thread), `Formatted` (while `appendText` runs, the stack buffer holds the
text just reported) and `ReportedPast` (what was dropped, and what waits in the queue, has
been reported). The argument is about the places of the queue that hold copies (`Posted`) and
the text at each (`Pending`): how they shift when the UI thread takes the first message and
when the debugger posts one more.

`CmdLineProofs` proves:

* `ArgumentsReadBack`: a list of arguments, none of which `Carried` excepts, is what
  `ArgumentsOf` reads from the `commandLine` written for it.

`ReadUnquoted` and `ReadQuoted` say what the reader holds after each character of an
argument: unquoted, the characters so far, the last run of backslashes pending; quoted, the
same, because the writer doubles the backslashes before a quote it escapes (`ReadEscaped`),
and the reader halves them. The induction over the arguments then has the reader between two
of them, and at the end `ReadToTheEnd` takes the last.

`ToolsProofs` proves, from `ToolsAssumption` (arguments are texts, argv has a first element,
`NULL` is not a text, the widths of numbers are positive), for every set of command lines, registry views, path and process:

* `TypesOfTools`: `Spec => []ToolsTypeOK`;
* `ReadAsMeant`: `Spec => []ArgumentsMeant`;
* `ArgumentsCarried`: `Spec => []ProgramGetsItsArguments`;
* `AddressesAnswered`: `Spec => []OneAnswerPerAddress`;
* `SaidIsSo`: `Spec => []MessageTrue`;
* `StartsAsInstalled`: `Spec => []StartedAsInstalled`, if `OrdinaryInstallation`;

from `ToolsInvariant`: `Spec => []ToolsInv`. The core is what holds between two calls of
getopt (`Understands`): argv from `argind` on is as it was typed, the operands passed over
and not yet moved are in front of it, between `optbase` and `optmark` (`Skipped`), and
these operands, the options returned so far and the meaning of the rest make up the meaning
of the command line (`Accounted`). The rest starts at the next argument or inside a group of
short options (`Owes`). `CallIs` is the theorem about one call of
`getoptW_parse`: it returns the first option of the rest and still owes what follows; or it
is done, and the operands are all behind `optind`; or it fails, and then, for the two tools
without long options, the command line means nothing. Its parts are `PermutedIs` (the
rotation that moves the options of the last call in front of the operands, element by
element), `ScanIs` (operands are passed over), `CandidateIs` (the next option is short,
long, or the end marker), `ShortOptionIs` and `LongOptionIs`. What the proofs use of the
option tables are a few facts that hold of the three (`ToolContext`): an option character
occurs once, none is optional in its argument, and no long name begins another.

`ToolsInv` adds for `catchsegv` that a launched program has read the operands (`Launched`,
by `ArgumentsReadBack`), for `addr2line` that the answers so far are for the first operands
and the other operands are left (`Answered`), for `drmingw` what the views it is through with
are (`Viewed`), and that a command in the registry starts with a quote and has two numbers to fill in
(`Keys`), so that the system starts `drmingw` with an argv that is not empty.
TLC checks the six properties on the instance of `tools_command_line`; the invariant itself
names sets that TLC cannot enumerate.

`StartsAsInstalled` follows the command of the registry to the `drmingw` that the system
starts with it. `OrdinaryInstallation` says what is taken for granted: the path is not
empty, does not end in a backslash and has no quote, as is so for the path of any Windows
executable, does not contain `%ld`, which the system would fill in, and is shorter than `MAX_PATH`;
the process and the event are positive numbers that a signed long holds, written in decimal without
leading zeros, as `%ld` writes them. `DecimalRead` shows that `wcstoul` and `wcstol` then read the
number the digits mean; a path that is cut off, and a number that saturates or is negative, are excepted. `MCTools` has TLC
evaluate it, so the checked instance is one. The path may otherwise be any, with blanks and
backslashes. The argument has three parts:

* `CommandReadBack`: the command `install` writes for any three flags, with the two numbers
  filled in and split into arguments, is the command line for those flags (`LineFor`). The
  quotes around the path keep it one argument, by `ReadQuoted`; the placeholders are the
  first and the second of the command, whatever the path;
* `ReadsLetter` and `ScansOn`: from any place of a line of options only (`StandsAt`), one call
  of `getoptW_long_only` returns the option whose letter stands there, with its argument,
  and stands behind it, or is done. `-p`, `-e`, `-b` and `-d` are taken as abbreviations of
  long options (`LetterFound`), while `-v` abbreviates two, `--version` and `--verbose`, and
  is found only because the short options are tried then (`VerboseIsShort`);
* `StartedInv`, which is inductive with `ToolsInv`: an option set keeps its names and its flags
  are flags (`OptionsKept`), a command in the registry is the one for the flags noted for its
  view (`CommandsKept`), and the started `drmingw` has, at each of its places on the line,
  taken exactly what is in front of that place (`StartedReads`, `Took`). It cannot fail on the way:
  `-p` comes first and once, with a number that is not 0, and `-e` before any other event.

TLC agrees that `StartedInv` is an invariant of that instance.

Only model-checked: the liveness properties (fairness and ENABLED are beyond the prover) and
everything about `Demangler`, which is recursive, and no proof may reach a recursive operator.
Every other safety property that a passing run checks is a theorem.

## 5. Not modelled

* The text of reports: `dumpContext`, `getExceptionString`, `dumpSourceCode`, the
  formatting in `log.cpp` and the handlers. It has no state and decides nothing.
* Path translation, privileges, version strings, fonts and window sizes.
* The access methods of sections in `dwarf_pe.cpp`, which read without state, and
  the search within libdwarf, which is not in the sources.
* The demangler's printer. It walks the tree that `Demangle` builds and writes text;
  a model of it would be that text, character by character. The grammar of
  expressions is left out for the same reason as the productions are many and have
  no state; `d_expression` rejects, so a name that holds one is not demangled.
* The Java, Ada and older mangling schemes, which `mgwhelp` does not ask for.
* The ANSI variants of MgwHelp's functions, which call the wide ones.
* Sample and tests; what they promise is quoted by the properties.
