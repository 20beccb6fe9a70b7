-------------------------------- MODULE ExcHndl --------------------------------
(***************************************************************************)
(* The embeddable exception handler: src/exchndl/exchndl.cpp.  The library *)
(* installs a top-level exception filter; in whatever thread a fault is    *)
(* left unhandled, the filter appends a report to a file and calls the     *)
(* filter that was there before.                                           *)
(*                                                                         *)
(* A call of the filter is a pair of a thread and a level: a fault inside  *)
(* the filter makes Windows call it again, on the same stack.  A step of a *)
(* call is an access to what it shares with other threads, or one part of  *)
(* the report.                                                             *)
(*                                                                         *)
(* The rest of the program may change the filter, have a DbgHelp session   *)
(* of its own, name the report file, load and free the library.  It frees  *)
(* the library only when no thread is executing it.  A fault of any thread *)
(* reaches the filter if Windows calls it, whichever thread installed it;  *)
(* a fault for which Windows does not is beyond this module.               *)
(*                                                                         *)
(* Definitions named ..._Slip are forms of the one that follows them with  *)
(* a slip of the hand in it; nothing uses them, but replacing the          *)
(* definition by one of them breaks a property.                            *)
(***************************************************************************)
EXTENDS Integers, Sequences, FiniteSets

CONSTANTS
  Thread,       \* the threads of the program
  InitThreads,  \* those that call ExcHndlInit
  Depth,        \* how many calls of the filter a thread may be in
  File,         \* names the program gives the report file, besides "-" and "empty"
  Writable,     \* those that CreateFileW can open
  StdErr,       \* what GetStdHandle returns: "stderr", or "null" without a console
  MaxCrashes    \* bound on the faults that happen

ASSUME ExcHndlAssumption ==
  /\ IsFiniteSet(Thread)
  /\ InitThreads \subseteq Thread
  /\ Depth \in Nat \ {0}
  /\ Writable \subseteq File
  /\ File \cap {"-", "empty", "null", "INVALID_HANDLE_VALUE", "stderr"} = {}
  /\ StdErr \in {"stderr", "null"}
  /\ MaxCrashes \in Nat

VARIABLES
  \* the library's globals
  attached,               \* whether the library is loaded
  g_bHandlerSet,
  g_prevExceptionFilter,
  g_szLogFileName,
  g_hReportFile,
  g_bOwnReportFile,
  cBeenHere,
  \* the calls in progress
  init,                   \* init[t]: where t is in SetupHandler
  pc,                     \* pc[c]: where call c of the filter is
  crash,                  \* crash[c]: the number of the fault c is about
  fuOldErrorMode,         \* fuOldErrorMode[c]: the error mode c found
  \* the system and the rest of the program
  topFilter,              \* what SetUnhandledExceptionFilter was last given
  errorMode,              \* "app", or "quiet" once the filter has set it
  session,                \* whether DbgHelp has a session for the process
  appSession,             \* whether that session is the program's own
  symOptions,             \* the options of DbgHelp: "app", or "exchndl" has added its own
  content,                \* content[f]: the parts of reports in a file, in order
  pos,                    \* the file pointer of the report file
  opened,                 \* the handles CreateFileW returned and nobody closed
  process,                \* "running" or "terminated"
  crashes,                \* the faults so far
  abandoned               \* a call was left by unwinding the stack through it

globals == <<attached, g_bHandlerSet, g_prevExceptionFilter, g_szLogFileName,
             g_hReportFile, g_bOwnReportFile, cBeenHere>>
system == <<topFilter, errorMode, session, appSession, symOptions, content, pos, opened>>
vars == <<globals, init, pc, crash, fuOldErrorMode, system, process, crashes, abandoned>>

Call == Thread \X (1..Depth)
Filter == {"null", "app", "exchndl"}
Parts == {"banner", "exception", "stack", "modules"}
Sink == File \cup {"stderr"}

\* Where a call is; from "mode" to "leave" it counts in cBeenHere.
Reporting == {"mode", "banner", "symbols", "exception", "stack", "cleanup", "modules", "restore"}
Location == Reporting \cup {"idle", "enter", "leave", "chain"}

Counted == {c \in Call : pc[c] \in Reporting \cup {"leave"}}
Reporters == {c \in Call : pc[c] \in Reporting}

-----------------------------------------------------------------------------
(* Loading, installing and removing.                                       *)

\* SetupHandler under the loader's lock, or nothing for a library the program
\* is linked with (lpvReserved is not null).  The globals start afresh.
Attach(dynamic) ==
  /\ process = "running" /\ ~attached
  /\ attached' = TRUE
  /\ g_bHandlerSet' = dynamic
  /\ g_prevExceptionFilter' = IF dynamic THEN topFilter ELSE "null"
  /\ topFilter' = IF dynamic THEN "exchndl" ELSE topFilter
  /\ g_szLogFileName' \in File
  /\ g_hReportFile' = "null" /\ g_bOwnReportFile' = FALSE /\ cBeenHere' = 0
  /\ UNCHANGED <<init, pc, crash, fuOldErrorMode, errorMode, session, appSession, symOptions,
                 content, pos, opened, process, crashes, abandoned>>

Cleanup_Slip == opened' = opened
\* Closes the report file if the library has opened it.
Cleanup == opened' = IF g_bOwnReportFile THEN opened \ {g_hReportFile} ELSE opened

CleanupHandler == topFilter' = IF g_bHandlerSet THEN g_prevExceptionFilter ELSE topFilter

Detach ==
  /\ process = "running" /\ attached
  /\ \A t \in Thread : init[t] = "idle"
  /\ \A c \in Call : pc[c] = "idle"
  /\ attached' = FALSE
  /\ CleanupHandler
  /\ Cleanup
  /\ g_bHandlerSet' = FALSE /\ g_prevExceptionFilter' = "null" /\ g_hReportFile' = "null"
  /\ UNCHANGED <<g_szLogFileName, g_bOwnReportFile, cBeenHere, init, pc, crash, fuOldErrorMode,
                 errorMode, session, appSession, symOptions, content, pos, process, crashes,
                 abandoned>>

Free(t) == \A n \in 1..Depth : pc[<<t, n>>] = "idle"

\* SetupHandler in ExcHndlInit: the test, the exchange of the filters, the flag.
InitTest_Slip(t) ==
  /\ process = "running" /\ attached /\ t \in InitThreads /\ Free(t)
  /\ init[t] = "idle"
  /\ init' = [init EXCEPT ![t] = "install"]
  /\ UNCHANGED <<globals, pc, crash, fuOldErrorMode, system, process, crashes, abandoned>>

InitTest(t) ==
  /\ process = "running" /\ attached /\ t \in InitThreads /\ Free(t)
  /\ init[t] = "idle" /\ ~g_bHandlerSet
  /\ init' = [init EXCEPT ![t] = "install"]
  /\ UNCHANGED <<globals, pc, crash, fuOldErrorMode, system, process, crashes, abandoned>>

InitInstall(t) ==
  /\ process = "running" /\ init[t] = "install"
  /\ init' = [init EXCEPT ![t] = "flag"]
  /\ g_prevExceptionFilter' = topFilter /\ topFilter' = "exchndl"
  /\ UNCHANGED <<attached, g_bHandlerSet, g_szLogFileName, g_hReportFile, g_bOwnReportFile,
                 cBeenHere, pc, crash, fuOldErrorMode, errorMode, session, appSession, symOptions,
                 content, pos, opened, process, crashes, abandoned>>

InitFlag(t) ==
  /\ process = "running" /\ init[t] = "flag"
  /\ init' = [init EXCEPT ![t] = "idle"]
  /\ g_bHandlerSet' = TRUE
  /\ UNCHANGED <<attached, g_prevExceptionFilter, g_szLogFileName, g_hReportFile,
                 g_bOwnReportFile, cBeenHere, pc, crash, fuOldErrorMode, system, process,
                 crashes, abandoned>>

ExcHndlSetLogFileName(name) ==
  /\ process = "running" /\ attached
  /\ g_szLogFileName' = name
  /\ UNCHANGED <<attached, g_bHandlerSet, g_prevExceptionFilter, g_hReportFile,
                 g_bOwnReportFile, cBeenHere, init, pc, crash, fuOldErrorMode, system, process,
                 crashes, abandoned>>

-----------------------------------------------------------------------------
(* TopLevelExceptionFilter.                                                *)

\* The innermost call of its thread, which is the one executing.
Executing(c) ==
  /\ process = "running"
  /\ pc[c] # "idle"
  /\ \A n \in 1..Depth : n > c[2] => pc[<<c[1], n>>] = "idle"

At(c, location) == Executing(c) /\ pc[c] = location
Goto(c, location) == pc' = [pc EXCEPT ![c] = location]

\* InterlockedIncrement: only the call that finds no other makes a report.
Enter_Slip1(c) ==
  /\ At(c, "enter")
  /\ cBeenHere' = cBeenHere + 1
  /\ Goto(c, IF cBeenHere <= 1 THEN "mode" ELSE "leave")
  /\ UNCHANGED <<attached, g_bHandlerSet, g_prevExceptionFilter, g_szLogFileName, g_hReportFile,
                 g_bOwnReportFile, init, crash, fuOldErrorMode, system, process, crashes,
                 abandoned>>

Enter_Slip2(c) ==
  /\ At(c, "enter")
  /\ cBeenHere' = 1
  /\ Goto(c, IF cBeenHere = 0 THEN "mode" ELSE "leave")
  /\ UNCHANGED <<attached, g_bHandlerSet, g_prevExceptionFilter, g_szLogFileName, g_hReportFile,
                 g_bOwnReportFile, init, crash, fuOldErrorMode, system, process, crashes,
                 abandoned>>

Enter(c) ==
  /\ At(c, "enter")
  /\ cBeenHere' = cBeenHere + 1
  /\ Goto(c, IF cBeenHere = 0 THEN "mode" ELSE "leave")
  /\ UNCHANGED <<attached, g_bHandlerSet, g_prevExceptionFilter, g_szLogFileName, g_hReportFile,
                 g_bOwnReportFile, init, crash, fuOldErrorMode, system, process, crashes,
                 abandoned>>

\* The report file is opened for the first report and kept.  A CreateFileW
\* that fails returns a value that is not null.
ReportFile ==
  IF g_szLogFileName = "-" THEN StdErr
  ELSE IF g_szLogFileName = "empty" THEN "null"
  ELSE IF g_szLogFileName \in Writable THEN g_szLogFileName
  ELSE "INVALID_HANDLE_VALUE"

SetErrorModeAndOpen(c) ==
  LET opens == g_hReportFile = "null" /\ g_szLogFileName # "empty"
      h == IF g_hReportFile = "null" THEN ReportFile ELSE g_hReportFile
  IN  /\ At(c, "mode")
      /\ fuOldErrorMode' = [fuOldErrorMode EXCEPT ![c] = errorMode]
      /\ errorMode' = "quiet"
      /\ g_hReportFile' = h
      /\ g_bOwnReportFile' = IF opens THEN g_szLogFileName # "-" ELSE g_bOwnReportFile
      /\ opened' = IF opens THEN opened \cup ({h} \cap File) ELSE opened
      /\ pos' = IF opens THEN 0 ELSE pos
      /\ Goto(c, IF h = "null" THEN "restore" ELSE "banner")
      /\ UNCHANGED <<attached, g_bHandlerSet, g_prevExceptionFilter, g_szLogFileName, cBeenHere,
                     init, crash, topFilter, session, appSession, symOptions, content, process,
                     crashes, abandoned>>

\* WriteFile at position at: what is there is overwritten.
Written(c, part, at) ==
  IF g_hReportFile \notin Sink THEN content
  ELSE LET old == content[g_hReportFile]
           e == [crash |-> crash[c], part |-> part]
       IN  [content EXCEPT ![g_hReportFile] =
              IF at < Len(old) THEN [old EXCEPT ![at + 1] = e] ELSE Append(old, e)]

WritePart(c, part, at, next) ==
  /\ content' = Written(c, part, at)
  /\ pos' = at + 1
  /\ Goto(c, next)
  /\ UNCHANGED <<globals, init, crash, fuOldErrorMode, topFilter, errorMode, session, appSession,
                 symOptions, opened, process, crashes, abandoned>>

\* SetFilePointer(FILE_END).
EndOfFile_Slip == pos
EndOfFile == IF g_hReportFile \in Sink THEN Len(content[g_hReportFile]) ELSE pos

\* GenerateExceptionReport, part by part; without symbols there is neither a
\* description of the exception nor a stack.
Banner(c) == At(c, "banner") /\ WritePart(c, "banner", EndOfFile, "symbols")

InitializeSym_Slip(c) ==
  /\ At(c, "symbols") /\ ~session
  /\ session' = TRUE /\ symOptions' = "exchndl"
  /\ Goto(c, "exception")
  /\ UNCHANGED <<globals, init, crash, fuOldErrorMode, topFilter, errorMode, appSession, content,
                 pos, opened, process, crashes, abandoned>>

\* SetSymOptions, which nothing undoes, and InitializeSym, which fails if there
\* is a session.
InitializeSym(c) ==
  /\ At(c, "symbols")
  /\ session' = TRUE /\ symOptions' = "exchndl"
  /\ Goto(c, IF session THEN "modules" ELSE "exception")
  /\ UNCHANGED <<globals, init, crash, fuOldErrorMode, topFilter, errorMode, appSession, content,
                 pos, opened, process, crashes, abandoned>>

dumpException(c) == At(c, "exception") /\ WritePart(c, "exception", pos, "stack")
dumpStack(c) == At(c, "stack") /\ WritePart(c, "stack", pos, "cleanup")

SymCleanup_Slip(c) ==
  /\ At(c, "cleanup")
  /\ Goto(c, "modules")
  /\ UNCHANGED <<globals, init, crash, fuOldErrorMode, system, process, crashes, abandoned>>

SymCleanup(c) ==
  /\ At(c, "cleanup")
  /\ session' = FALSE
  /\ Goto(c, "modules")
  /\ UNCHANGED <<globals, init, crash, fuOldErrorMode, topFilter, errorMode, appSession, symOptions,
                 content, pos, opened, process, crashes, abandoned>>

dumpModules(c) == At(c, "modules") /\ WritePart(c, "modules", pos, "restore")

RestoreErrorMode(c) ==
  /\ At(c, "restore")
  /\ errorMode' = fuOldErrorMode[c]
  /\ Goto(c, "leave")
  /\ UNCHANGED <<globals, init, crash, fuOldErrorMode, topFilter, session, appSession, symOptions,
                 content, pos, opened, process, crashes, abandoned>>

Leave_Slip(c) ==
  /\ At(c, "leave")
  /\ Goto(c, "chain")
  /\ UNCHANGED <<globals, init, crash, fuOldErrorMode, system, process, crashes, abandoned>>

\* InterlockedDecrement, whether the call has made a report or not.
Leave(c) ==
  /\ At(c, "leave")
  /\ cBeenHere' = cBeenHere - 1
  /\ Goto(c, "chain")
  /\ UNCHANGED <<attached, g_bHandlerSet, g_prevExceptionFilter, g_szLogFileName, g_hReportFile,
                 g_bOwnReportFile, init, crash, fuOldErrorMode, system, process, crashes,
                 abandoned>>

-----------------------------------------------------------------------------
(* What happens to the faulting thread.                                    *)

Terminate ==
  /\ process' = "terminated"
  /\ UNCHANGED <<globals, init, pc, crash, fuOldErrorMode, system, crashes, abandoned>>

\* The program unwinds the stack of t to a place of its own, through all
\* the calls of the filter that t is in.
Unwind(t) ==
  /\ pc' = [c \in Call |-> IF c[1] = t THEN "idle" ELSE pc[c]]
  /\ abandoned' = (abandoned \/ \E c \in Counted : c[1] = t)
  /\ UNCHANGED <<globals, init, crash, fuOldErrorMode, system, process, crashes>>

\* The filter returns EXCEPTION_CONTINUE_EXECUTION.
Resume(c) ==
  /\ Goto(c, "idle")
  /\ UNCHANGED <<globals, init, crash, fuOldErrorMode, system, process, crashes, abandoned>>

\* Without a previous filter Windows ends the process; the program's own may
\* end it, unwind, or let the thread go on.
CallPrevious(c) ==
  /\ At(c, "chain")
  /\ \/ g_prevExceptionFilter = "null" /\ Terminate
     \/ g_prevExceptionFilter = "app" /\ (Terminate \/ Unwind(c[1]) \/ Resume(c))
     \/ /\ g_prevExceptionFilter = "exchndl"
        /\ Goto(c, "enter")
        /\ UNCHANGED <<globals, init, crash, fuOldErrorMode, system, process, crashes, abandoned>>

\* A fault nobody handles: in the program's own code, or in the middle of a
\* report.
Fault(t) ==
  /\ process = "running" /\ init[t] = "idle"
  /\ crashes < MaxCrashes
  /\ \E n \in 1..Depth :
       /\ \A m \in 1..Depth :
            IF m >= n THEN pc[<<t, m>>] = "idle" ELSE pc[<<t, m>>] \in Reporting
       /\ IF topFilter = "exchndl"
          THEN /\ crashes' = crashes + 1
               /\ Goto(<<t, n>>, "enter")
               /\ crash' = [crash EXCEPT ![<<t, n>>] = crashes + 1]
               /\ UNCHANGED <<globals, init, fuOldErrorMode, system, process, abandoned>>
          ELSE Terminate \/ (topFilter = "app" /\ Unwind(t))

\* The program installs its own filter, whatever there was before.
AppFilter ==
  /\ process = "running"
  /\ topFilter' = "app"
  /\ UNCHANGED <<globals, init, pc, crash, fuOldErrorMode, errorMode, session, appSession,
                 symOptions, content, pos, opened, process, crashes, abandoned>>

FilterStep(c) ==
  \/ Enter(c) \/ SetErrorModeAndOpen(c) \/ Banner(c) \/ InitializeSym(c) \/ dumpException(c)
  \/ dumpStack(c) \/ SymCleanup(c) \/ dumpModules(c) \/ RestoreErrorMode(c) \/ Leave(c)
  \/ CallPrevious(c)

Ended == process = "terminated" /\ UNCHANGED vars

ExcHndlInit ==
  /\ attached = FALSE /\ g_bHandlerSet = FALSE /\ g_prevExceptionFilter = "null"
  /\ g_szLogFileName = "empty" /\ g_hReportFile = "null" /\ g_bOwnReportFile = FALSE
  /\ cBeenHere = 0
  /\ init = [t \in Thread |-> "idle"]
  /\ pc = [c \in Call |-> "idle"]
  /\ crash = [c \in Call |-> 0]
  /\ fuOldErrorMode = [c \in Call |-> "app"]
  /\ topFilter \in {"null", "app"} /\ errorMode = "app"
  /\ appSession \in BOOLEAN /\ session = appSession /\ symOptions = "app"
  /\ content = [f \in Sink |-> <<[crash |-> 0, part |-> "modules"]>>]
  /\ pos = 0 /\ opened = {}
  /\ process = "running" /\ crashes = 0 /\ abandoned = FALSE

ExcHndlNext ==
  \/ \E dynamic \in BOOLEAN : Attach(dynamic)
  \/ Detach
  \/ \E t \in Thread : InitTest(t) \/ InitInstall(t) \/ InitFlag(t)
  \/ \E name \in File \cup {"-", "empty"} : ExcHndlSetLogFileName(name)
  \/ \E t \in Thread : Fault(t)
  \/ AppFilter
  \/ \E c \in Call : FilterStep(c)
  \/ Ended

ExcHndlSpec ==
  /\ ExcHndlInit /\ [][ExcHndlNext]_vars
  /\ \A c \in Call : WF_vars(FilterStep(c))

-----------------------------------------------------------------------------
(* What the library promises.                                              *)

\* Every variable has the type of the code's or the system's state.
ExcHndlTypeOK ==
  /\ {attached, g_bHandlerSet, g_bOwnReportFile, session, appSession, abandoned} \subseteq BOOLEAN
  /\ {g_prevExceptionFilter, topFilter} \subseteq Filter
  /\ g_szLogFileName \in File \cup {"-", "empty"}
  /\ g_hReportFile \in File \cup {"null", "INVALID_HANDLE_VALUE", "stderr"}
  /\ cBeenHere \in Nat
  /\ init \in [Thread -> {"idle", "install", "flag"}]
  /\ pc \in [Call -> Location]
  /\ crash \in [Call -> Nat]
  /\ fuOldErrorMode \in [Call -> {"app", "quiet"}] /\ errorMode \in {"app", "quiet"}
  /\ content \in [Sink -> Seq([crash : Nat, part : Parts])]
  /\ pos \in Nat /\ crashes \in Nat
  /\ opened \subseteq File
  /\ symOptions \in {"app", "exchndl"}
  /\ process \in {"running", "terminated"}

\* However many threads fault, and fault again while reporting, at most one
\* call is making a report (the InterlockedIncrement in
\* TopLevelExceptionFilter).
OneReporter == \A c, d \in Reporters : c = d

\* A part of a report about the fault of call c is in the report file.
Reported(c, part) ==
  \E i \in DOMAIN content[g_hReportFile] :
    content[g_hReportFile][i] = [crash |-> crash[c], part |-> part]

\* Every fault that reaches the filter is reported, in whatever thread: a call
\* makes no report only while another one is in the filter, or after the program
\* has unwound its stack through one; and it leaves with its report in the report
\* file, if there is one that can be written to.  The report does without the
\* exception and the stack only if the program has a DbgHelp session of its own
\* or has left one behind by unwinding.  (README.md says that only faults of the
\* thread that called ExcHndlInit are caught; the code tells no threads apart.)
FaultsReported ==
  [][\A c \in Call :
       /\ pc[c] = "enter" /\ pc'[c] = "leave" => Counted # {} \/ abandoned
       /\ pc[c] = "restore" /\ pc'[c] = "leave" /\ g_hReportFile \in Sink =>
            \A part \in Parts :
              \/ part \in {"exception", "stack"} /\ (appSession \/ abandoned)
              \/ Reported(c, part)]_vars

\* The report being made, seen from outside: which fault it is about and the
\* part it will write next.
Reporter == CHOOSE c \in Reporters : TRUE
About == IF Reporters = {} THEN 0 ELSE crash[Reporter]
DueAt(location) ==
  CASE location \in {"mode", "banner"} -> "banner"
    [] location \in {"symbols", "exception"} -> "exception"
    [] location = "stack" -> "stack"
    [] location \in {"cleanup", "modules"} -> "modules"
    [] OTHER -> "done"
Due == IF Reporters = {} THEN "done" ELSE DueAt(pc[Reporter])
Place == File \cup {"null", "INVALID_HANDLE_VALUE", "stderr"}

Log == INSTANCE ReportLog
         WITH File <- Sink, log <- content, busy <- Reporters # {}, about <- About,
              due <- Due, place <- g_hReportFile

\* Reports are made one at a time, each about one fault and whole in one file
\* unless the program abandons it (the InterlockedIncrement at the head of
\* TopLevelExceptionFilter), and appended to what the file held
\* (SetFilePointer to FILE_END): the handler implements ReportLog.
ImplementsReportLog == Log!Spec

\* What a file held, from this or an earlier life of the library, is never
\* overwritten (SetFilePointer to FILE_END, OPEN_ALWAYS).
ReportsKept ==
  [][\A f \in Sink : SubSeq(content'[f], 1, Len(content[f])) = content[f]]_vars

\* The error mode of the process and its DbgHelp session, both of which the
\* report borrows, are given back (DbgHelp's options are not: symOptions); a
\* session of the program's own is never closed.  The report file is open as
\* long as the library holds its handle, and closed when the library is freed.
BorrowedReturned ==
  /\ appSession => session
  /\ Reporters = {} /\ ~abandoned => errorMode = "app" /\ session = appSession
  /\ opened = {g_hReportFile} \cap File

\* The filter saved in SetupHandler is another one, as the code asserts, and
\* Windows never holds the filter of a library that has been freed.
FilterSane ==
  /\ g_prevExceptionFilter # "exchndl"
  /\ topFilter = "exchndl" => attached

\* Whoever faults, the filter hands on to the previous one, and returns or
\* sees the process end.
FilterReturns ==
  \A c \in Call : pc[c] # "idle" ~> (pc[c] = "idle" \/ process = "terminated")
=============================================================================
