------------------------------- MODULE Debugger -------------------------------
(***************************************************************************)
(* The debugger both drmingw and catchsegv are built on:                   *)
(* src/common/debugger.cpp.  DebugMainLoop takes one event at a time,      *)
(* keeps the table g_Processes up to date and reports what looks like a    *)
(* crash.  A handler, from the return of WaitForDebugEvent to the call of  *)
(* ContinueDebugEvent, is one action: the process it is about is frozen    *)
(* all along and no other thread touches the table here.                   *)
(*                                                                         *)
(* The absence of a key of a std::map is a record whose field listed is    *)
(* FALSE (or a thread entry that is "absent"); operator[] makes it present *)
(* with all other fields zero.                                             *)
(*                                                                         *)
(* Definitions named ..._Slip are forms of the one that follows them with  *)
(* a slip of the hand in it; nothing uses them, but replacing the          *)
(* definition by one of them breaks a property.                            *)
(***************************************************************************)
EXTENDS DebugPort

CONSTANTS
  Options,      \* the option records the tool may have been started with
  Scenes,       \* how the debugging starts: subset of {"launch", "attach", "jit"}
  FreedReads,   \* what a read of a freed map node may give: subset of {"intact", "clobbered"}
  EnvFaults     \* whether WaitForDebugEvent and SymInitialize may fail by themselves

VARIABLES
  debugOptions,   \* the options; they do not change once the loop runs
  g_Processes,    \* the table of processes and their threads
  fTerminating,   \* local of DebugMainLoop
  loop,           \* whether DebugMainLoop runs, has returned, or exit was called
  sessions,       \* the handles DbgHelp has a symbol session for
  loaded,         \* loaded[h]: the libraries loaded into the session of h
  leftOpen,       \* the handles whose session SymCleanup was not called for (history)
  signals,        \* how often SetEvent(hEvent) was called
  log             \* what has been reported of each process (history)

dbgVars == <<debugOptions, g_Processes, fTerminating, loop, sessions, loaded, leftOpen,
             signals, log>>
vars == <<portVars, dbgVars>>

OptionSpace == [breakpoint_flag : BOOLEAN, first_chance : BOOLEAN, minidump : BOOLEAN,
                hEvent : BOOLEAN, dwThreadId : Tid \cup {NoThread},
                no_debug_string : BOOLEAN, wine : BOOLEAN]

ASSUME DebuggerAssumption ==
  /\ Options \subseteq OptionSpace
  /\ Scenes \subseteq {"launch", "attach", "jit"}
  /\ FreedReads \subseteq {"intact", "clobbered"} /\ FreedReads # {}
  /\ EnvFaults \in BOOLEAN
  /\ Scenes # {"launch"} => Pid = {Root}    \* attaching does not follow children

-----------------------------------------------------------------------------
(* The table.                                                              *)

\* A THREAD_INFO: no entry, an entry whose handle is NULL, or the handle the
\* system opened for the thread.
THREAD_INFO == {"absent", "NULL", "handle"}

PROCESS_INFO == [listed : BOOLEAN, hProcess : Handle \cup {NoHandle},
                 Threads : [Tid -> THREAD_INFO], fBreakpointSignalled : BOOLEAN,
                 fWowBreakpointSignalled : BOOLEAN, fDumpWritten : BOOLEAN]

NoProcessInfo == [listed |-> FALSE, hProcess |-> NoHandle,
                  Threads |-> [t \in Tid |-> "absent"], fBreakpointSignalled |-> FALSE,
                  fWowBreakpointSignalled |-> FALSE, fDumpWritten |-> FALSE]

Find_Slip(p) == g_Processes[p]

\* &g_Processes[p]
Find(p) == [g_Processes[p] EXCEPT !.listed = TRUE]

\* Threads[t], with a NULL handle if there was no entry.
FindThread(threads, t) ==
  [threads EXCEPT ![t] = IF @ = "absent" THEN "NULL" ELSE @]

isAbnormalExitCode_Slip(c) == c > 255
isAbnormalExitCode(c) == c > 255 \/ c = 3

\* What has become of a process since it was announced: the threads whose
\* stacks were dumped, the minidump files written, the threads that had a
\* second-chance exception, and the first-chance breakpoints ignored.
Log == [stacks : SUBSET Tid, dumps : 0..2, crashed : SUBSET Tid, ignored : 0..2]
NothingReported == [stacks |-> {}, dumps |-> 0, crashed |-> {}, ignored |-> 0]

\* dumpStack of the threads ts.
WithStacks(l, ts) == [l EXCEPT !.stacks = @ \cup ts]

\* writeDump, called at least once for a process with the table entry info:
\* only the first call of an incarnation writes a file.
WithDump(l, info) == IF info.fDumpWritten \/ l.dumps = 2 THEN l ELSE [l EXCEPT !.dumps = @ + 1]
writeDump_Slip(info) == info
writeDump(info) == [info EXCEPT !.fDumpWritten = TRUE]

-----------------------------------------------------------------------------
(* The handlers.  Each ends with ContinueDebugEvent.                       *)

Handling(kind) ==
  /\ loop = "running"
  /\ current # NoThread
  /\ pend[current].kind = kind

\* CREATE_PROCESS_DEBUG_EVENT.  When SymInitialize fails the tool exits, and
\* with it every process it debugs.
OnCreateProcess ==
  LET p == Owner[current]
      h == hproc[p]
      info == [Find(p) EXCEPT !.hProcess = h, !.fDumpWritten = ~debugOptions.minidump,
                              !.Threads[current] = "handle"]
  IN  /\ Handling("CREATE_PROCESS")
      /\ g_Processes' = [g_Processes EXCEPT ![p] = info]
      /\ log' = [log EXCEPT ![p] = NothingReported]
      /\ \E ok \in BOOLEAN :
           /\ ok => h \notin sessions
           /\ ~ok => h \in sessions \/ EnvFaults
           /\ loop' = IF ok THEN loop ELSE "exited"
           /\ sessions' = IF ok THEN sessions \cup {h} ELSE sessions
           /\ loaded' = IF ok THEN [loaded EXCEPT ![h] = {}] ELSE loaded
      /\ ContinueDebugEvent("DBG_CONTINUE", proc, thr)
      /\ UNCHANGED <<debugOptions, fTerminating, leftOpen, signals>>

OnCreateThread_Slip ==
  Handling("CREATE_THREAD") /\ ContinueDebugEvent("DBG_CONTINUE", proc, thr) /\ UNCHANGED dbgVars

\* CREATE_THREAD_DEBUG_EVENT
OnCreateThread ==
  LET p == Owner[current]
  IN  /\ Handling("CREATE_THREAD")
      /\ g_Processes' = [g_Processes EXCEPT ![p] = [Find(p) EXCEPT !.Threads[current] = "handle"]]
      /\ ContinueDebugEvent("DBG_CONTINUE", proc, thr)
      /\ UNCHANGED <<debugOptions, fTerminating, loop, sessions, loaded, leftOpen, signals, log>>

\* getThreadContext succeeds for a thread the table has an open handle of.
Readable(info, t) == info.Threads[t] = "handle" /\ thr[t] # "none"

\* EXIT_THREAD_DEBUG_EVENT: "Dump the stack on abort()", then forget the thread.
OnExitThread ==
  LET p == Owner[current]
      info == Find(p)
      abort == ~fTerminating /\ isAbnormalExitCode(pend[current].code)
  IN  /\ Handling("EXIT_THREAD")
      /\ log' = IF abort /\ Readable(info, current)
                THEN [log EXCEPT ![p] = WithStacks(@, {current})] ELSE log
      /\ g_Processes' = [g_Processes EXCEPT ![p] = [info EXCEPT !.Threads[current] = "absent"]]
      /\ ContinueDebugEvent("DBG_CONTINUE", proc, thr)
      /\ UNCHANGED <<debugOptions, fTerminating, loop, sessions, loaded, leftOpen, signals>>

CloseSession_Slip(h) == UNCHANGED <<sessions, loaded, leftOpen>>

\* SymCleanup of the session of h.
CloseSession(h) ==
  /\ sessions' = sessions \ {h}
  /\ loaded' = [loaded EXCEPT ![h] = {}]
  /\ UNCHANGED leftOpen

\* SymCleanup of a handle that no session has.
MissSession(h) == leftOpen' = leftOpen \cup {h} /\ UNCHANGED <<sessions, loaded>>

Emptied_Slip1(table) == ~table[Root].listed
Emptied_Slip2(table) == \A q \in Pid : ~g_Processes[q].listed

\* g_Processes.empty()
Emptied(table) == \A q \in Pid : ~table[q].listed

\* EXIT_PROCESS_DEBUG_EVENT.  The entry is erased and then read once more for
\* SymCleanup, which may give the handle or whatever the memory holds by then.
OnExitProcess ==
  LET p == Owner[current]
      info == Find(p)
      abort == ~fTerminating /\ isAbnormalExitCode(pend[current].code)
      dumped == [WithDump(log[p], info) EXCEPT
                   !.stacks = IF Readable(info, current) THEN @ \cup {current} ELSE @]
      table == [g_Processes EXCEPT ![p] = NoProcessInfo]
  IN  /\ Handling("EXIT_PROCESS")
      /\ log' = IF abort THEN [log EXCEPT ![p] = dumped] ELSE log
      /\ g_Processes' = table
      /\ \E read \in FreedReads :
           IF read = "intact" THEN CloseSession(info.hProcess) ELSE MissSession(info.hProcess)
      /\ loop' = IF Emptied(table) THEN "finished" ELSE loop
      /\ ContinueDebugEvent("DBG_CONTINUE", proc, thr)
      /\ UNCHANGED <<debugOptions, fTerminating, signals>>

\* LOAD_DLL_DEBUG_EVENT
OnLoadDll ==
  LET info == Find(Owner[current])
  IN  /\ Handling("LOAD_DLL")
      /\ g_Processes' = [g_Processes EXCEPT ![Owner[current]] = info]
      /\ loaded' = IF info.hProcess \in sessions
                   THEN [loaded EXCEPT ![info.hProcess] = @ \cup {pend[current].arg}] ELSE loaded
      /\ ContinueDebugEvent("DBG_CONTINUE", proc, thr)
      /\ UNCHANGED <<debugOptions, fTerminating, loop, sessions, leftOpen, signals, log>>

OnUnloadDll_Slip ==
  Handling("UNLOAD_DLL") /\ ContinueDebugEvent("DBG_CONTINUE", proc, thr) /\ UNCHANGED dbgVars

\* UNLOAD_DLL_DEBUG_EVENT
OnUnloadDll ==
  LET info == Find(Owner[current])
  IN  /\ Handling("UNLOAD_DLL")
      /\ g_Processes' = [g_Processes EXCEPT ![Owner[current]] = info]
      /\ loaded' = IF info.hProcess \in sessions
                   THEN [loaded EXCEPT ![info.hProcess] = @ \ {pend[current].arg}] ELSE loaded
      /\ ContinueDebugEvent("DBG_CONTINUE", proc, thr)
      /\ UNCHANGED <<debugOptions, fTerminating, loop, sessions, leftOpen, signals, log>>

OnOutputDebugString_Slip ==
  /\ Handling("OUTPUT_DEBUG_STRING")
  /\ IF debugOptions.no_debug_string
     THEN current' = NoThread /\ UNCHANGED <<proc, thr, pend, declined, hproc, mapped>>
     ELSE ContinueDebugEvent("DBG_CONTINUE", proc, thr)
  /\ UNCHANGED dbgVars

\* OUTPUT_DEBUG_STRING_EVENT
OnOutputDebugString ==
  LET p == Owner[current]
  IN  /\ Handling("OUTPUT_DEBUG_STRING")
      /\ g_Processes' = IF debugOptions.no_debug_string THEN g_Processes
                        ELSE [g_Processes EXCEPT ![p] = Find(p)]
      /\ ContinueDebugEvent("DBG_CONTINUE", proc, thr)
      /\ UNCHANGED <<debugOptions, fTerminating, loop, sessions, loaded, leftOpen, signals, log>>

\* RIP_EVENT, and events of a kind the debugger does not know.
OnOtherEvent ==
  /\ Handling("RIP")
  /\ ContinueDebugEvent("DBG_CONTINUE", proc, thr)
  /\ UNCHANGED dbgVars

-----------------------------------------------------------------------------
(* EXCEPTION_DEBUG_EVENT.                                                  *)

InitialBreakpoint_Slip(info, e) == e.first /\ e.arg = "BREAKPOINT"

\* The breakpoint of the loader, or of the thread injected on attaching.
InitialBreakpoint(info, e) ==
  e.first /\ e.arg = "BREAKPOINT" /\ ~info.fBreakpointSignalled

\* The table entry once the flags have been set and the thread to resume looked up.
Noted(info, e) ==
  LET initial == InitialBreakpoint(info, e)
      entry == [info EXCEPT !.fBreakpointSignalled = @ \/ initial,
                            !.fWowBreakpointSignalled = @ \/ (e.first /\ e.arg = "WX86_BREAKPOINT")]
  IN  IF initial /\ debugOptions.dwThreadId # NoThread
      THEN [entry EXCEPT !.Threads = FindThread(@, debugOptions.dwThreadId)] ELSE entry

\* First-chance exceptions that are none of the program's business.
Ignored(info, e) ==
  /\ e.first
  /\ \/ InitialBreakpoint(info, e) /\ ~debugOptions.breakpoint_flag
     \/ e.arg = "WX86_BREAKPOINT" /\ ~info.fWowBreakpointSignalled
     \/ e.arg = "THREAD_NAME"

\* First-chance exceptions left to the program without a word.
Declined(info, e) ==
  /\ e.first
  /\ ~Ignored(info, e)
  /\ e.arg # "CONTROL_C"
  /\ ~(e.arg = "STACK_OVERFLOW" /\ debugOptions.wine)
  /\ ~debugOptions.first_chance

ResumedThreads_Slip(info, e) ==
  IF /\ InitialBreakpoint(info, e) /\ ~debugOptions.breakpoint_flag
     /\ debugOptions.dwThreadId # NoThread
     /\ info.Threads[debugOptions.dwThreadId] = "handle"
  THEN Resumed(thr, debugOptions.dwThreadId) ELSE thr

\* ResumeThread of the thread the tool was told to resume.
ResumedThreads(info, e) ==
  IF /\ InitialBreakpoint(info, e)
     /\ debugOptions.dwThreadId # NoThread
     /\ info.Threads[debugOptions.dwThreadId] = "handle"
  THEN Resumed(thr, debugOptions.dwThreadId) ELSE thr

NoteException_Slip1(info, e) ==
  /\ signals' = IF e.first /\ e.arg = "BREAKPOINT" /\ debugOptions.hEvent THEN signals + 1 ELSE signals
  /\ UNCHANGED <<debugOptions, loop, sessions, loaded, leftOpen>>

NoteException_Slip2(info, e) ==
  /\ signals' = IF InitialBreakpoint(info, e) /\ debugOptions.hEvent /\ debugOptions.breakpoint_flag
                THEN signals + 1 ELSE signals
  /\ UNCHANGED <<debugOptions, loop, sessions, loaded, leftOpen>>

\* What is noted of every exception before anything is reported.
NoteException(info, e) ==
  /\ signals' = IF InitialBreakpoint(info, e) /\ debugOptions.hEvent /\ signals < 2
                THEN signals + 1 ELSE signals
  /\ UNCHANGED <<debugOptions, loop, sessions, loaded, leftOpen>>

OnIgnoredException ==
  LET p == Owner[current]
      e == pend[current]
      info == Find(p)
  IN  /\ Handling("EXCEPTION")
      /\ Ignored(info, e)
      /\ NoteException(info, e)
      /\ g_Processes' = [g_Processes EXCEPT ![p] = Noted(info, e)]
      /\ log' = IF e.arg = "BREAKPOINT" /\ log[p].ignored < 2
                THEN [log EXCEPT ![p].ignored = @ + 1] ELSE log
      /\ ContinueDebugEvent("DBG_CONTINUE", proc, ResumedThreads(info, e))
      /\ UNCHANGED fTerminating

OnDeclinedException ==
  LET p == Owner[current]
      e == pend[current]
      info == Find(p)
  IN  /\ Handling("EXCEPTION")
      /\ Declined(info, e)
      /\ NoteException(info, e)
      /\ g_Processes' = [g_Processes EXCEPT ![p] = Noted(info, e)]
      /\ ContinueDebugEvent("DBG_EXCEPTION_NOT_HANDLED", proc, ResumedThreads(info, e))
      /\ UNCHANGED <<fTerminating, log>>

\* The threads whose stacks are dumped: for breakpoints and console control
\* events all of the process's, or else the one that raised the exception.
StacksFor(info, e) ==
  {t \in Tid : /\ info.Threads[t] # "absent" /\ Readable(info, t)
               /\ e.arg \in {"BREAKPOINT", "WX86_BREAKPOINT", "CONTROL_C"} \/ t = current}

Kills_Slip(e) == ~e.first \/ e.arg = "OTHER"

\* After the report the process is terminated if the program had its chance.
Kills(e) == ~e.first

\* Everything else is reported.  At the second chance a minidump is written
\* with the stacks and the process is terminated.
OnReportedException ==
  LET p == Owner[current]
      e == pend[current]
      noted == Noted(Find(p), e)
      stacks == StacksFor(noted, e)
      dump == ~e.first /\ stacks # {}
      status == IF e.first /\ e.arg = "CONTROL_C" THEN "DBG_CONTINUE"
                ELSE "DBG_EXCEPTION_NOT_HANDLED"
      reported == WithStacks(IF dump THEN WithDump(log[p], noted) ELSE log[p], stacks)
  IN  /\ Handling("EXCEPTION")
      /\ ~Ignored(Find(p), e) /\ ~Declined(Find(p), e)
      /\ NoteException(Find(p), e)
      /\ g_Processes' = [g_Processes EXCEPT ![p] = IF dump THEN writeDump(noted) ELSE noted]
      /\ log' = [log EXCEPT ![p] = [reported EXCEPT !.crashed = IF e.first THEN @ ELSE @ \cup {current}]]
      /\ fTerminating' = (fTerminating \/ Kills(e))
      /\ ContinueDebugEvent(status, IF Kills(e) THEN Terminated(p, NTSTATUS) ELSE proc,
                            ResumedThreads(Find(p), e))

\* Any failure of WaitForDebugEvent ends the loop.
WaitFails ==
  /\ EnvFaults
  /\ loop = "running" /\ current = NoThread
  /\ loop' = "failed"
  /\ UNCHANGED <<portVars, debugOptions, g_Processes, fTerminating, sessions, loaded, leftOpen, signals, log>>

-----------------------------------------------------------------------------
(* How the debugging starts.                                               *)

\* Nothing but the threads of Root exists; pend and thr say which do.
PortInit ==
  /\ proc = [p \in Pid |-> IF p = Root THEN Running ELSE NotRunning]
  /\ declined = [t \in Tid |-> None]
  /\ hproc = [p \in Pid |-> NoHandle]
  /\ mapped = [p \in Pid |-> {}]
  /\ current = NoThread

\* CreateProcess(DEBUG_PROCESS), as catchsegv does.
Launched ==
  \E main \in ThreadsOf(Root) :
    /\ thr = [t \in Tid |-> IF t = main THEN "starting" ELSE "none"]
    /\ pend = [t \in Tid |-> IF t = main THEN Report("CREATE_PROCESS", None) ELSE NoEvent]

\* DebugActiveProcess, as drmingw does: the process, its threads and the
\* injected thread are announced.  The thread that is to be resumed is
\* suspended; in the scene "jit" another one has faulted and waits for hEvent.
Attached(faulted) ==
  \E main \in ThreadsOf(Root) : \E injected \in ThreadsOf(Root) \ {main} :
  \E others \in SUBSET (ThreadsOf(Root) \ {main, injected}) :
    /\ faulted \subseteq ({main} \cup others) \ {debugOptions.dwThreadId}
    /\ faulted # {} => debugOptions.hEvent
    /\ thr = [t \in Tid |-> IF t = injected THEN "starting"
                           ELSE IF t \notin {main} \cup others THEN "none"
                           ELSE IF t = debugOptions.dwThreadId THEN "suspended"
                           ELSE IF t \in faulted THEN "faulted" ELSE "live"]
    /\ pend = [t \in Tid |-> IF t = main THEN Report("CREATE_PROCESS", None)
                            ELSE IF t \in {injected} \cup others
                            THEN Report("CREATE_THREAD", None) ELSE NoEvent]

Init ==
  /\ debugOptions \in Options
  /\ g_Processes = [p \in Pid |-> NoProcessInfo]
  /\ fTerminating = FALSE
  /\ loop = "running"
  /\ sessions = {}
  /\ loaded = [h \in Handle |-> {}]
  /\ leftOpen = {}
  /\ signals = 0
  /\ log = [p \in Pid |-> NothingReported]
  /\ PortInit
  /\ \/ "launch" \in Scenes /\ Launched
     \/ "attach" \in Scenes /\ Attached({})
     \/ "jit" \in Scenes /\ \E t \in Tid : Attached({t})

\* The programs run as long as the tool does: they are killed with it.
ProgramStep(t) == loop = "running" /\ Program(t) /\ UNCHANGED dbgVars
KernelStep(t) == loop = "running" /\ Kernel(t, signals > 0) /\ UNCHANGED dbgVars
WaitStep(t) == loop = "running" /\ WaitForDebugEvent(t) /\ UNCHANGED dbgVars

HandleEvent ==
  \/ OnCreateProcess \/ OnCreateThread
  \/ OnExitThread \/ OnExitProcess
  \/ OnLoadDll \/ OnUnloadDll
  \/ OnOutputDebugString \/ OnOtherEvent
  \/ OnIgnoredException \/ OnDeclinedException \/ OnReportedException

\* DebugMainLoop has returned, or the tool has exited.
Stopped == loop # "running" /\ UNCHANGED vars

Next ==
  \/ \E t \in Tid : ProgramStep(t) \/ KernelStep(t) \/ WaitStep(t)
  \/ HandleEvent
  \/ WaitFails
  \/ Stopped

(* The kernel queues reports in the order they are made, so that no report *)
(* is passed over for ever; the loop does nothing but wait and handle; and *)
(* what the kernel has begun for a thread it completes.  The programs may  *)
(* stop where they like.                                                   *)
Fairness ==
  /\ \A t \in Tid : SF_vars(WaitStep(t)) /\ WF_vars(KernelStep(t))
  /\ WF_vars(HandleEvent)

Spec == Init /\ [][Next]_vars /\ Fairness

TypeOK ==
  /\ PortTypeOK
  /\ debugOptions \in Options
  /\ g_Processes \in [Pid -> PROCESS_INFO]
  /\ fTerminating \in BOOLEAN
  /\ loop \in {"running", "finished", "failed", "exited"}
  /\ sessions \subseteq Handle
  /\ loaded \in [Handle -> SUBSET Dll]
  /\ leftOpen \subseteq Handle \cup {NoHandle}
  /\ signals \in 0..2
  /\ log \in [Pid -> Log]

-----------------------------------------------------------------------------
(* Properties.                                                             *)

\* The announcement of a process is being handled, so its handle is new.
Announcing(p) ==
  current # NoThread /\ Owner[current] = p /\ pend[current].kind = "CREATE_PROCESS"

\* The processes the debugger has been told of and whose end it has not handled.
Followed == {p \in Pid : hproc[p] # NoHandle /\ ~Announcing(p)}

\* Between two handlers g_Processes is what the system says: its keys are the
\* processes followed, with the handles the system opened for them, and the
\* thread handles in it are those of the threads announced and not yet ended.
\* A handle of a thread that is gone would be used by the next dump, and a
\* missing one would leave a crash without a stack.
TableMatchesSystem ==
  \A p \in Pid :
    /\ g_Processes[p].listed <=> p \in Followed
    /\ p \in Followed => g_Processes[p].hProcess = hproc[p]
    /\ \A t \in Tid : g_Processes[p].Threads[t] = "handle" <=>
         /\ Owner[t] = p /\ thr[t] # "none"
         /\ pend[t].kind \notin {"CREATE_PROCESS", "CREATE_THREAD"}

\* Every second-chance exception got the stack of its thread dumped, and with
\* minidumps on its process has exactly one minidump file, however many of its
\* threads crash together and however many stacks each report shows.
CrashReported ==
  \A p \in Pid :
    /\ log[p].crashed \subseteq log[p].stacks
    /\ log[p].dumps <= (IF debugOptions.minidump THEN 1 ELSE 0)
    /\ log[p].crashed # {} /\ debugOptions.minidump => log[p].dumps = 1

\* A process that ends as abort does (3), or with an exception code, leaves a
\* stack behind, and a minidump when they are on: "Dump the stack on abort()"
\* (EXIT_PROCESS_DEBUG_EVENT).
AbortReported ==
  [][\A p \in Pid :
       /\ proc[p].state = "dying" /\ proc[p].code \in {3, NTSTATUS}
       /\ proc'[p].state = "none"
       => /\ log'[p].stacks # {}
          /\ debugOptions.minidump => log'[p].dumps = 1]_vars

\* DebugMainLoop returns TRUE only when every process it followed has gone.
FinishesLast == loop = "finished" => Followed = {}

\* No process the tool should follow is left when DebugMainLoop returns TRUE,
\* as "will follow all child processes" (README.md) promises.
FollowsAllChildren == loop = "finished" => \A p \in Pid : proc[p].state = "none"

\* While the loop runs every process followed has a symbol session of its own,
\* never the one of an earlier process with the same handle value, and it knows
\* the libraries the process has mapped (but for one whose report is pending).
\* There are no other sessions but those whose process has ended when the
\* erased entry no longer held its handle (EXIT_PROCESS_DEBUG_EVENT): these stay.
SessionsMatch ==
  loop = "running" =>
    /\ sessions = {hproc[p] : p \in Followed} \cup leftOpen
    /\ \A p \in Followed :
         LET inTransit == {pend[t].arg : t \in ThreadsOf(p)}
         IN  /\ hproc[p] \notin leftOpen
             /\ loaded[hproc[p]] \ inTransit = mapped[p] \ inTransit

\* The event given on the command line is signalled at most once, as its
\* handle is closed right after; by then the process has been announced, and
\* no later breakpoint is ignored as the initial one.
SignalledOnce ==
  /\ signals <= 1
  /\ signals > 0 => Followed # {} \/ loop # "running"
  /\ \A p \in Pid : log[p].ignored <= 1

\* The debugger terminates only a process that has left a second-chance
\* exception: what the program can handle itself it is allowed to.
TerminatesOnlyCrashed ==
  [][\A p \in Pid :
       proc[p].state = "alive" /\ proc'[p].state = "dying" /\ current # current'
       => log'[p].crashed # {} /\ declined[current] # None]_vars

\* Every report is continued, so no thread stays blocked in one.
ReportsContinued ==
  \A t \in Tid : Pending(t) ~> ~Pending(t) \/ loop # "running"

\* A thread waiting in its exception filter for the event drmingw was given
\* has its stack dumped, unless its process is ended by another thread first.
FaultDumped ==
  \A t \in Tid : thr[t] = "faulted" ~>
    t \in log[Root].stacks \/ proc[Root].state # "alive" \/ loop # "running"

\* The suspended thread the tool is to resume does get to run.
ThreadResumed ==
  \A t \in Tid : thr[t] = "suspended" ~>
    thr[t] # "suspended" \/ proc[Root].state # "alive" \/ loop # "running"
=============================================================================
