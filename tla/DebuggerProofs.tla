---------------------------- MODULE DebuggerProofs ----------------------------
(***************************************************************************)
(* Proofs about Debugger: the types, that g_Processes always agrees with   *)
(* the system, and what follows from it; then how processes end: what the  *)
(* port promises without regard to the table of the debugger, which        *)
(* CatchSegvProofs needs too, that the debugger terminates only what has   *)
(* crashed, that whatever aborts is reported, and what sessions of DbgHelp *)
(* there are meanwhile.                                                    *)
(***************************************************************************)
EXTENDS Debugger, TLAPS

-----------------------------------------------------------------------------
(* The inductive invariant.                                                *)

\* A thread that reports exists, and so does the process of every thread.
ReportersExist ==
  /\ \A t \in Tid : Pending(t) => thr[t] # "none"
  /\ \A t \in Tid : thr[t] # "none" => proc[Owner[t]].state # "none"
  /\ current # NoThread => Pending(current)

\* The debugger has a handle of the processes that exist and have been
\* announced, or are being announced.
HandlesOpen ==
  \A p \in Pid :
    /\ hproc[p] # NoHandle => proc[p].state # "none"
    /\ proc[p].state # "none" /\ hproc[p] = NoHandle
       => \E t \in ThreadsOf(p) : pend[t].kind = "CREATE_PROCESS"

\* While a process is waiting to be announced, so are all its threads, and
\* no report of theirs has been handed over.
AnnouncedFirst ==
  \A t \in Tid : pend[t].kind = "CREATE_PROCESS" =>
    /\ hproc[Owner[t]] # NoHandle <=> current = t
    /\ \A u \in ThreadsOf(Owner[t]) \ {t} :
         /\ u # current
         /\ thr[u] # "none" => pend[u].kind = "CREATE_THREAD"

\* The process being announced has a handle by now.
AnnouncedHandle ==
  current # NoThread /\ pend[current].kind = "CREATE_PROCESS" => hproc[Owner[current]] # NoHandle

\* The thread that reports the end of its process is the last one.
LastReportsExit ==
  \A t \in Tid : pend[t].kind = "EXIT_PROCESS" => Existing(Owner[t]) = {t}

PortInv == ReportersExist /\ HandlesOpen /\ AnnouncedFirst /\ LastReportsExit

\* The minidump files counted in the log are those fDumpWritten remembers.
DumpsRemembered ==
  \A p \in Followed :
    log[p].dumps = (IF g_Processes[p].fDumpWritten /\ debugOptions.minidump THEN 1 ELSE 0)
    /\ (debugOptions.minidump \/ g_Processes[p].fDumpWritten)

IInv == PortInv /\ TableMatchesSystem /\ FinishesLast /\ DumpsRemembered /\ CrashReported

-----------------------------------------------------------------------------
(* Types.                                                                  *)

USE DEF ProcState, ThreadState

\* The records the port deals in have the types declared for them.
LEMMA RecordTypes ==
  /\ NoEvent \in Event
  /\ NotRunning \in ProcState /\ Running \in ProcState
  /\ \A d \in Dll : Report("LOAD_DLL", d) \in Event /\ Report("UNLOAD_DLL", d) \in Event
  /\ \A e \in Exceptions, first \in BOOLEAN : Exception(e, first) \in Event
  /\ \A kind \in {"EXIT_THREAD", "EXIT_PROCESS"}, c \in ExitCode \cup {0, 3, NTSTATUS} :
       Exit(kind, c) \in Event
  /\ \A kind \in {"CREATE_PROCESS", "CREATE_THREAD", "OUTPUT_DEBUG_STRING", "RIP"} :
       Report(kind, None) \in Event
BY PortAssumption DEF NoEvent, NotRunning, Running, Report, Exception, Exit, Event, EventKind

\* TerminateProcess and the end of a process leave proc well typed.
LEMMA TerminatedType ==
  ASSUME NEW p \in Pid, NEW c \in ExitCode \cup {0, 3, NTSTATUS}, proc \in [Pid -> ProcState]
  PROVE  Terminated(p, c) \in [Pid -> ProcState]
BY DEF Terminated

\* ContinueDebugEvent keeps the port well typed, given well-typed states
\* of the processes and threads.
LEMMA ContinueType ==
  ASSUME PortTypeOK, current # NoThread,
         NEW status, NEW ps \in [Pid -> ProcState], NEW ts \in [Tid -> ThreadState],
         ContinueDebugEvent(status, ps, ts)
  PROVE  PortTypeOK'
<1> DEFINE p == Owner[current]
<1>1. current \in Tid /\ p \in Pid
  BY PortAssumption DEF PortTypeOK
<1>2. pend[current] \in Event /\ pend' \in [Tid -> Event]
  BY <1>1, RecordTypes DEF PortTypeOK, ContinueDebugEvent
<1>3. proc' \in [Pid -> ProcState]
  BY <1>1, RecordTypes DEF ContinueDebugEvent
<1>4. declined' \in [Tid -> Exceptions \cup {None}]
  <2>1. CASE pend[current].kind = "EXCEPTION" /\ status = "DBG_EXCEPTION_NOT_HANDLED" /\ pend[current].first
    BY <1>1, <1>2, <2>1 DEF PortTypeOK, ContinueDebugEvent, Event
  <2>2. CASE ~(pend[current].kind = "EXCEPTION" /\ status = "DBG_EXCEPTION_NOT_HANDLED" /\ pend[current].first)
    BY <1>1, <2>2 DEF PortTypeOK, ContinueDebugEvent
  <2> QED BY <2>1, <2>2
<1>5. thr' \in [Tid -> ThreadState] /\ hproc' \in [Pid -> Handle \cup {NoHandle}]
      /\ mapped' \in [Pid -> SUBSET Dll] /\ current' = NoThread
  BY <1>1 DEF PortTypeOK, ContinueDebugEvent
<1> QED
  BY <1>2, <1>3, <1>4, <1>5 DEF PortTypeOK

\* What a program does for one of its threads keeps the port well typed.
LEMMA ProgramType ==
  ASSUME PortTypeOK, NEW t \in Tid, Program(t)
  PROVE  PortTypeOK'
<1> USE PortAssumption, RecordTypes
<1>1. CASE \E u \in Tid : StartThread(t, u)
  BY <1>1 DEF StartThread, PortTypeOK
<1>2. CASE \E u \in Tid : Spawn(t, u)
  BY <1>2 DEF Spawn, PortTypeOK
<1>3. CASE \E e \in Raises : Raise(t, e)
  <2>1. PICK e \in Raises : Raise(t, e)
    BY <1>3
  <2>2. Exception(e, TRUE) \in Event
    OBVIOUS
  <2> QED
    BY <2>1, <2>2 DEF Raise, PortTypeOK
<1>4. CASE CatchException(t)
  BY <1>4 DEF CatchException, PortTypeOK
<1>5. CASE \E c \in ExitCode : ExitThread(t, c)
  <2>1. PICK c \in ExitCode : ExitThread(t, c)
    BY <1>5
  <2>2. Exit("EXIT_THREAD", c) \in Event
    OBVIOUS
  <2> QED
    BY <2>1, <2>2 DEF ExitThread, PortTypeOK
<1>6. CASE \E q \in Pid, c \in ExitCode : EndProcess(t, q, c)
  BY <1>6, TerminatedType DEF EndProcess, PortTypeOK
<1>7. CASE \E d \in Dll : LoadDll(t, d)
  BY <1>7 DEF LoadDll, PortTypeOK
<1>8. CASE \E d \in Dll : UnloadDll(t, d)
  BY <1>8 DEF UnloadDll, PortTypeOK
<1>9. CASE \E kind \in {"OUTPUT_DEBUG_STRING", "RIP"} : OtherReport(t, kind)
  BY <1>9 DEF OtherReport, PortTypeOK
<1> QED
  BY <1>1, <1>2, <1>3, <1>4, <1>5, <1>6, <1>7, <1>8, <1>9 DEF Program

\* The steps of the kernel keep the port's types.
LEMMA KernelType ==
  ASSUME PortTypeOK, NEW t \in Tid, NEW signalled, Kernel(t, signalled)
  PROVE  PortTypeOK'
<1> USE PortAssumption, RecordTypes
<1>1. CASE LoaderBreakpoint(t)
  <2>1. Exception("BREAKPOINT", TRUE) \in Event
    BY DEF Exceptions
  <2> QED
    BY <1>1, <2>1 DEF LoaderBreakpoint, PortTypeOK
<1>2. CASE SecondChance(t)
  BY <1>2 DEF SecondChance, PortTypeOK
<1>3. CASE FilterReturns(t, signalled)
  <2>1. Exception("OTHER", FALSE) \in Event /\ "OTHER" \in Exceptions
    BY DEF Exceptions
  <2> QED
    BY <1>3, <2>1 DEF FilterReturns, PortTypeOK
<1>4. CASE Die(t)
  <2>1. proc[Owner[t]].code \in ExitCode \cup {0, 3, NTSTATUS}
    BY DEF PortTypeOK
  <2>2. pend' \in [Tid -> Event]
    BY <1>4, <2>1 DEF Die, PortTypeOK
  <2> QED
    BY <1>4, <2>2 DEF Die, PortTypeOK
<1> QED
  BY <1>1, <1>2, <1>3, <1>4 DEF Kernel

\* So does handing over a report.
LEMMA WaitType ==
  ASSUME PortTypeOK, NEW t \in Tid, WaitForDebugEvent(t)
  PROVE  PortTypeOK'
BY PortAssumption DEF WaitForDebugEvent, PortTypeOK

\* What the table is built from.
LEMMA TableTypes ==
  ASSUME TypeOK, NEW p \in Pid
  PROVE  /\ NoProcessInfo \in PROCESS_INFO
         /\ NothingReported \in Log
         /\ Find(p) \in PROCESS_INFO
         /\ Find(p).listed /\ Find(p).Threads = g_Processes[p].Threads
         /\ Find(p).hProcess = g_Processes[p].hProcess
         /\ Find(p).fDumpWritten = g_Processes[p].fDumpWritten
<1>1. g_Processes[p] \in PROCESS_INFO
  BY DEF TypeOK
<1>2. NoProcessInfo \in PROCESS_INFO
  BY DEF NoProcessInfo, PROCESS_INFO, THREAD_INFO
<1>3. NothingReported \in Log
  BY DEF NothingReported, Log
<1> QED
  BY <1>1, <1>2, <1>3 DEF PROCESS_INFO, Find

\* What a handler adds to the log of a process is a log.
LEMMA LogTypes ==
  ASSUME NEW l \in Log, NEW ts \in SUBSET Tid, NEW info
  PROVE  /\ WithStacks(l, ts) \in Log
         /\ WithDump(l, info) \in Log
         /\ [l EXCEPT !.crashed = @ \cup ts] \in Log
BY DEF Log, WithStacks, WithDump

-----------------------------------------------------------------------------
(* TypeOK, handler by handler.                                             *)

\* Each handler's event is well typed and its process has an entry.
LEMMA HandlingFacts ==
  ASSUME TypeOK, current # NoThread
  PROVE  /\ current \in Tid /\ Owner[current] \in Pid
         /\ pend[current] \in Event
         /\ g_Processes[Owner[current]] \in PROCESS_INFO
         /\ log[Owner[current]] \in Log
         /\ Find(Owner[current]) \in PROCESS_INFO
         /\ PortTypeOK
         /\ proc \in [Pid -> ProcState] /\ thr \in [Tid -> ThreadState]
BY PortAssumption, TableTypes DEF TypeOK, PortTypeOK

\* The rest of TypeOK.
DebuggerTypeOK ==
  /\ debugOptions \in Options
  /\ g_Processes \in [Pid -> PROCESS_INFO]
  /\ fTerminating \in BOOLEAN
  /\ loop \in {"running", "finished", "failed", "exited"}
  /\ sessions \subseteq Handle
  /\ loaded \in [Handle -> SUBSET Dll]
  /\ leftOpen \subseteq Handle \cup {NoHandle}
  /\ signals \in 0..2
  /\ log \in [Pid -> Log]

\* TypeOK is the port's type invariant and the debugger's.
LEMMA TypesSplit == TypeOK <=> PortTypeOK /\ DebuggerTypeOK
BY DEF TypeOK, DebuggerTypeOK

\* The handlers that change the table only, or nothing, keep the types.
LEMMA PlainHandlersType ==
  ASSUME TypeOK, OnCreateThread \/ OnOutputDebugString \/ OnOtherEvent
  PROVE  TypeOK'
<1> DEFINE p == Owner[current]
<1>0. current # NoThread /\ loop = "running"
  BY DEF OnCreateThread, OnOutputDebugString, OnOtherEvent, Handling
<1>1. PortTypeOK'
  BY <1>0, HandlingFacts, ContinueType DEF OnCreateThread, OnOutputDebugString, OnOtherEvent
<1>2. [Find(p) EXCEPT !.Threads[current] = "handle"] \in PROCESS_INFO
  BY <1>0, HandlingFacts DEF PROCESS_INFO, THREAD_INFO
<1>3. DebuggerTypeOK'
  BY <1>0, <1>2, HandlingFacts, TypesSplit
  DEF OnCreateThread, OnOutputDebugString, OnOtherEvent, DebuggerTypeOK, dbgVars
<1> QED
  BY <1>1, <1>3, TypesSplit DEF TypeOK, DebuggerTypeOK

\* So does announcing a process ...
LEMMA CreateProcessType ==
  ASSUME TypeOK, AnnouncedHandle, OnCreateProcess
  PROVE  TypeOK'
<1> DEFINE p == Owner[current]
           h == hproc[p]
<1>0. current # NoThread
  BY DEF OnCreateProcess, Handling
<1>1. PortTypeOK'
  BY <1>0, HandlingFacts, ContinueType DEF OnCreateProcess
<1>2. h \in Handle \cup {NoHandle} /\ debugOptions.minidump \in BOOLEAN
  BY <1>0, HandlingFacts, DebuggerAssumption DEF TypeOK, PortTypeOK, OptionSpace
<1>3. [Find(p) EXCEPT !.hProcess = h, !.fDumpWritten = ~debugOptions.minidump,
                      !.Threads[current] = "handle"] \in PROCESS_INFO
  BY <1>0, <1>2, HandlingFacts DEF PROCESS_INFO, THREAD_INFO
<1>4. g_Processes' \in [Pid -> PROCESS_INFO] /\ log' \in [Pid -> Log]
  BY <1>0, <1>3, HandlingFacts, TableTypes DEF OnCreateProcess, TypeOK
<1>5. h \in Handle
  BY <1>0, <1>2, HandlingFacts DEF AnnouncedHandle, OnCreateProcess, Handling
<1>6. /\ sessions' \subseteq Handle /\ loaded' \in [Handle -> SUBSET Dll]
      /\ loop' \in {"running", "finished", "failed", "exited"}
  BY <1>5 DEF OnCreateProcess, TypeOK
<1>7. UNCHANGED <<debugOptions, fTerminating, leftOpen, signals>>
  BY DEF OnCreateProcess
<1> QED
  BY <1>1, <1>4, <1>6, <1>7, TypesSplit DEF TypeOK, DebuggerTypeOK

\* ... the end of a thread ...
LEMMA ExitThreadType ==
  ASSUME TypeOK, OnExitThread
  PROVE  TypeOK'
<1> DEFINE p == Owner[current]
<1>0. current # NoThread
  BY DEF OnExitThread, Handling
<1>1. PortTypeOK'
  BY <1>0, HandlingFacts, ContinueType DEF OnExitThread
<1>2. [Find(p) EXCEPT !.Threads[current] = "absent"] \in PROCESS_INFO
  BY <1>0, HandlingFacts DEF PROCESS_INFO, THREAD_INFO
<1>3. WithStacks(log[p], {current}) \in Log
  BY <1>0, HandlingFacts, LogTypes
<1>4. g_Processes' \in [Pid -> PROCESS_INFO] /\ log' \in [Pid -> Log]
  BY <1>0, <1>2, <1>3, HandlingFacts DEF OnExitThread, TypeOK
<1>5. UNCHANGED <<debugOptions, fTerminating, loop, sessions, loaded, leftOpen, signals>>
  BY DEF OnExitThread
<1> QED
  BY <1>1, <1>4, <1>5 DEF TypeOK, DebuggerTypeOK

\* ... the end of a process ...
LEMMA ExitProcessType ==
  ASSUME TypeOK, OnExitProcess
  PROVE  TypeOK'
<1> DEFINE p == Owner[current]
           l == WithDump(log[p], Find(p))
           dumped == [l EXCEPT !.stacks = IF Readable(Find(p), current)
                                          THEN @ \cup {current} ELSE @]
<1>0. current # NoThread
  BY DEF OnExitProcess, Handling
<1>1. PortTypeOK'
  BY <1>0, HandlingFacts, ContinueType DEF OnExitProcess
<1>2. g_Processes' \in [Pid -> PROCESS_INFO]
  BY <1>0, HandlingFacts, TableTypes DEF OnExitProcess, TypeOK
<1>3. l \in Log /\ current \in Tid
  BY <1>0, HandlingFacts, LogTypes
<1>4. dumped \in Log
  BY <1>3 DEF Log
<1>5. log' \in [Pid -> Log]
  BY <1>0, <1>4, HandlingFacts DEF OnExitProcess, TypeOK
<1>6. /\ sessions' \subseteq Handle /\ loaded' \in [Handle -> SUBSET Dll]
      /\ leftOpen' \subseteq Handle \cup {NoHandle}
  <2>1. Find(p).hProcess \in Handle \cup {NoHandle}
    BY <1>0, HandlingFacts DEF PROCESS_INFO
  <2>2. CloseSession(Find(p).hProcess) \/ MissSession(Find(p).hProcess)
    BY DEF OnExitProcess
  <2> QED
    BY <2>1, <2>2 DEF CloseSession, MissSession, TypeOK
<1>8. loop' \in {"running", "finished", "failed", "exited"}
  BY DEF OnExitProcess, TypeOK
<1>7. UNCHANGED <<debugOptions, fTerminating, signals>>
  BY DEF OnExitProcess
<1> QED
  BY <1>1, <1>2, <1>5, <1>6, <1>7, <1>8 DEF TypeOK

\* ... loading and unloading a library ...
LEMMA DllHandlersType ==
  ASSUME TypeOK, OnLoadDll \/ OnUnloadDll
  PROVE  TypeOK'
<1> DEFINE p == Owner[current]
<1>0. current # NoThread
  BY DEF OnLoadDll, OnUnloadDll, Handling
<1>1. PortTypeOK'
  BY <1>0, HandlingFacts, ContinueType DEF OnLoadDll, OnUnloadDll
<1>2. g_Processes' \in [Pid -> PROCESS_INFO]
  BY <1>0, HandlingFacts DEF OnLoadDll, OnUnloadDll, TypeOK
<1>3. pend[current].arg \in Dll
  BY <1>0, HandlingFacts DEF OnLoadDll, OnUnloadDll, Handling, Event
<1>4. loaded' \in [Handle -> SUBSET Dll]
  BY <1>3 DEF OnLoadDll, OnUnloadDll, TypeOK
<1>5. UNCHANGED <<debugOptions, fTerminating, loop, sessions, leftOpen, signals, log>>
  BY DEF OnLoadDll, OnUnloadDll
<1> QED
  BY <1>1, <1>2, <1>4, <1>5 DEF TypeOK

\* The entry with the flags of an exception noted.
LEMMA NotedType ==
  ASSUME TypeOK, NEW info \in PROCESS_INFO, NEW e \in Event
  PROVE  /\ Noted(info, e) \in PROCESS_INFO
         /\ Noted(info, e).listed = info.listed
         /\ Noted(info, e).hProcess = info.hProcess
         /\ Noted(info, e).fDumpWritten = info.fDumpWritten
         /\ \A t \in Tid : Noted(info, e).Threads[t] = "handle" <=> info.Threads[t] = "handle"
<1> DEFINE initial == InitialBreakpoint(info, e)
           entry == [info EXCEPT !.fBreakpointSignalled = @ \/ initial,
                       !.fWowBreakpointSignalled = @ \/ (e.first /\ e.arg = "WX86_BREAKPOINT")]
<1>1. initial \in BOOLEAN /\ (e.first /\ e.arg = "WX86_BREAKPOINT") \in BOOLEAN
  BY DEF InitialBreakpoint
<1>2. entry \in PROCESS_INFO /\ entry.listed = info.listed /\ entry.hProcess = info.hProcess
      /\ entry.fDumpWritten = info.fDumpWritten /\ entry.Threads = info.Threads
  BY <1>1 DEF PROCESS_INFO
<1> HIDE DEF initial, entry
<1>3. Noted(info, e) = IF initial /\ debugOptions.dwThreadId # NoThread
        THEN [entry EXCEPT !.Threads = FindThread(@, debugOptions.dwThreadId)] ELSE entry
  BY DEF Noted, entry, initial
<1> QED
  BY <1>2, <1>3 DEF PROCESS_INFO, THREAD_INFO, FindThread

\* ... and resuming the suspended thread.
LEMMA ResumedType ==
  ASSUME TypeOK, NEW info, NEW e
  PROVE  /\ ResumedThreads(info, e) \in [Tid -> ThreadState]
         /\ \A t \in Tid : ResumedThreads(info, e)[t] = "none" <=> thr[t] = "none"
BY DEF ResumedThreads, Resumed, TypeOK, PortTypeOK

\* signals stays within its bound.
LEMMA SignalsType ==
  ASSUME TypeOK, NEW info, NEW e, NoteException(info, e)
  PROVE  /\ signals' \in 0..2 /\ debugOptions' \in Options
         /\ loop' \in {"running", "finished", "failed", "exited"}
         /\ sessions' \subseteq Handle /\ loaded' \in [Handle -> SUBSET Dll]
         /\ leftOpen' \subseteq Handle \cup {NoHandle}
BY DEF NoteException, TypeOK

\* Exceptions that are ignored or declined keep the types ...
LEMMA QuietExceptionsType ==
  ASSUME TypeOK, OnIgnoredException \/ OnDeclinedException
  PROVE  TypeOK'
<1> DEFINE p == Owner[current]
           e == pend[current]
           info == Find(p)
<1>0. current # NoThread
  BY DEF OnIgnoredException, OnDeclinedException, Handling
<1>1. PortTypeOK'
  BY <1>0, HandlingFacts, ContinueType, ResumedType DEF OnIgnoredException, OnDeclinedException
<1>2. Noted(info, e) \in PROCESS_INFO
  BY <1>0, HandlingFacts, NotedType
<1>3. g_Processes' \in [Pid -> PROCESS_INFO] /\ fTerminating' \in BOOLEAN
  BY <1>0, <1>2, HandlingFacts DEF OnIgnoredException, OnDeclinedException, TypeOK
<1>4. log' \in [Pid -> Log]
  <2>1. log[p].ignored < 2 => [log[p] EXCEPT !.ignored = @ + 1] \in Log
    BY <1>0, HandlingFacts DEF Log
  <2>2. \/ log' = log
        \/ log' = [log EXCEPT ![p].ignored = @ + 1] /\ log[p].ignored < 2
    <3>1. CASE OnIgnoredException
      BY <3>1 DEF OnIgnoredException
    <3>2. CASE OnDeclinedException
      BY <3>2 DEF OnDeclinedException
    <3> QED
      BY <3>1, <3>2
  <2> QED
    BY <1>0, <2>1, <2>2, HandlingFacts DEF TypeOK
<1>5. NoteException(info, e)
  BY DEF OnIgnoredException, OnDeclinedException
<1> QED
  BY <1>1, <1>3, <1>4, <1>5, SignalsType DEF TypeOK

\* ... and so do those that are reported.
LEMMA ReportedExceptionType ==
  ASSUME TypeOK, OnReportedException
  PROVE  TypeOK'
<1> DEFINE p == Owner[current]
           e == pend[current]
           noted == Noted(Find(p), e)
           stacks == StacksFor(noted, e)
           dump == ~e.first /\ stacks # {}
           l == IF dump THEN WithDump(log[p], noted) ELSE log[p]
           reported == WithStacks(l, stacks)
           final == [reported EXCEPT !.crashed = IF e.first THEN @ ELSE @ \cup {current}]
<1>0. current # NoThread
  BY DEF OnReportedException, Kills, Handling
<1>1. Terminated(p, NTSTATUS) \in [Pid -> ProcState]
  BY <1>0, HandlingFacts, TerminatedType
<1>2. PortTypeOK'
  BY <1>0, <1>1, HandlingFacts, ContinueType, ResumedType DEF OnReportedException, Kills
<1>3. noted \in PROCESS_INFO /\ writeDump(noted) \in PROCESS_INFO
  <2>1. noted \in PROCESS_INFO
    BY <1>0, HandlingFacts, NotedType
  <2> HIDE DEF noted
  <2>2. writeDump(noted) \in PROCESS_INFO
    BY <2>1 DEF writeDump, PROCESS_INFO
  <2> QED
    BY <2>1, <2>2 DEF noted
<1>4. g_Processes' \in [Pid -> PROCESS_INFO]
  BY <1>0, <1>3, HandlingFacts DEF OnReportedException, Kills, TypeOK
<1>5. l \in Log /\ stacks \in SUBSET Tid /\ current \in Tid
  BY <1>0, HandlingFacts, LogTypes DEF StacksFor
<1>6. reported \in Log
  BY <1>5, LogTypes
<1>7. final \in Log
  BY <1>5, <1>6 DEF Log
<1>8. log' \in [Pid -> Log]
  BY <1>0, <1>7, HandlingFacts DEF OnReportedException, Kills, TypeOK
<1>9. fTerminating' \in BOOLEAN
  BY <1>0, HandlingFacts DEF OnReportedException, Kills, TypeOK, Event
<1>10. NoteException(Find(p), e)
  BY DEF OnReportedException, Kills
<1> QED
  BY <1>2, <1>4, <1>8, <1>9, <1>10, SignalsType DEF TypeOK

-----------------------------------------------------------------------------
(* TypeOK, initially and in every step.                                    *)

\* The initial states are well typed.
LEMMA InitType == Init => TypeOK
<1> SUFFICES ASSUME Init PROVE TypeOK
  OBVIOUS
<1> USE PortAssumption, DebuggerAssumption, RecordTypes
<1>1. thr \in [Tid -> ThreadState] /\ pend \in [Tid -> Event]
  <2>1. CASE Launched
    BY <2>1 DEF Launched
  <2>2. CASE Attached({})
    BY <2>2 DEF Attached
  <2>3. CASE \E t \in Tid : Attached({t})
    BY <2>3 DEF Attached
  <2> QED
    BY <2>1, <2>2, <2>3 DEF Init
<1>2. PortTypeOK
  BY <1>1 DEF Init, PortInit, PortTypeOK
<1>3. NoProcessInfo \in PROCESS_INFO /\ NothingReported \in Log
  BY DEF NoProcessInfo, PROCESS_INFO, THREAD_INFO, NothingReported, Log
<1>4. /\ debugOptions \in Options /\ fTerminating \in BOOLEAN
      /\ loop \in {"running", "finished", "failed", "exited"}
  BY DEF Init
<1>8. signals \in 0..2
  BY DEF Init
<1>6. sessions \subseteq Handle /\ leftOpen \subseteq Handle \cup {NoHandle}
  BY DEF Init
<1>7. loaded \in [Handle -> SUBSET Dll]
  BY DEF Init
<1>5. g_Processes \in [Pid -> PROCESS_INFO] /\ log \in [Pid -> Log]
  BY <1>3 DEF Init
<1> QED
  BY <1>2, <1>4, <1>5, <1>6, <1>7, <1>8 DEF TypeOK

\* Every step keeps the types.
LEMMA TypeStep ==
  ASSUME TypeOK, AnnouncedHandle, [Next]_vars
  PROVE  TypeOK'
<1>1. ASSUME NEW t \in Tid, ProgramStep(t) PROVE TypeOK'
  BY <1>1, ProgramType, TypesSplit DEF ProgramStep, TypeOK, dbgVars
<1>2. ASSUME NEW t \in Tid, KernelStep(t) PROVE TypeOK'
  BY <1>2, KernelType DEF KernelStep, TypeOK, dbgVars
<1>3. ASSUME NEW t \in Tid, WaitStep(t) PROVE TypeOK'
  BY <1>3, WaitType DEF WaitStep, TypeOK, dbgVars
<1>4. CASE HandleEvent
  BY <1>4, PlainHandlersType, CreateProcessType, ExitThreadType, ExitProcessType,
     DllHandlersType, QuietExceptionsType, ReportedExceptionType DEF HandleEvent
<1>5. CASE WaitFails
  BY <1>5 DEF WaitFails, TypeOK, PortTypeOK, portVars
<1>6. CASE UNCHANGED vars
  BY <1>6 DEF TypeOK, PortTypeOK, vars, portVars, dbgVars
<1> QED
  BY <1>1, <1>2, <1>3, <1>4, <1>5, <1>6 DEF Next, Stopped

-----------------------------------------------------------------------------
(* The programs and the kernel keep the invariant: whatever they do is a   *)
(* report of an existing thread, a new thread, or a new process.           *)

\* Nothing of a process that is waiting to be announced runs.
LEMMA IdleMeansAnnounced ==
  ASSUME TypeOK, PortInv, NEW t \in Tid, thr[t] # "none", ~Pending(t)
  PROVE  /\ \A u \in Tid : Owner[u] = Owner[t] =>
              pend[u].kind \notin {"CREATE_PROCESS", "EXIT_PROCESS"}
         /\ current # t
BY PortAssumption
DEF PortInv, AnnouncedFirst, LastReportsExit, ReportersExist, Existing, ThreadsOf, Pending

\* An existing thread that is not in a report makes one.
LEMMA ReportKeeps ==
  ASSUME TypeOK, PortInv, TableMatchesSystem,
         NEW t \in Tid, ~Pending(t), thr[t] # "none",
         pend'[t].kind \notin {"NONE", "CREATE_PROCESS", "CREATE_THREAD"},
         pend'[t].kind = "EXIT_PROCESS" => Existing(Owner[t]) = {t},
         \A u \in Tid \ {t} : pend'[u] = pend[u],
         \A u \in Tid : thr'[u] = "none" <=> thr[u] = "none",
         UNCHANGED <<proc, hproc, current, g_Processes>>
  PROVE  PortInv' /\ TableMatchesSystem' /\ Followed' = Followed
<1> USE IdleMeansAnnounced
<1>0. /\ pend \in [Tid -> Event] /\ Owner \in [Tid -> Pid]
      /\ current \in Tid \cup {NoThread} /\ NoThread \notin Tid
  BY PortAssumption DEF TypeOK, PortTypeOK
<1>1. pend[t].kind = "NONE"
  BY <1>0 DEF Pending
<1>2. ReportersExist'
  BY <1>0, <1>1 DEF PortInv, ReportersExist, Pending
<1>3. HandlesOpen'
  BY <1>0, <1>1 DEF PortInv, HandlesOpen, ThreadsOf
<1>4. AnnouncedFirst'
  BY <1>0, <1>1 DEF PortInv, AnnouncedFirst, ThreadsOf
<1>5. LastReportsExit'
  BY <1>0, <1>1 DEF PortInv, LastReportsExit, Existing, ThreadsOf
<1>6. Followed' = Followed
  BY <1>0, <1>1 DEF Followed, Announcing
<1>7. TableMatchesSystem'
  BY <1>0, <1>1, <1>6 DEF TableMatchesSystem
<1> QED
  BY <1>2, <1>3, <1>4, <1>5, <1>6, <1>7 DEF PortInv

\* An idle thread starts another one.
LEMMA StartThreadKeeps ==
  ASSUME TypeOK, PortInv, TableMatchesSystem, UNCHANGED g_Processes,
         NEW t \in Tid, NEW u \in Tid, StartThread(t, u)
  PROVE  PortInv' /\ TableMatchesSystem' /\ Followed' = Followed
<1>0. /\ pend \in [Tid -> Event] /\ thr \in [Tid -> ThreadState] /\ Owner \in [Tid -> Pid]
      /\ current \in Tid \cup {NoThread} /\ NoThread \notin Tid
  BY PortAssumption DEF TypeOK, PortTypeOK
<1>1. /\ Owner[u] = Owner[t] /\ thr[u] = "none" /\ thr'[u] = "live" /\ u # t
      /\ pend'[u].kind = "CREATE_THREAD" /\ ~Pending(u) /\ u # current
      /\ \A v \in Tid \ {u} : pend'[v] = pend[v] /\ thr'[v] = thr[v]
      /\ UNCHANGED <<proc, hproc, current>>
      /\ thr[t] # "none" /\ ~Pending(t)
  BY <1>0 DEF StartThread, Executing, Report, PortInv, ReportersExist
<1>2. \A v \in Tid : Owner[v] = Owner[t] => pend[v].kind \notin {"CREATE_PROCESS", "EXIT_PROCESS"}
  BY <1>1, IdleMeansAnnounced
<1>3. ReportersExist'
  BY <1>0, <1>1 DEF PortInv, ReportersExist, Pending
<1>4. HandlesOpen'
  BY <1>0, <1>1, <1>2 DEF PortInv, HandlesOpen, ThreadsOf
<1>5. AnnouncedFirst'
  BY <1>0, <1>1, <1>2 DEF PortInv, AnnouncedFirst, ThreadsOf
<1>6. LastReportsExit'
  BY <1>0, <1>1, <1>2 DEF PortInv, LastReportsExit, Existing, ThreadsOf
<1>7. Followed' = Followed
  BY <1>0, <1>1 DEF Followed, Announcing
<1>8. TableMatchesSystem'
  BY <1>0, <1>1, <1>7 DEF TableMatchesSystem, Pending
<1> QED
  BY <1>3, <1>4, <1>5, <1>6, <1>7, <1>8 DEF PortInv

\* An idle thread starts a process.
LEMMA SpawnKeeps ==
  ASSUME TypeOK, PortInv, TableMatchesSystem, UNCHANGED g_Processes,
         NEW t \in Tid, NEW u \in Tid, Spawn(t, u)
  PROVE  PortInv' /\ TableMatchesSystem' /\ Followed' = Followed
<1> DEFINE q == Owner[u]
<1>0. /\ pend \in [Tid -> Event] /\ thr \in [Tid -> ThreadState] /\ Owner \in [Tid -> Pid]
      /\ current \in Tid \cup {NoThread} /\ NoThread \notin Tid
      /\ proc \in [Pid -> ProcState] /\ hproc \in [Pid -> Handle \cup {NoHandle}]
  BY PortAssumption DEF TypeOK, PortTypeOK
<1>1. /\ proc[q].state = "none" /\ proc'[q].state = "alive"
      /\ thr'[u] = "starting" /\ pend'[u].kind = "CREATE_PROCESS"
      /\ \A v \in Tid \ {u} : pend'[v] = pend[v] /\ thr'[v] = thr[v]
      /\ \A p \in Pid \ {q} : proc'[p] = proc[p]
      /\ UNCHANGED <<hproc, current>>
  BY <1>0 DEF Spawn, Report, Running
<1>2. /\ hproc[q] = NoHandle
      /\ \A v \in ThreadsOf(q) : thr[v] = "none" /\ ~Pending(v) /\ v # current
  BY <1>0, <1>1 DEF PortInv, ReportersExist, HandlesOpen, ThreadsOf
<1>3. ReportersExist'
  <2>1. /\ \A v \in Tid : Pending(v) => thr[v] # "none"
        /\ \A v \in Tid : thr[v] # "none" => proc[Owner[v]].state # "none"
        /\ current # NoThread => Pending(current)
    BY DEF PortInv, ReportersExist
  <2>2. u # current /\ \A v \in Tid : Pending(v)' => thr'[v] # "none"
    BY <1>1, <1>2, <2>1 DEF Pending, ThreadsOf
  <2>3. ASSUME NEW v \in Tid, thr'[v] # "none"
        PROVE  proc'[Owner[v]].state # "none"
    <3>1. CASE Owner[v] = q
      BY <1>1, <3>1
    <3>2. CASE Owner[v] # q
      <4>1. v # u /\ Owner[v] \in Pid \ {q}
        BY <1>0, <3>2
      <4> QED BY <1>1, <2>1, <2>3, <4>1
    <3> QED BY <3>1, <3>2
  <2>4. current' # NoThread => Pending(current)'
    BY <1>0, <1>1, <2>1, <2>2 DEF Pending
  <2> QED BY <2>2, <2>3, <2>4 DEF ReportersExist
<1>4. HandlesOpen'
  <2> SUFFICES ASSUME NEW p \in Pid
               PROVE  /\ hproc'[p] # NoHandle => proc'[p].state # "none"
                      /\ proc'[p].state # "none" /\ hproc'[p] = NoHandle
                         => \E v \in ThreadsOf(p) : pend'[v].kind = "CREATE_PROCESS"
    BY DEF HandlesOpen, ThreadsOf
  <2>1. CASE p = q
    BY <2>1, <1>0, <1>1, <1>2 DEF ThreadsOf
  <2>2. CASE p # q
    <3>1. \A v \in ThreadsOf(p) : pend'[v] = pend[v]
      BY <2>2, <1>1 DEF ThreadsOf
    <3> QED
      BY <2>2, <3>1, <1>1 DEF PortInv, HandlesOpen
  <2> QED
    BY <2>1, <2>2
<1>5. AnnouncedFirst'
  BY <1>0, <1>1, <1>2 DEF PortInv, AnnouncedFirst, ThreadsOf, Pending
<1>6. LastReportsExit'
  BY <1>0, <1>1, <1>2 DEF PortInv, LastReportsExit, Existing, ThreadsOf, Pending
<1>7. Followed' = Followed
  BY <1>0, <1>1, <1>2 DEF Followed, Announcing
<1>8. TableMatchesSystem'
  BY <1>0, <1>1, <1>2, <1>7 DEF TableMatchesSystem, ThreadsOf
<1> QED
  BY <1>3, <1>4, <1>5, <1>6, <1>7, <1>8 DEF PortInv

\* The kinds of the reports.
LEMMA Kinds ==
  /\ \A kind, arg : Report(kind, arg).kind = kind
  /\ \A e, first : Exception(e, first).kind = "EXCEPTION"
  /\ \A kind, c : Exit(kind, c).kind = kind
BY DEF Report, Exception, Exit

\* Whatever a program does for one of its threads.
LEMMA ProgramKeeps ==
  ASSUME TypeOK, PortInv, TableMatchesSystem, UNCHANGED g_Processes,
         NEW t \in Tid, Program(t)
  PROVE  PortInv' /\ TableMatchesSystem' /\ Followed' = Followed
<1>0. /\ pend \in [Tid -> Event] /\ thr \in [Tid -> ThreadState] /\ Owner \in [Tid -> Pid]
      /\ proc \in [Pid -> ProcState]
  BY PortAssumption DEF TypeOK, PortTypeOK
<1>1. CASE \E u \in Tid : StartThread(t, u)
  BY <1>1, StartThreadKeeps
<1>2. CASE \E u \in Tid : Spawn(t, u)
  BY <1>2, SpawnKeeps
<1>3. ASSUME pend'[t].kind \in {"EXCEPTION", "EXIT_THREAD", "LOAD_DLL", "UNLOAD_DLL",
                               "OUTPUT_DEBUG_STRING", "RIP"},
             thr[t] # "none", ~Pending(t), \A u \in Tid \ {t} : pend'[u] = pend[u],
             UNCHANGED <<proc, thr, hproc, current>>
      PROVE  PortInv' /\ TableMatchesSystem' /\ Followed' = Followed
  BY <1>3, ReportKeeps
<1>4. CASE \E e \in Raises : Raise(t, e)
  <2>1. PICK e \in Raises : Raise(t, e)
    BY <1>4
  <2>2. pend'[t] = Exception(e, TRUE) /\ \A u \in Tid \ {t} : pend'[u] = pend[u]
    BY <1>0, <2>1 DEF Raise
  <2>3. pend'[t].kind = "EXCEPTION"
    BY <2>2 DEF Exception
  <2> QED
    BY <2>1, <2>2, <2>3, <1>3 DEF Raise, Executing
<1>5. CASE \E c \in ExitCode : ExitThread(t, c)
  <2>1. PICK c \in ExitCode : ExitThread(t, c)
    BY <1>5
  <2>2. pend'[t] = Exit("EXIT_THREAD", c) /\ \A u \in Tid \ {t} : pend'[u] = pend[u]
    BY <1>0, <2>1 DEF ExitThread
  <2> QED
    BY <2>1, <2>2, <1>3, Kinds DEF ExitThread, Executing
<1>6. CASE \E d \in Dll : LoadDll(t, d)
  BY <1>0, <1>6, <1>3, Kinds DEF LoadDll, Executing
<1>7. CASE \E d \in Dll : UnloadDll(t, d)
  BY <1>0, <1>7, <1>3, Kinds DEF UnloadDll, Executing
<1>8. CASE \E kind \in {"OUTPUT_DEBUG_STRING", "RIP"} : OtherReport(t, kind)
  <2>1. PICK kind \in {"OUTPUT_DEBUG_STRING", "RIP"} : OtherReport(t, kind)
    BY <1>8
  <2>2. pend'[t] = Report(kind, None) /\ \A u \in Tid \ {t} : pend'[u] = pend[u]
    BY <1>0, <2>1 DEF OtherReport
  <2> QED
    BY <2>1, <2>2, <1>3, Kinds DEF OtherReport, Executing
<1>9. CASE CatchException(t)
  BY <1>9 DEF CatchException, PortInv, ReportersExist, HandlesOpen, AnnouncedFirst,
     LastReportsExit, Existing, Pending, TableMatchesSystem, Followed, Announcing
<1>10. CASE \E q \in Pid, c \in ExitCode : EndProcess(t, q, c)
  <2>1. \A p \in Pid : proc'[p].state = "none" <=> proc[p].state = "none"
    BY <1>0, <1>10 DEF EndProcess, Terminated
  <2>2. UNCHANGED <<thr, pend, hproc, current>>
    BY <1>10 DEF EndProcess
  <2> QED
    BY <1>0, <2>1, <2>2 DEF PortInv, ReportersExist, HandlesOpen, AnnouncedFirst,
       LastReportsExit, Existing, Pending, TableMatchesSystem, Followed, Announcing
<1> QED
  BY <1>1, <1>2, <1>4, <1>5, <1>6, <1>7, <1>8, <1>9, <1>10 DEF Program

\* Whatever the kernel does for a thread by itself.
LEMMA KernelKeeps ==
  ASSUME TypeOK, PortInv, TableMatchesSystem, UNCHANGED g_Processes,
         NEW t \in Tid, NEW signalled, Kernel(t, signalled)
  PROVE  PortInv' /\ TableMatchesSystem' /\ Followed' = Followed
<1>0. /\ pend \in [Tid -> Event] /\ thr \in [Tid -> ThreadState]
  BY DEF TypeOK, PortTypeOK
<1>1. ASSUME pend'[t].kind = "EXCEPTION", thr[t] # "none", ~Pending(t),
             \A u \in Tid \ {t} : pend'[u] = pend[u],
             \A u \in Tid : thr'[u] = "none" <=> thr[u] = "none",
             UNCHANGED <<proc, hproc, current>>
      PROVE  PortInv' /\ TableMatchesSystem' /\ Followed' = Followed
  BY <1>1, ReportKeeps
<1>2. CASE LoaderBreakpoint(t)
  BY <1>0, <1>2, <1>1, Kinds DEF LoaderBreakpoint
<1>3. CASE SecondChance(t)
  <2>1. /\ pend' = [pend EXCEPT ![t] = Exception(declined[t], FALSE)]
        /\ thr[t] # "none" /\ ~Pending(t) /\ UNCHANGED <<proc, thr, hproc, current>>
    BY <1>3 DEF SecondChance
  <2>2. pend'[t].kind = "EXCEPTION" /\ \A u \in Tid \ {t} : pend'[u] = pend[u]
    BY <1>0, <2>1, Kinds
  <2> QED BY <1>1, <2>1, <2>2
<1>4. CASE FilterReturns(t, signalled)
  BY <1>0, <1>4, <1>1, Kinds DEF FilterReturns
<1>5. CASE Die(t)
  <2>1. /\ pend'[t].kind \in {"EXIT_THREAD", "EXIT_PROCESS"}
        /\ pend'[t].kind = "EXIT_PROCESS" => Existing(Owner[t]) = {t}
        /\ \A u \in Tid \ {t} : pend'[u] = pend[u]
    BY <1>0, <1>5, Kinds DEF Die
  <2>2. /\ thr[t] # "none" /\ ~Pending(t)
        /\ UNCHANGED <<proc, thr, hproc, current>>
    BY <1>5 DEF Die
  <2> QED
    BY <2>1, <2>2, ReportKeeps
<1> QED
  BY <1>2, <1>3, <1>4, <1>5 DEF Kernel

-----------------------------------------------------------------------------
(* The debugger keeps the invariant.                                       *)

\* The process of an event has been announced, unless the event announces it.
LEMMA CurrentFollowed ==
  ASSUME TypeOK, PortInv, TableMatchesSystem, current # NoThread
  PROVE  /\ thr[current] # "none"
         /\ hproc[Owner[current]] # NoHandle
         /\ pend[current].kind # "CREATE_PROCESS" =>
              /\ Owner[current] \in Followed
              /\ \A u \in Tid : Owner[u] = Owner[current] => pend[u].kind # "CREATE_PROCESS"
<1>0. /\ pend \in [Tid -> Event] /\ thr \in [Tid -> ThreadState] /\ Owner \in [Tid -> Pid]
      /\ current \in Tid
  BY PortAssumption DEF TypeOK, PortTypeOK
<1>1. thr[current] # "none" /\ proc[Owner[current]].state # "none"
  BY <1>0 DEF PortInv, ReportersExist
<1>2. CASE pend[current].kind = "CREATE_PROCESS"
  BY <1>0, <1>1, <1>2 DEF PortInv, AnnouncedFirst
<1>3. CASE pend[current].kind # "CREATE_PROCESS"
  <2>1. \A u \in Tid : Owner[u] = Owner[current] => pend[u].kind # "CREATE_PROCESS"
    BY <1>0, <1>3 DEF PortInv, AnnouncedFirst, ThreadsOf
  <2>2. hproc[Owner[current]] # NoHandle
    BY <1>0, <1>1, <2>1 DEF PortInv, HandlesOpen, ThreadsOf
  <2> QED
    BY <1>0, <1>1, <1>3, <2>1, <2>2 DEF Followed, Announcing
<1> QED
  BY <1>2, <1>3

\* WaitForDebugEvent hands over a report.
LEMMA WaitKeeps ==
  ASSUME TypeOK, PortInv, TableMatchesSystem, UNCHANGED g_Processes,
         NEW t \in Tid, WaitForDebugEvent(t)
  PROVE  PortInv' /\ TableMatchesSystem' /\ Followed' = Followed
<1> DEFINE p == Owner[t]
<1>0. /\ pend \in [Tid -> Event] /\ thr \in [Tid -> ThreadState] /\ Owner \in [Tid -> Pid]
      /\ hproc \in [Pid -> Handle \cup {NoHandle}] /\ NoThread \notin Tid
      /\ NoHandle \notin Handle
  BY PortAssumption DEF TypeOK, PortTypeOK
<1>1. /\ current = NoThread /\ current' = t /\ Pending(t)
      /\ UNCHANGED <<proc, thr, pend>>
      /\ \A u \in ThreadsOf(p) \ {t} : pend[u].kind # "CREATE_PROCESS"
      /\ \A q \in Pid : q # p => hproc'[q] = hproc[q]
      /\ IF pend[t].kind = "CREATE_PROCESS" THEN hproc[p] = NoHandle /\ hproc'[p] # NoHandle
                                            ELSE hproc'[p] = hproc[p]
  <2>1. /\ current = NoThread /\ current' = t /\ Pending(t)
        /\ UNCHANGED <<proc, thr, pend>>
        /\ \A u \in ThreadsOf(p) \ {t} : pend[u].kind # "CREATE_PROCESS"
    BY DEF WaitForDebugEvent, Deliverable
  <2>2. CASE pend[t].kind = "CREATE_PROCESS"
    <3>1. hproc[p] = NoHandle
      BY <1>0, <2>1, <2>2 DEF PortInv, AnnouncedFirst
    <3>2. PICK h \in Handle : hproc' = [hproc EXCEPT ![p] = h]
      BY <2>2 DEF WaitForDebugEvent
    <3> QED
      BY <1>0, <2>1, <2>2, <3>1, <3>2
  <2>3. CASE pend[t].kind # "CREATE_PROCESS"
    BY <2>1, <2>3 DEF WaitForDebugEvent
  <2> QED
    BY <2>2, <2>3
<1>2. ReportersExist'
  BY <1>0, <1>1 DEF PortInv, ReportersExist, Pending
<1>3. HandlesOpen'
  BY <1>0, <1>1 DEF PortInv, HandlesOpen, ReportersExist, ThreadsOf
<1>4. AnnouncedFirst'
  BY <1>0, <1>1 DEF PortInv, AnnouncedFirst, ThreadsOf
<1>5. LastReportsExit'
  BY <1>0, <1>1 DEF PortInv, LastReportsExit, Existing, ThreadsOf
<1>6. Followed' = Followed
  BY <1>0, <1>1 DEF Followed, Announcing
<1>7. TableMatchesSystem'
  <2>1. \A q \in Followed : hproc'[q] = hproc[q]
    BY <1>0, <1>1 DEF Followed
  <2> QED
    BY <1>0, <1>1, <1>6, <2>1 DEF TableMatchesSystem
<1> QED
  BY <1>2, <1>3, <1>4, <1>5, <1>6, <1>7 DEF PortInv

\* ContinueDebugEvent for any event but the end of a process, thread by thread.
LEMMA ContinueEffect ==
  ASSUME TypeOK, PortInv, TableMatchesSystem, current # NoThread,
         NEW status, NEW ps \in [Pid -> ProcState], NEW ts \in [Tid -> ThreadState],
         \A q \in Pid : ps[q].state = "none" <=> proc[q].state = "none",
         \A u \in Tid : ts[u] = "none" <=> thr[u] = "none",
         ContinueDebugEvent(status, ps, ts),
         pend[current].kind # "EXIT_PROCESS"
  PROVE  /\ current' = NoThread /\ hproc' = hproc
         /\ pend'[current].kind = "NONE"
         /\ \A u \in Tid \ {current} : /\ pend'[u] = pend[u]
                                       /\ thr'[u] = "none" <=> thr[u] = "none"
         /\ thr'[current] = "none" <=> pend[current].kind = "EXIT_THREAD"
         /\ \A q \in Pid : proc'[q].state = "none" <=> proc[q].state = "none"
<1>0. /\ pend \in [Tid -> Event] /\ Owner \in [Tid -> Pid] /\ current \in Tid
      /\ thr[current] # "none" /\ Owner[current] \in Pid
  BY PortAssumption, CurrentFollowed DEF TypeOK, PortTypeOK
<1>1. /\ current' = NoThread /\ hproc' = hproc
      /\ pend'[current].kind = "NONE"
      /\ \A u \in Tid \ {current} : pend'[u] = pend[u]
  BY <1>0 DEF ContinueDebugEvent, NoEvent, Report
<1>2. /\ \A u \in Tid \ {current} : thr'[u] = "none" <=> thr[u] = "none"
      /\ thr'[current] = "none" <=> pend[current].kind = "EXIT_THREAD"
  BY <1>0 DEF ContinueDebugEvent
<1>3. \A q \in Pid : proc'[q].state = "none" <=> proc[q].state = "none"
  BY <1>0 DEF ContinueDebugEvent
<1> QED
  BY <1>1, <1>2, <1>3

\* So it keeps the port in order ...
LEMMA ContinueKeepsPort ==
  ASSUME TypeOK, PortInv, TableMatchesSystem, current # NoThread,
         NEW status, NEW ps \in [Pid -> ProcState], NEW ts \in [Tid -> ThreadState],
         \A q \in Pid : ps[q].state = "none" <=> proc[q].state = "none",
         \A u \in Tid : ts[u] = "none" <=> thr[u] = "none",
         ContinueDebugEvent(status, ps, ts),
         pend[current].kind # "EXIT_PROCESS"
  PROVE  PortInv'
<1> DEFINE p == Owner[current]
<1>0. /\ pend \in [Tid -> Event] /\ thr \in [Tid -> ThreadState] /\ Owner \in [Tid -> Pid]
      /\ current \in Tid /\ p \in Pid /\ NoThread \notin Tid
      /\ thr[current] # "none" /\ hproc[p] # NoHandle
  BY PortAssumption, CurrentFollowed DEF TypeOK, PortTypeOK
<1>1. /\ current' = NoThread /\ hproc' = hproc
      /\ pend'[current].kind = "NONE"
      /\ \A u \in Tid \ {current} : /\ pend'[u] = pend[u]
                                    /\ thr'[u] = "none" <=> thr[u] = "none"
      /\ thr'[current] = "none" <=> pend[current].kind = "EXIT_THREAD"
      /\ \A q \in Pid : proc'[q].state = "none" <=> proc[q].state = "none"
  BY ContinueEffect
<1>2. ReportersExist'
  <2>1. \A t \in Tid : pend'[t].kind # "NONE" => thr'[t] # "none"
    BY <1>0, <1>1 DEF PortInv, ReportersExist, Pending
  <2>2. \A t \in Tid : thr'[t] # "none" => proc'[Owner[t]].state # "none"
    BY <1>0, <1>1 DEF PortInv, ReportersExist
  <2> QED
    BY <1>1, <2>1, <2>2 DEF ReportersExist, Pending
<1>3. HandlesOpen'
  <2>1. ASSUME NEW q \in Pid, proc'[q].state # "none", hproc'[q] = NoHandle
        PROVE  \E t \in ThreadsOf(q) : pend'[t].kind = "CREATE_PROCESS"
    <3>1. PICK t \in ThreadsOf(q) : pend[t].kind = "CREATE_PROCESS"
      BY <1>1, <2>1 DEF PortInv, HandlesOpen
    <3>2. t # current /\ t \in Tid
      BY <1>0, <1>1, <2>1, <3>1 DEF ThreadsOf
    <3> QED
      BY <1>1, <3>1, <3>2
  <2>2. \A q \in Pid : hproc'[q] # NoHandle => proc'[q].state # "none"
    BY <1>1 DEF PortInv, HandlesOpen
  <2> QED
    BY <2>1, <2>2 DEF HandlesOpen, ThreadsOf
<1>4. AnnouncedFirst'
  BY <1>0, <1>1 DEF PortInv, AnnouncedFirst, ReportersExist, ThreadsOf, Pending
<1>5. LastReportsExit'
  BY <1>0, <1>1 DEF PortInv, LastReportsExit, Existing, ThreadsOf
<1> QED
  BY <1>2, <1>3, <1>4, <1>5 DEF PortInv

\* ... and, if the handler has left the entry it should, the table right.
LEMMA ContinueKeepsTable ==
  ASSUME TypeOK, PortInv, TableMatchesSystem, current # NoThread,
         NEW status, NEW ps \in [Pid -> ProcState], NEW ts \in [Tid -> ThreadState],
         \A q \in Pid : ps[q].state = "none" <=> proc[q].state = "none",
         \A u \in Tid : ts[u] = "none" <=> thr[u] = "none",
         ContinueDebugEvent(status, ps, ts),
         pend[current].kind # "EXIT_PROCESS",
         \A q \in Pid \ {Owner[current]} : g_Processes'[q] = g_Processes[q],
         g_Processes'[Owner[current]].listed,
         g_Processes'[Owner[current]].hProcess = hproc[Owner[current]],
         \A t \in Tid : g_Processes'[Owner[current]].Threads[t] = "handle" <=>
            IF t = current THEN pend[current].kind # "EXIT_THREAD"
            ELSE g_Processes[Owner[current]].Threads[t] = "handle"
  PROVE  TableMatchesSystem' /\ Followed' = Followed \cup {Owner[current]}
<1> DEFINE p == Owner[current]
<1>0. /\ pend \in [Tid -> Event] /\ thr \in [Tid -> ThreadState] /\ Owner \in [Tid -> Pid]
      /\ current \in Tid /\ p \in Pid /\ NoThread \notin Tid
      /\ thr[current] # "none" /\ hproc[p] # NoHandle
  BY PortAssumption, CurrentFollowed DEF TypeOK, PortTypeOK
<1>1. /\ current' = NoThread /\ hproc' = hproc
      /\ pend'[current].kind = "NONE"
      /\ \A u \in Tid \ {current} : /\ pend'[u] = pend[u]
                                    /\ thr'[u] = "none" <=> thr[u] = "none"
      /\ thr'[current] = "none" <=> pend[current].kind = "EXIT_THREAD"
  BY ContinueEffect
<1>2. Followed' = Followed \cup {p}
  BY <1>0, <1>1 DEF Followed, Announcing
<1>3. TableMatchesSystem'
  BY <1>0, <1>1, <1>2 DEF TableMatchesSystem
<1> QED
  BY <1>2, <1>3

-----------------------------------------------------------------------------
(* Every handler keeps IInv.                                               *)

\* What is said of the log and fDumpWritten, if it is true of the process an
\* event is about.
LEMMA ReportsKeep ==
  ASSUME DumpsRemembered, CrashReported, NEW p \in Pid, UNCHANGED debugOptions,
         Followed' \subseteq Followed \cup {p},
         \A q \in Pid \ {p} : log'[q] = log[q] /\ g_Processes'[q] = g_Processes[q],
         log'[p].crashed \subseteq log'[p].stacks,
         log'[p].dumps = (IF g_Processes'[p].fDumpWritten /\ debugOptions.minidump THEN 1 ELSE 0),
         debugOptions.minidump \/ g_Processes'[p].fDumpWritten,
         log'[p].crashed # {} /\ debugOptions.minidump => log'[p].dumps = 1
  PROVE  DumpsRemembered' /\ CrashReported'
<1>1. DumpsRemembered'
  <2> SUFFICES ASSUME NEW q \in Followed'
               PROVE /\ log'[q].dumps = (IF g_Processes'[q].fDumpWritten /\ debugOptions.minidump
                                         THEN 1 ELSE 0)
                     /\ debugOptions.minidump \/ g_Processes'[q].fDumpWritten
    BY DEF DumpsRemembered
  <2>1. CASE q = p
    BY <2>1
  <2>2. CASE q # p
    BY <2>2 DEF DumpsRemembered, Followed
  <2> QED
    BY <2>1, <2>2
<1>2. CrashReported'
  <2> SUFFICES ASSUME NEW q \in Pid
               PROVE /\ log'[q].crashed \subseteq log'[q].stacks
                     /\ log'[q].dumps <= (IF debugOptions.minidump THEN 1 ELSE 0)
                     /\ log'[q].crashed # {} /\ debugOptions.minidump => log'[q].dumps = 1
    BY DEF CrashReported
  <2>1. CASE q = p
    BY <2>1
  <2>2. CASE q # p
    BY <2>2 DEF CrashReported
  <2> QED
    BY <2>1, <2>2
<1> QED
  BY <1>1, <1>2

\* What the invariant says about the process of the current event.
LEMMA CurrentFacts ==
  ASSUME TypeOK, IInv, current # NoThread
  PROVE  /\ current \in Tid /\ Owner[current] \in Pid
         /\ g_Processes[Owner[current]] \in PROCESS_INFO
         /\ Find(Owner[current]) \in PROCESS_INFO
         /\ g_Processes \in [Pid -> PROCESS_INFO] /\ log \in [Pid -> Log]
         /\ proc \in [Pid -> ProcState] /\ thr \in [Tid -> ThreadState]
         /\ pend[current] \in Event
         /\ pend[current].kind # "CREATE_PROCESS" =>
              /\ Owner[current] \in Followed
              /\ g_Processes[Owner[current]].listed
              /\ g_Processes[Owner[current]].hProcess = hproc[Owner[current]]
              /\ pend[current].kind # "CREATE_THREAD" =>
                   /\ g_Processes[Owner[current]].Threads[current] = "handle"
                   /\ thr[current] # "none"
              /\ log[Owner[current]].dumps =
                   (IF g_Processes[Owner[current]].fDumpWritten /\ debugOptions.minidump THEN 1 ELSE 0)
              /\ debugOptions.minidump \/ g_Processes[Owner[current]].fDumpWritten
              /\ log[Owner[current]].crashed \subseteq log[Owner[current]].stacks
              /\ log[Owner[current]].crashed # {} /\ debugOptions.minidump
                 => log[Owner[current]].dumps = 1
<1>1. /\ current \in Tid /\ Owner[current] \in Pid
      /\ g_Processes[Owner[current]] \in PROCESS_INFO
      /\ Find(Owner[current]) \in PROCESS_INFO
      /\ g_Processes \in [Pid -> PROCESS_INFO] /\ log \in [Pid -> Log]
      /\ proc \in [Pid -> ProcState] /\ thr \in [Tid -> ThreadState]
      /\ pend[current] \in Event
  BY HandlingFacts DEF TypeOK
<1>2. pend[current].kind # "CREATE_PROCESS" =>
        Owner[current] \in Followed /\ thr[current] # "none"
  BY CurrentFollowed DEF IInv
<1> QED
  BY <1>1, <1>2 DEF IInv, TableMatchesSystem, DumpsRemembered, CrashReported

\* Handlers that change at most the thread entry of the current thread and
\* nothing a report depends on.
LEMMA PlainHandlersKeep ==
  ASSUME TypeOK, IInv,
         OnCreateThread \/ OnOutputDebugString \/ OnOtherEvent \/ OnLoadDll \/ OnUnloadDll
  PROVE  IInv'
<1> DEFINE p == Owner[current]
<1>0. /\ current # NoThread /\ loop = "running" /\ loop' = loop /\ log' = log
      /\ debugOptions' = debugOptions
      /\ pend[current].kind \notin {"CREATE_PROCESS", "EXIT_THREAD", "EXIT_PROCESS"}
      /\ ContinueDebugEvent("DBG_CONTINUE", proc, thr)
  BY DEF OnCreateThread, OnOutputDebugString, OnOtherEvent, OnLoadDll, OnUnloadDll, Handling, dbgVars
<1>1. PortInv'
  BY <1>0, CurrentFacts, ContinueKeepsPort DEF IInv
<1>2. /\ \A q \in Pid \ {p} : g_Processes'[q] = g_Processes[q]
      /\ g_Processes'[p].listed
      /\ g_Processes'[p].hProcess = g_Processes[p].hProcess
      /\ g_Processes'[p].fDumpWritten = g_Processes[p].fDumpWritten
      /\ g_Processes'[p].Threads[current] = "handle"
      /\ \A t \in Tid \ {current} : g_Processes'[p].Threads[t] = g_Processes[p].Threads[t]
  <2>1. CASE OnCreateThread
    BY <1>0, <2>1, CurrentFacts, TableTypes DEF OnCreateThread, PROCESS_INFO
  <2>2. CASE OnOutputDebugString
    BY <1>0, <2>2, CurrentFacts, TableTypes DEF OnOutputDebugString, Handling
  <2>3. CASE OnOtherEvent
    BY <1>0, <2>3, CurrentFacts DEF OnOtherEvent, Handling, dbgVars
  <2>4. CASE OnLoadDll \/ OnUnloadDll
    BY <1>0, <2>4, CurrentFacts, TableTypes DEF OnLoadDll, OnUnloadDll, Handling
  <2> QED
    BY <2>1, <2>2, <2>3, <2>4
<1>3. TableMatchesSystem' /\ Followed' = Followed \cup {p}
  <2>1. g_Processes'[p].hProcess = hproc[p]
    BY <1>0, <1>2, CurrentFacts
  <2>2. \A t \in Tid : g_Processes'[p].Threads[t] = "handle" <=>
          IF t = current THEN pend[current].kind # "EXIT_THREAD"
          ELSE g_Processes[p].Threads[t] = "handle"
    BY <1>0, <1>2
  <2>3. /\ proc \in [Pid -> ProcState] /\ thr \in [Tid -> ThreadState]
        /\ PortInv /\ TableMatchesSystem
    BY <1>0, CurrentFacts DEF IInv
  <2> QED
    BY <1>0, <1>2, <2>1, <2>2, <2>3, ContinueKeepsTable
<1>4. DumpsRemembered' /\ CrashReported'
  BY <1>0, <1>2, <1>3, CurrentFacts, ReportsKeep DEF IInv
<1>5. FinishesLast'
  BY <1>0 DEF FinishesLast
<1> QED
  BY <1>1, <1>3, <1>4, <1>5 DEF IInv

\* Announcing a process puts it among those followed, with a fresh log.
LEMMA CreateProcessKeeps ==
  ASSUME TypeOK, IInv, OnCreateProcess
  PROVE  IInv'
<1> DEFINE p == Owner[current]
           info == [Find(p) EXCEPT !.hProcess = hproc[p], !.fDumpWritten = ~debugOptions.minidump,
                                   !.Threads[current] = "handle"]
<1>0. /\ current # NoThread /\ loop = "running" /\ loop' # "finished"
      /\ debugOptions' = debugOptions
      /\ pend[current].kind = "CREATE_PROCESS"
      /\ ContinueDebugEvent("DBG_CONTINUE", proc, thr)
      /\ g_Processes' = [g_Processes EXCEPT ![p] = info]
      /\ log' = [log EXCEPT ![p] = NothingReported]
  BY DEF OnCreateProcess, Handling
<1>1. PortInv'
  BY <1>0, CurrentFacts, ContinueKeepsPort DEF IInv
<1>2. /\ info.listed /\ info.hProcess = hproc[p]
      /\ info.fDumpWritten = ~debugOptions.minidump
      /\ info.Threads[current] = "handle"
      /\ \A t \in Tid \ {current} : info.Threads[t] = g_Processes[p].Threads[t]
  BY <1>0, CurrentFacts, TableTypes DEF PROCESS_INFO
<1> HIDE DEF info
<1>3. /\ g_Processes'[p] = info /\ log'[p] = NothingReported
      /\ \A q \in Pid \ {p} : g_Processes'[q] = g_Processes[q] /\ log'[q] = log[q]
  BY <1>0, CurrentFacts
<1>4. TableMatchesSystem' /\ Followed' = Followed \cup {p}
  <2>1. /\ g_Processes'[p].listed /\ g_Processes'[p].hProcess = hproc[p]
        /\ \A t \in Tid : g_Processes'[p].Threads[t] = "handle" <=>
             IF t = current THEN pend[current].kind # "EXIT_THREAD"
             ELSE g_Processes[p].Threads[t] = "handle"
    BY <1>0, <1>2, <1>3
  <2>2. PortInv /\ TableMatchesSystem /\ proc \in [Pid -> ProcState] /\ thr \in [Tid -> ThreadState]
    BY <1>0, CurrentFacts DEF IInv
  <2>3. \A q \in Pid \ {p} : g_Processes'[q] = g_Processes[q]
    BY <1>3
  <2> QED
    BY <1>0, <2>1, <2>2, <2>3, ContinueKeepsTable
<1>5. DumpsRemembered' /\ CrashReported'
  <2>1. debugOptions.minidump \in BOOLEAN
    BY DebuggerAssumption DEF TypeOK, OptionSpace
  <2> QED
    BY <1>0, <1>2, <1>3, <1>4, <2>1, CurrentFacts, ReportsKeep DEF IInv, NothingReported
<1>6. FinishesLast'
  BY <1>0 DEF FinishesLast
<1> QED
  BY <1>1, <1>4, <1>5, <1>6 DEF IInv

\* The end of a thread takes its handle from the table.
LEMMA ExitThreadKeeps ==
  ASSUME TypeOK, IInv, OnExitThread
  PROVE  IInv'
<1> DEFINE p == Owner[current]
           info == [Find(p) EXCEPT !.Threads[current] = "absent"]
<1>0. /\ current # NoThread /\ loop = "running" /\ loop' = loop
      /\ debugOptions' = debugOptions
      /\ pend[current].kind = "EXIT_THREAD"
      /\ ContinueDebugEvent("DBG_CONTINUE", proc, thr)
      /\ g_Processes' = [g_Processes EXCEPT ![p] = info]
      /\ log' = log \/ log' = [log EXCEPT ![p] = WithStacks(@, {current})]
  BY DEF OnExitThread, Handling
<1>1. PortInv'
  BY <1>0, CurrentFacts, ContinueKeepsPort DEF IInv
<1>2. /\ info.listed /\ info.hProcess = g_Processes[p].hProcess
      /\ info.fDumpWritten = g_Processes[p].fDumpWritten
      /\ info.Threads[current] # "handle"
      /\ \A t \in Tid \ {current} : info.Threads[t] = g_Processes[p].Threads[t]
  BY <1>0, CurrentFacts, TableTypes DEF PROCESS_INFO
<1> HIDE DEF info
<1>3. /\ g_Processes'[p] = info
      /\ \A q \in Pid \ {p} : g_Processes'[q] = g_Processes[q] /\ log'[q] = log[q]
  BY <1>0, CurrentFacts
<1>4. /\ log'[p].crashed = log[p].crashed /\ log'[p].dumps = log[p].dumps
      /\ log[p].stacks \subseteq log'[p].stacks
  <2>1. log[p] \in Log
    BY <1>0, CurrentFacts
  <2>2. log'[p] = log[p] \/ log'[p] = WithStacks(log[p], {current})
    BY <1>0, CurrentFacts
  <2> QED
    BY <2>1, <2>2 DEF WithStacks, Log
<1>5. TableMatchesSystem' /\ Followed' = Followed \cup {p}
  <2>1. g_Processes'[p].hProcess = hproc[p] /\ g_Processes'[p].listed
    BY <1>0, <1>2, <1>3, CurrentFacts
  <2>2. \A t \in Tid : g_Processes'[p].Threads[t] = "handle" <=>
          IF t = current THEN pend[current].kind # "EXIT_THREAD"
          ELSE g_Processes[p].Threads[t] = "handle"
    BY <1>0, <1>2, <1>3
  <2>3. /\ proc \in [Pid -> ProcState] /\ thr \in [Tid -> ThreadState]
        /\ PortInv /\ TableMatchesSystem
    BY <1>0, CurrentFacts DEF IInv
  <2> QED
    BY <1>0, <1>3, <2>1, <2>2, <2>3, ContinueKeepsTable
<1>6. DumpsRemembered' /\ CrashReported'
  BY <1>0, <1>2, <1>3, <1>4, <1>5, CurrentFacts, ReportsKeep DEF IInv
<1>7. FinishesLast'
  BY <1>0 DEF FinishesLast
<1> QED
  BY <1>1, <1>5, <1>6, <1>7 DEF IInv

\* The end of a process takes it from the port and from the table.
LEMMA ExitProcessKeeps ==
  ASSUME TypeOK, IInv, OnExitProcess
  PROVE  IInv'
<1> DEFINE p == Owner[current]
           l == WithDump(log[p], Find(p))
           dumped == [l EXCEPT !.stacks = IF Readable(Find(p), current)
                                          THEN @ \cup {current} ELSE @]
<1>0. /\ current # NoThread /\ loop = "running"
      /\ debugOptions' = debugOptions
      /\ pend[current].kind = "EXIT_PROCESS"
      /\ ContinueDebugEvent("DBG_CONTINUE", proc, thr)
      /\ g_Processes' = [g_Processes EXCEPT ![p] = NoProcessInfo]
      /\ log' = log \/ log' = [log EXCEPT ![p] = dumped]
      /\ loop' = "finished" => \A q \in Pid : ~g_Processes'[q].listed
  BY DEF OnExitProcess, Emptied, Handling
<1>1. /\ pend \in [Tid -> Event] /\ thr \in [Tid -> ThreadState] /\ Owner \in [Tid -> Pid]
      /\ proc \in [Pid -> ProcState] /\ hproc \in [Pid -> Handle \cup {NoHandle}]
      /\ current \in Tid /\ p \in Pid /\ NoThread \notin Tid
      /\ PortInv /\ TableMatchesSystem
  BY <1>0, PortAssumption, CurrentFacts DEF TypeOK, PortTypeOK, IInv
<1>2. \A u \in Tid \ {current} : Owner[u] = p => thr[u] = "none" /\ pend[u].kind = "NONE"
  BY <1>0, <1>1 DEF PortInv, LastReportsExit, ReportersExist, Existing, ThreadsOf, Pending
<1>3. /\ current' = NoThread
      /\ pend'[current].kind = "NONE" /\ thr'[current] = "none"
      /\ \A u \in Tid \ {current} : pend'[u] = pend[u] /\ thr'[u] = thr[u]
      /\ proc'[p].state = "none" /\ hproc'[p] = NoHandle
      /\ \A q \in Pid \ {p} : proc'[q] = proc[q] /\ hproc'[q] = hproc[q]
  BY <1>0, <1>1 DEF ContinueDebugEvent, NoEvent, Report, NotRunning
<1>4. PortInv'
  <2>1. ReportersExist'
    BY <1>1, <1>2, <1>3 DEF PortInv, ReportersExist, Pending
  <2>2. HandlesOpen'
    <3>1. ASSUME NEW q \in Pid, proc'[q].state # "none", hproc'[q] = NoHandle
          PROVE  \E t \in ThreadsOf(q) : pend'[t].kind = "CREATE_PROCESS"
      <4>1. q # p
        BY <1>3, <3>1
      <4>2. PICK t \in ThreadsOf(q) : pend[t].kind = "CREATE_PROCESS"
        BY <1>1, <1>3, <3>1, <4>1 DEF PortInv, HandlesOpen
      <4> QED
        BY <1>3, <4>1, <4>2 DEF ThreadsOf
    <3>2. \A q \in Pid : hproc'[q] # NoHandle => proc'[q].state # "none"
      BY <1>1, <1>3 DEF PortInv, HandlesOpen
    <3> QED
      BY <3>1, <3>2 DEF HandlesOpen, ThreadsOf
  <2>3. AnnouncedFirst'
    BY <1>1, <1>2, <1>3 DEF PortInv, AnnouncedFirst, ThreadsOf
  <2>4. LastReportsExit'
    BY <1>1, <1>2, <1>3 DEF PortInv, LastReportsExit, Existing, ThreadsOf
  <2> QED
    BY <2>1, <2>2, <2>3, <2>4 DEF PortInv
<1>5. Followed' = Followed \ {p}
  BY <1>0, <1>1, <1>3 DEF Followed, Announcing
<1>6. /\ ~g_Processes'[p].listed
      /\ \A t \in Tid : g_Processes'[p].Threads[t] # "handle"
      /\ \A q \in Pid \ {p} : g_Processes'[q] = g_Processes[q]
  BY <1>0, <1>1, CurrentFacts DEF NoProcessInfo
<1>7. TableMatchesSystem'
  BY <1>1, <1>2, <1>3, <1>5, <1>6 DEF TableMatchesSystem
<1>8. \A q \in Pid \ {p} : log'[q] = log[q]
  BY <1>0, <1>1, CurrentFacts
<1>9. DumpsRemembered'
  BY <1>0, <1>5, <1>6, <1>8 DEF IInv, DumpsRemembered, Followed
<1>10. /\ log'[p].crashed \subseteq log'[p].stacks
       /\ log'[p].dumps <= (IF debugOptions.minidump THEN 1 ELSE 0)
       /\ log'[p].crashed # {} /\ debugOptions.minidump => log'[p].dumps = 1
  <2>1. log[p] \in Log /\ (log'[p] = log[p] \/ log'[p] = dumped)
    BY <1>0, <1>1, CurrentFacts
  <2>2. Find(p).fDumpWritten = g_Processes[p].fDumpWritten
    BY <1>1, TableTypes
  <2>3. /\ l.crashed = log[p].crashed /\ l.stacks = log[p].stacks
        /\ l.dumps = IF Find(p).fDumpWritten THEN log[p].dumps ELSE log[p].dumps + 1
        /\ l \in Log
    <3>1. log[p].dumps # 2
      BY <1>0, CurrentFacts
    <3>2. CASE Find(p).fDumpWritten
      BY <2>1, <3>2 DEF WithDump
    <3>3. CASE ~Find(p).fDumpWritten
      BY <2>1, <3>1, <3>3 DEF WithDump, Log
    <3> QED
      BY <3>2, <3>3
  <2> HIDE DEF l
  <2>4. /\ dumped.crashed = log[p].crashed /\ dumped.dumps = l.dumps
        /\ log[p].stacks \subseteq dumped.stacks
    BY <2>3 DEF Log
  <2> HIDE DEF dumped
  <2> QED
    BY <1>0, <2>1, <2>2, <2>3, <2>4, CurrentFacts
<1>11. CrashReported'
  BY <1>0, <1>8, <1>10 DEF IInv, CrashReported
<1>12. FinishesLast'
  BY <1>0, <1>7 DEF FinishesLast, TableMatchesSystem, Followed
<1> QED
  BY <1>4, <1>7, <1>9, <1>11, <1>12 DEF IInv

\* The entry after an exception, as the table's invariant sees it.
LEMMA ExceptionKeepsTable ==
  ASSUME TypeOK, IInv, Handling("EXCEPTION"),
         NEW status, NEW ps \in [Pid -> ProcState],
         \A q \in Pid : ps[q].state = "none" <=> proc[q].state = "none",
         ContinueDebugEvent(status, ps, ResumedThreads(Find(Owner[current]), pend[current])),
         NEW info, g_Processes' = [g_Processes EXCEPT ![Owner[current]] = info],
         info.listed = Noted(Find(Owner[current]), pend[current]).listed,
         info.hProcess = Noted(Find(Owner[current]), pend[current]).hProcess,
         info.Threads = Noted(Find(Owner[current]), pend[current]).Threads
  PROVE  PortInv' /\ TableMatchesSystem' /\ Followed' = Followed \cup {Owner[current]}
<1> DEFINE p == Owner[current]
           ts == ResumedThreads(Find(p), pend[current])
<1>0. /\ current # NoThread /\ pend[current].kind = "EXCEPTION"
      /\ PortInv /\ TableMatchesSystem
  BY DEF Handling, IInv
<1>1. ts \in [Tid -> ThreadState] /\ \A u \in Tid : ts[u] = "none" <=> thr[u] = "none"
  BY ResumedType
<1>2. PortInv'
  BY <1>0, <1>1, ContinueKeepsPort
<1>3. /\ g_Processes'[p] = info
      /\ \A q \in Pid \ {p} : g_Processes'[q] = g_Processes[q]
  BY <1>0, CurrentFacts
<1>4. /\ info.listed /\ info.hProcess = hproc[p]
      /\ \A t \in Tid : info.Threads[t] = "handle" <=> g_Processes[p].Threads[t] = "handle"
      /\ g_Processes[p].Threads[current] = "handle"
  BY <1>0, CurrentFacts, TableTypes, NotedType
<1>5. \A t \in Tid : g_Processes'[p].Threads[t] = "handle" <=>
        IF t = current THEN pend[current].kind # "EXIT_THREAD"
        ELSE g_Processes[p].Threads[t] = "handle"
  BY <1>0, <1>3, <1>4
<1>6. TableMatchesSystem' /\ Followed' = Followed \cup {p}
  <2>1. /\ g_Processes'[p].listed /\ g_Processes'[p].hProcess = hproc[p]
        /\ pend[current].kind # "EXIT_PROCESS"
    BY <1>0, <1>3, <1>4
  <2>2. ContinueDebugEvent(status, ps, ts)
    OBVIOUS
  <2> HIDE DEF ts
  <2> QED
    BY <1>0, <1>1, <1>3, <1>5, <2>1, <2>2, ContinueKeepsTable, SMTT(30)
<1> QED
  BY <1>2, <1>6

\* An exception that is ignored or declined changes no handle and no report.
LEMMA QuietExceptionsKeep ==
  ASSUME TypeOK, IInv, OnIgnoredException \/ OnDeclinedException
  PROVE  IInv'
<1> DEFINE p == Owner[current]
           e == pend[current]
           info == Noted(Find(p), e)
<1>0. /\ current # NoThread /\ loop = "running" /\ loop' = loop
      /\ debugOptions' = debugOptions /\ e.kind = "EXCEPTION" /\ Handling("EXCEPTION")
      /\ g_Processes' = [g_Processes EXCEPT ![p] = info]
      /\ log' = log \/ log' = [log EXCEPT ![p].ignored = @ + 1]
  BY DEF OnIgnoredException, OnDeclinedException, Handling, NoteException
<1>1. \E status : ContinueDebugEvent(status, proc, ResumedThreads(Find(p), e))
  BY DEF OnIgnoredException, OnDeclinedException
<1>2. proc \in [Pid -> ProcState]
  BY <1>0, CurrentFacts
<1>3. PortInv' /\ TableMatchesSystem' /\ Followed' = Followed \cup {p}
  BY <1>0, <1>1, <1>2, ExceptionKeepsTable
<1>4. info.fDumpWritten = g_Processes[p].fDumpWritten
  BY <1>0, CurrentFacts, TableTypes, NotedType
<1> HIDE DEF info
<1>5. /\ g_Processes'[p] = info
      /\ \A q \in Pid \ {p} : g_Processes'[q] = g_Processes[q] /\ log'[q] = log[q]
  BY <1>0, CurrentFacts
<1>6. /\ log'[p].crashed = log[p].crashed /\ log'[p].dumps = log[p].dumps
      /\ log'[p].stacks = log[p].stacks
  <2>1. log[p] \in Log
    BY <1>0, CurrentFacts
  <2>2. log'[p] = log[p] \/ log'[p] = [log[p] EXCEPT !.ignored = @ + 1]
    BY <1>0, CurrentFacts
  <2> QED
    BY <2>1, <2>2 DEF Log
<1>7. DumpsRemembered' /\ CrashReported'
  BY <1>0, <1>3, <1>4, <1>5, <1>6, CurrentFacts, ReportsKeep DEF IInv
<1>8. FinishesLast'
  BY <1>0 DEF FinishesLast
<1> QED
  BY <1>3, <1>7, <1>8 DEF IInv

\* A crash: the thread's handle is in the table, so its stack is dumped, and
\* the first dump of the process is the only one that writes a minidump.
LEMMA ReportedExceptionKeeps ==
  ASSUME TypeOK, IInv, OnReportedException
  PROVE  IInv'
<1> DEFINE p == Owner[current]
           e == pend[current]
           noted == Noted(Find(p), e)
           stacks == StacksFor(noted, e)
           dump == ~e.first /\ stacks # {}
           info == IF dump THEN writeDump(noted) ELSE noted
           ps == IF e.first THEN proc ELSE Terminated(p, NTSTATUS)
           l == IF dump THEN WithDump(log[p], noted) ELSE log[p]
           reported == WithStacks(l, stacks)
           final == [reported EXCEPT !.crashed = IF e.first THEN @ ELSE @ \cup {current}]
<1>0. /\ current # NoThread /\ loop = "running" /\ loop' = loop
      /\ debugOptions' = debugOptions /\ e.kind = "EXCEPTION" /\ Handling("EXCEPTION")
      /\ g_Processes' = [g_Processes EXCEPT ![p] = info]
      /\ log' = [log EXCEPT ![p] = final]
  BY DEF OnReportedException, Kills, Handling, NoteException
<1>1. \E status : ContinueDebugEvent(status, ps, ResumedThreads(Find(p), e))
  BY DEF OnReportedException, Kills
<1>2. /\ ps \in [Pid -> ProcState]
      /\ \A q \in Pid : ps[q].state = "none" <=> proc[q].state = "none"
  BY <1>0, CurrentFacts, TerminatedType DEF Terminated
<1>3. /\ noted \in PROCESS_INFO
      /\ noted.fDumpWritten = g_Processes[p].fDumpWritten
      /\ \A t \in Tid : noted.Threads[t] = "handle" <=> g_Processes[p].Threads[t] = "handle"
  BY <1>0, CurrentFacts, TableTypes, NotedType
<1>4. stacks \in SUBSET Tid /\ current \in stacks
  BY <1>0, <1>3, CurrentFacts DEF StacksFor, Readable
<1>5. /\ info.listed = noted.listed /\ info.hProcess = noted.hProcess
      /\ info.Threads = noted.Threads
      /\ info.fDumpWritten = (noted.fDumpWritten \/ ~e.first)
  <2> HIDE DEF noted
  <2>1. noted.fDumpWritten \in BOOLEAN /\ e.first \in BOOLEAN
    BY <1>0, <1>3, CurrentFacts DEF PROCESS_INFO, Event
  <2> QED
    BY <1>3, <1>4, <2>1 DEF writeDump, PROCESS_INFO
<1>6. PortInv' /\ TableMatchesSystem' /\ Followed' = Followed \cup {p}
  BY <1>0, <1>1, <1>2, <1>5, ExceptionKeepsTable
<1>7. /\ l \in Log /\ l.crashed = log[p].crashed /\ l.stacks = log[p].stacks
      /\ l.dumps = IF ~e.first /\ ~noted.fDumpWritten THEN log[p].dumps + 1 ELSE log[p].dumps
  <2>1. log[p] \in Log /\ log[p].dumps # 2
    BY <1>0, CurrentFacts
  <2> HIDE DEF noted
  <2>2. CASE ~e.first /\ ~noted.fDumpWritten
    BY <1>4, <2>1, <2>2 DEF WithDump, Log
  <2>3. CASE e.first \/ noted.fDumpWritten
    BY <2>1, <2>3 DEF WithDump
  <2> QED
    BY <2>2, <2>3
<1> HIDE DEF noted, stacks, l, info
<1>8. /\ final.stacks = log[p].stacks \cup stacks
      /\ final.crashed = IF e.first THEN log[p].crashed ELSE log[p].crashed \cup {current}
      /\ final.dumps = l.dumps
  BY <1>7 DEF WithStacks, Log
<1> HIDE DEF final
<1>9. /\ g_Processes'[p] = info /\ log'[p] = final
      /\ \A q \in Pid \ {p} : g_Processes'[q] = g_Processes[q] /\ log'[q] = log[q]
  BY <1>0, CurrentFacts
<1>10. /\ final.crashed \subseteq final.stacks
       /\ final.dumps = (IF info.fDumpWritten /\ debugOptions.minidump THEN 1 ELSE 0)
       /\ debugOptions.minidump \/ info.fDumpWritten
       /\ final.crashed # {} /\ debugOptions.minidump => final.dumps = 1
  <2>1. final.crashed \subseteq final.stacks
    BY <1>0, <1>4, <1>8, CurrentFacts
  <2>2. info.fDumpWritten = (g_Processes[p].fDumpWritten \/ ~e.first)
    BY <1>3, <1>5
  <2>3. final.dumps = IF ~e.first /\ ~g_Processes[p].fDumpWritten
                      THEN log[p].dumps + 1 ELSE log[p].dumps
    BY <1>3, <1>7, <1>8
  <2>4. final.crashed = {} \/ ~e.first \/ log[p].crashed # {}
    BY <1>8
  <2>5. /\ log[p].dumps = (IF g_Processes[p].fDumpWritten /\ debugOptions.minidump THEN 1 ELSE 0)
        /\ debugOptions.minidump \/ g_Processes[p].fDumpWritten
        /\ log[p].crashed # {} /\ debugOptions.minidump => log[p].dumps = 1
        /\ g_Processes[p].fDumpWritten \in BOOLEAN
        /\ e.first \in BOOLEAN
    BY <1>0, CurrentFacts DEF PROCESS_INFO, Event
  <2>6. /\ final.dumps = (IF info.fDumpWritten /\ debugOptions.minidump THEN 1 ELSE 0)
        /\ debugOptions.minidump \/ info.fDumpWritten
    <3>1. CASE ~e.first /\ ~g_Processes[p].fDumpWritten
      <4>1. info.fDumpWritten /\ debugOptions.minidump
        BY <2>2, <2>5, <3>1
      <4>2. log[p].dumps = 0
        BY <2>5, <3>1
      <4>3. final.dumps = 0 + 1
        BY <2>3, <3>1, <4>2
      <4> QED
        BY <4>1, <4>3
    <3>2. CASE e.first \/ g_Processes[p].fDumpWritten
      BY <2>2, <2>3, <2>5, <3>2
    <3> QED
      BY <3>1, <3>2
  <2>7. final.crashed # {} /\ debugOptions.minidump => final.dumps = 1
    <3>1. CASE e.first
      BY <2>3, <2>4, <2>5, <3>1
    <3>2. CASE ~e.first
      BY <2>2, <2>6, <3>2
    <3> QED
      BY <3>1, <3>2
  <2> QED
    BY <2>1, <2>6, <2>7
<1>11. DumpsRemembered' /\ CrashReported'
  BY <1>0, <1>6, <1>9, <1>10, CurrentFacts, ReportsKeep DEF IInv
<1>12. FinishesLast'
  BY <1>0 DEF FinishesLast
<1> QED
  BY <1>6, <1>11, <1>12 DEF IInv

-----------------------------------------------------------------------------
(* The invariant, initially and in every step, and the theorems.           *)

\* The invariant holds when the loop is entered.
LEMMA InitInv == Init => IInv
<1> SUFFICES ASSUME Init PROVE IInv
  OBVIOUS
<1> USE PortAssumption
<1>1. /\ current = NoThread /\ loop = "running"
      /\ \A p \in Pid : hproc[p] = NoHandle
      /\ \A p \in Pid : (proc[p].state # "none") <=> (p = Root)
      /\ \A p \in Pid : g_Processes[p] = NoProcessInfo /\ log[p] = NothingReported
  BY DEF Init, PortInit, Running, NotRunning
<1>2. PICK main \in Tid :
        /\ Owner[main] = Root /\ pend[main].kind = "CREATE_PROCESS"
        /\ \A t \in Tid \ {main} : pend[t].kind \in {"NONE", "CREATE_THREAD"}
        /\ \A t \in Tid : thr[t] # "none" <=> pend[t].kind # "NONE"
        /\ \A t \in Tid : thr[t] # "none" => Owner[t] = Root
  <2> DEFINE Good(main) ==
        /\ Owner[main] = Root /\ pend[main].kind = "CREATE_PROCESS"
        /\ \A t \in Tid \ {main} : pend[t].kind \in {"NONE", "CREATE_THREAD"}
        /\ \A t \in Tid : thr[t] # "none" <=> pend[t].kind # "NONE"
        /\ \A t \in Tid : thr[t] # "none" => Owner[t] = Root
  <2>1. CASE Launched
    <3>1. PICK main \in ThreadsOf(Root) :
            /\ thr = [t \in Tid |-> IF t = main THEN "starting" ELSE "none"]
            /\ pend = [t \in Tid |-> IF t = main THEN Report("CREATE_PROCESS", None) ELSE NoEvent]
      BY <2>1 DEF Launched
    <3>2. Good(main)
      BY <3>1 DEF ThreadsOf, Report, NoEvent
    <3> QED
      BY <3>2 DEF ThreadsOf
  <2>2. ASSUME NEW faulted, Attached(faulted) PROVE \E main \in Tid : Good(main)
    <3>1. PICK main \in ThreadsOf(Root), injected \in Tid, others \in SUBSET Tid :
            /\ injected \in ThreadsOf(Root) \ {main}
            /\ others \subseteq ThreadsOf(Root) \ {main, injected}
            /\ thr = [t \in Tid |-> IF t = injected THEN "starting"
                                   ELSE IF t \notin {main} \cup others THEN "none"
                                   ELSE IF t = debugOptions.dwThreadId THEN "suspended"
                                   ELSE IF t \in faulted THEN "faulted" ELSE "live"]
            /\ pend = [t \in Tid |-> IF t = main THEN Report("CREATE_PROCESS", None)
                                    ELSE IF t \in {injected} \cup others
                                    THEN Report("CREATE_THREAD", None) ELSE NoEvent]
      BY <2>2 DEF Attached, ThreadsOf
    <3>2. Good(main)
      BY <3>1 DEF ThreadsOf, Report, NoEvent
    <3> QED
      BY <3>2 DEF ThreadsOf
  <2> QED
    BY <2>1, <2>2 DEF Init
<1>3. PortInv
  BY <1>1, <1>2 DEF PortInv, ReportersExist, HandlesOpen, AnnouncedFirst, LastReportsExit,
     Existing, ThreadsOf, Pending
<1>4. Followed = {}
  BY <1>1 DEF Followed
<1>5. TableMatchesSystem
  BY <1>1, <1>2, <1>4 DEF TableMatchesSystem, NoProcessInfo
<1>6. FinishesLast /\ DumpsRemembered
  BY <1>1, <1>4 DEF FinishesLast, DumpsRemembered
<1>7. CrashReported
  BY <1>1 DEF CrashReported, NothingReported
<1> QED
  BY <1>3, <1>5, <1>6, <1>7 DEF IInv

\* Every step preserves the invariant.
LEMMA StepInv ==
  ASSUME TypeOK, IInv, [Next]_vars
  PROVE  IInv'
\* Steps that leave the debugger alone keep what it knows and has reported.
<1>1. ASSUME UNCHANGED dbgVars, loop = "running",
             PortInv' /\ TableMatchesSystem' /\ Followed' = Followed
      PROVE  IInv'
  BY <1>1 DEF dbgVars, IInv, FinishesLast, DumpsRemembered, CrashReported
<1>2. ASSUME NEW t \in Tid, ProgramStep(t) PROVE IInv'
  BY <1>1, <1>2, ProgramKeeps DEF ProgramStep, IInv, dbgVars
<1>3. ASSUME NEW t \in Tid, KernelStep(t) PROVE IInv'
  BY <1>1, <1>3, KernelKeeps DEF KernelStep, IInv, dbgVars
<1>4. ASSUME NEW t \in Tid, WaitStep(t) PROVE IInv'
  BY <1>1, <1>4, WaitKeeps DEF WaitStep, IInv, dbgVars
<1>5. CASE HandleEvent
  BY <1>5, PlainHandlersKeep, CreateProcessKeeps, ExitThreadKeeps, ExitProcessKeeps,
     QuietExceptionsKeep, ReportedExceptionKeeps DEF HandleEvent
<1>6. ASSUME UNCHANGED <<portVars, debugOptions, g_Processes, log>>,
             loop' = loop \/ loop' # "finished"
      PROVE  IInv'
  BY <1>6 DEF portVars, IInv, PortInv, ReportersExist, HandlesOpen, AnnouncedFirst, LastReportsExit,
     Existing, Pending, TableMatchesSystem, FinishesLast, DumpsRemembered, CrashReported,
     Followed, Announcing
<1>7. CASE WaitFails
  BY <1>6, <1>7 DEF WaitFails
<1>8. CASE UNCHANGED vars
  BY <1>6, <1>8 DEF vars, dbgVars
<1> QED
  BY <1>2, <1>3, <1>4, <1>5, <1>7, <1>8 DEF Next, Stopped

\* TypeOK and IInv hold in every reachable state of DebugMainLoop and the
\* programs it debugs.
THEOREM Invariance == Spec => [](TypeOK /\ IInv)
<1>1. Init => TypeOK /\ IInv
  BY InitType, InitInv
<1>2. TypeOK /\ IInv /\ [Next]_vars => (TypeOK /\ IInv)'
  <2> SUFFICES ASSUME TypeOK, IInv, [Next]_vars PROVE TypeOK' /\ IInv'
    OBVIOUS
  <2>1. AnnouncedHandle
    BY DEF IInv, PortInv, AnnouncedFirst, AnnouncedHandle, ReportersExist, TypeOK, PortTypeOK
  <2> QED
    BY <2>1, TypeStep, StepInv
<1> QED
  BY <1>1, <1>2, PTL DEF Spec

\* The state is always of its type: in particular no handler is entered with
\* a table entry that operator[] of std::map could not have produced.
THEOREM Typing == Spec => []TypeOK
BY Invariance, PTL

\* g_Processes has an entry, with the right handles, for exactly the processes
\* and threads the system has announced and not yet reported the end of, for
\* any number of processes and threads and any order of their events.
THEOREM TableCorrect == Spec => []TableMatchesSystem
<1>1. IInv => TableMatchesSystem
  BY DEF IInv
<1> QED
  BY <1>1, Invariance, PTL

\* Whatever crashes is reported before its process goes: each thread that had
\* a second-chance exception with its stack, the process with one minidump.
THEOREM CrashesReported == Spec => []CrashReported
<1>1. IInv => CrashReported
  BY DEF IInv
<1> QED
  BY <1>1, Invariance, PTL

\* DebugMainLoop returns TRUE only after every process it was told of has gone.
THEOREM LoopFinishesLast == Spec => []FinishesLast
<1>1. IInv => FinishesLast
  BY DEF IInv
<1> QED
  BY <1>1, Invariance, PTL

-----------------------------------------------------------------------------
(* The port without the debugger's table.                                  *)

\* A process whose end is being reported is dying, with the code reported.
ExitsMatch ==
  \A t \in Tid : pend[t].kind = "EXIT_PROCESS" =>
    proc[Owner[t]] = [state |-> "dying", code |-> pend[t].code]

BarePort == ReportersExist /\ AnnouncedHandle /\ LastReportsExit /\ ExitsMatch

USE DEF ProcState, ThreadState

\* An existing thread that is not in a report makes one.
LEMMA ReportKeepsPort ==
  ASSUME PortTypeOK, BarePort, NEW t \in Tid, ~Pending(t), thr[t] # "none",
         pend'[t].kind # "NONE",
         pend'[t].kind = "EXIT_PROCESS" =>
           /\ Existing(Owner[t]) = {t}
           /\ proc[Owner[t]] = [state |-> "dying", code |-> pend'[t].code],
         \A u \in Tid \ {t} : pend'[u] = pend[u],
         \A u \in Tid : thr'[u] = "none" <=> thr[u] = "none",
         UNCHANGED <<proc, hproc, current>>
  PROVE  BarePort'
<1>0. Owner \in [Tid -> Pid] /\ current \in Tid \cup {NoThread} /\ current # t
  BY PortAssumption DEF PortTypeOK, BarePort, ReportersExist
<1>1. ReportersExist'
  BY <1>0 DEF BarePort, ReportersExist, Pending
<1>2. AnnouncedHandle'
  BY <1>0 DEF BarePort, AnnouncedHandle
<1>3. LastReportsExit'
  BY <1>0 DEF BarePort, LastReportsExit, Existing, ThreadsOf
<1>4. ExitsMatch'
  BY <1>0 DEF BarePort, ExitsMatch
<1> QED
  BY <1>1, <1>2, <1>3, <1>4 DEF BarePort

\* Processes that were alive may have been terminated meanwhile.
LEMMA TerminatedKeepsPort ==
  ASSUME PortTypeOK, BarePort, UNCHANGED <<thr, pend, hproc, current>>,
         NEW p \in Pid, NEW c, proc' = Terminated(p, c)
  PROVE  BarePort'
<1>0. Owner \in [Tid -> Pid] /\ proc \in [Pid -> ProcState]
  BY PortAssumption DEF PortTypeOK
<1>1. \A q \in Pid : proc'[q] = proc[q] \/ (proc[q].state = "alive" /\ proc'[q].state = "dying")
  BY <1>0 DEF Terminated
<1>2. ReportersExist'
  BY <1>0, <1>1 DEF BarePort, ReportersExist, Pending
<1>3. AnnouncedHandle' /\ LastReportsExit'
  BY DEF BarePort, AnnouncedHandle, LastReportsExit, Existing, ThreadsOf
<1>4. ExitsMatch'
  BY <1>0, <1>1 DEF BarePort, ExitsMatch
<1> QED
  BY <1>2, <1>3, <1>4 DEF BarePort

\* An idle thread starts another one.
LEMMA StartThreadKeepsPort ==
  ASSUME PortTypeOK, BarePort, NEW t \in Tid, NEW u \in Tid, StartThread(t, u)
  PROVE  BarePort'
<1>0. /\ pend \in [Tid -> Event] /\ thr \in [Tid -> ThreadState] /\ Owner \in [Tid -> Pid]
      /\ current \in Tid \cup {NoThread} /\ NoThread \notin Tid
  BY PortAssumption DEF PortTypeOK
<1>1. /\ Owner[u] = Owner[t] /\ thr[u] = "none" /\ thr'[u] = "live"
      /\ pend'[u].kind = "CREATE_THREAD" /\ ~Pending(u) /\ u # current
      /\ \A v \in Tid \ {u} : pend'[v] = pend[v] /\ thr'[v] = thr[v]
      /\ UNCHANGED <<proc, hproc, current>>
      /\ thr[t] # "none" /\ ~Pending(t)
  BY <1>0 DEF StartThread, Executing, Report, BarePort, ReportersExist
<1>2. ReportersExist'
  BY <1>0, <1>1 DEF BarePort, ReportersExist, Pending
<1>3. AnnouncedHandle'
  BY <1>0, <1>1 DEF BarePort, AnnouncedHandle
<1>4. LastReportsExit'
  BY <1>0, <1>1 DEF BarePort, LastReportsExit, Existing, ThreadsOf, Pending
<1>5. ExitsMatch'
  BY <1>0, <1>1 DEF BarePort, ExitsMatch
<1> QED
  BY <1>2, <1>3, <1>4, <1>5 DEF BarePort

\* A thread starts another process.
LEMMA SpawnKeepsPort ==
  ASSUME PortTypeOK, BarePort, NEW t \in Tid, NEW u \in Tid, Spawn(t, u)
  PROVE  BarePort'
<1> DEFINE q == Owner[u]
<1>0. /\ pend \in [Tid -> Event] /\ thr \in [Tid -> ThreadState] /\ Owner \in [Tid -> Pid]
      /\ proc \in [Pid -> ProcState] /\ current \in Tid \cup {NoThread} /\ NoThread \notin Tid
  BY PortAssumption DEF PortTypeOK
<1>1. /\ proc[q].state = "none" /\ proc'[q].state = "alive"
      /\ \A r \in Pid \ {q} : proc'[r] = proc[r]
      /\ thr'[u] = "starting" /\ pend'[u].kind = "CREATE_PROCESS"
      /\ \A v \in Tid \ {u} : pend'[v] = pend[v] /\ thr'[v] = thr[v]
      /\ UNCHANGED <<hproc, current>>
  BY <1>0 DEF Spawn, Report, Running
<1>2. \A v \in Tid : Owner[v] = q => thr[v] = "none" /\ ~Pending(v)
  BY <1>0, <1>1 DEF BarePort, ReportersExist
<1>3. u # current
  BY <1>0, <1>2 DEF BarePort, ReportersExist
<1>4. ReportersExist'
  <2>1. /\ \A v \in Tid : Pending(v) => thr[v] # "none"
        /\ \A v \in Tid : thr[v] # "none" => proc[Owner[v]].state # "none"
        /\ current # NoThread => Pending(current)
    BY DEF BarePort, ReportersExist
  <2>2. \A v \in Tid : Pending(v)' => thr'[v] # "none"
    BY <1>1, <2>1 DEF Pending
  <2>3. ASSUME NEW v \in Tid, thr'[v] # "none"
        PROVE  proc'[Owner[v]].state # "none"
    <3>1. CASE Owner[v] = q
      BY <1>1, <3>1
    <3>2. CASE Owner[v] # q
      <4>1. v # u /\ Owner[v] \in Pid \ {q}
        BY <1>0, <3>2
      <4> QED BY <1>1, <2>1, <2>3, <4>1
    <3> QED BY <3>1, <3>2
  <2>4. current' # NoThread => Pending(current)'
    BY <1>0, <1>1, <1>3, <2>1 DEF Pending
  <2> QED BY <2>2, <2>3, <2>4 DEF ReportersExist
<1>5. AnnouncedHandle'
  BY <1>0, <1>1, <1>3 DEF BarePort, AnnouncedHandle
<1>6. LastReportsExit'
  BY <1>0, <1>1, <1>2 DEF BarePort, LastReportsExit, Existing, ThreadsOf, Pending
<1>7. ExitsMatch'
  BY <1>0, <1>1, <1>2 DEF BarePort, ExitsMatch, Pending
<1> QED
  BY <1>4, <1>5, <1>6, <1>7 DEF BarePort

\* Whatever a program does for one of its threads.
LEMMA ProgramKeepsPort ==
  ASSUME PortTypeOK, BarePort, NEW t \in Tid, Program(t)
  PROVE  BarePort'
<1>0. /\ pend \in [Tid -> Event] /\ thr \in [Tid -> ThreadState]
  BY DEF PortTypeOK
<1> USE Kinds
<1>1. CASE \E u \in Tid : StartThread(t, u) \/ Spawn(t, u)
  BY <1>1, StartThreadKeepsPort, SpawnKeepsPort
<1>2. ASSUME Executing(t), pend'[t].kind \notin {"NONE", "EXIT_PROCESS"},
             \A u \in Tid \ {t} : pend'[u] = pend[u], UNCHANGED <<proc, thr, hproc, current>>
      PROVE  BarePort'
  BY <1>2, ReportKeepsPort DEF Executing
<1>3. CASE \E e \in Raises : Raise(t, e)
  <2>1. PICK e \in Raises : Raise(t, e)
    BY <1>3
  <2> QED
    BY <1>0, <1>2, <2>1 DEF Raise
<1>4. CASE CatchException(t)
  BY <1>4 DEF CatchException, BarePort, ReportersExist, AnnouncedHandle, LastReportsExit,
              ExitsMatch, Pending, Existing, ThreadsOf
<1>5. CASE \E c \in ExitCode : ExitThread(t, c)
  BY <1>0, <1>2, <1>5 DEF ExitThread
<1>6. CASE \E q \in Pid, c \in ExitCode : EndProcess(t, q, c)
  BY <1>6, TerminatedKeepsPort DEF EndProcess
<1>7. CASE \E d \in Dll : LoadDll(t, d) \/ UnloadDll(t, d)
  BY <1>0, <1>2, <1>7 DEF LoadDll, UnloadDll
<1>8. CASE \E kind \in {"OUTPUT_DEBUG_STRING", "RIP"} : OtherReport(t, kind)
  BY <1>0, <1>2, <1>8 DEF OtherReport
<1> QED
  BY <1>1, <1>3, <1>4, <1>5, <1>6, <1>7, <1>8 DEF Program

\* The steps of the kernel.
LEMMA KernelKeepsPort ==
  ASSUME PortTypeOK, BarePort, NEW t \in Tid, NEW signalled, Kernel(t, signalled)
  PROVE  BarePort'
<1>0. /\ pend \in [Tid -> Event] /\ thr \in [Tid -> ThreadState]
      /\ proc \in [Pid -> ProcState] /\ Owner \in [Tid -> Pid]
  BY PortAssumption DEF PortTypeOK
<1> USE Kinds
<1>1. CASE LoaderBreakpoint(t)
  BY <1>0, <1>1, ReportKeepsPort DEF LoaderBreakpoint
<1>2. CASE SecondChance(t)
  BY <1>0, <1>2, ReportKeepsPort DEF SecondChance
<1>3. CASE FilterReturns(t, signalled)
  BY <1>0, <1>3, ReportKeepsPort DEF FilterReturns
<1>4. CASE Die(t)
  <2> DEFINE p == Owner[t]
             last == \A u \in Existing(p) \ {t} : pend[u].kind = "EXIT_THREAD"
  <2>1. /\ ~Pending(t) /\ thr[t] # "none" /\ UNCHANGED <<proc, thr, hproc, current>>
        /\ \A u \in Tid \ {t} : pend'[u] = pend[u]
        /\ pend'[t] = Exit(IF last THEN "EXIT_PROCESS" ELSE "EXIT_THREAD", proc[p].code)
        /\ last => Existing(p) = {t}
        /\ proc[p].state = "dying"
    BY <1>0, <1>4 DEF Die
  <2>2. /\ pend'[t].kind # "NONE" /\ pend'[t].code = proc[p].code
        /\ pend'[t].kind = "EXIT_PROCESS" => last
    BY <2>1 DEF Exit
  <2>3. proc[p] = [state |-> "dying", code |-> proc[p].code]
    BY <1>0, <2>1
  <2> QED
    BY <2>1, <2>2, <2>3, ReportKeepsPort
<1> QED
  BY <1>1, <1>2, <1>3, <1>4 DEF Kernel

\* WaitForDebugEvent comes with a handle of the process it announces.
LEMMA WaitKeepsPort ==
  ASSUME PortTypeOK, BarePort, NEW t \in Tid, WaitForDebugEvent(t)
  PROVE  BarePort'
<1>0. /\ Owner \in [Tid -> Pid] /\ hproc \in [Pid -> Handle \cup {NoHandle}]
      /\ NoHandle \notin Handle
  BY PortAssumption DEF PortTypeOK
<1>1. Pending(t) /\ current' = t /\ UNCHANGED <<proc, thr, pend>>
  BY DEF WaitForDebugEvent, Deliverable
<1>2. ReportersExist' /\ LastReportsExit' /\ ExitsMatch'
  BY <1>1 DEF BarePort, ReportersExist, LastReportsExit, ExitsMatch, Pending, Existing, ThreadsOf
<1>3. AnnouncedHandle'
  BY <1>0, <1>1 DEF WaitForDebugEvent, AnnouncedHandle
<1> QED
  BY <1>2, <1>3 DEF BarePort

\* ContinueDebugEvent; the handler may have terminated the process and
\* resumed threads before.
LEMMA ContinueKeepsBarePort ==
  ASSUME PortTypeOK, BarePort, current # NoThread,
         NEW status, NEW ps \in [Pid -> ProcState], NEW ts \in [Tid -> ThreadState],
         \A q \in Pid : ps[q] = proc[q] \/ (proc[q].state = "alive" /\ ps[q].state = "dying"),
         \A u \in Tid : ts[u] = "none" <=> thr[u] = "none",
         ContinueDebugEvent(status, ps, ts)
  PROVE  BarePort'
<1> DEFINE t == current
           p == Owner[t]
           kind == pend[t].kind
<1>0. /\ Owner \in [Tid -> Pid] /\ pend \in [Tid -> Event] /\ t \in Tid /\ p \in Pid
      /\ proc \in [Pid -> ProcState]
  BY PortAssumption DEF PortTypeOK
<1>1. /\ pend'[t].kind = "NONE" /\ current' = NoThread
      /\ \A u \in Tid \ {t} : pend'[u] = pend[u] /\ (thr'[u] = "none" <=> thr[u] = "none")
      /\ kind \in {"EXIT_THREAD", "EXIT_PROCESS"} => thr'[t] = "none"
      /\ kind \notin {"EXIT_THREAD", "EXIT_PROCESS"} => (thr'[t] = "none" <=> thr[t] = "none")
  BY <1>0 DEF ContinueDebugEvent, NoEvent, Report
<1>2. /\ \A q \in Pid \ {p} :
           proc'[q] = proc[q] \/ (proc[q].state = "alive" /\ proc'[q].state = "dying")
      /\ kind # "EXIT_PROCESS" =>
           proc'[p] = proc[p] \/ (proc[p].state = "alive" /\ proc'[p].state = "dying")
  <2>1. CASE kind = "EXIT_PROCESS"
    BY <1>0, <2>1 DEF ContinueDebugEvent
  <2>2. CASE kind # "EXIT_PROCESS"
    BY <1>0, <2>2 DEF ContinueDebugEvent
  <2> QED BY <2>1, <2>2
<1>3. kind = "EXIT_PROCESS" => \A u \in Tid \ {t} : Owner[u] = p => thr[u] = "none" /\ ~Pending(u)
  BY <1>0 DEF BarePort, LastReportsExit, ReportersExist, Existing, ThreadsOf
<1>4. ReportersExist'
  <2>1. \A u \in Tid : Pending(u)' => thr'[u] # "none"
    BY <1>0, <1>1 DEF BarePort, ReportersExist, Pending
  <2>2. \A u \in Tid : thr'[u] # "none" => proc'[Owner[u]].state # "none"
    BY <1>0, <1>1, <1>2, <1>3 DEF BarePort, ReportersExist
  <2> QED
    BY <1>1, <2>1, <2>2 DEF ReportersExist
<1>5. AnnouncedHandle'
  BY <1>1 DEF AnnouncedHandle
<1>6. LastReportsExit'
  <2> SUFFICES ASSUME NEW u \in Tid, pend'[u].kind = "EXIT_PROCESS" PROVE Existing(Owner[u])' = {u}
    BY DEF LastReportsExit
  <2>1. u # t /\ pend[u].kind = "EXIT_PROCESS" /\ Existing(Owner[u]) = {u}
    BY <1>0, <1>1 DEF BarePort, LastReportsExit
  <2>2. thr[t] # "none"
    BY <1>0 DEF BarePort, ReportersExist
  <2>3. Owner[u] # p
    BY <1>0, <2>1, <2>2 DEF Existing, ThreadsOf
  <2> QED
    BY <1>0, <1>1, <2>1, <2>3 DEF Existing, ThreadsOf
<1>7. ExitsMatch'
  BY <1>0, <1>1, <1>2, <1>3 DEF BarePort, ExitsMatch, Pending
<1> QED
  BY <1>4, <1>5, <1>6, <1>7 DEF BarePort

\* Every handler is such a call.
LEMMA HandlersContinue ==
  ASSUME TypeOK, HandleEvent
  PROVE  \E status : \E ps \in [Pid -> ProcState], ts \in [Tid -> ThreadState] :
           /\ current # NoThread
           /\ \A q \in Pid : ps[q] = proc[q] \/ (proc[q].state = "alive" /\ ps[q].state = "dying")
           /\ \A u \in Tid : ts[u] = "none" <=> thr[u] = "none"
           /\ ContinueDebugEvent(status, ps, ts)
<1>0. proc \in [Pid -> ProcState] /\ thr \in [Tid -> ThreadState]
  BY DEF TypeOK, PortTypeOK
<1>1. ASSUME NEW info, NEW e
      PROVE  /\ ResumedThreads(info, e) \in [Tid -> ThreadState]
             /\ \A u \in Tid : ResumedThreads(info, e)[u] = "none" <=> thr[u] = "none"
  BY ResumedType
<1>2. ASSUME NEW p \in Pid
      PROVE  /\ Terminated(p, NTSTATUS) \in [Pid -> ProcState]
             /\ \A q \in Pid : \/ Terminated(p, NTSTATUS)[q] = proc[q]
                               \/ proc[q].state = "alive" /\ Terminated(p, NTSTATUS)[q].state = "dying"
  BY <1>0, TerminatedType DEF Terminated
<1>3. current # NoThread
  BY DEF HandleEvent, OnCreateProcess, OnCreateThread, OnExitThread, OnExitProcess, OnLoadDll, OnUnloadDll,
         OnOutputDebugString, OnOtherEvent, OnIgnoredException, OnDeclinedException,
         OnReportedException, Handling
<1>4. CASE ContinueDebugEvent("DBG_CONTINUE", proc, thr)
  BY <1>0, <1>3, <1>4
<1>5. CASE OnIgnoredException \/ OnDeclinedException
  <2>1. PICK status : ContinueDebugEvent(status, proc,
                        ResumedThreads(Find(Owner[current]), pend[current]))
    BY <1>5 DEF OnIgnoredException, OnDeclinedException
  <2> QED
    BY <1>0, <1>1, <1>3, <2>1
<1>6. CASE OnReportedException
  <2>1. PICK status : ContinueDebugEvent(status,
                        IF Kills(pend[current]) THEN Terminated(Owner[current], NTSTATUS) ELSE proc,
                        ResumedThreads(Find(Owner[current]), pend[current]))
    BY <1>6 DEF OnReportedException
  <2>2. Owner[current] \in Pid
    BY <1>3, HandlingFacts
  <2>3. CASE Kills(pend[current])
    BY <1>1, <1>2, <1>3, <2>1, <2>2, <2>3
  <2>4. CASE ~Kills(pend[current])
    BY <1>0, <1>1, <1>3, <2>1, <2>4
  <2> QED BY <2>3, <2>4
<1> QED
  BY <1>4, <1>5, <1>6
  DEF HandleEvent, OnCreateProcess, OnCreateThread, OnExitThread, OnExitProcess, OnLoadDll, OnUnloadDll,
      OnOutputDebugString, OnOtherEvent

\* Every step of the debugger and the programs.
LEMMA BarePortStep ==
  ASSUME TypeOK, BarePort, [Next]_vars
  PROVE  BarePort'
<1>0. PortTypeOK
  BY DEF TypeOK
<1>1. ASSUME NEW t \in Tid, ProgramStep(t) \/ KernelStep(t) \/ WaitStep(t) PROVE BarePort'
  BY <1>0, <1>1, ProgramKeepsPort, KernelKeepsPort, WaitKeepsPort
  DEF ProgramStep, KernelStep, WaitStep
<1>2. CASE HandleEvent
  <2>1. PICK status : \E ps \in [Pid -> ProcState], ts \in [Tid -> ThreadState] :
           /\ current # NoThread
           /\ \A q \in Pid : ps[q] = proc[q] \/ (proc[q].state = "alive" /\ ps[q].state = "dying")
           /\ \A u \in Tid : ts[u] = "none" <=> thr[u] = "none"
           /\ ContinueDebugEvent(status, ps, ts)
    BY <1>2, HandlersContinue
  <2>2. PICK ps \in [Pid -> ProcState], ts \in [Tid -> ThreadState] :
           /\ current # NoThread
           /\ \A q \in Pid : ps[q] = proc[q] \/ (proc[q].state = "alive" /\ ps[q].state = "dying")
           /\ \A u \in Tid : ts[u] = "none" <=> thr[u] = "none"
           /\ ContinueDebugEvent(status, ps, ts)
    BY <2>1
  <2> QED
    BY <1>0, <2>2, ContinueKeepsBarePort
<1>3. CASE WaitFails \/ UNCHANGED vars
  BY <1>3 DEF WaitFails, vars, portVars, BarePort, ReportersExist, AnnouncedHandle, LastReportsExit,
              ExitsMatch, Pending, Existing, ThreadsOf
<1> QED
  BY <1>1, <1>2, <1>3 DEF Next, Stopped

\* The initial states.
LEMMA BarePortInit == Init => BarePort
<1> SUFFICES ASSUME Init PROVE BarePort
  OBVIOUS
<1>1. \A t \in Tid : pend[t].kind # "EXIT_PROCESS"
  BY DEF Init, Launched, Attached, Report, NoEvent
<1>2. AnnouncedHandle /\ ReportersExist /\ LastReportsExit
  BY InitInv DEF IInv, PortInv, AnnouncedHandle, Init, PortInit
<1> QED
  BY <1>1, <1>2 DEF BarePort, ExitsMatch

-----------------------------------------------------------------------------
(* The debugger terminates only what has crashed.                          *)

\* A thread whose exception is reported a second time was left it the first.
SecondChances ==
  \A t \in Tid : pend[t].kind = "EXCEPTION" /\ ~pend[t].first => declined[t] # None

\* Steps of the programs, the kernel and WaitForDebugEvent.
LEMMA OutsideKeepsChances ==
  ASSUME TypeOK, SecondChances, NEW t \in Tid, ProgramStep(t) \/ KernelStep(t) \/ WaitStep(t)
  PROVE  SecondChances'
<1>0. /\ pend \in [Tid -> Event] /\ declined \in [Tid -> Exceptions \cup {None}]
      /\ None \notin Exceptions
  BY PortAssumption DEF TypeOK, PortTypeOK
<1>1. ASSUME NEW u \in Tid, \A v \in Tid \ {u} : pend'[v] = pend[v] /\ declined'[v] = declined[v],
             pend'[u].kind = "EXCEPTION" /\ ~pend'[u].first => declined'[u] # None
      PROVE  SecondChances'
  BY <1>1 DEF SecondChances
<1>2. /\ \A kind, arg : Report(kind, arg).kind = kind
      /\ \A e, first : Exception(e, first).first = first
      /\ \A kind, c : Exit(kind, c).kind = kind
  BY DEF Report, Exception, Exit
<1>3. CASE Program(t)
  <2>1. CASE \E u \in Tid : StartThread(t, u) \/ Spawn(t, u)
    <3>1. PICK u \in Tid : StartThread(t, u) \/ Spawn(t, u)
      BY <2>1
    <3> QED
      BY <1>0, <1>1, <1>2, <3>1 DEF StartThread, Spawn
  <2>2. CASE \E e \in Raises : Raise(t, e)
    <3>1. PICK e \in Raises : Raise(t, e)
      BY <2>2
    <3>2. pend'[t].first = TRUE /\ \A v \in Tid \ {t} : pend'[v] = pend[v] /\ declined'[v] = declined[v]
      BY <1>0, <1>2, <3>1 DEF Raise
    <3> QED
      BY <1>1, <3>2
  <2>3. CASE CatchException(t)
    BY <1>0, <1>1, <2>3 DEF CatchException, Pending
  <2>4. CASE \E c \in ExitCode : ExitThread(t, c)
    BY <1>0, <1>1, <1>2, <2>4 DEF ExitThread
  <2>5. CASE \E q \in Pid, c \in ExitCode : EndProcess(t, q, c)
    BY <2>5 DEF EndProcess, SecondChances
  <2>6. CASE \E d \in Dll : LoadDll(t, d) \/ UnloadDll(t, d)
    BY <1>0, <1>1, <1>2, <2>6 DEF LoadDll, UnloadDll
  <2>7. CASE \E kind \in {"OUTPUT_DEBUG_STRING", "RIP"} : OtherReport(t, kind)
    BY <1>0, <1>1, <1>2, <2>7 DEF OtherReport
  <2> QED
    BY <1>3, <2>1, <2>2, <2>3, <2>4, <2>5, <2>6, <2>7 DEF Program
<1>4. CASE Kernel(t, signals > 0)
  <2>1. CASE LoaderBreakpoint(t)
    BY <1>0, <1>1, <1>2, <2>1 DEF LoaderBreakpoint
  <2>2. CASE SecondChance(t)
    BY <1>0, <1>1, <2>2 DEF SecondChance
  <2>3. CASE FilterReturns(t, signals > 0)
    BY <1>0, <1>1, <2>3 DEF FilterReturns, Exceptions
  <2>4. CASE Die(t)
    BY <1>0, <1>1, <1>2, <2>4 DEF Die
  <2> QED
    BY <1>4, <2>1, <2>2, <2>3, <2>4 DEF Kernel
<1>5. CASE WaitForDebugEvent(t)
  BY <1>5 DEF WaitForDebugEvent, SecondChances
<1> QED
  BY <1>3, <1>4, <1>5 DEF ProgramStep, KernelStep, WaitStep

\* So does every other step.
LEMMA ChancesStep ==
  ASSUME TypeOK, SecondChances, [Next]_vars
  PROVE  SecondChances'
<1>1. CASE HandleEvent
  <2>1. PICK status : \E ps \in [Pid -> ProcState], ts \in [Tid -> ThreadState] :
          current # NoThread /\ ContinueDebugEvent(status, ps, ts)
    BY <1>1, HandlersContinue
  <2>2. current \in Tid
    BY <2>1, HandlingFacts
  <2>3. /\ pend'[current].kind = "NONE"
        /\ \A u \in Tid \ {current} : pend'[u] = pend[u] /\ declined'[u] = declined[u]
    BY <2>1, <2>2 DEF ContinueDebugEvent, NoEvent, Report, TypeOK, PortTypeOK
  <2> QED
    BY <2>3 DEF SecondChances
<1>2. CASE WaitFails \/ UNCHANGED vars
  BY <1>2 DEF WaitFails, vars, portVars, SecondChances
<1> QED
  BY <1>1, <1>2, OutsideKeepsChances DEF Next, Stopped

\* A process dies in the debugger's hands only in OnReportedException.
LEMMA KilledByReport ==
  ASSUME TypeOK, SecondChances, [Next]_vars,
         NEW p \in Pid, proc[p].state = "alive", proc'[p].state = "dying", current # current'
  PROVE  log'[p].crashed # {} /\ declined[current] # None
<1>0. proc \in [Pid -> ProcState] /\ Owner \in [Tid -> Pid] /\ pend \in [Tid -> Event]
  BY PortAssumption DEF TypeOK, PortTypeOK
<1>1. HandleEvent
  <2>1. ~WaitFails /\ ~UNCHANGED vars
    BY DEF WaitFails, vars, portVars
  <2>2. ASSUME NEW t \in Tid, ProgramStep(t) \/ KernelStep(t) PROVE FALSE
    BY <2>2
    DEF ProgramStep, KernelStep, Program, Kernel, StartThread, Spawn, Raise, CatchException, ExitThread,
        EndProcess, LoadDll, UnloadDll, OtherReport, LoaderBreakpoint, SecondChance, FilterReturns, Die
  <2>3. ASSUME NEW t \in Tid, WaitStep(t) PROVE FALSE
    BY <1>0, <2>3 DEF WaitStep, WaitForDebugEvent
  <2> QED
    BY <2>1, <2>2, <2>3 DEF Next, Stopped
<1>2. current # NoThread /\ current \in Tid
  BY <1>1, HandlersContinue, HandlingFacts
<1>3. ASSUME NEW status, NEW ts, ContinueDebugEvent(status, proc, ts),
             status = "DBG_CONTINUE" \/ pend[current].kind # "EXCEPTION" \/ pend[current].first
      PROVE  FALSE
  BY <1>0, <1>2, <1>3 DEF ContinueDebugEvent, NotRunning
<1>4. OnReportedException
  BY <1>1, <1>3
  DEF HandleEvent, OnCreateProcess, OnCreateThread, OnExitThread, OnExitProcess, OnLoadDll, OnUnloadDll,
      OnOutputDebugString, OnOtherEvent, OnIgnoredException, Ignored, OnDeclinedException, Declined
<1>5. ~pend[current].first /\ pend[current].kind = "EXCEPTION"
  BY <1>3, <1>4 DEF OnReportedException, Kills, Handling
<1>6. p = Owner[current]
  BY <1>0, <1>2, <1>4, <1>5 DEF OnReportedException, ContinueDebugEvent, Terminated
<1>7. current \in log'[p].crashed
  BY <1>0, <1>2, <1>4, <1>5, <1>6 DEF OnReportedException, TypeOK, Log
<1> QED
  BY <1>2, <1>5, <1>7 DEF SecondChances

\* The debugger terminates no process but one whose thread has just been
\* reported with an exception its program declined, whatever the other threads
\* and processes do meanwhile.
THEOREM OnlyCrashedTerminated == Spec => TerminatesOnlyCrashed
<1>1. Init => SecondChances
  BY DEF Init, SecondChances, Launched, Attached, Report, NoEvent
<1>2. TypeOK /\ SecondChances /\ [Next]_vars => SecondChances'
  BY ChancesStep
<1>3. TypeOK /\ SecondChances /\ [Next]_vars =>
        [\A p \in Pid :
           proc[p].state = "alive" /\ proc'[p].state = "dying" /\ current # current'
           => log'[p].crashed # {} /\ declined[current] # None]_vars
  BY KilledByReport
<1> QED
  BY <1>1, <1>2, <1>3, Typing, PTL DEF Spec, TerminatesOnlyCrashed

-----------------------------------------------------------------------------
(* One process, as drmingw attaches to it: its announcement comes first    *)
(* and only once, and so does its initial breakpoint.                      *)

Announced == \A t \in Tid : pend[t].kind # "CREATE_PROCESS"

BreakpointSeen ==
  loop = "running" => g_Processes[Root].listed /\ g_Processes[Root].fBreakpointSignalled

Once ==
  /\ signals <= 1 /\ log[Root].ignored <= 1
  /\ signals > 0 \/ log[Root].ignored > 0 => Announced /\ BreakpointSeen
  /\ fTerminating => Announced /\ log[Root].crashed # {}

\* With one process nothing announces another.
LEMMA AnnouncedStays ==
  ASSUME Pid = {Root}, TypeOK, Announced, [Next]_vars
  PROVE  Announced'
<1>0. pend \in [Tid -> Event] /\ Owner \in [Tid -> Pid]
  BY PortAssumption DEF TypeOK, PortTypeOK
<1>1. ASSUME NEW t \in Tid, \A u \in Tid \ {t} : pend'[u] = pend[u], pend'[t].kind # "CREATE_PROCESS"
      PROVE  Announced'
  BY <1>1 DEF Announced
<1>2. ASSUME pend' = pend PROVE Announced'
  BY <1>2 DEF Announced
<1>3. ASSUME NEW t \in Tid, Program(t) PROVE Announced'
  <2>1. CASE \E u \in Tid : StartThread(t, u)
    BY <1>0, <1>1, <2>1, Kinds DEF StartThread
  <2>2. ~(\E u \in Tid : Spawn(t, u))
    BY <1>0 DEF Spawn
  <2>3. CASE (\E e \in Raises : Raise(t, e)) \/ \E c \in ExitCode : ExitThread(t, c)
    <3>1. /\ \A u \in Tid \ {t} : pend'[u] = pend[u]
          /\ pend'[t].kind \in {"EXCEPTION", "EXIT_THREAD"}
      BY <1>0, <2>3 DEF Raise, ExitThread, Exception, Exit
    <3> QED
      BY <1>1, <3>1, Kinds
  <2>4. CASE (\E d \in Dll : LoadDll(t, d) \/ UnloadDll(t, d))
             \/ \E kind \in {"OUTPUT_DEBUG_STRING", "RIP"} : OtherReport(t, kind)
    BY <1>0, <1>1, <2>4, Kinds DEF LoadDll, UnloadDll, OtherReport
  <2>5. CASE CatchException(t) \/ \E q \in Pid, c \in ExitCode : EndProcess(t, q, c)
    BY <1>2, <2>5 DEF CatchException, EndProcess
  <2> QED
    BY <1>3, <2>1, <2>2, <2>3, <2>4, <2>5 DEF Program
<1>4. ASSUME NEW t \in Tid, Kernel(t, signals > 0) PROVE Announced'
  <2>1. CASE LoaderBreakpoint(t)
    BY <1>0, <1>1, <2>1, Kinds DEF LoaderBreakpoint
  <2>2. CASE SecondChance(t)
    BY <1>0, <1>1, <2>2, Kinds DEF SecondChance
  <2>3. CASE FilterReturns(t, signals > 0)
    BY <1>0, <1>1, <2>3, Kinds DEF FilterReturns
  <2>4. CASE Die(t)
    BY <1>0, <1>1, <2>4, Kinds DEF Die
  <2> QED
    BY <1>4, <2>1, <2>2, <2>3, <2>4 DEF Kernel
<1>5. CASE HandleEvent
  <2>1. PICK status : \E ps \in [Pid -> ProcState], ts \in [Tid -> ThreadState] :
          current # NoThread /\ ContinueDebugEvent(status, ps, ts)
    BY <1>5, HandlersContinue
  <2>2. current \in Tid
    BY <2>1, HandlingFacts
  <2> QED
    BY <1>0, <1>1, <2>1, <2>2 DEF ContinueDebugEvent, NoEvent, Report
<1> QED
  BY <1>2, <1>3, <1>4, <1>5
  DEF Next, ProgramStep, KernelStep, WaitStep, WaitForDebugEvent, WaitFails, Stopped, vars, portVars

\* Handlers that leave the breakpoint flags and the log's counts alone.
LEMMA OnceKept ==
  ASSUME Once, (Announced)', signals' = signals, log'[Root].ignored = log[Root].ignored,
         log'[Root].crashed = log[Root].crashed, fTerminating' = fTerminating,
         \/ loop' # "running"
         \/ /\ loop = "running"
            /\ g_Processes[Root].listed => g_Processes'[Root].listed
            /\ g_Processes'[Root].fBreakpointSignalled = g_Processes[Root].fBreakpointSignalled
  PROVE  Once'
BY DEF Once, BreakpointSeen

\* What the exception handlers do to the entry and to the event.
LEMMA ExceptionOnce ==
  ASSUME Pid = {Root}, TypeOK, IInv, Once, (Announced)', Handling("EXCEPTION"),
         NoteException(Find(Root), pend[current]),
         g_Processes'[Root].listed,
         g_Processes'[Root].fBreakpointSignalled
           = Noted(Find(Root), pend[current]).fBreakpointSignalled,
         \/ log'[Root].ignored = log[Root].ignored
         \/ /\ InitialBreakpoint(Find(Root), pend[current])
            /\ log'[Root].ignored = log[Root].ignored + 1,
         fTerminating' => log'[Root].crashed # {}
  PROVE  Once'
<1> DEFINE e == pend[current]
           initial == InitialBreakpoint(Find(Root), e)
<1>0. /\ signals \in 0..2 /\ log[Root].ignored \in 0..2 /\ loop = "running"
      /\ g_Processes \in [Pid -> PROCESS_INFO]
  BY DEF TypeOK, Log, Handling
<1>1. Find(Root).fBreakpointSignalled = g_Processes[Root].fBreakpointSignalled
  BY <1>0 DEF Find, PROCESS_INFO
<1>2. g_Processes[Root].fBreakpointSignalled \in BOOLEAN /\ initial \in BOOLEAN
  BY <1>0 DEF PROCESS_INFO, InitialBreakpoint
<1>3. g_Processes'[Root].fBreakpointSignalled = (g_Processes[Root].fBreakpointSignalled \/ initial)
  BY <1>0, <1>1, <1>2 DEF Noted, Find, PROCESS_INFO
<1>4. initial => signals = 0 /\ log[Root].ignored = 0
  BY <1>0, <1>1 DEF InitialBreakpoint, Once, BreakpointSeen
<1>5. signals' = signals \/ (initial /\ signals' = signals + 1)
  BY DEF NoteException
<1> QED
  BY <1>0, <1>2, <1>3, <1>4, <1>5 DEF Once, BreakpointSeen

\* The handlers but those of exceptions.
LEMMA PlainHandlersOnce ==
  ASSUME Pid = {Root}, TypeOK, IInv, Once, Announced => (Announced)',
         OnCreateProcess \/ OnCreateThread \/ OnExitThread \/ OnExitProcess \/ OnLoadDll
         \/ OnUnloadDll \/ OnOutputDebugString \/ OnOtherEvent
  PROVE  Once'
<1>0. /\ current # NoThread /\ loop = "running"
      /\ signals' = signals /\ fTerminating' = fTerminating
  BY DEF OnCreateProcess, OnCreateThread, OnExitThread, OnExitProcess, OnLoadDll, OnUnloadDll,
         OnOutputDebugString, OnOtherEvent, Handling, dbgVars
<1>1. /\ current \in Tid /\ Owner[current] = Root
      /\ g_Processes \in [Pid -> PROCESS_INFO] /\ log \in [Pid -> Log]
      /\ Find(Root) \in PROCESS_INFO /\ Find(Root).listed
      /\ Find(Root).fBreakpointSignalled = g_Processes[Root].fBreakpointSignalled
  BY <1>0, HandlingFacts, TableTypes DEF TypeOK, Find, PROCESS_INFO
<1>2. CASE OnCreateProcess
  <2>1. ~Announced
    BY <1>1, <1>2 DEF OnCreateProcess, Handling, Announced
  <2>2. signals = 0 /\ ~fTerminating
    BY <2>1 DEF Once, TypeOK
  <2>3. log'[Root].ignored = 0
    BY <1>1, <1>2 DEF OnCreateProcess, NothingReported
  <2> QED
    BY <1>0, <2>2, <2>3 DEF Once
<1>3. pend[current].kind # "CREATE_PROCESS" => (Announced)'
  BY <1>0, <1>1, CurrentFollowed, PortAssumption DEF IInv, Announced
<1>4. CASE OnCreateThread \/ OnLoadDll \/ OnUnloadDll
  <2>1. /\ log' = log /\ loop' = loop
        /\ pend[current].kind # "CREATE_PROCESS"
    BY <1>4 DEF OnCreateThread, OnLoadDll, OnUnloadDll, Handling
  <2>2. /\ g_Processes'[Root].listed
        /\ g_Processes'[Root].fBreakpointSignalled = g_Processes[Root].fBreakpointSignalled
    BY <1>1, <1>4 DEF OnCreateThread, OnLoadDll, OnUnloadDll, PROCESS_INFO
  <2> QED
    BY <1>0, <1>3, <2>1, <2>2, OnceKept
<1>5. CASE OnOutputDebugString \/ OnOtherEvent
  <2>1. /\ log' = log /\ loop' = loop
        /\ pend[current].kind # "CREATE_PROCESS"
    BY <1>5 DEF OnOutputDebugString, OnOtherEvent, Handling, dbgVars
  <2>2. /\ g_Processes[Root].listed => g_Processes'[Root].listed
        /\ g_Processes'[Root].fBreakpointSignalled = g_Processes[Root].fBreakpointSignalled
    BY <1>1, <1>5 DEF OnOutputDebugString, OnOtherEvent, dbgVars
  <2> QED
    BY <1>0, <1>3, <2>1, <2>2, OnceKept
<1>6. CASE OnExitThread
  <2>1. loop' = loop /\ pend[current].kind # "CREATE_PROCESS"
    BY <1>6 DEF OnExitThread, Handling
  <2>2. log'[Root].ignored = log[Root].ignored /\ log'[Root].crashed = log[Root].crashed
    BY <1>1, <1>6 DEF OnExitThread, WithStacks, Log
  <2>3. /\ g_Processes'[Root].listed
        /\ g_Processes'[Root].fBreakpointSignalled = g_Processes[Root].fBreakpointSignalled
    BY <1>1, <1>6 DEF OnExitThread, PROCESS_INFO
  <2> QED
    BY <1>0, <1>3, <2>1, <2>2, <2>3, OnceKept
<1>7. CASE OnExitProcess
  <2>1. loop' = "finished" /\ pend[current].kind # "CREATE_PROCESS"
    BY <1>1, <1>7 DEF OnExitProcess, Handling, Emptied, NoProcessInfo
  <2>2. log'[Root].ignored = log[Root].ignored /\ log'[Root].crashed = log[Root].crashed
    BY <1>1, <1>7 DEF OnExitProcess, WithDump, Log
  <2> QED
    BY <1>0, <1>3, <2>1, <2>2, OnceKept
<1> QED
  BY <1>2, <1>4, <1>5, <1>6, <1>7

\* The handlers of exceptions.
LEMMA ExceptionHandlersOnce ==
  ASSUME Pid = {Root}, TypeOK, IInv, Once, Announced => (Announced)',
         OnIgnoredException \/ OnDeclinedException \/ OnReportedException
  PROVE  Once'
<1> DEFINE e == pend[current]
           noted == Noted(Find(Root), e)
<1>0. /\ current # NoThread /\ Handling("EXCEPTION")
  BY DEF OnIgnoredException, OnDeclinedException, OnReportedException, Handling
<1>1. /\ current \in Tid /\ Owner[current] = Root /\ e \in Event
      /\ g_Processes \in [Pid -> PROCESS_INFO] /\ log \in [Pid -> Log]
      /\ Find(Root) \in PROCESS_INFO /\ Find(Root).listed
  BY <1>0, HandlingFacts, TableTypes DEF TypeOK
<1>2. noted.listed /\ noted \in PROCESS_INFO
  BY <1>1, NotedType
<1>3. (Announced)'
  BY <1>0, <1>1, CurrentFollowed, PortAssumption DEF IInv, Announced, Handling
<1> HIDE DEF noted
<1>4. CASE OnIgnoredException
  <2>1. NoteException(Find(Root), e) /\ g_Processes' = [g_Processes EXCEPT ![Root] = noted]
        /\ fTerminating' = fTerminating
    BY <1>1, <1>4 DEF OnIgnoredException, noted
  <2>2. /\ log'[Root].crashed = log[Root].crashed
        /\ \/ log'[Root].ignored = log[Root].ignored
           \/ /\ e.arg = "BREAKPOINT"
              /\ log'[Root].ignored = log[Root].ignored + 1
    BY <1>1, <1>4 DEF OnIgnoredException, Log
  <2>3. e.arg = "BREAKPOINT" => InitialBreakpoint(Find(Root), e)
    BY <1>1, <1>4 DEF OnIgnoredException, Ignored, InitialBreakpoint
  <2>4. g_Processes'[Root] = noted
    BY <1>1, <2>1
  <2>5. fTerminating' => log'[Root].crashed # {}
    BY <2>1, <2>2 DEF Once
  <2> QED
    BY <1>0, <1>2, <1>3, <2>1, <2>2, <2>3, <2>4, <2>5, ExceptionOnce DEF noted
<1>5. CASE OnDeclinedException
  <2>1. NoteException(Find(Root), e) /\ g_Processes' = [g_Processes EXCEPT ![Root] = noted]
        /\ fTerminating' = fTerminating /\ log' = log
    BY <1>1, <1>5 DEF OnDeclinedException, noted
  <2>2. g_Processes'[Root] = noted
    BY <1>1, <2>1
  <2>3. fTerminating' => log'[Root].crashed # {}
    BY <2>1 DEF Once
  <2> QED
    BY <1>0, <1>2, <1>3, <2>1, <2>2, <2>3, ExceptionOnce DEF noted
<1>6. CASE OnReportedException
  <2> DEFINE stacks == StacksFor(noted, e)
             dump == ~e.first /\ stacks # {}
             reported == WithStacks(IF dump THEN WithDump(log[Root], noted) ELSE log[Root], stacks)
  <2>1. /\ NoteException(Find(Root), e)
        /\ g_Processes' = [g_Processes EXCEPT ![Root] = IF dump THEN writeDump(noted) ELSE noted]
        /\ fTerminating' = (fTerminating \/ ~e.first)
        /\ log' = [log EXCEPT ![Root] = [reported EXCEPT !.crashed = IF e.first THEN @ ELSE @ \cup {current}]]
    BY <1>1, <1>6 DEF OnReportedException, Kills, noted
  <2>2. /\ g_Processes'[Root].listed
        /\ g_Processes'[Root].fBreakpointSignalled = noted.fBreakpointSignalled
    BY <1>1, <1>2, <2>1 DEF writeDump, PROCESS_INFO
  <2>3. /\ reported \in Log /\ reported.ignored = log[Root].ignored
        /\ reported.crashed = log[Root].crashed
    BY <1>1 DEF WithStacks, WithDump, StacksFor, Log
  <2> HIDE DEF reported
  <2>4. log'[Root] = [reported EXCEPT !.crashed = IF e.first THEN @ ELSE @ \cup {current}]
    BY <1>1, <2>1
  <2>5. /\ log'[Root].ignored = log[Root].ignored
        /\ log[Root].crashed \subseteq log'[Root].crashed
        /\ ~e.first => current \in log'[Root].crashed
    BY <2>3, <2>4 DEF Log
  <2>6. fTerminating' => log'[Root].crashed # {}
    BY <2>1, <2>5 DEF Once
  <2> QED
    BY <1>0, <1>3, <2>1, <2>2, <2>5, <2>6, ExceptionOnce DEF noted
<1> QED
  BY <1>4, <1>5, <1>6

\* With one process, all of it together.
LEMMA OnceInvariance ==
  ASSUME Pid = {Root}
  PROVE  Spec => [](TypeOK /\ IInv /\ BarePort /\ Once)
<1>1. Init => BarePort /\ Once
  <2> SUFFICES ASSUME Init PROVE Once
    BY BarePortInit
  <2>1. signals = 0 /\ ~fTerminating /\ log[Root] = NothingReported
    BY PortAssumption DEF Init
  <2> QED
    BY <2>1 DEF Once, NothingReported
<1>2. TypeOK /\ IInv /\ BarePort /\ Once /\ [Next]_vars => BarePort' /\ Once'
  <2> SUFFICES ASSUME TypeOK, IInv, BarePort, Once, [Next]_vars PROVE BarePort' /\ Once'
    OBVIOUS
  <2>1. Announced => (Announced)'
    BY AnnouncedStays
  <2>2. ASSUME UNCHANGED dbgVars \/ UNCHANGED vars
               \/ (UNCHANGED <<g_Processes, fTerminating, signals, log>> /\ loop' # "running")
        PROVE  Once'
    BY <2>1, <2>2 DEF Once, BreakpointSeen, dbgVars, vars
  <2>3. Once'
    BY <2>1, <2>2, PlainHandlersOnce, ExceptionHandlersOnce
    DEF Next, ProgramStep, KernelStep, WaitStep, HandleEvent, WaitFails, Stopped
  <2> QED
    BY <2>3, BarePortStep
<1> QED
  BY <1>1, <1>2, Invariance, PTL DEF Spec

\* drmingw signals the event it was given once only, and takes no later
\* breakpoint for the initial one, whatever the threads attached to do.
THEOREM EventSignalledOnce ==
  ASSUME Pid = {Root}
  PROVE  Spec => []SignalledOnce
<1>1. TypeOK /\ IInv /\ BarePort /\ Once => SignalledOnce
  BY DEF Once, BreakpointSeen, SignalledOnce, IInv, TableMatchesSystem
<1> QED
  BY <1>1, OnceInvariance, PTL

\* Of the end of a process only EXIT_PROCESS_DEBUG_EVENT tells.
LEMMA EndsInHandler ==
  ASSUME TypeOK, [Next]_vars, NEW p \in Pid, proc[p].state # "none", proc'[p].state = "none"
  PROVE  OnExitProcess /\ Owner[current] = p /\ current \in Tid
<1>0. proc \in [Pid -> ProcState] /\ Owner \in [Tid -> Pid] /\ pend \in [Tid -> Event]
  BY PortAssumption DEF TypeOK, PortTypeOK
<1>1. HandleEvent
  <2>1. ~WaitFails /\ ~UNCHANGED vars
    BY DEF WaitFails, vars, portVars
  <2>2. ASSUME NEW t \in Tid, ProgramStep(t) PROVE FALSE
    <3>1. CASE \E u \in Tid : Spawn(t, u)
      BY <1>0, <3>1 DEF Spawn, Running
    <3>2. CASE \E q \in Pid, c \in ExitCode : EndProcess(t, q, c)
      BY <1>0, <3>2 DEF EndProcess, Terminated
    <3> QED
      BY <2>2, <3>1, <3>2
      DEF ProgramStep, Program, StartThread, Raise, CatchException, ExitThread, LoadDll, UnloadDll,
          OtherReport
  <2>3. ASSUME NEW t \in Tid, KernelStep(t) \/ WaitStep(t) PROVE FALSE
    BY <2>3 DEF KernelStep, Kernel, LoaderBreakpoint, SecondChance, FilterReturns, Die,
                WaitStep, WaitForDebugEvent
  <2> QED
    BY <2>1, <2>2, <2>3 DEF Next, Stopped
<1>2. PICK status : \E ps \in [Pid -> ProcState], ts \in [Tid -> ThreadState] :
         /\ current # NoThread
         /\ \A q \in Pid : ps[q] = proc[q] \/ (proc[q].state = "alive" /\ ps[q].state = "dying")
         /\ \A u \in Tid : ts[u] = "none" <=> thr[u] = "none"
         /\ ContinueDebugEvent(status, ps, ts)
  BY <1>1, HandlersContinue
<1>3. current \in Tid
  BY <1>2, HandlingFacts
<1>4. pend[current].kind = "EXIT_PROCESS" /\ Owner[current] = p
  BY <1>0, <1>2, <1>3 DEF ContinueDebugEvent
<1> QED
  BY <1>1, <1>3, <1>4
  DEF HandleEvent, OnCreateProcess, OnCreateThread, OnExitThread, OnLoadDll, OnUnloadDll, Handling,
      OnOutputDebugString, OnOtherEvent, OnIgnoredException, OnDeclinedException, OnReportedException

\* What OnExitProcess reports of an abort.
LEMMA AbortStep ==
  ASSUME TypeOK, IInv, BarePort, fTerminating => log[Root].crashed # {}, OnExitProcess,
         Owner[current] = Root, current \in Tid, proc[Root].code \in {3, NTSTATUS}
  PROVE  log'[Root].stacks # {} /\ (debugOptions.minidump => log'[Root].dumps = 1)
<1> DEFINE info == Find(Root)
           l == WithDump(log[Root], info)
           dumped == [l EXCEPT !.stacks = IF Readable(info, current) THEN @ \cup {current} ELSE @]
<1>0. /\ log \in [Pid -> Log] /\ Root \in Pid /\ pend[current].kind = "EXIT_PROCESS"
      /\ info.Threads = g_Processes[Root].Threads /\ info.fDumpWritten = g_Processes[Root].fDumpWritten
      /\ info.fDumpWritten \in BOOLEAN /\ log[Root] \in Log
      /\ debugOptions.minidump \in BOOLEAN
  BY PortAssumption, DebuggerAssumption, TableTypes
  DEF TypeOK, OnExitProcess, Handling, PROCESS_INFO, OptionSpace
<1>1. CASE fTerminating
  <2>1. log'[Root] = log[Root]
    BY <1>0, <1>1 DEF OnExitProcess
  <2> QED
    BY <1>0, <1>1, <2>1 DEF IInv, CrashReported
<1>2. CASE ~fTerminating
  <2>1. proc[Root] = [state |-> "dying", code |-> pend[current].code]
    BY <1>0 DEF BarePort, ExitsMatch
  <2>2. pend[current].code \in {3, NTSTATUS}
    BY <2>1
  <2>3. isAbnormalExitCode(pend[current].code)
    BY <2>2 DEF isAbnormalExitCode, NTSTATUS
  <2>4. log'[Root] = dumped
    BY <1>0, <1>2, <2>3 DEF OnExitProcess
  <2>5. thr[current] # "none" /\ Readable(info, current)
    BY <1>0 DEF BarePort, ReportersExist, Pending, IInv, TableMatchesSystem, Readable
  <2>6. current \in dumped.stacks /\ dumped.dumps = l.dumps
    BY <1>0, <2>5 DEF WithDump, Log
  <2>7. Root \in Followed
    <3>1. current # NoThread
      BY PortAssumption
    <3> QED
      BY <1>0, <3>1, CurrentFollowed DEF IInv
  <2>8. debugOptions.minidump => l.dumps = 1
    BY <1>0, <2>7 DEF IInv, DumpsRemembered, WithDump, Log
  <2> QED
    BY <2>4, <2>6, <2>8
<1> QED BY <1>1, <1>2

\* A process drmingw is attached to does not end as by abort() or with an
\* exception code but with a stack, and a minidump if they are on, whichever
\* of its threads reports the end, and however many have crashed before.
THEOREM AbortsReported ==
  ASSUME Pid = {Root}
  PROVE  Spec => AbortReported
<1>1. TypeOK /\ IInv /\ BarePort /\ Once /\ [Next]_vars =>
        [\A p \in Pid :
           /\ proc[p].state = "dying" /\ proc[p].code \in {3, NTSTATUS}
           /\ proc'[p].state = "none"
           => /\ log'[p].stacks # {}
              /\ debugOptions.minidump => log'[p].dumps = 1]_vars
  <2> SUFFICES ASSUME TypeOK, IInv, BarePort, Once, [Next]_vars, NEW p \in Pid,
                      proc[p].state = "dying", proc[p].code \in {3, NTSTATUS}, proc'[p].state = "none"
               PROVE  log'[p].stacks # {} /\ (debugOptions.minidump => log'[p].dumps = 1)
    OBVIOUS
  <2>1. OnExitProcess /\ Owner[current] = p /\ current \in Tid /\ p = Root
    BY EndsInHandler
  <2> QED
    BY <2>1, AbortStep DEF Once
<1> QED
  BY <1>1, OnceInvariance, PTL DEF Spec, AbortReported

-----------------------------------------------------------------------------
(* The symbol sessions of DbgHelp.  Handle values and identifiers are used  *)
(* again, and libraries come and go while reports of them are queued; still *)
(* there is a session for each process followed, and it knows the libraries *)
(* of that process.  The only other sessions are those that the handle read *)
(* from the erased entry did not name any more (leftOpen); no process that  *)
(* is followed later has the handle of one of these, as SymInitialize would *)
(* have failed and ended the tool.                                         *)

DllEvents == {"LOAD_DLL", "UNLOAD_DLL"}

\* No two processes have the same handle at a time.
HandlesApart ==
  \A p, q \in Pid : hproc[p] # NoHandle /\ hproc[p] = hproc[q] => p = q

\* A process has one report of a library at a time, and has it mapped or not.
LoaderOrder ==
  /\ \A t, u \in Tid : /\ Owner[t] = Owner[u]
                       /\ pend[t].kind \in DllEvents /\ pend[u].kind \in DllEvents
                       => t = u
  /\ \A t \in Tid : pend[t].kind = "LOAD_DLL" => pend[t].arg \in mapped[Owner[t]]
  /\ \A t \in Tid : pend[t].kind = "UNLOAD_DLL" => pend[t].arg \notin mapped[Owner[t]]

\* A process that is not followed has no libraries.
UnfollowedBare == \A p \in Pid \ Followed : mapped[p] = {}

\* The session of a process knows a library that no report is about if and
\* only if it is mapped.
Settled(p, d) == \A t \in Tid : Owner[t] = p /\ pend[t].kind \in DllEvents => pend[t].arg # d
SessionsCurrent ==
  loop = "running" =>
    /\ sessions = {hproc[p] : p \in Followed} \cup leftOpen
    /\ \A p \in Followed : hproc[p] \notin leftOpen
    /\ \A p \in Followed : \A d \in Dll :
         Settled(p, d) => (d \in loaded[hproc[p]] <=> d \in mapped[p])

SInv == HandlesApart /\ LoaderOrder /\ UnfollowedBare /\ SessionsCurrent

\* What the lemmas need of the types.
LEMMA Types ==
  ASSUME TypeOK
  PROVE  /\ pend \in [Tid -> Event] /\ thr \in [Tid -> ThreadState] /\ Owner \in [Tid -> Pid]
         /\ proc \in [Pid -> ProcState] /\ mapped \in [Pid -> SUBSET Dll]
         /\ hproc \in [Pid -> Handle \cup {NoHandle}] /\ NoHandle \notin Handle
         /\ current \in Tid \cup {NoThread} /\ NoThread \notin Tid
         /\ sessions \subseteq Handle /\ loaded \in [Handle -> SUBSET Dll]
BY PortAssumption DEF TypeOK, PortTypeOK

LEMMA FollowedHandles ==
  ASSUME TypeOK, NEW p \in Followed
  PROVE  p \in Pid /\ hproc[p] \in Handle /\ hproc[p] # NoHandle
BY Types DEF Followed

-----------------------------------------------------------------------------
(* Steps that have nothing to do with libraries, handles or sessions.      *)

LEMMA QuietStep ==
  ASSUME TypeOK, SInv, UNCHANGED <<hproc, mapped, sessions, loaded, leftOpen>>,
         Followed' = Followed,
         loop' = "running" => loop = "running",
         \A t \in Tid : \/ pend'[t] = pend[t]
                        \/ pend[t].kind \notin DllEvents /\ pend'[t].kind \notin DllEvents
  PROVE  SInv'
<1>1. \A t \in Tid : /\ pend'[t].kind \in DllEvents => pend'[t] = pend[t]
                     /\ pend[t].kind \in DllEvents => pend'[t] = pend[t]
  OBVIOUS
<1>2. HandlesApart' /\ UnfollowedBare'
  BY DEF SInv, HandlesApart, UnfollowedBare
<1>3. LoaderOrder'
  BY <1>1 DEF SInv, LoaderOrder, DllEvents
<1>4. \A p \in Pid : \A d \in Dll : Settled(p, d)' => Settled(p, d)
  BY <1>1 DEF Settled
<1>5. Followed \subseteq Pid
  BY DEF Followed
<1>6. SessionsCurrent'
  <2> SUFFICES ASSUME loop' = "running"
               PROVE  /\ sessions = {hproc[p] : p \in Followed} \cup leftOpen
                      /\ \A p \in Followed : hproc[p] \notin leftOpen
                      /\ \A p \in Followed : \A d \in Dll :
                           Settled(p, d)' => (d \in loaded[hproc[p]] <=> d \in mapped[p])
    BY DEF SessionsCurrent
  <2> QED
    BY <1>4, <1>5 DEF SInv, SessionsCurrent
<1> QED
  BY <1>2, <1>3, <1>6 DEF SInv

-----------------------------------------------------------------------------
(* The programs, the kernel, and WaitForDebugEvent.                        *)

\* A process some thread of which runs is followed.
LEMMA RunningFollowed ==
  ASSUME TypeOK, PortInv, NEW t \in Tid, thr[t] # "none", ~Pending(t)
  PROVE  Owner[t] \in Followed
<1>1. proc[Owner[t]].state # "none" /\ Owner[t] \in Pid
  BY Types DEF PortInv, ReportersExist
<1>2. \A u \in Tid : Owner[u] = Owner[t] => pend[u].kind # "CREATE_PROCESS"
  BY IdleMeansAnnounced
<1>3. hproc[Owner[t]] # NoHandle
  BY <1>1, <1>2 DEF PortInv, HandlesOpen, ThreadsOf
<1>4. ~Announcing(Owner[t])
  BY <1>2, Types DEF Announcing
<1> QED
  BY <1>1, <1>3, <1>4 DEF Followed

\* The loader maps or unmaps one library and reports it.
LEMMA LoaderStep ==
  ASSUME TypeOK, PortInv, SInv, NEW t \in Tid, NEW d \in Dll,
         LoadDll(t, d) \/ UnloadDll(t, d),
         Followed' = Followed, UNCHANGED <<loop, sessions, loaded, leftOpen>>
  PROVE  SInv'
<1> DEFINE p == Owner[t]
<1>1. /\ p \in Pid /\ thr[t] # "none" /\ ~Pending(t) /\ hproc' = hproc
      /\ \A u \in Tid : Owner[u] = p => pend[u].kind \notin DllEvents
      /\ \A u \in Tid \ {t} : pend'[u] = pend[u]
      /\ pend'[t].kind \in DllEvents /\ pend'[t].arg = d
      /\ \A q \in Pid \ {p} : mapped'[q] = mapped[q]
      /\ \A c \in Dll \ {d} : c \in mapped'[p] <=> c \in mapped[p]
      /\ IF pend'[t].kind = "LOAD_DLL" THEN d \in mapped'[p] ELSE d \notin mapped'[p]
  <2>1. /\ p \in Pid /\ thr[t] # "none" /\ ~Pending(t) /\ hproc' = hproc
        /\ \A u \in Tid : Owner[u] = p => pend[u].kind \notin DllEvents
    BY Types DEF LoadDll, UnloadDll, Executing, LoaderFree, ThreadsOf, DllEvents
  <2>2. CASE LoadDll(t, d)
    <3>1. /\ mapped' = [mapped EXCEPT ![p] = @ \cup {d}]
          /\ pend' = [pend EXCEPT ![t] = Report("LOAD_DLL", d)]
      BY <2>2 DEF LoadDll
    <3>2. Report("LOAD_DLL", d).kind = "LOAD_DLL" /\ Report("LOAD_DLL", d).arg = d
      BY DEF Report
    <3> QED
      BY <2>1, <3>1, <3>2, Types DEF DllEvents
  <2>3. CASE UnloadDll(t, d)
    <3>1. /\ mapped' = [mapped EXCEPT ![p] = @ \ {d}]
          /\ pend' = [pend EXCEPT ![t] = Report("UNLOAD_DLL", d)]
      BY <2>3 DEF UnloadDll
    <3>2. Report("UNLOAD_DLL", d).kind = "UNLOAD_DLL" /\ Report("UNLOAD_DLL", d).arg = d
      BY DEF Report
    <3> QED
      BY <2>1, <3>1, <3>2, Types DEF DllEvents
  <2> QED BY <2>2, <2>3
<1>2. p \in Followed
  BY <1>1, RunningFollowed
<1>3. HandlesApart' /\ UnfollowedBare'
  BY <1>1, <1>2 DEF SInv, HandlesApart, UnfollowedBare
<1>4. LoaderOrder'
  <2>1. \A u, v \in Tid : /\ Owner[u] = Owner[v]
                          /\ pend'[u].kind \in DllEvents /\ pend'[v].kind \in DllEvents
                          => u = v
    BY <1>1 DEF SInv, LoaderOrder
  <2>2. \A u \in Tid : /\ pend'[u].kind = "LOAD_DLL" => pend'[u].arg \in mapped'[Owner[u]]
                       /\ pend'[u].kind = "UNLOAD_DLL" => pend'[u].arg \notin mapped'[Owner[u]]
    BY <1>1, Types DEF SInv, LoaderOrder, DllEvents
  <2> QED
    BY <2>1, <2>2 DEF LoaderOrder
<1>5. SessionsCurrent'
  <2> SUFFICES ASSUME loop' = "running"
               PROVE  /\ sessions = {hproc[q] : q \in Followed} \cup leftOpen
                      /\ \A q \in Followed : hproc[q] \notin leftOpen
                      /\ \A q \in Followed : \A c \in Dll :
                           Settled(q, c)' => (c \in loaded[hproc[q]] <=> c \in mapped'[q])
    BY <1>1 DEF SessionsCurrent
  <2>1. /\ sessions = {hproc[q] : q \in Followed} \cup leftOpen
        /\ \A q \in Followed : hproc[q] \notin leftOpen
    BY DEF SInv, SessionsCurrent
  <2>2. ASSUME NEW q \in Followed, NEW c \in Dll, Settled(q, c)'
        PROVE  c \in loaded[hproc[q]] <=> c \in mapped'[q]
    <3>1. Settled(q, c)
      BY <1>1, <2>2 DEF Settled
    <3>2. c \in loaded[hproc[q]] <=> c \in mapped[q]
      BY <3>1 DEF SInv, SessionsCurrent
    <3>3. q \in Pid /\ (q = p => c # d)
      BY <1>1, <2>2 DEF Settled, Followed
    <3> QED
      BY <1>1, <3>2, <3>3
  <2> QED BY <2>1, <2>2
<1> QED
  BY <1>3, <1>4, <1>5 DEF SInv

LEMMA ProgramSessions ==
  ASSUME TypeOK, IInv, SInv, NEW t \in Tid, Program(t), UNCHANGED dbgVars
  PROVE  SInv'
<1>0. Followed' = Followed /\ UNCHANGED <<loop, sessions, loaded, leftOpen>>
  BY ProgramKeeps DEF IInv, dbgVars
<1>1. CASE \E d \in Dll : LoadDll(t, d) \/ UnloadDll(t, d)
  BY <1>0, <1>1, LoaderStep DEF IInv
<1>2. ASSUME UNCHANGED <<hproc, mapped>>, NEW u \in Tid, pend[u].kind \notin DllEvents,
             pend'[u].kind \notin DllEvents, \A v \in Tid \ {u} : pend'[v] = pend[v]
      PROVE  SInv'
  BY <1>0, <1>2, QuietStep
<1>3. \A u \in Tid : ~Pending(u) => pend[u].kind \notin DllEvents
  BY DEF Pending, DllEvents
<1>4. CASE \E u \in Tid : StartThread(t, u) \/ Spawn(t, u)
  <2>1. PICK u \in Tid : StartThread(t, u) \/ Spawn(t, u)
    BY <1>4
  <2>2. thr[u] = "none"
    BY <2>1, Types DEF StartThread, Spawn, IInv, PortInv, ReportersExist
  <2>3. ~Pending(u)
    BY <2>2 DEF IInv, PortInv, ReportersExist
  <2> QED
    BY <1>2, <1>3, <2>1, <2>3, Kinds, Types DEF StartThread, Spawn, DllEvents
<1>5. CASE (\E e \in Raises : Raise(t, e)) \/ (\E c \in ExitCode : ExitThread(t, c))
           \/ \E kind \in {"OUTPUT_DEBUG_STRING", "RIP"} : OtherReport(t, kind)
  <2>1. /\ UNCHANGED <<hproc, mapped>> /\ ~Pending(t)
        /\ \A u \in Tid \ {t} : pend'[u] = pend[u]
    BY <1>5, Types DEF Raise, ExitThread, OtherReport, Executing
  <2>2. pend'[t].kind \in {"EXCEPTION", "EXIT_THREAD", "OUTPUT_DEBUG_STRING", "RIP"}
    BY <1>5, Types DEF Raise, ExitThread, OtherReport, Exception, Exit, Report
  <2>3. pend'[t].kind \notin DllEvents
    BY <2>2 DEF DllEvents
  <2> QED
    BY <1>2, <1>3, <2>1, <2>3
<1>6. CASE CatchException(t) \/ \E q \in Pid, c \in ExitCode : EndProcess(t, q, c)
  BY <1>0, <1>6, QuietStep DEF CatchException, EndProcess
<1> QED
  BY <1>1, <1>4, <1>5, <1>6 DEF Program

LEMMA KernelSessions ==
  ASSUME TypeOK, IInv, SInv, NEW t \in Tid, Kernel(t, signals > 0), UNCHANGED dbgVars
  PROVE  SInv'
<1>0. Followed' = Followed /\ UNCHANGED <<loop, sessions, loaded, leftOpen>>
  BY KernelKeeps DEF IInv, dbgVars
<1>1. UNCHANGED <<hproc, mapped>> /\ ~Pending(t) /\ \A u \in Tid \ {t} : pend'[u] = pend[u]
  BY Types DEF Kernel, LoaderBreakpoint, SecondChance, FilterReturns, Die
<1>2. pend'[t].kind \in {"EXCEPTION", "EXIT_THREAD", "EXIT_PROCESS"}
  <2>1. CASE LoaderBreakpoint(t)
    BY <2>1, Types, Kinds, ZenonT(60) DEF LoaderBreakpoint
  <2>2. CASE SecondChance(t)
    <3>1. pend' = [pend EXCEPT ![t] = Exception(declined[t], FALSE)]
      BY <2>2 DEF SecondChance
    <3>2. pend'[t].kind = "EXCEPTION"
      BY <3>1, Types, Kinds
    <3> QED BY <3>2
  <2>3. CASE FilterReturns(t, signals > 0)
    BY <2>3, Types, Kinds, ZenonT(60) DEF FilterReturns
  <2>4. CASE Die(t)
    BY <2>4, Types, Kinds DEF Die
  <2> QED
    BY <2>1, <2>2, <2>3, <2>4 DEF Kernel
<1>3. pend[t].kind \notin DllEvents /\ pend'[t].kind \notin DllEvents
  BY <1>1, <1>2 DEF Pending, DllEvents
<1> QED
  BY <1>0, <1>1, <1>3, QuietStep

\* The handle that comes with an announcement is no other process's.
LEMMA WaitSessions ==
  ASSUME TypeOK, IInv, SInv, NEW t \in Tid, WaitForDebugEvent(t), UNCHANGED dbgVars
  PROVE  SInv'
<1> DEFINE p == Owner[t]
<1>0. /\ Followed' = Followed /\ current = NoThread
      /\ UNCHANGED <<loop, sessions, loaded, leftOpen, pend, mapped>>
  BY WaitKeeps DEF IInv, dbgVars, WaitForDebugEvent
<1>1. CASE pend[t].kind # "CREATE_PROCESS"
  BY <1>0, <1>1, QuietStep DEF WaitForDebugEvent
<1>2. CASE pend[t].kind = "CREATE_PROCESS"
  <2>1. PICK h \in Handle \ {hproc[q] : q \in Pid} : hproc' = [hproc EXCEPT ![p] = h]
    BY <1>2 DEF WaitForDebugEvent
  <2>2. hproc[p] = NoHandle /\ p \in Pid
    BY <1>0, <1>2, Types DEF IInv, PortInv, AnnouncedFirst
  <2>3. hproc'[p] = h /\ \A q \in Pid \ {p} : hproc'[q] = hproc[q]
    BY <2>1, <2>2, Types
  <2>4. HandlesApart'
    BY <2>1, <2>2, <2>3 DEF SInv, HandlesApart
  <2>5. \A q \in Followed : q \in Pid /\ hproc'[q] = hproc[q]
    BY <2>2, <2>3 DEF Followed
  <2>6. UnfollowedBare' /\ LoaderOrder'
    BY <1>0 DEF SInv, UnfollowedBare, LoaderOrder
  <2>7. \A q, d : Settled(q, d)' <=> Settled(q, d)
    BY <1>0 DEF Settled
  <2>8. SessionsCurrent'
    BY <1>0, <2>5, <2>7 DEF SInv, SessionsCurrent
  <2> QED
    BY <2>4, <2>6, <2>8 DEF SInv
<1> QED BY <1>1, <1>2

-----------------------------------------------------------------------------
(* The handlers.                                                           *)

\* ContinueDebugEvent for any event but the end of a process.
LEMMA ContinueSessions ==
  ASSUME TypeOK, IInv, current # NoThread, pend[current].kind # "EXIT_PROCESS",
         NEW status, NEW ps \in [Pid -> ProcState], NEW ts \in [Tid -> ThreadState],
         ContinueDebugEvent(status, ps, ts)
  PROVE  /\ hproc' = hproc /\ mapped' = mapped /\ pend'[current].kind = "NONE"
         /\ \A u \in Tid \ {current} : pend'[u] = pend[u]
         /\ Followed' = Followed \cup {Owner[current]} /\ Owner[current] \in Pid
         /\ current \in Tid
         /\ IF pend[current].kind = "CREATE_PROCESS" THEN Owner[current] \notin Followed
            ELSE Followed' = Followed
<1>1. /\ hproc' = hproc /\ mapped' = mapped /\ current' = NoThread
      /\ pend'[current].kind = "NONE" /\ \A u \in Tid \ {current} : pend'[u] = pend[u]
  BY Types DEF ContinueDebugEvent, NoEvent, Report
<1>2. Followed' = {q \in Pid : hproc[q] # NoHandle}
  BY <1>1 DEF Followed, Announcing
<1>3. hproc[Owner[current]] # NoHandle /\ Owner[current] \in Pid /\ current \in Tid
  BY CurrentFollowed, Types DEF IInv
<1>4. CASE pend[current].kind = "CREATE_PROCESS"
  <2>1. Followed = {q \in Pid : hproc[q] # NoHandle} \ {Owner[current]}
    BY <1>4 DEF Followed, Announcing
  <2> QED
    BY <1>1, <1>2, <1>3, <1>4, <2>1
<1>5. CASE pend[current].kind # "CREATE_PROCESS"
  <2>1. Followed = {q \in Pid : hproc[q] # NoHandle}
    BY <1>5 DEF Followed, Announcing
  <2> QED
    BY <1>1, <1>2, <1>3, <1>5, <2>1
<1> QED BY <1>4, <1>5

\* Handlers that have nothing to do with sessions.
LEMMA PlainSessions ==
  ASSUME TypeOK, IInv, SInv,
         \/ OnCreateThread \/ OnExitThread \/ OnOutputDebugString \/ OnOtherEvent
         \/ OnIgnoredException \/ OnDeclinedException \/ OnReportedException
  PROVE  SInv'
<1>1. /\ current # NoThread /\ UNCHANGED <<loop, sessions, loaded, leftOpen>>
      /\ pend[current].kind \in {"CREATE_THREAD", "EXIT_THREAD", "OUTPUT_DEBUG_STRING", "RIP", "EXCEPTION"}
  BY DEF OnCreateThread, OnExitThread, OnOutputDebugString, OnOtherEvent, OnIgnoredException,
         OnDeclinedException, OnReportedException, Handling, NoteException, dbgVars
<1>2. \E status : \E ps \in [Pid -> ProcState], ts \in [Tid -> ThreadState] :
        ContinueDebugEvent(status, ps, ts)
  <2>1. HandleEvent
    BY DEF HandleEvent
  <2> QED
    BY <2>1, HandlersContinue
<1>3. PICK status : \E ps \in [Pid -> ProcState], ts \in [Tid -> ThreadState] :
        ContinueDebugEvent(status, ps, ts)
  BY <1>2
<1>4. /\ hproc' = hproc /\ mapped' = mapped /\ pend'[current].kind = "NONE"
      /\ \A u \in Tid \ {current} : pend'[u] = pend[u]
      /\ Followed' = Followed
  BY <1>1, <1>3, ContinueSessions
<1> QED
  BY <1>1, <1>4, QuietStep DEF DllEvents

LEMMA CreateProcessSessions ==
  ASSUME TypeOK, IInv, SInv, OnCreateProcess
  PROVE  SInv'
<1> DEFINE p == Owner[current]
           h == hproc[p]
<1>1. /\ current # NoThread /\ loop = "running" /\ pend[current].kind = "CREATE_PROCESS"
      /\ ContinueDebugEvent("DBG_CONTINUE", proc, thr)
  BY DEF OnCreateProcess, Handling
<1>2. /\ hproc' = hproc /\ mapped' = mapped /\ pend'[current].kind = "NONE"
      /\ \A u \in Tid \ {current} : pend'[u] = pend[u]
      /\ Followed' = Followed \cup {p} /\ p \in Pid /\ current \in Tid
      /\ p \notin Followed
  BY <1>1, Types, ContinueSessions
<1>3. h \in Handle /\ h # NoHandle
  BY <1>1, <1>2, CurrentFollowed, Types DEF IInv
<1>4. HandlesApart' /\ UnfollowedBare'
  BY <1>2 DEF SInv, HandlesApart, UnfollowedBare
<1>5. LoaderOrder'
  BY <1>1, <1>2 DEF SInv, LoaderOrder, DllEvents
<1>6. SessionsCurrent'
  <2> SUFFICES ASSUME loop' = "running"
               PROVE  /\ sessions' = {hproc[q] : q \in Followed'} \cup leftOpen'
                      /\ \A q \in Followed' : hproc[q] \notin leftOpen'
                      /\ \A q \in Followed' : \A d \in Dll :
                           Settled(q, d)' => (d \in loaded'[hproc[q]] <=> d \in mapped[q])
    BY <1>2 DEF SessionsCurrent
  <2>1. /\ sessions' = sessions \cup {h} /\ loaded' = [loaded EXCEPT ![h] = {}]
        /\ h \notin sessions /\ leftOpen' = leftOpen
    BY DEF OnCreateProcess
  <2>2. /\ sessions' = {hproc[q] : q \in Followed'} \cup leftOpen'
        /\ \A q \in Followed' : hproc[q] \notin leftOpen'
    BY <1>1, <1>2, <2>1 DEF SInv, SessionsCurrent
  <2>3. ASSUME NEW q \in Followed', NEW d \in Dll, Settled(q, d)'
        PROVE  d \in loaded'[hproc[q]] <=> d \in mapped[q]
    <3>1. CASE q = p
      <4>1. mapped[p] = {}
        BY <1>2 DEF SInv, UnfollowedBare
      <4> QED
        BY <1>3, <2>1, <3>1, <4>1, Types
    <3>2. CASE q # p
      <4>1. q \in Followed /\ q \in Pid
        BY <1>2, <3>2 DEF Followed
      <4>2. Settled(q, d)
        BY <1>1, <1>2, <2>3 DEF Settled, DllEvents
      <4>3. hproc[q] # h /\ hproc[q] \in Handle
        BY <1>2, <1>3, <3>2, <4>1, FollowedHandles DEF SInv, HandlesApart
      <4>4. loaded'[hproc[q]] = loaded[hproc[q]]
        BY <2>1, <4>3, Types
      <4> QED
        BY <1>1, <4>1, <4>2, <4>4 DEF SInv, SessionsCurrent
    <3> QED BY <3>1, <3>2
  <2> QED BY <2>2, <2>3
<1> QED
  BY <1>4, <1>5, <1>6 DEF SInv

\* loadModule and SymUnloadModule64 find the session of the process.
LEMMA DllSessions ==
  ASSUME TypeOK, IInv, SInv, OnLoadDll \/ OnUnloadDll
  PROVE  SInv'
<1> DEFINE p == Owner[current]
           h == hproc[p]
           d == pend[current].arg
<1>1. /\ current # NoThread /\ loop = "running" /\ UNCHANGED <<loop, sessions, leftOpen>>
      /\ pend[current].kind \in DllEvents /\ pend[current].kind \notin {"CREATE_PROCESS", "EXIT_PROCESS"}
      /\ ContinueDebugEvent("DBG_CONTINUE", proc, thr)
  BY DEF OnLoadDll, OnUnloadDll, Handling, DllEvents
<1>2. /\ hproc' = hproc /\ mapped' = mapped /\ pend'[current].kind = "NONE"
      /\ \A u \in Tid \ {current} : pend'[u] = pend[u]
      /\ Followed' = Followed /\ p \in Pid /\ current \in Tid
  BY <1>1, Types, ContinueSessions
<1>3. p \in Followed /\ Find(p).hProcess = h
  BY <1>1, CurrentFacts, TableTypes DEF Find
<1>4. h \in sessions /\ h \in Handle
  BY <1>1, <1>3, FollowedHandles DEF SInv, SessionsCurrent
<1>5. IF pend[current].kind = "LOAD_DLL" THEN loaded' = [loaded EXCEPT ![h] = @ \cup {d}]
      ELSE loaded' = [loaded EXCEPT ![h] = @ \ {d}]
  BY <1>3, <1>4 DEF OnLoadDll, OnUnloadDll, Handling
<1>6. HandlesApart' /\ UnfollowedBare'
  BY <1>2 DEF SInv, HandlesApart, UnfollowedBare
<1>7. LoaderOrder'
  BY <1>2 DEF SInv, LoaderOrder, DllEvents
<1>8. SessionsCurrent'
  <2>1. /\ sessions' = {hproc[q] : q \in Followed} \cup leftOpen'
        /\ \A q \in Followed : hproc[q] \notin leftOpen'
    BY <1>1 DEF SInv, SessionsCurrent
  <2>2. ASSUME NEW q \in Followed, NEW c \in Dll, Settled(q, c)'
        PROVE  c \in loaded'[hproc[q]] <=> c \in mapped[q]
    <3>0. q \in Pid /\ hproc[q] \in Handle /\ hproc[q] # NoHandle
      BY FollowedHandles
    <3>1. CASE q = p /\ c = d
      <4>1. IF pend[current].kind = "LOAD_DLL" THEN d \in mapped[p] ELSE d \notin mapped[p]
        BY <1>1, <1>2 DEF SInv, LoaderOrder, DllEvents
      <4>2. IF pend[current].kind = "LOAD_DLL" THEN d \in loaded'[h] ELSE d \notin loaded'[h]
        BY <1>4, <1>5, Types
      <4> QED
        BY <3>1, <4>1, <4>2
    <3>2. CASE ~(q = p /\ c = d)
      <4>1. Settled(q, c)
        <5> SUFFICES ASSUME NEW t \in Tid, Owner[t] = q, pend[t].kind \in DllEvents
                     PROVE  pend[t].arg # c
          BY DEF Settled
        <5>1. CASE t = current
          BY <3>2, <5>1
        <5>2. CASE t # current
          BY <1>2, <2>2, <5>2 DEF Settled
        <5> QED BY <5>1, <5>2
      <4>2. c \in loaded[hproc[q]] <=> c \in mapped[q]
        BY <1>1, <4>1 DEF SInv, SessionsCurrent
      <4>3. q # p => hproc[q] # h
        BY <1>2, <3>0 DEF SInv, HandlesApart
      <4>4. c \in loaded'[hproc[q]] <=> c \in loaded[hproc[q]]
        <5>1. CASE q = p
          BY <1>4, <1>5, <3>2, <5>1, Types
        <5>2. CASE q # p
          BY <1>4, <1>5, <4>3, <5>2, <3>0, Types
        <5> QED BY <5>1, <5>2
      <4> QED BY <4>2, <4>4
    <3> QED BY <3>1, <3>2
  <2> QED
    BY <1>2, <2>1, <2>2 DEF SessionsCurrent
<1> QED
  BY <1>6, <1>7, <1>8 DEF SInv

\* SymCleanup closes the session of the process that has ended, or none.
LEMMA ExitProcessSessions ==
  ASSUME TypeOK, IInv, SInv, OnExitProcess
  PROVE  SInv'
<1> DEFINE p == Owner[current]
           h == hproc[p]
<1>1. /\ current # NoThread /\ loop = "running" /\ pend[current].kind = "EXIT_PROCESS"
      /\ ContinueDebugEvent("DBG_CONTINUE", proc, thr)
  BY DEF OnExitProcess, Handling
<1>2. current \in Tid /\ p \in Pid /\ p \in Followed /\ Find(p).hProcess = h
  BY <1>1, CurrentFacts, TableTypes DEF Find
<1>3. /\ current' = NoThread /\ pend'[current].kind = "NONE"
      /\ \A u \in Tid \ {current} : pend'[u] = pend[u]
      /\ hproc' = [hproc EXCEPT ![p] = NoHandle] /\ mapped' = [mapped EXCEPT ![p] = {}]
  BY <1>1, <1>2, Types DEF ContinueDebugEvent, NoEvent, Report
<1>4. /\ hproc'[p] = NoHandle /\ mapped'[p] = {}
      /\ \A q \in Pid \ {p} : hproc'[q] = hproc[q] /\ mapped'[q] = mapped[q]
  BY <1>2, <1>3, Types
<1>5. Followed' = Followed \ {p}
  BY <1>1, <1>2, <1>3, <1>4 DEF Followed, Announcing
<1>6. \A u \in Tid : Owner[u] = p => pend'[u].kind = "NONE"
  <2> SUFFICES ASSUME NEW u \in Tid, Owner[u] = p, u # current PROVE pend'[u].kind = "NONE"
    BY <1>3
  <2>1. thr[u] = "none"
    BY <1>1, <1>2 DEF IInv, PortInv, LastReportsExit, Existing, ThreadsOf
  <2> QED
    BY <1>3, <2>1 DEF IInv, PortInv, ReportersExist, Pending
<1>7. HandlesApart'
  BY <1>4 DEF SInv, HandlesApart
<1>8. UnfollowedBare'
  BY <1>4, <1>5 DEF SInv, UnfollowedBare
<1>9. LoaderOrder'
  <2>1. \A u \in Tid : pend'[u].kind \in DllEvents =>
          u # current /\ pend'[u] = pend[u] /\ Owner[u] \in Pid \ {p} /\ mapped'[Owner[u]] = mapped[Owner[u]]
    BY <1>3, <1>4, <1>6, Types DEF DllEvents
  <2>2. \A u, v \in Tid : /\ Owner[u] = Owner[v]
                          /\ pend'[u].kind \in DllEvents /\ pend'[v].kind \in DllEvents
                          => u = v
    BY <2>1 DEF SInv, LoaderOrder
  <2>3. \A u \in Tid : /\ pend'[u].kind = "LOAD_DLL" => pend'[u].arg \in mapped'[Owner[u]]
                       /\ pend'[u].kind = "UNLOAD_DLL" => pend'[u].arg \notin mapped'[Owner[u]]
    BY <2>1 DEF SInv, LoaderOrder, DllEvents
  <2> QED
    BY <2>2, <2>3 DEF LoaderOrder
<1>10. SessionsCurrent'
  <2>1. \/ /\ sessions' = sessions \ {h} /\ leftOpen' = leftOpen
           /\ loaded' = [loaded EXCEPT ![h] = {}]
        \/ sessions' = sessions /\ leftOpen' = leftOpen \cup {h} /\ loaded' = loaded
    BY <1>2 DEF OnExitProcess, CloseSession, MissSession
  <2>2. \A q \in Followed' : /\ q \in Followed /\ q \in Pid \ {p} /\ hproc'[q] = hproc[q]
                             /\ hproc[q] # h /\ hproc[q] \in Handle /\ mapped'[q] = mapped[q]
    BY <1>2, <1>4, <1>5, FollowedHandles DEF SInv, HandlesApart
  <2>3. \A q \in Followed \ {p} : q \in Followed'
    BY <1>5
  <2>4. /\ sessions = {hproc[q] : q \in Followed} \cup leftOpen
        /\ \A q \in Followed : hproc[q] \notin leftOpen
    BY <1>1 DEF SInv, SessionsCurrent
  <2>5. /\ sessions' = {hproc'[q] : q \in Followed'} \cup leftOpen'
        /\ \A q \in Followed' : hproc'[q] \notin leftOpen'
    <3>1. {hproc'[q] : q \in Followed'} = {hproc[q] : q \in Followed} \ {h}
      BY <1>2, <2>2, <2>3
    <3>2. h \in {hproc[q] : q \in Followed} /\ h \notin leftOpen
      BY <1>2, <2>4
    <3> QED
      BY <2>1, <2>2, <2>4, <3>1, <3>2
  <2>6. ASSUME NEW q \in Followed', NEW d \in Dll, Settled(q, d)'
        PROVE  d \in loaded'[hproc'[q]] <=> d \in mapped'[q]
    <3>1. Settled(q, d)
      BY <1>1, <1>3, <2>6 DEF Settled, DllEvents
    <3>2. d \in loaded[hproc[q]] <=> d \in mapped[q]
      BY <1>1, <2>2, <3>1 DEF SInv, SessionsCurrent
    <3>3. loaded'[hproc'[q]] = loaded[hproc[q]] /\ mapped'[q] = mapped[q]
      BY <2>1, <2>2, Types
    <3> QED BY <3>2, <3>3
  <2> QED
    BY <2>5, <2>6 DEF SessionsCurrent
<1> QED
  BY <1>7, <1>8, <1>9, <1>10 DEF SInv

-----------------------------------------------------------------------------
(* The theorem.                                                            *)

LEMMA SessionsStep ==
  ASSUME TypeOK, IInv, SInv, [Next]_vars
  PROVE  SInv'
<1>1. ASSUME NEW t \in Tid, ProgramStep(t) \/ KernelStep(t) \/ WaitStep(t) PROVE SInv'
  BY <1>1, ProgramSessions, KernelSessions, WaitSessions DEF ProgramStep, KernelStep, WaitStep
<1>2. CASE HandleEvent
  BY <1>2, PlainSessions, CreateProcessSessions, DllSessions, ExitProcessSessions DEF HandleEvent
<1>3. CASE WaitFails \/ UNCHANGED vars
  <2>1. UNCHANGED <<hproc, mapped, pend, current, sessions, loaded, leftOpen>>
        /\ (loop' = "running" => loop = "running")
    BY <1>3 DEF WaitFails, vars, portVars, dbgVars
  <2>2. Followed' = Followed
    BY <2>1 DEF Followed, Announcing
  <2> QED
    BY <2>1, <2>2, QuietStep
<1> QED
  BY <1>1, <1>2, <1>3 DEF Next, Stopped

LEMMA SessionsInit == Init => SInv
<1> SUFFICES ASSUME Init PROVE SInv
  OBVIOUS
<1>1. /\ hproc = [p \in Pid |-> NoHandle] /\ mapped = [p \in Pid |-> {}]
      /\ sessions = {} /\ leftOpen = {}
  BY DEF Init, PortInit
<1>2. \A t \in Tid : pend[t].kind \notin DllEvents
  BY DEF Init, Launched, Attached, Report, NoEvent, DllEvents
<1>3. Followed = {}
  BY <1>1 DEF Followed
<1> QED
  BY <1>1, <1>2, <1>3
  DEF SInv, HandlesApart, LoaderOrder, UnfollowedBare, SessionsCurrent, DllEvents

\* While the loop runs DbgHelp has a session for each process followed, which
\* knows the libraries of that process and is not one left over from a process
\* that had the same handle, whatever identifiers and handles are used again and
\* whatever is read from the entry that EXIT_PROCESS_DEBUG_EVENT has erased.
\* No session stays but those of processes whose handle was not read there.
THEOREM SessionsAlwaysMatch == Spec => []SessionsMatch
<1>1. TypeOK /\ SInv => SessionsMatch
  <2> SUFFICES ASSUME TypeOK, SInv, loop = "running", NEW p \in Followed
               PROVE  LET inTransit == {pend[t].arg : t \in ThreadsOf(p)}
                      IN  hproc[p] \notin leftOpen /\
                          loaded[hproc[p]] \ inTransit = mapped[p] \ inTransit
    BY DEF SessionsMatch, SInv, SessionsCurrent
  <2> DEFINE inTransit == {pend[t].arg : t \in ThreadsOf(p)}
  <2>1. loaded[hproc[p]] \subseteq Dll /\ mapped[p] \subseteq Dll
    BY FollowedHandles, Types
  <2>2. \A d \in Dll \ inTransit : Settled(p, d)
    BY DEF Settled, ThreadsOf
  <2>3. \A d \in Dll \ inTransit : d \in loaded[hproc[p]] <=> d \in mapped[p]
    BY <2>2 DEF SInv, SessionsCurrent
  <2>0. hproc[p] \notin leftOpen
    BY DEF SInv, SessionsCurrent
  <2> HIDE DEF inTransit
  <2>4. loaded[hproc[p]] \ inTransit = mapped[p] \ inTransit
    BY <2>1, <2>3
  <2> QED BY <2>0, <2>4 DEF inTransit
<1>2. Spec => [](TypeOK /\ IInv /\ SInv)
  <2>1. TypeOK /\ IInv /\ SInv /\ [Next]_vars => SInv'
    BY SessionsStep
  <2> QED
    BY <2>1, SessionsInit, Invariance, PTL DEF Spec
<1> QED
  BY <1>1, <1>2, PTL
=============================================================================
