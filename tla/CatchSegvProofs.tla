---------------------------- MODULE CatchSegvProofs ----------------------------
(***************************************************************************)
(* Proofs about CatchSegv: the types, that the time-out does not strike    *)
(* early, and that what catchsegv has terminated never counts as a         *)
(* success.  The invariant of DebuggerProofs does not hold here, since     *)
(* TrapThread makes table entries of its own; its BarePort does.           *)
(***************************************************************************)
EXTENDS CatchSegv, DebuggerProofs, FiniteSetTheorems

USE DEF ProcState, ThreadState

-----------------------------------------------------------------------------
(* Types.                                                                  *)

\* The variables CatchSegv adds have their types.
OwnTypeOK ==
  /\ g_TimeOut \in TimeOuts
  /\ g_ModalDialogIgnore \in BOOLEAN /\ g_TimerIgnore \in BOOLEAN
  /\ g_ElapsedTime \in 0..(Word - 1)
  /\ timer \in [Worker -> Callback]
  /\ cCtrl \in [CtrlType -> 0..1]
  /\ dialogs \subseteq Tid
  /\ rootCode \in ExitCode \cup {0, 3, NTSTATUS}
  /\ exitCode \in ExitCode \cup {NoExit, 0, EXIT_FAILURE, 3, NTSTATUS, STILL_ACTIVE}
  /\ ticks \in 0..Word
  /\ killed \in BOOLEAN

LEMMA OwnSplit == CatchSegvTypeOK <=> TypeOK /\ OwnTypeOK
BY DEF CatchSegvTypeOK, OwnTypeOK

\* Remainders, for the arithmetic of the timer.
LEMMA Remainder ==
  ASSUME NEW x \in Nat, NEW m \in Nat \ {0}
  PROVE  /\ x % m \in 0..(m - 1) /\ x % m <= x
         /\ x < m => x % m = x
BY SMT

\* What the elapsed time can become.
LEMMA ElapsedBounds ==
  ASSUME OwnTypeOK
  PROVE  Elapsed(g_ElapsedTime) \in 0..(Word - 1) /\ Elapsed(g_ElapsedTime) <= g_ElapsedTime + 1
<1>1. g_ElapsedTime + 1 \in Nat /\ Word \in Nat \ {0}
  BY CatchSegvAssumption DEF OwnTypeOK
<1> QED
  BY <1>1, Remainder DEF Elapsed

\* The deadline fits its word, and is the time-out if that does.
LEMMA DeadlineBounds ==
  ASSUME OwnTypeOK
  PROVE  /\ Deadline \in 0..(Word - 1)
         /\ g_TimeOut * Second < Word => Deadline = g_TimeOut * Second
<1>1. Word \in Nat \ {0}
  BY CatchSegvAssumption
<1>2. g_TimeOut \in Nat /\ Second \in Nat
  BY CatchSegvAssumption DEF OwnTypeOK
<1>3. g_TimeOut * Second \in Nat
  BY <1>2
<1> QED
  BY <1>1, <1>3, Remainder DEF Deadline

\* Steps that leave the port alone.
LEMMA PortUnchanged ==
  ASSUME CatchSegvTypeOK, BarePort, UNCHANGED portVars
  PROVE  PortTypeOK' /\ BarePort'
BY DEF portVars, PortTypeOK, CatchSegvTypeOK, TypeOK, BarePort, ReportersExist, AnnouncedHandle,
       LastReportsExit, ExitsMatch, Pending, Existing, ThreadsOf

\* The steps of the debugger's own model.
LEMMA DebuggerSteps ==
  ASSUME CatchSegvTypeOK, BarePort,
         \/ \E t \in Tid : ProgramStep(t) \/ KernelStep(t) \/ WaitStep(t)
         \/ HandleEvent \/ WaitFails \/ UNCHANGED vars
  PROVE  TypeOK' /\ BarePort'
<1>1. TypeOK /\ AnnouncedHandle /\ [Next]_vars
  BY DEF CatchSegvTypeOK, BarePort, Next
<1> QED
  BY <1>1, TypeStep, BarePortStep

\* What TerminateProcess does to Root.
LEMMA RootTerminated ==
  ASSUME CatchSegvTypeOK, BarePort, NEW c \in {3, NTSTATUS}, proc' = Terminated(Root, c),
         UNCHANGED <<thr, pend, declined, hproc, mapped, current>>
  PROVE  PortTypeOK' /\ BarePort'
<1>0. PortTypeOK /\ Root \in Pid
  BY PortAssumption DEF CatchSegvTypeOK, TypeOK
<1>1. proc' \in [Pid -> ProcState]
  BY <1>0, TerminatedType DEF PortTypeOK
<1> QED
  BY <1>0, <1>1, TerminatedKeepsPort DEF PortTypeOK

\* A callback that terminates the target, or gives up.
LEMMA TimeOutKeepsShared ==
  ASSUME CatchSegvTypeOK, BarePort, NEW w \in Worker,
         TerminateProcessById(w) \/ TerminateFails(w)
  PROVE  TypeOK' /\ BarePort'
<1>0. DebuggerTypeOK
  BY TypesSplit DEF CatchSegvTypeOK
<1>1. UNCHANGED <<debugOptions, g_Processes, fTerminating, sessions, loaded, leftOpen, signals, log>>
      /\ loop' \in {loop, "exited"}
  BY DEF TerminateProcessById, TerminateFails, ToolExits, dbgVars
<1>2. PortTypeOK' /\ BarePort'
  <2>1. UNCHANGED <<thr, pend, declined, hproc, mapped, current>>
        /\ proc' \in {proc, Terminated(Root, 3)}
    BY DEF TerminateProcessById, TerminateFails, portVars
  <2>2. CASE proc' = Terminated(Root, 3)
    BY <2>1, <2>2, RootTerminated
  <2>3. CASE proc' = proc
    BY <2>1, <2>3, PortUnchanged DEF portVars
  <2> QED
    BY <2>1, <2>2, <2>3
<1> QED
  BY <1>0, <1>1, <1>2, TypesSplit DEF TypeOK, DebuggerTypeOK

\* TrapThread adds entries to the table that the system knows nothing of, and
\* marks them, but all of them are of their type.
LEMMA TrapKeepsShared ==
  ASSUME CatchSegvTypeOK, BarePort, NEW w \in Worker,
         TrapLookup(w) \/ TrapRaces(w) \/ TrapSuspend(w) \/ TrapDump(w)
  PROVE  TypeOK' /\ BarePort'
<1>0. /\ TypeOK /\ DebuggerTypeOK /\ Root \in Pid
      /\ timer[w] \in Callback
  BY PortAssumption, TypesSplit DEF CatchSegvTypeOK
<1>1. CASE TrapLookup(w)
  <2> DEFINE t == timer[w].thread
             info == [Find(Root) EXCEPT !.Threads = FindThread(@, t)]
  <2>1. FindThread(Find(Root).Threads, t) \in [Tid -> THREAD_INFO]
    BY <1>0, TableTypes DEF FindThread, PROCESS_INFO, THREAD_INFO
  <2>2. info \in PROCESS_INFO
    BY <1>0, <2>1, TableTypes DEF PROCESS_INFO
  <2>3. g_Processes' = [g_Processes EXCEPT ![Root] = info]
        /\ loop' \in {loop, "exited"}
        /\ UNCHANGED <<debugOptions, fTerminating, sessions, loaded, leftOpen, signals, log>>
    BY <1>1 DEF TrapLookup, ToolExits
  <2>4. PortTypeOK' /\ BarePort'
    BY <1>1, PortUnchanged DEF TrapLookup
  <2> QED
    BY <1>0, <2>2, <2>3, <2>4, TypesSplit DEF TypeOK, DebuggerTypeOK
<1>2. CASE TrapRaces(w)
  <2>1. PortTypeOK' /\ BarePort'
    BY <1>2, PortUnchanged DEF TrapRaces
  <2> QED
    BY <1>0, <1>2, <2>1, TypesSplit DEF TypeOK, DebuggerTypeOK, TrapRaces, ToolExits
<1>3. CASE TrapSuspend(w)
  <2>1. PortTypeOK' /\ BarePort'
    <3>1. CASE proc' = Terminated(Root, 3)
      BY <1>3, <3>1, RootTerminated DEF TrapSuspend
    <3>2. CASE proc' = proc
      BY <1>3, <3>2, PortUnchanged DEF TrapSuspend, portVars
    <3> QED
      BY <1>3, <3>1, <3>2 DEF TrapSuspend
  <2> QED
    BY <1>0, <1>3, <2>1, TypesSplit DEF TypeOK, DebuggerTypeOK, TrapSuspend, dbgVars
<1>4. CASE TrapDump(w)
  <2> DEFINE t == timer[w].thread
             info == g_Processes[Root]
  <2>1. PortTypeOK' /\ BarePort'
    BY <1>4, PortUnchanged DEF TrapDump
  <2>2. g_Processes' \in [Pid -> PROCESS_INFO]
    <3>1. g_Processes \in [Pid -> PROCESS_INFO] /\ Root \in Pid
      BY <1>0, PortAssumption DEF DebuggerTypeOK
    <3>2. writeDump(info) \in PROCESS_INFO
      BY <3>1 DEF writeDump, PROCESS_INFO
    <3>3. g_Processes' \in {g_Processes, [g_Processes EXCEPT ![Root] = writeDump(info)]}
      BY <1>4 DEF TrapDump
    <3> QED
      BY <3>1, <3>2, <3>3
  <2>3. log' \in [Pid -> Log]
    <3>1. CASE info.listed /\ thr[t] # "none"
      <4>1. t \in Tid
        BY <1>0, <1>4 DEF TrapDump, Callback
      <4>2. WithStacks(WithDump(log[Root], info), {t}) \in Log
        BY <1>0, <4>1, LogTypes DEF DebuggerTypeOK
      <4> QED
        BY <1>0, <1>4, <3>1, <4>2 DEF TrapDump, DebuggerTypeOK
    <3>2. CASE ~(info.listed /\ thr[t] # "none")
      BY <1>0, <1>4, <3>2 DEF TrapDump, DebuggerTypeOK
    <3> QED BY <3>1, <3>2
  <2> QED
    BY <1>0, <1>4, <2>1, <2>2, <2>3, TypesSplit DEF TypeOK, DebuggerTypeOK, TrapDump, ToolExits
<1> QED
  BY <1>1, <1>2, <1>3, <1>4

\* The steps that leave the debugger's variables alone.
LEMMA QuietSteps ==
  ASSUME NEW w, \/ TimerFires(w) \/ FindNoDialog(w) \/ Count(w) \/ TimeOutExceeded(w)
                \/ \E t \in Tid : FindDialog(w, t)
  PROVE  UNCHANGED vars
BY DEF TimerFires, FindNoDialog, Count, TimeOutExceeded, FindDialog

\* Every step keeps the types of the debugger's variables, and BarePort.
LEMMA SharedStep ==
  ASSUME CatchSegvTypeOK, BarePort, [CatchSegvNext]_csVars
  PROVE  TypeOK' /\ BarePort'
<1>1. ASSUME NEW t \in Tid, OutsideStep(ProgramStep(t)) \/ OutsideStep(KernelStep(t))
                            \/ OutsideStep(WaitStep(t)) \/ Dialog(t)
      PROVE  TypeOK' /\ BarePort'
  BY <1>1, DebuggerSteps DEF OutsideStep, Dialog
<1>2. ASSUME NEW w \in Worker, TimerFires(w) \/ CallbackStep(w)
      PROVE  TypeOK' /\ BarePort'
  BY <1>2, QuietSteps, DebuggerSteps, TimeOutKeepsShared, TrapKeepsShared DEF CallbackStep
<1>3. ASSUME NEW c \in CtrlType, consoleCtrlHandler(c) PROVE TypeOK' /\ BarePort'
  <2>1. PortTypeOK' /\ BarePort'
    BY <1>3, PortUnchanged DEF consoleCtrlHandler
  <2>2. DebuggerTypeOK
    BY TypesSplit DEF CatchSegvTypeOK
  <2> QED
    BY <1>3, <2>1, <2>2, TypesSplit DEF TypeOK, DebuggerTypeOK, consoleCtrlHandler, ToolExits
<1>4. CASE MainStep \/ OutsideStep(WaitFails) \/ Return \/ Ended \/ UNCHANGED csVars
  BY <1>4, DebuggerSteps DEF MainStep, OutsideStep, Return, Ended, csVars
<1> QED
  BY <1>1, <1>2, <1>3, <1>4 DEF CatchSegvNext

\* The steps of the callbacks keep the types of what they change.
LEMMA CallbackOwnType ==
  ASSUME CatchSegvTypeOK, NEW w \in Worker, TimerFires(w) \/ CallbackStep(w)
  PROVE  OwnTypeOK'
<1>0. /\ OwnTypeOK /\ timer[w] \in Callback /\ TypeOK /\ Root \in Pid
  BY OwnSplit, PortAssumption DEF OwnTypeOK
<1>1. CASE TimerFires(w)
  <2>1. [timer[w] EXCEPT !.pc = "scanning"] \in Callback
    BY <1>0 DEF Callback
  <2>2. timer' \in [Worker -> Callback]
    BY <1>0, <1>1, <2>1 DEF TimerFires, OwnTypeOK
  <2>3. ticks' \in 0..Word
    BY <1>0, <1>1, CatchSegvAssumption DEF TimerFires, OwnTypeOK
  <2> QED
    BY <1>0, <1>1, <2>2, <2>3 DEF TimerFires, OwnTypeOK
<1>2. CASE \E t \in Tid : FindDialog(w, t)
  <2>1. PICK t \in Tid : FindDialog(w, t)
    BY <1>2
  <2>2. [Idle EXCEPT !.pc = "trapping", !.thread = t] \in Callback
    BY DEF Idle, Callback
  <2> QED
    BY <1>0, <2>1, <2>2 DEF FindDialog, OwnTypeOK
<1>3. CASE FindNoDialog(w)
  <2>1. \A pc \in {"idle", "counting"} : [timer[w] EXCEPT !.pc = pc] \in Callback
    BY <1>0 DEF Callback
  <2> QED
    BY <1>0, <1>3, <2>1 DEF FindNoDialog, OwnTypeOK
<1>4. CASE Count(w)
  <2>1. \A pc \in {"idle", "expired"} : [timer[w] EXCEPT !.pc = pc] \in Callback
    BY <1>0 DEF Callback
  <2>2. timer' \in [Worker -> Callback]
    BY <1>0, <1>4, <2>1 DEF Count, OwnTypeOK
  <2>3. g_ElapsedTime' \in 0..(Word - 1)
    BY <1>0, <1>4, ElapsedBounds DEF Count, OwnTypeOK
  <2> QED
    BY <1>0, <1>4, <2>2, <2>3 DEF Count, OwnTypeOK
<1>5. Idle \in Callback
  BY DEF Idle, Callback
<1>6. CASE TimeOutExceeded(w)
  <2>1. [timer[w] EXCEPT !.pc = "terminating"] \in Callback
    BY <1>0 DEF Callback
  <2> QED
    BY <1>0, <1>6, <2>1 DEF TimeOutExceeded, OwnTypeOK
<1>11. CASE TerminateProcessById(w)
  <2>1. [timer[w] EXCEPT !.pc = "failing"] \in Callback
    BY <1>0 DEF Callback
  <2> QED
    BY <1>0, <1>5, <1>11, <2>1 DEF TerminateProcessById, OwnTypeOK
<1>12. CASE TerminateFails(w)
  BY <1>0, <1>12 DEF TerminateFails, ToolExits, OwnTypeOK, timerVars
<1>7. CASE TrapLookup(w)
  <2> DEFINE t == timer[w].thread
             info == [Find(Root) EXCEPT !.Threads = FindThread(@, t)]
  <2>1. Find(Root).hProcess \in Handle \cup {NoHandle}
    BY <1>0, TableTypes DEF PROCESS_INFO
  <2>2. t \in Tid
    BY <1>0, <1>7 DEF TrapLookup, Callback
  <2>3. \A found \in BOOLEAN :
          [timer[w] EXCEPT !.pc = "suspending", !.hProcess = Find(Root).hProcess, !.found = found]
            \in Callback
    BY <1>0, <2>1, <2>2 DEF Callback
  <2>4. timer' \in [Worker -> Callback]
    BY <1>0, <1>7, <2>3 DEF TrapLookup, OwnTypeOK
  <2>5. exitCode' \in {exitCode, 3}
    BY <1>7 DEF TrapLookup, ToolExits
  <2> QED
    BY <1>0, <1>7, <2>4, <2>5 DEF TrapLookup, OwnTypeOK
<1>8. CASE TrapRaces(w)
  BY <1>0, <1>8 DEF TrapRaces, ToolExits, OwnTypeOK, timerVars
<1>9. CASE TrapSuspend(w)
  <2>1. [timer[w] EXCEPT !.pc = "dumping"] \in Callback
    BY <1>0, <1>9 DEF TrapSuspend, Callback
  <2> QED
    BY <1>0, <1>5, <1>9, <2>1 DEF TrapSuspend, OwnTypeOK
<1>10. CASE TrapDump(w)
  BY <1>0, <1>10 DEF TrapDump, ToolExits, OwnTypeOK, timerVars
<1> QED
  BY <1>1, <1>2, <1>3, <1>4, <1>6, <1>7, <1>8, <1>9, <1>10, <1>11, <1>12 DEF CallbackStep

\* Every step keeps the types of the variables CatchSegv adds.
LEMMA OwnStep ==
  ASSUME CatchSegvTypeOK, [CatchSegvNext]_csVars
  PROVE  OwnTypeOK'
<1>0. OwnTypeOK /\ TypeOK
  BY OwnSplit
<1>1. ASSUME NEW A, OutsideStep(A) PROVE OwnTypeOK'
  BY <1>0, <1>1 DEF OutsideStep, OwnTypeOK, timerVars, DialogsLeft
<1>2. ASSUME NEW t \in Tid, Dialog(t) PROVE OwnTypeOK'
  BY <1>0, <1>2 DEF Dialog, OwnTypeOK, timerVars
<1>3. ASSUME NEW c \in CtrlType, consoleCtrlHandler(c) PROVE OwnTypeOK'
  BY <1>0, <1>3 DEF consoleCtrlHandler, ToolExits, OwnTypeOK, timerVars
<1>4. CASE MainStep
  <2>1. current # NoThread
    BY <1>0, <1>4, HandlersContinue DEF MainStep
  <2>2. pend[current].code \in ExitCode \cup {0, 3, NTSTATUS}
    BY <1>0, <2>1, HandlingFacts DEF Event
  <2>3. rootCode' \in ExitCode \cup {0, 3, NTSTATUS}
    BY <1>0, <1>4, <2>2 DEF MainStep, OwnTypeOK
  <2>4. exitCode' \in {exitCode, EXIT_FAILURE}
    BY <1>4 DEF MainStep
  <2> QED
    BY <1>0, <1>4, <2>3, <2>4 DEF MainStep, OwnTypeOK, timerVars, DialogsLeft
<1>5. CASE Return
  BY <1>0, <1>5 DEF Return, OwnTypeOK, timerVars
<1>6. CASE UNCHANGED csVars
  BY <1>0, <1>6 DEF csVars, OwnTypeOK, timerVars
<1> QED
  BY <1>1, <1>2, <1>3, <1>4, <1>5, <1>6, CallbackOwnType DEF CatchSegvNext, Ended

-----------------------------------------------------------------------------
(* The timer: each callback that has yet to add its period to              *)
(* g_ElapsedTime was started by a period of its own.                       *)

Adding == {w \in Worker : timer[w].pc \in {"scanning", "counting"}}

ElapsedAndPassed == ticks < Word => g_ElapsedTime + Cardinality(Adding) <= ticks

TimerInv == ElapsedAndPassed /\ NoEarlyTimeOut

LEMMA AddingFinite == IsFiniteSet(Adding) /\ Cardinality(Adding) \in Nat
<1>1. IsFiniteSet(Adding)
  BY CatchSegvAssumption, FS_Subset DEF Adding
<1> QED
  BY <1>1, FS_CardinalityType

\* Steps in which no period passes and none is added.
LEMMA NothingAdded ==
  ASSUME OwnTypeOK, TimerInv, UNCHANGED <<g_TimeOut, g_ElapsedTime, ticks>>,
         \A v \in Worker : \/ timer'[v] = timer[v]
                           \/ timer'[v].pc \in {"idle", "trapping", "suspending", "dumping"}
                           \/ timer[v].pc = "scanning" /\ timer'[v].pc = "counting"
                           \/ timer[v].pc = "expired" /\ timer'[v].pc = "terminating"
                           \/ timer[v].pc = "terminating" /\ timer'[v].pc = "failing"
  PROVE  TimerInv'
<1>1. Adding' \subseteq Adding
  BY DEF Adding
<1>2. Cardinality(Adding)' <= Cardinality(Adding) /\ Cardinality(Adding)' \in Nat
  BY <1>1, AddingFinite, FS_Subset, FS_CardinalityType
<1>3. ElapsedAndPassed'
  BY <1>2, AddingFinite, CatchSegvAssumption DEF TimerInv, ElapsedAndPassed, OwnTypeOK
<1>4. NoEarlyTimeOut'
  BY DEF TimerInv, NoEarlyTimeOut, Deadline
<1> QED
  BY <1>3, <1>4 DEF TimerInv

\* A period passes, and may start a callback.
LEMMA TimerFiresKeeps ==
  ASSUME OwnTypeOK, TimerInv, NEW w \in Worker, TimerFires(w)
  PROVE  TimerInv'
<1>0. ticks \in 0..Word /\ g_ElapsedTime \in Nat /\ Word \in Nat
  BY CatchSegvAssumption DEF OwnTypeOK
<1>1. /\ ticks' = (IF ticks < Word THEN ticks + 1 ELSE ticks)
      /\ UNCHANGED <<g_TimeOut, g_ElapsedTime>>
  BY DEF TimerFires
<1>2. \A v \in Worker : v # w => timer'[v] = timer[v]
  BY DEF TimerFires, OwnTypeOK
<1>3. timer[w].pc = "idle" /\ timer'[w].pc \in {"idle", "scanning"}
  BY DEF TimerFires, OwnTypeOK, Callback
<1>4. Adding' \subseteq Adding \cup {w} /\ w \notin Adding
  BY <1>2, <1>3 DEF Adding
<1>5. IsFiniteSet(Adding \cup {w}) /\ Cardinality(Adding \cup {w}) = Cardinality(Adding) + 1
  BY <1>4, AddingFinite, FS_AddElement
<1>6. Cardinality(Adding') <= Cardinality(Adding) + 1 /\ Cardinality(Adding') \in Nat
  BY <1>4, <1>5, FS_Subset, FS_CardinalityType
<1>7. ElapsedAndPassed'
  BY <1>0, <1>1, <1>6, AddingFinite DEF TimerInv, ElapsedAndPassed
<1>8. NoEarlyTimeOut'
  <2> SUFFICES ASSUME NEW v \in Worker, timer'[v].pc \in {"expired", "terminating", "failing"}
               PROVE  ticks' >= IF g_TimeOut * Second < Word THEN g_TimeOut * Second ELSE Deadline
    BY <1>1 DEF NoEarlyTimeOut, Deadline
  <2>1. timer[v].pc \in {"expired", "terminating", "failing"}
    BY <1>2, <1>3
  <2>2. ticks >= IF g_TimeOut * Second < Word THEN g_TimeOut * Second ELSE Deadline
    BY <2>1 DEF TimerInv, NoEarlyTimeOut
  <2>3. (IF g_TimeOut * Second < Word THEN g_TimeOut * Second ELSE Deadline) \in Int
    BY DeadlineBounds
  <2> HIDE DEF Deadline
  <2> QED
    BY <1>0, <1>1, <2>2, <2>3
<1> QED
  BY <1>7, <1>8 DEF TimerInv

\* A callback adds its period, and finds that the time-out has been exceeded
\* only if enough of them have passed.
LEMMA CountKeeps ==
  ASSUME OwnTypeOK, TimerInv, NEW w \in Worker, Count(w)
  PROVE  TimerInv'
<1>0. /\ ticks \in 0..Word /\ g_ElapsedTime \in 0..(Word - 1) /\ Word \in Nat \ {0}
  BY CatchSegvAssumption DEF OwnTypeOK
<1>1. UNCHANGED <<g_TimeOut, ticks>>
  BY DEF Count
<1>2. g_ElapsedTime' \in 0..(Word - 1) /\ g_ElapsedTime' <= g_ElapsedTime + 1
  BY <1>0, ElapsedBounds DEF Count
<1>3. \A v \in Worker : v # w => timer'[v] = timer[v]
  BY DEF Count, OwnTypeOK
<1>4. /\ timer[w].pc = "counting"
      /\ timer'[w].pc \in {"idle", "expired"}
      /\ timer'[w].pc = "expired" => ~(g_ElapsedTime' < Deadline)
  BY DEF Count, OwnTypeOK, Callback
<1>5. Adding' = Adding \ {w} /\ w \in Adding
  BY <1>3, <1>4 DEF Adding
<1>6. Cardinality(Adding') = Cardinality(Adding) - 1
  BY <1>5, AddingFinite, FS_RemoveElement
<1>7. ElapsedAndPassed'
  BY <1>0, <1>1, <1>2, <1>6, AddingFinite DEF TimerInv, ElapsedAndPassed
<1>8. NoEarlyTimeOut'
  <2> SUFFICES ASSUME NEW v \in Worker, timer'[v].pc \in {"expired", "terminating", "failing"}
               PROVE  ticks >= IF g_TimeOut * Second < Word THEN g_TimeOut * Second ELSE Deadline
    BY <1>1 DEF NoEarlyTimeOut, Deadline
  <2>1. CASE v # w
    BY <1>3, <2>1 DEF TimerInv, NoEarlyTimeOut
  <2>2. CASE v = w
    <3>1. Deadline \in 0..(Word - 1) /\ g_ElapsedTime' >= Deadline
      BY <1>0, <1>2, <1>4, <2>2, DeadlineBounds
    <3>2. ticks >= Deadline
      <4>1. CASE ticks < Word
        <5>1. Cardinality(Adding) >= 1
          BY <1>6, <1>5, AddingFinite, FS_RemoveElement, FS_CardinalityType, FS_EmptySet
        <5> QED
          BY <1>0, <1>2, <3>1, <4>1, <5>1, AddingFinite DEF TimerInv, ElapsedAndPassed
      <4>2. CASE ticks = Word
        BY <1>0, <3>1, <4>2
      <4> QED BY <1>0, <4>1, <4>2
    <3> QED
      BY <3>2, DeadlineBounds
  <2> QED BY <2>1, <2>2
<1> QED
  BY <1>7, <1>8 DEF TimerInv

\* Every step keeps the timer's invariant.
LEMMA TimerStep ==
  ASSUME CatchSegvTypeOK, TimerInv, [CatchSegvNext]_csVars
  PROVE  TimerInv'
<1>0. OwnTypeOK
  BY OwnSplit
<1>1. ASSUME UNCHANGED timerVars \/ UNCHANGED csVars PROVE TimerInv'
  BY <1>0, <1>1, NothingAdded DEF timerVars, csVars
<1>2. ASSUME NEW w \in Worker, CallbackStep(w) PROVE TimerInv'
  <2>1. CASE \E t \in Tid : FindDialog(w, t)
    BY <1>0, <2>1, NothingAdded DEF FindDialog, Idle, OwnTypeOK
  <2>2. CASE FindNoDialog(w)
    BY <1>0, <2>2, NothingAdded DEF FindNoDialog, OwnTypeOK, Callback
  <2>3. CASE TimeOutExceeded(w)
    BY <1>0, <2>3, NothingAdded DEF TimeOutExceeded, OwnTypeOK, Callback
  <2>6. CASE TerminateProcessById(w)
    BY <1>0, <2>6, NothingAdded DEF TerminateProcessById, Idle, OwnTypeOK, Callback
  <2>4. CASE TrapLookup(w)
    BY <1>0, <2>4, NothingAdded DEF TrapLookup, OwnTypeOK, Callback
  <2>5. CASE TrapSuspend(w)
    BY <1>0, <2>5, NothingAdded DEF TrapSuspend, Idle, OwnTypeOK, Callback
  <2> QED
    BY <1>0, <1>1, <1>2, <2>1, <2>2, <2>3, <2>4, <2>5, <2>6, CountKeeps
    DEF CallbackStep, TerminateFails, TrapRaces, TrapDump
<1>3. ASSUME NEW A, OutsideStep(A) PROVE TimerInv'
  BY <1>1, <1>3 DEF OutsideStep
<1> QED
  BY <1>0, <1>1, <1>2, <1>3, TimerFiresKeeps
  DEF CatchSegvNext, Dialog, consoleCtrlHandler, MainStep, Return, Ended

-----------------------------------------------------------------------------
(* What catchsegv has terminated.                                          *)

\* Once catchsegv has terminated the target it is dying, or has died, with exit
\* code 3, unless catchsegv has ended with a code of failure.
KilledDies ==
  killed => \/ exitCode \notin {0, NoExit}
            \/ exitCode = NoExit /\ proc[Root].state = "dying" /\ proc[Root].code = 3
            \/ exitCode = NoExit /\ proc[Root].state = "none" /\ rootCode = 3

\* Steps of the system and the debugger: what is dying stays so until its end
\* is reported, and Root is not started again.
LEMMA DyingStays ==
  ASSUME TypeOK, \E t \in Tid : ProgramStep(t) \/ KernelStep(t) \/ WaitStep(t)
  PROVE  proc[Root].state \in {"dying", "none"} => proc'[Root] = proc[Root]
<1>0. proc \in [Pid -> ProcState] /\ Root \in Pid /\ Owner \in [Tid -> Pid]
  BY PortAssumption DEF TypeOK, PortTypeOK
<1>1. PICK t \in Tid : ProgramStep(t) \/ KernelStep(t) \/ WaitStep(t)
  OBVIOUS
<1>2. CASE \E u \in Tid : Spawn(t, u)
  BY <1>0, <1>2 DEF Spawn
<1>3. CASE \E q \in Pid, c \in ExitCode : EndProcess(t, q, c)
  BY <1>0, <1>3 DEF EndProcess, Terminated
<1> QED
  BY <1>1, <1>2, <1>3
  DEF ProgramStep, KernelStep, WaitStep, Program, Kernel, WaitForDebugEvent, StartThread, Raise,
      CatchException, ExitThread, LoadDll, UnloadDll, OtherReport, LoaderBreakpoint, SecondChance,
      FilterReturns, Die

\* The handlers: only EXIT_PROCESS_DEBUG_EVENT takes a dying process away.
LEMMA DyingHandled ==
  ASSUME TypeOK, BarePort, HandleEvent, proc[Root].state \in {"dying", "none"}
  PROVE  \/ proc'[Root] = proc[Root]
         \/ /\ proc'[Root].state = "none" /\ pend[current].kind = "EXIT_PROCESS"
            /\ Owner[current] = Root /\ pend[current].code = proc[Root].code
<1>0. proc \in [Pid -> ProcState] /\ Root \in Pid /\ Owner \in [Tid -> Pid]
  BY PortAssumption DEF TypeOK, PortTypeOK
<1>1. PICK status : \E ps \in [Pid -> ProcState], ts \in [Tid -> ThreadState] :
        /\ current # NoThread
        /\ \A q \in Pid : ps[q] = proc[q] \/ (proc[q].state = "alive" /\ ps[q].state = "dying")
        /\ \A u \in Tid : ts[u] = "none" <=> thr[u] = "none"
        /\ ContinueDebugEvent(status, ps, ts)
  BY HandlersContinue
<1>2. PICK ps \in [Pid -> ProcState], ts \in [Tid -> ThreadState] :
        /\ current # NoThread
        /\ \A q \in Pid : ps[q] = proc[q] \/ (proc[q].state = "alive" /\ ps[q].state = "dying")
        /\ ContinueDebugEvent(status, ps, ts)
  BY <1>1
<1>3. ps[Root] = proc[Root]
  BY <1>0, <1>2
<1>4. current \in Tid
  BY <1>2, HandlingFacts
<1>5. CASE pend[current].kind = "EXIT_PROCESS" /\ Owner[current] = Root
  <2>1. proc'[Root].state = "none"
    BY <1>0, <1>2, <1>5 DEF ContinueDebugEvent, NotRunning
  <2>2. proc[Root] = [state |-> "dying", code |-> pend[current].code]
    BY <1>4, <1>5 DEF BarePort, ExitsMatch
  <2>3. pend[current].code = proc[Root].code
    BY <2>2
  <2> QED BY <1>5, <2>1, <2>3
<1>6. CASE ~(pend[current].kind = "EXIT_PROCESS" /\ Owner[current] = Root)
  BY <1>0, <1>2, <1>3, <1>6 DEF ContinueDebugEvent
<1> QED BY <1>5, <1>6

\* Every step keeps what catchsegv's terminations have brought about.
LEMMA KilledStep ==
  ASSUME CatchSegvTypeOK, BarePort, KilledDies, [CatchSegvNext]_csVars
  PROVE  KilledDies'
<1>0. /\ TypeOK /\ OwnTypeOK /\ Root \in Pid /\ proc \in [Pid -> ProcState]
      /\ NoExit \notin ExitCode \cup {0, 3, NTSTATUS, EXIT_FAILURE, STILL_ACTIVE}
  BY PortAssumption, OwnSplit DEF TypeOK, PortTypeOK, NoExit, NTSTATUS, EXIT_FAILURE, STILL_ACTIVE
<1>1. ASSUME UNCHANGED <<killed, rootCode>>,
             exitCode' = exitCode \/ exitCode' \in {EXIT_FAILURE, 3, NTSTATUS},
             proc[Root].state \in {"dying", "none"} => proc'[Root] = proc[Root]
      PROVE  KilledDies'
  BY <1>1 DEF KilledDies, EXIT_FAILURE, NTSTATUS, NoExit
<1>2. ASSUME UNCHANGED <<rootCode, exitCode>>, exitCode = NoExit,
             \/ proc' = Terminated(Root, 3) /\ killed' = (killed \/ proc[Root].state = "alive")
             \/ proc' = proc /\ killed' = killed
      PROVE  KilledDies'
  <2>1. CASE proc' = proc /\ killed' = killed
    BY <1>2, <2>1 DEF KilledDies
  <2>2. CASE proc' = Terminated(Root, 3) /\ killed' = (killed \/ proc[Root].state = "alive")
    <3>1. proc'[Root] = IF proc[Root].state = "alive" THEN [state |-> "dying", code |-> 3]
                        ELSE proc[Root]
      BY <1>0, <2>2 DEF Terminated
    <3>2. CASE proc[Root].state = "alive"
      BY <1>2, <3>1, <3>2 DEF KilledDies
    <3>3. CASE proc[Root].state # "alive"
      BY <1>2, <2>2, <3>1, <3>3 DEF KilledDies
    <3> QED BY <3>2, <3>3
  <2> QED BY <1>2, <2>1, <2>2
<1>3. ASSUME NEW w \in Worker,
             \/ TerminateProcessById(w) \/ TerminateFails(w)
             \/ TrapLookup(w) \/ TrapRaces(w) \/ TrapSuspend(w) \/ TrapDump(w)
      PROVE  KilledDies'
  <2>1. CASE TerminateFails(w) \/ TrapLookup(w) \/ TrapRaces(w) \/ TrapDump(w)
    <3>1. /\ UNCHANGED <<killed, rootCode, proc>>
          /\ exitCode' = exitCode \/ exitCode' \in {EXIT_FAILURE, 3, NTSTATUS}
      BY <2>1 DEF TerminateFails, TrapLookup, TrapRaces, TrapDump, ToolExits, timerVars, portVars
    <3> QED
      BY <1>1, <3>1
  <2>2. CASE TerminateProcessById(w)
    <3>1. UNCHANGED <<rootCode, exitCode>> /\ exitCode = NoExit
      BY <2>2 DEF TerminateProcessById, Alive
    <3>2. \/ proc' = Terminated(Root, 3) /\ killed' = (killed \/ proc[Root].state = "alive")
          \/ proc' = proc /\ killed' = killed
      BY <2>2 DEF TerminateProcessById
    <3> QED
      BY <1>2, <3>1, <3>2
  <2>3. CASE TrapSuspend(w)
    <3>1. UNCHANGED <<rootCode, exitCode>> /\ exitCode = NoExit
      BY <2>3 DEF TrapSuspend, Alive
    <3>2. \/ proc' = Terminated(Root, 3) /\ killed' = (killed \/ proc[Root].state = "alive")
          \/ proc' = proc /\ killed' = killed
      BY <1>0, <2>3 DEF TrapSuspend, OwnTypeOK
    <3> QED
      BY <1>2, <3>1, <3>2
  <2> QED
    BY <1>3, <2>1, <2>2, <2>3
<1>4. ASSUME NEW w \in Worker, TimerFires(w) \/ CallbackStep(w) PROVE KilledDies'
  <2>1. CASE \/ TimerFires(w) \/ FindNoDialog(w) \/ Count(w) \/ TimeOutExceeded(w)
             \/ \E t \in Tid : FindDialog(w, t)
    <3>1. UNCHANGED <<killed, rootCode, exitCode>>
      BY <2>1 DEF TimerFires, FindNoDialog, Count, TimeOutExceeded, FindDialog
    <3>2. UNCHANGED vars
      BY <2>1, QuietSteps
    <3> QED
      BY <1>1, <3>1, <3>2 DEF vars, portVars
  <2> QED
    BY <1>3, <1>4, <2>1 DEF CallbackStep
<1>5. ASSUME NEW t \in Tid, OutsideStep(ProgramStep(t)) \/ OutsideStep(KernelStep(t))
                            \/ OutsideStep(WaitStep(t))
      PROVE  KilledDies'
  BY <1>0, <1>1, <1>5, DyingStays DEF OutsideStep, timerVars
<1>6. CASE MainStep
  <2>1. CASE proc[Root].state \notin {"dying", "none"} \/ exitCode # NoExit \/ ~killed
    BY <1>6, <2>1 DEF KilledDies, MainStep, Alive, timerVars
  <2>2. CASE proc[Root].state \in {"dying", "none"} /\ killed /\ exitCode = NoExit
    <3>1. killed' = killed /\ exitCode' \in {exitCode, EXIT_FAILURE}
      BY <1>6 DEF MainStep, timerVars
    <3>2. CASE pend[current].kind = "EXIT_PROCESS" /\ Owner[current] = Root
      <4>1. rootCode' = pend[current].code
        BY <1>6, <3>2 DEF MainStep
      <4>2. current # NoThread
        BY <1>0, <1>6, HandlersContinue DEF MainStep
      <4>3. proc[Root] = [state |-> "dying", code |-> pend[current].code]
        BY <1>0, <3>2, <4>2, HandlingFacts DEF BarePort, ExitsMatch
      <4>4. proc[Root].state = "dying" /\ proc[Root].code = pend[current].code
        BY <4>3
      <4>5. rootCode' = 3
        BY <2>2, <4>1, <4>4 DEF KilledDies
      <4>6. proc'[Root].state = "none" \/ proc'[Root] = proc[Root]
        BY <1>0, <1>6, <2>2, DyingHandled DEF MainStep
      <4>7. proc[Root].code = 3
        BY <2>2, <4>4 DEF KilledDies
      <4> QED
        BY <3>1, <2>2, <4>4, <4>5, <4>6, <4>7 DEF KilledDies, EXIT_FAILURE, NoExit
    <3>3. CASE ~(pend[current].kind = "EXIT_PROCESS" /\ Owner[current] = Root)
      <4>1. rootCode' = rootCode
        BY <1>6, <3>3 DEF MainStep
      <4>2. proc'[Root] = proc[Root]
        BY <1>0, <1>6, <2>2, <3>3, DyingHandled DEF MainStep
      <4> QED
        BY <1>1, <3>1, <4>1, <4>2
    <3> QED BY <3>2, <3>3
  <2> QED BY <2>1, <2>2
<1>7. CASE Return
  <2>1. killed' = killed /\ exitCode = NoExit
        /\ exitCode' = (IF proc[Root].state = "none" THEN rootCode ELSE STILL_ACTIVE)
    BY <1>7 DEF Return, Alive, timerVars
  <2> QED
    BY <1>0, <2>1 DEF KilledDies, STILL_ACTIVE, NoExit
<1>8. ASSUME NEW t \in Tid, Dialog(t) PROVE KilledDies'
  BY <1>1, <1>8 DEF Dialog, vars, portVars, timerVars
<1>9. ASSUME NEW c \in CtrlType, consoleCtrlHandler(c) PROVE KilledDies'
  BY <1>1, <1>9 DEF consoleCtrlHandler, ToolExits, portVars, timerVars
<1>10. CASE OutsideStep(WaitFails)
  BY <1>1, <1>10 DEF OutsideStep, WaitFails, portVars, timerVars
<1>11. CASE Ended \/ UNCHANGED csVars
  BY <1>1, <1>11 DEF Ended, csVars, vars, portVars, timerVars
<1> QED
  BY <1>4, <1>5, <1>6, <1>7, <1>8, <1>9, <1>10, <1>11 DEF CatchSegvNext

-----------------------------------------------------------------------------
(* The initial states and the theorems.                                    *)

CatchSegvInv == CatchSegvTypeOK /\ BarePort /\ TimerInv /\ KilledDies

LEMMA CatchSegvInitInv == CatchSegvInit => CatchSegvInv
<1> SUFFICES ASSUME CatchSegvInit PROVE CatchSegvInv
  OBVIOUS
<1>1. TypeOK
  BY InitType DEF CatchSegvInit
<1>2. OwnTypeOK
  <2>1. Idle \in Callback
    BY DEF Idle, Callback
  <2>2. timer \in [Worker -> Callback] /\ cCtrl \in [CtrlType -> 0..1]
    BY <2>1 DEF CatchSegvInit
  <2>3. g_ElapsedTime \in 0..(Word - 1) /\ ticks \in 0..Word
    BY CatchSegvAssumption DEF CatchSegvInit
  <2> QED
    BY <2>2, <2>3 DEF CatchSegvInit, OwnTypeOK
<1>3. BarePort
  BY BarePortInit DEF CatchSegvInit
<1>4. TimerInv
  <2>1. Adding = {} /\ ticks = 0 /\ g_ElapsedTime = 0
    BY DEF CatchSegvInit, Adding, Idle
  <2>2. NoEarlyTimeOut
    BY DEF CatchSegvInit, NoEarlyTimeOut, Idle
  <2> QED
    BY <2>1, <2>2, FS_EmptySet DEF TimerInv, ElapsedAndPassed
<1>5. KilledDies
  BY DEF CatchSegvInit, KilledDies
<1> QED
  BY <1>1, <1>2, <1>3, <1>4, <1>5, OwnSplit DEF CatchSegvInv

\* The types, the timer's invariant and what catchsegv's terminations bring
\* about hold in every reachable state of catchsegv.
THEOREM CatchSegvInvariance == CatchSegvSpec => []CatchSegvInv
<1>1. CatchSegvInv /\ [CatchSegvNext]_csVars => CatchSegvInv'
  <2> SUFFICES ASSUME CatchSegvInv, [CatchSegvNext]_csVars PROVE CatchSegvInv'
    OBVIOUS
  <2>1. TypeOK' /\ BarePort'
    BY SharedStep DEF CatchSegvInv
  <2>2. OwnTypeOK'
    BY OwnStep DEF CatchSegvInv
  <2>3. TimerInv' /\ KilledDies'
    BY TimerStep, KilledStep DEF CatchSegvInv
  <2> QED
    BY <2>1, <2>2, <2>3 DEF CatchSegvInv, CatchSegvTypeOK, OwnTypeOK
<1> QED
  BY <1>1, CatchSegvInitInv, PTL DEF CatchSegvSpec

\* The state of catchsegv is always of its type, whatever the callbacks do to
\* g_Processes.
THEOREM CatchSegvTyping == CatchSegvSpec => []CatchSegvTypeOK
<1>1. CatchSegvInv => CatchSegvTypeOK
  BY DEF CatchSegvInv
<1> QED
  BY <1>1, CatchSegvInvariance, PTL

\* TimeOutCallback terminates the target only after as many periods as make up
\* the time-out, or what the DWORD left of it, for any number of callbacks at
\* once and however their additions to g_ElapsedTime are lost.
THEOREM TimeOutNotEarly == CatchSegvSpec => []NoEarlyTimeOut
<1>1. CatchSegvInv => NoEarlyTimeOut
  BY DEF CatchSegvInv, TimerInv
<1> QED
  BY <1>1, CatchSegvInvariance, PTL

\* wmain never returns 0 once catchsegv has terminated the target, whatever the
\* target, the loop and the other callbacks were about to do.
THEOREM KilledNeverSucceeds == CatchSegvSpec => []KilledNotSuccess
<1>1. CatchSegvInv => KilledNotSuccess
  BY DEF CatchSegvInv, KilledDies, KilledNotSuccess, NoExit
<1> QED
  BY <1>1, CatchSegvInvariance, PTL
=============================================================================
