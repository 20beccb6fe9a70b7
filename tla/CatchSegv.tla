------------------------------- MODULE CatchSegv -------------------------------
(***************************************************************************)
(* src/catchsegv/catchsegv.cpp around the debugger loop: the timer queue   *)
(* whose callback looks for modal dialogs and for the time-out, TrapThread *)
(* of src/common/debugger.cpp, the console control handler, and what wmain *)
(* returns.                                                                *)
(*                                                                         *)
(* The callbacks run in the threads of a pool and share g_Processes and    *)
(* their own globals with the main thread and with each other, without a   *)
(* lock.  An access to a global, or one call of the system, is one step.   *)
(* Definitions named ..._Slip are as in Debugger.                          *)
(***************************************************************************)
EXTENDS Debugger

CONSTANTS
  Worker,       \* the threads of the timer queue's pool: the callbacks at a time
  TimeOuts,     \* values of -t in seconds, 0 if it is not given
  Second,       \* timer periods in a second
  Word,         \* a DWORD counts periods modulo this
  NDEBUG,       \* whether assert is compiled out
  CtrlType      \* the console events sent: subset of {"CTRL_C", "CTRL_BREAK"}

VARIABLES
  g_TimeOut,
  g_ModalDialogIgnore,
  g_TimerIgnore,
  g_ElapsedTime,      \* in timer periods
  timer,              \* timer[w]: the callback w is executing, and its locals
  cCtrl,              \* cCtrl[c]: how many events of type c were ignored
  dialogs,            \* the threads that show a modal dialog and wait for it
  rootCode,           \* the exit code the system keeps of the target
  exitCode,           \* the exit code of catchsegv, or NoExit
  ticks,              \* periods of the timer that have passed (history)
  killed              \* catchsegv has terminated the target (history)

timerVars == <<g_TimeOut, g_ModalDialogIgnore, g_TimerIgnore, g_ElapsedTime, timer, ticks, killed>>
csVars == <<vars, timerVars, cCtrl, dialogs, rootCode, exitCode>>

ASSUME CatchSegvAssumption ==
  /\ IsFiniteSet(Worker)
  /\ TimeOuts \subseteq Nat
  /\ Second \in Nat \ {0} /\ Word \in Nat \ {0}
  /\ NDEBUG \in BOOLEAN
  /\ CtrlType \subseteq {"CTRL_C", "CTRL_BREAK"}

NoExit == -1
EXIT_FAILURE == 1
STILL_ACTIVE == 259

\* "scanning": past the first test of g_TimerIgnore; "counting": past the
\* second; "expired": the time-out is exceeded; "terminating" and "failing": in
\* TerminateProcessById; "trapping", "suspending" and "dumping": in TrapThread.
Idle == [pc |-> "idle", thread |-> NoThread, hProcess |-> NoHandle, found |-> FALSE]
Callback ==
  {c \in [pc : {"idle", "scanning", "counting", "expired", "terminating", "failing",
                "trapping", "suspending", "dumping"},
          thread : Tid \cup {NoThread}, hProcess : Handle \cup {NoHandle}, found : BOOLEAN] :
     c.pc \in {"trapping", "suspending", "dumping"} => c.thread \in Tid}

Alive == exitCode = NoExit

\* exit(c), abort() or a crash of catchsegv, and all it debugs dies with it.
ToolExits(c) == exitCode' = c /\ loop' = "exited"

-----------------------------------------------------------------------------
(* TimeOutCallback.                                                        *)

TimerFires_Slip(w) ==
  /\ Alive
  /\ timer[w].pc = "idle"
  /\ ticks' = IF ticks < Word THEN ticks + 1 ELSE ticks
  /\ timer' = IF g_TimerIgnore \/ g_TimeOut = 0 THEN timer ELSE [timer EXCEPT ![w].pc = "scanning"]
  /\ UNCHANGED <<vars, g_TimeOut, g_ModalDialogIgnore, g_TimerIgnore, g_ElapsedTime, killed,
                 cCtrl, dialogs, rootCode, exitCode>>

\* A period has passed and the pool runs the callback.
TimerFires(w) ==
  /\ Alive
  /\ timer[w].pc = "idle"
  /\ ticks' = IF ticks < Word THEN ticks + 1 ELSE ticks
  /\ timer' = IF g_TimerIgnore THEN timer ELSE [timer EXCEPT ![w].pc = "scanning"]
  /\ UNCHANGED <<vars, g_TimeOut, g_ModalDialogIgnore, g_TimerIgnore, g_ElapsedTime, killed,
                 cCtrl, dialogs, rootCode, exitCode>>

\* EnumWindows finds a modal dialog of the target: TrapThread is called.
FindDialog(w, t) ==
  /\ Alive
  /\ timer[w].pc = "scanning" /\ ~g_ModalDialogIgnore
  /\ t \in dialogs /\ Owner[t] = Root
  /\ g_TimerIgnore' = TRUE
  /\ timer' = [timer EXCEPT ![w] = [Idle EXCEPT !.pc = "trapping", !.thread = t]]
  /\ UNCHANGED <<vars, g_TimeOut, g_ModalDialogIgnore, g_ElapsedTime, ticks, killed,
                 cCtrl, dialogs, rootCode, exitCode>>

\* It finds none, or was not called.
FindNoDialog(w) ==
  /\ Alive
  /\ timer[w].pc = "scanning"
  /\ g_ModalDialogIgnore \/ dialogs \cap ThreadsOf(Root) = {}
  /\ timer' = [timer EXCEPT ![w].pc = IF g_TimerIgnore THEN "idle" ELSE "counting"]
  /\ UNCHANGED <<vars, g_TimeOut, g_ModalDialogIgnore, g_TimerIgnore, g_ElapsedTime, ticks, killed,
                 cCtrl, dialogs, rootCode, exitCode>>

Deadline_Slip == g_TimeOut % Word

\* g_TimeOut * 1000, in periods.
Deadline == (g_TimeOut * Second) % Word

Elapsed_Slip1(n) == 1
Elapsed_Slip2(n) == n + 1

\* g_ElapsedTime += g_Period
Elapsed(n) == (n + 1) % Word

\* Of two callbacks that add to g_ElapsedTime at once one addition may be lost.
Count(w) ==
  /\ Alive
  /\ timer[w].pc = "counting"
  /\ g_ElapsedTime' \in {Elapsed(g_ElapsedTime)} \cup
       {n \in {g_ElapsedTime} : \E v \in Worker \ {w} : timer[v].pc = "counting"}
  /\ timer' = [timer EXCEPT ![w].pc =
                 IF g_TimeOut = 0 \/ g_ElapsedTime' < Deadline THEN "idle" ELSE "expired"]
  /\ UNCHANGED <<vars, g_TimeOut, g_ModalDialogIgnore, g_TimerIgnore, ticks, killed,
                 cCtrl, dialogs, rootCode, exitCode>>

\* The message, and g_TimerIgnore.
TimeOutExceeded(w) ==
  /\ Alive
  /\ timer[w].pc = "expired"
  /\ g_TimerIgnore' = TRUE
  /\ timer' = [timer EXCEPT ![w].pc = "terminating"]
  /\ UNCHANGED <<vars, g_TimeOut, g_ModalDialogIgnore, g_ElapsedTime, ticks, killed,
                 cCtrl, dialogs, rootCode, exitCode>>

\* OpenProcess and TerminateProcess in TerminateProcessById(Root).  A process
\* that is ending, or has ended while wmain holds its handle, cannot be
\* terminated; in the meantime it may have ended by itself, and wmain too.
TerminateProcessById(w) ==
  /\ Alive
  /\ timer[w].pc = "terminating"
  /\ \/ /\ proc[Root].state = "alive"
        /\ proc' = Terminated(Root, 3)
        /\ killed' = TRUE
        /\ timer' = [timer EXCEPT ![w] = Idle]
     \/ /\ proc[Root].state # "alive" \/ EnvFaults
        /\ timer' = [timer EXCEPT ![w].pc = "failing"]
        /\ UNCHANGED <<proc, killed>>
  /\ UNCHANGED <<thr, pend, declined, hproc, mapped, current, dbgVars, g_TimeOut,
                 g_ModalDialogIgnore, g_TimerIgnore, g_ElapsedTime, ticks,
                 cCtrl, dialogs, rootCode, exitCode>>

\* exit(EXIT_FAILURE), if the main thread has not been faster.
TerminateFails(w) ==
  /\ Alive
  /\ timer[w].pc = "failing"
  /\ ToolExits(EXIT_FAILURE)
  /\ UNCHANGED <<portVars, debugOptions, g_Processes, fTerminating, sessions, loaded, leftOpen,
                 signals, log, timerVars, cCtrl, dialogs, rootCode>>

-----------------------------------------------------------------------------
(* TrapThread.                                                             *)

\* assert(hProcess) and assert(hThread)
AssertFails(info, t) ==
  ~NDEBUG /\ (info.hProcess = NoHandle \/ info.Threads[t] # "handle")

\* The lookups in g_Processes; operator[] makes entries that are not there.
TrapLookup(w) ==
  LET t == timer[w].thread
      info == Find(Root)
      table == [g_Processes EXCEPT ![Root] = [info EXCEPT !.Threads = FindThread(@, t)]]
  IN  /\ Alive
      /\ timer[w].pc = "trapping"
      /\ g_Processes' = table
      /\ IF AssertFails(info, t) THEN ToolExits(3) ELSE UNCHANGED <<loop, exitCode>>
      /\ timer' = [timer EXCEPT ![w] = [@ EXCEPT !.pc = "suspending", !.hProcess = info.hProcess,
                                                 !.found = info.Threads[t] = "handle"]]
      /\ UNCHANGED <<portVars, debugOptions, fTerminating, sessions, loaded, leftOpen, signals, log,
                     g_TimeOut, g_ModalDialogIgnore, g_TimerIgnore, g_ElapsedTime, ticks, killed,
                     cCtrl, dialogs, rootCode>>

\* The kinds of event whose handlers add or remove nodes of the maps.
Reshapes == {"CREATE_PROCESS", "CREATE_THREAD", "EXIT_THREAD", "EXIT_PROCESS"}

\* While the main thread changes the maps the lookup may go wrong in any way;
\* what it does not survive ends catchsegv.
TrapRaces(w) ==
  /\ Alive
  /\ timer[w].pc = "trapping"
  /\ current # NoThread /\ pend[current].kind \in Reshapes
  /\ ToolExits(NTSTATUS)
  /\ UNCHANGED <<portVars, debugOptions, g_Processes, fTerminating, sessions, loaded, leftOpen, signals, log,
                 timerVars, cCtrl, dialogs, rootCode>>

\* SuspendThread; if that fails the target is terminated without more ado.
TrapSuspend(w) ==
  LET suspended == timer[w].found /\ thr[timer[w].thread] # "none"
      terminates == ~suspended /\ timer[w].hProcess # NoHandle
  IN  /\ Alive
      /\ timer[w].pc = "suspending"
      /\ proc' = IF terminates THEN Terminated(Root, 3) ELSE proc
      /\ killed' = (killed \/ (terminates /\ proc[Root].state = "alive"))
      /\ timer' = [timer EXCEPT ![w] = IF suspended THEN [@ EXCEPT !.pc = "dumping"] ELSE Idle]
      /\ UNCHANGED <<thr, pend, declined, hproc, mapped, current, dbgVars,
                     g_TimeOut, g_ModalDialogIgnore, g_TimerIgnore, g_ElapsedTime, ticks,
                     cCtrl, dialogs, rootCode, exitCode>>

\* The stack and the minidump, then exit(3).  Nothing can be read of a target
\* that has ended in the meantime.
TrapDump(w) ==
  LET t == timer[w].thread
      info == g_Processes[Root]
  IN  /\ Alive
      /\ timer[w].pc = "dumping"
      /\ log' = [log EXCEPT ![Root] =
                   IF info.listed /\ thr[t] # "none" THEN WithStacks(WithDump(@, info), {t}) ELSE @]
      /\ g_Processes' = IF info.listed THEN [g_Processes EXCEPT ![Root] = writeDump(info)]
                        ELSE g_Processes
      /\ ToolExits(3)
      /\ UNCHANGED <<portVars, debugOptions, fTerminating, sessions, loaded, leftOpen, signals,
                     timerVars, cCtrl, dialogs, rootCode>>

CallbackStep(w) ==
  \/ \E t \in Tid : FindDialog(w, t)
  \/ FindNoDialog(w)
  \/ Count(w) \/ TimeOutExceeded(w) \/ TerminateProcessById(w) \/ TerminateFails(w)
  \/ TrapLookup(w) \/ TrapRaces(w) \/ TrapSuspend(w) \/ TrapDump(w)

-----------------------------------------------------------------------------
(* The main thread, the console and the programs.                          *)

\* A dialog goes with its thread.
DialogsLeft ==
  {t \in dialogs : thr'[t] = "live" /\ pend'[t].kind \notin {"EXIT_THREAD", "EXIT_PROCESS"}}

\* A step of the programs or of the kernel, or WaitForDebugEvent.
OutsideStep(A) ==
  /\ Alive
  /\ A
  /\ dialogs' = DialogsLeft
  /\ UNCHANGED <<timerVars, cCtrl, rootCode, exitCode>>

\* A handler of DebugMainLoop; OnCreateProcess may call exit(EXIT_FAILURE).
MainStep ==
  /\ Alive
  /\ HandleEvent
  /\ rootCode' = IF pend[current].kind = "EXIT_PROCESS" /\ Owner[current] = Root
                 THEN pend[current].code ELSE rootCode
  /\ exitCode' = IF loop' = "exited" THEN EXIT_FAILURE ELSE exitCode
  /\ dialogs' = DialogsLeft
  /\ UNCHANGED <<timerVars, cCtrl>>

Return_Slip ==
  /\ Alive
  /\ loop \in {"finished", "failed"}
  /\ exitCode' = rootCode
  /\ UNCHANGED <<vars, timerVars, cCtrl, dialogs, rootCode>>

\* wmain returns what GetExitCodeProcess gives.
Return ==
  /\ Alive
  /\ loop \in {"finished", "failed"}
  /\ exitCode' = IF proc[Root].state = "none" THEN rootCode ELSE STILL_ACTIVE
  /\ UNCHANGED <<vars, timerVars, cCtrl, dialogs, rootCode>>

\* consoleCtrlHandler ignores the first event of each type; the second one is
\* left to the system, which ends catchsegv.
consoleCtrlHandler(c) ==
  /\ Alive
  /\ IF cCtrl[c] = 0
     THEN cCtrl' = [cCtrl EXCEPT ![c] = 1] /\ UNCHANGED <<loop, exitCode>>
     ELSE ToolExits(NTSTATUS) /\ UNCHANGED cCtrl
  /\ UNCHANGED <<portVars, debugOptions, g_Processes, fTerminating, sessions, loaded, leftOpen, signals, log,
                 timerVars, dialogs, rootCode>>

\* A thread shows a modal dialog, or its dialog is answered.
Dialog(t) ==
  /\ Alive
  /\ Executing(t)
  /\ \/ t \notin dialogs /\ dialogs' = dialogs \cup {t}
     \/ /\ t \in dialogs /\ dialogs' = dialogs \ {t}
        /\ \A w \in Worker : timer[w].pc = "dumping" => timer[w].thread # t
  /\ UNCHANGED <<vars, timerVars, cCtrl, rootCode, exitCode>>

CatchSegvInit ==
  /\ Init
  /\ g_TimeOut \in TimeOuts
  /\ g_ModalDialogIgnore \in BOOLEAN
  /\ g_TimerIgnore = FALSE
  /\ g_ElapsedTime = 0
  /\ timer = [w \in Worker |-> Idle]
  /\ cCtrl = [c \in CtrlType |-> 0]
  /\ dialogs = {}
  /\ rootCode = 0
  /\ exitCode = NoExit
  /\ ticks = 0
  /\ killed = FALSE

\* catchsegv has ended.
Ended == ~Alive /\ UNCHANGED csVars

CatchSegvNext ==
  \/ \E t \in Tid : \/ t \notin dialogs /\ OutsideStep(ProgramStep(t))
                    \/ OutsideStep(KernelStep(t))
                    \/ OutsideStep(WaitStep(t))
                    \/ Dialog(t)
  \/ \E w \in Worker : TimerFires(w) \/ CallbackStep(w)
  \/ \E c \in CtrlType : consoleCtrlHandler(c)
  \/ MainStep
  \/ OutsideStep(WaitFails)
  \/ Return
  \/ Ended

(* As for Debugger; besides, the timer keeps firing, and a callback once   *)
(* started runs to its end.                                                *)
CatchSegvFairness ==
  /\ \A t \in Tid : SF_csVars(OutsideStep(WaitStep(t))) /\ WF_csVars(OutsideStep(KernelStep(t)))
  /\ \A w \in Worker : WF_csVars(TimerFires(w)) /\ WF_csVars(CallbackStep(w))
  /\ WF_csVars(MainStep)
  /\ WF_csVars(Return)

CatchSegvSpec == CatchSegvInit /\ [][CatchSegvNext]_csVars /\ CatchSegvFairness

CatchSegvTypeOK ==
  /\ TypeOK
  /\ g_TimeOut \in TimeOuts
  /\ g_ModalDialogIgnore \in BOOLEAN /\ g_TimerIgnore \in BOOLEAN
  /\ g_ElapsedTime \in 0..(Word - 1)
  /\ timer \in [Worker -> Callback]
  /\ cCtrl \in [CtrlType -> 0..1]
  /\ dialogs \subseteq Tid
  /\ rootCode \in ExitCode \cup {0, 3, NTSTATUS}
  /\ exitCode \in ExitCode \cup {NoExit, 0, EXIT_FAILURE, 3, NTSTATUS, STILL_ACTIVE}
  /\ ticks \in 0..Word
  /\ killed \in BOOLEAN

-----------------------------------------------------------------------------
(* Properties.                                                             *)

\* The time-out does not strike before its time: when TimeOutCallback
\* terminates the target, g_TimeOut seconds have passed since the timer began.
\* A time-out that does not fit the DWORD of g_TimeOut * 1000 strikes when what
\* is left of it has passed.
NoEarlyTimeOut ==
  \A w \in Worker : timer[w].pc \in {"expired", "terminating", "failing"} =>
    ticks >= IF g_TimeOut * Second < Word THEN g_TimeOut * Second ELSE Deadline

\* What catchsegv has terminated is never taken for a success, whether it was
\* the time-out or TrapThread that did it, and though the loop may fail before
\* the end of the target is reported.  A target that ends with 0 after the
\* time-out's message and before TerminateProcess does count as a success.
KilledNotSuccess == killed => exitCode # 0

\* With -t the target does not run for ever: g_TimerIgnore, once set, does not
\* keep the time-out from striking a target that goes on.
TimedOutKilled ==
  g_TimeOut # 0 ~> proc[Root].state # "alive" \/ ~Alive

\* A modal dialog of the target that nobody answers is trapped, with or
\* without a time-out, unless -m was given.
DialogTrapped ==
  \A t \in ThreadsOf(Root) :
    t \in dialogs /\ ~g_ModalDialogIgnore ~>
      t \notin dialogs \/ proc[Root].state # "alive" \/ ~Alive

\* TrapThread has made an entry for the target after its end was handled, which
\* nothing erases: its operator[] found none, and assert is compiled out.
PutBack == g_Processes[Root].listed /\ g_Processes[Root].hProcess = NoHandle

\* When every process has gone catchsegv ends, also when WaitForDebugEvent has
\* failed or a callback is on its way; but not if TrapThread has put an entry
\* back into g_Processes by then.
EndsWithLast ==
  (\A p \in Pid : proc[p].state = "none") ~> ~Alive \/ PutBack

\* TrapThread's assert(hProcess): the target is in the table when a dialog of
\* its is trapped.
TrapFindsProcess ==
  \A w \in Worker : timer[w].pc = "suspending" => timer[w].hProcess # NoHandle
=============================================================================
