------------------------------ MODULE DebugPort ------------------------------
(***************************************************************************)
(* The Windows side of the debugging interface: the programs being         *)
(* debugged and the kernel that reports what they do.  None of this is     *)
(* code of the repository; it is what DebugMainLoop                        *)
(* (src/common/debugger.cpp) relies on when it calls WaitForDebugEvent,    *)
(* ContinueDebugEvent, TerminateProcess and ResumeThread.                  *)
(*                                                                         *)
(* A thread that reports an event is blocked until the event is continued. *)
(* Several threads, of one or of several processes, may be blocked in a    *)
(* report at once and the debugger may be given their events in any order, *)
(* except that a process is announced before its threads are.              *)
(***************************************************************************)
EXTENDS Integers, FiniteSets

CONSTANTS
  Pid,          \* process identifiers
  Tid,          \* thread identifiers
  Owner,        \* the process each thread identifier belongs to
  Root,         \* the process the tool starts or attaches to
  Handle,       \* values a process handle of the debugger can have
  Dll,          \* libraries a process may load and unload
  Raises,       \* the exceptions threads of this instance raise by themselves
  ExitCode,     \* exit codes threads and processes of this instance use
  NoThread,     \* "no thread", for options and for the loop
  NoHandle,     \* a handle variable that holds no handle
  None          \* an event with no exception and no library

Exceptions == {"BREAKPOINT", "WX86_BREAKPOINT", "THREAD_NAME", "CONTROL_C",
               "STACK_OVERFLOW", "OTHER"}

\* Stands for every exception code when it becomes an exit code: as a DWORD
\* each of them is above 255.
NTSTATUS == 256

ASSUME PortAssumption ==
  /\ Owner \in [Tid -> Pid]
  /\ Root \in Pid
  /\ Raises \subseteq Exceptions
  /\ ExitCode \subseteq Nat
  /\ NoThread \notin Tid
  /\ NoHandle \notin Handle
  /\ None \notin Exceptions \cup Dll

VARIABLES
  proc,         \* proc[p]: whether p exists, and the exit code it is dying with
  thr,          \* thr[t]: whether t exists and what it is waiting for
  pend,         \* pend[t]: the event t is blocked in, or NoEvent
  declined,     \* declined[t]: the exception the debugger left to t, or None
  hproc,        \* hproc[p]: the handle of p the system opened for the debugger
  mapped,       \* mapped[p]: the libraries in the address space of p
  current       \* the thread whose event WaitForDebugEvent last returned

portVars == <<proc, thr, pend, declined, hproc, mapped, current>>

ProcState == [state : {"none", "alive", "dying"}, code : ExitCode \cup {0, 3, NTSTATUS}]

(* "starting": has not yet hit the breakpoint of its process's loader, or   *)
(* is the thread attaching to a process injects.  "faulted": stopped in    *)
(* its exception filter until the debugger has signalled the event it was   *)
(* given.  "suspended": created so, until somebody resumes it.              *)
ThreadState == {"none", "starting", "live", "faulted", "suspended"}

EventKind == {"NONE", "CREATE_PROCESS", "CREATE_THREAD", "EXIT_THREAD",
              "EXIT_PROCESS", "EXCEPTION", "LOAD_DLL", "UNLOAD_DLL",
              "OUTPUT_DEBUG_STRING", "RIP"}

Event ==
  {e \in [kind : EventKind, arg : Exceptions \cup Dll \cup {None},
          first : BOOLEAN, code : ExitCode \cup {0, 3, NTSTATUS}] :
     /\ e.kind = "EXCEPTION" => e.arg \in Exceptions
     /\ e.kind \in {"LOAD_DLL", "UNLOAD_DLL"} => e.arg \in Dll}

Report(kind, arg) == [kind |-> kind, arg |-> arg, first |-> FALSE, code |-> 0]
Exception(e, first) == [kind |-> "EXCEPTION", arg |-> e, first |-> first, code |-> 0]
Exit(kind, c) == [kind |-> kind, arg |-> None, first |-> FALSE, code |-> c]

NoEvent == Report("NONE", None)
NotRunning == [state |-> "none", code |-> 0]
Running == [state |-> "alive", code |-> 0]

Pending(t) == pend[t].kind # "NONE"
ThreadsOf(p) == {t \in Tid : Owner[t] = p}
Existing(p) == {t \in ThreadsOf(p) : thr[t] # "none"}

PortTypeOK ==
  /\ proc \in [Pid -> ProcState]
  /\ thr \in [Tid -> ThreadState]
  /\ pend \in [Tid -> Event]
  /\ declined \in [Tid -> Exceptions \cup {None}]
  /\ hproc \in [Pid -> Handle \cup {NoHandle}]
  /\ mapped \in [Pid -> SUBSET Dll]
  /\ current \in Tid \cup {NoThread}

-----------------------------------------------------------------------------
(* What the calls of the debugger do.                                      *)

\* TerminateProcess(p, c): the process starts dying, unless it is already.
Terminated(p, c) ==
  [proc EXCEPT ![p] = IF @.state = "alive" THEN [state |-> "dying", code |-> c] ELSE @]

\* ResumeThread(t) in the thread states ts.
Resumed(ts, t) == [ts EXCEPT ![t] = IF @ = "suspended" THEN "live" ELSE @]

\* A thread's report can be handed over once its process has been announced;
\* the injected thread's once all the threads attached to have been, too.
Deliverable(t) ==
  /\ Pending(t)
  /\ \A u \in ThreadsOf(Owner[t]) \ {t} :
       /\ pend[u].kind # "CREATE_PROCESS"
       /\ thr[t] = "starting" => pend[u].kind # "CREATE_THREAD"

\* WaitForDebugEvent hands over the report of t.  With the announcement of a
\* process comes a handle of it: any value that no open handle has.
WaitForDebugEvent(t) ==
  /\ current = NoThread
  /\ Deliverable(t)
  /\ current' = t
  /\ IF pend[t].kind = "CREATE_PROCESS"
     THEN \E h \in Handle \ {hproc[p] : p \in Pid} : hproc' = [hproc EXCEPT ![Owner[t]] = h]
     ELSE UNCHANGED hproc
  /\ UNCHANGED <<proc, thr, pend, declined, mapped>>

\* ContinueDebugEvent for the current event, with the process and thread
\* states ps and ts the handler's own calls left.  An exception that is not
\* handled goes to the program the first time and ends the process the second.
\* After an exit the system closes the handles it had opened.
ContinueDebugEvent(status, ps, ts) ==
  LET t == current
      p == Owner[t]
      e == pend[t]
      unhandled == e.kind = "EXCEPTION" /\ status = "DBG_EXCEPTION_NOT_HANDLED"
  IN  /\ current' = NoThread
      /\ pend' = [pend EXCEPT ![t] = NoEvent]
      /\ declined' = [declined EXCEPT ![t] = IF unhandled /\ e.first THEN e.arg ELSE None]
      /\ thr' = IF e.kind \in {"EXIT_THREAD", "EXIT_PROCESS"}
                THEN [ts EXCEPT ![t] = "none"] ELSE ts
      /\ proc' = IF e.kind = "EXIT_PROCESS" THEN [ps EXCEPT ![p] = NotRunning]
                 ELSE IF unhandled /\ ~e.first /\ ps[p].state = "alive"
                 THEN [ps EXCEPT ![p] = [state |-> "dying", code |-> NTSTATUS]] ELSE ps
      /\ hproc' = IF e.kind = "EXIT_PROCESS" THEN [hproc EXCEPT ![p] = NoHandle] ELSE hproc
      /\ mapped' = IF e.kind = "EXIT_PROCESS" THEN [mapped EXCEPT ![p] = {}] ELSE mapped

-----------------------------------------------------------------------------
(* What the programs do.                                                   *)

\* t executes its program's code.
Executing(t) ==
  /\ proc[Owner[t]].state = "alive"
  /\ thr[t] = "live"
  /\ ~Pending(t)
  /\ declined[t] = None

\* A thread starts another thread of its process (not before the injected
\* thread has reached its breakpoint).
StartThread(t, u) ==
  /\ Executing(t)
  /\ Owner[u] = Owner[t] /\ thr[u] = "none"
  /\ \A v \in Existing(Owner[t]) : thr[v] # "starting"
  /\ thr' = [thr EXCEPT ![u] = "live"]
  /\ pend' = [pend EXCEPT ![u] = Report("CREATE_THREAD", None)]
  /\ UNCHANGED <<proc, declined, hproc, mapped, current>>

\* A thread starts another process, whose initial thread is u.  Identifiers
\* of processes that have ended may be used again; Root's is not, because the
\* tool keeps a handle of it open.
Spawn(t, u) ==
  LET q == Owner[u]
  IN  /\ Executing(t)
      /\ q # Root /\ proc[q].state = "none"
      /\ proc' = [proc EXCEPT ![q] = Running]
      /\ thr' = [thr EXCEPT ![u] = "starting"]
      /\ pend' = [pend EXCEPT ![u] = Report("CREATE_PROCESS", None)]
      /\ UNCHANGED <<declined, hproc, mapped, current>>

\* The loader of a new process, and the thread injected into a process one
\* attaches to, execute a breakpoint.
LoaderBreakpoint(t) ==
  /\ proc[Owner[t]].state = "alive"
  /\ thr[t] = "starting" /\ ~Pending(t)
  /\ thr' = [thr EXCEPT ![t] = "live"]
  /\ pend' = [pend EXCEPT ![t] = Exception("BREAKPOINT", TRUE)]
  /\ UNCHANGED <<proc, declined, hproc, mapped, current>>

Raise(t, e) ==
  /\ Executing(t)
  /\ pend' = [pend EXCEPT ![t] = Exception(e, TRUE)]
  /\ UNCHANGED <<proc, thr, declined, hproc, mapped, current>>

\* The program handles an exception the debugger left to it ...
CatchException(t) ==
  /\ proc[Owner[t]].state = "alive"
  /\ thr[t] = "live" /\ declined[t] # None /\ ~Pending(t)
  /\ declined' = [declined EXCEPT ![t] = None]
  /\ UNCHANGED <<proc, thr, pend, hproc, mapped, current>>

\* ... or does not, and the debugger is told a second time.
SecondChance(t) ==
  /\ proc[Owner[t]].state = "alive"
  /\ thr[t] = "live" /\ declined[t] # None /\ ~Pending(t)
  /\ pend' = [pend EXCEPT ![t] = Exception(declined[t], FALSE)]
  /\ UNCHANGED <<proc, thr, declined, hproc, mapped, current>>

\* The exception filter of a faulted thread returns once the event it waits
\* for is signalled; the exception is still unhandled.
FilterReturns(t, signalled) ==
  /\ proc[Owner[t]].state = "alive"
  /\ thr[t] = "faulted" /\ ~Pending(t) /\ signalled
  /\ thr' = [thr EXCEPT ![t] = "live"]
  /\ pend' = [pend EXCEPT ![t] = Exception("OTHER", FALSE)]
  /\ declined' = [declined EXCEPT ![t] = "OTHER"]
  /\ UNCHANGED <<proc, hproc, mapped, current>>

\* A thread ends by itself while others of its process remain.
ExitThread(t, c) ==
  /\ Executing(t)
  /\ \E u \in Existing(Owner[t]) \ {t} : pend[u].kind # "EXIT_THREAD"
  /\ pend' = [pend EXCEPT ![t] = Exit("EXIT_THREAD", c)]
  /\ UNCHANGED <<proc, thr, declined, hproc, mapped, current>>

\* A thread ends its process (ExitProcess, abort, returning as the last one)
\* or has another process terminated.
EndProcess(t, q, c) ==
  /\ Executing(t)
  /\ proc[q].state = "alive"
  /\ proc' = Terminated(q, c)
  /\ UNCHANGED <<thr, pend, declined, hproc, mapped, current>>

\* In a dying process every thread that is not blocked in a report ends, and
\* the last one reports the end of the process.
Die(t) ==
  LET p == Owner[t]
      last == \A u \in Existing(p) \ {t} : pend[u].kind = "EXIT_THREAD"
  IN  /\ proc[p].state = "dying"
      /\ thr[t] # "none" /\ ~Pending(t)
      /\ last => Existing(p) = {t}
      /\ pend' = [pend EXCEPT ![t] = Exit(IF last THEN "EXIT_PROCESS" ELSE "EXIT_THREAD",
                                          proc[p].code)]
      /\ declined' = [declined EXCEPT ![t] = None]
      /\ UNCHANGED <<proc, thr, hproc, mapped, current>>

\* The loader of a process loads and unloads one library at a time.
LoaderFree(p) == \A u \in ThreadsOf(p) : pend[u].kind \notin {"LOAD_DLL", "UNLOAD_DLL"}

LoadDll(t, d) ==
  /\ Executing(t) /\ LoaderFree(Owner[t])
  /\ d \notin mapped[Owner[t]]
  /\ mapped' = [mapped EXCEPT ![Owner[t]] = @ \cup {d}]
  /\ pend' = [pend EXCEPT ![t] = Report("LOAD_DLL", d)]
  /\ UNCHANGED <<proc, thr, declined, hproc, current>>

UnloadDll(t, d) ==
  /\ Executing(t) /\ LoaderFree(Owner[t])
  /\ d \in mapped[Owner[t]]
  /\ mapped' = [mapped EXCEPT ![Owner[t]] = @ \ {d}]
  /\ pend' = [pend EXCEPT ![t] = Report("UNLOAD_DLL", d)]
  /\ UNCHANGED <<proc, thr, declined, hproc, current>>

\* OutputDebugString, and the system's own error reports.
OtherReport(t, kind) ==
  /\ Executing(t)
  /\ kind \in {"OUTPUT_DEBUG_STRING", "RIP"}
  /\ pend' = [pend EXCEPT ![t] = Report(kind, None)]
  /\ UNCHANGED <<proc, thr, declined, hproc, mapped, current>>

Program(t) ==
  \/ \E u \in Tid : StartThread(t, u)
  \/ \E u \in Tid : Spawn(t, u)
  \/ \E e \in Raises : Raise(t, e)
  \/ CatchException(t)
  \/ \E c \in ExitCode : ExitThread(t, c)
  \/ \E q \in Pid, c \in ExitCode : EndProcess(t, q, c)
  \/ \E d \in Dll : LoadDll(t, d)
  \/ \E d \in Dll : UnloadDll(t, d)
  \/ \E kind \in {"OUTPUT_DEBUG_STRING", "RIP"} : OtherReport(t, kind)

\* Steps the kernel takes for a thread, whatever the program wants.
Kernel(t, signalled) ==
  \/ LoaderBreakpoint(t)
  \/ SecondChance(t)
  \/ FilterReturns(t, signalled)
  \/ Die(t)
=============================================================================
