------------------------------- MODULE Dialog -------------------------------
(****************************************************************************)
(* drmingw once it attaches to a process: the window of the main thread     *)
(* (src/src/drmingw/dialog.cpp) and the debugger thread that reports to it  *)
(* (debugThread of src/src/drmingw/main.cpp).                               *)
(*                                                                          *)
(* The report is a sequence of texts, one for each call of lprintf, which   *)
(* formats it in a buffer on its stack. appendText() copies it to the heap  *)
(* and posts the pointer; the window procedure appends what it points to    *)
(* and frees it. A pointer is free again after that, and may be given to a  *)
(* later copy. What DebugMainLoop does besides reporting is modelled in     *)
(* Debugger; here it emits texts, may end, and may end the tool.            *)
(*                                                                          *)
(* External: the message queue of Windows. It holds at most QueueLimit      *)
(* posted messages, PostMessage fails when it is full or the window is      *)
(* gone, the messages of a window are dropped when it is destroyed, and the *)
(* modal loops of message boxes and dialogs dispatch messages as the main   *)
(* loop does. Input is taken when no posted message is left.                *)
(*                                                                          *)
(* The operators that end in _Slip are what a plausible mistake would make  *)
(* of the definition after them.                                            *)
(****************************************************************************)
EXTENDS Integers, Sequences

CONSTANTS
  Report,        \* how many texts a report has
  Heap,          \* where a copy can be
  Stack,         \* lprintf's buffer
  QueueLimit,    \* how many messages the queue holds
  Saves          \* how often the user saves (bound)

DialogAssumption ==
  /\ Report \in Nat /\ QueueLimit \in Nat /\ Saves \in Nat
  /\ Stack \notin Heap /\ "close" \notin Heap
ASSUME DialogAssumption

Texts == 1 .. Report
Free == 0

VARIABLES
  ui,        \* the main thread: where wmain is, or which modal loop runs
  window,    \* g_hWnd is a window
  edit,      \* the text control exists
  control,   \* what it shows
  queue,     \* the posted messages: pointers, or "close"
  quit,      \* PostQuitMessage has been called
  memory,    \* what each buffer holds
  debug,     \* the debugger thread
  emitted,   \* how many texts it has reported
  dropped,   \* history: the texts that could not be posted
  file,      \* what was saved last, Unsaved before
  saves      \* how often

vars == <<ui, window, edit, control, queue, quit, memory, debug, emitted, dropped,
          file, saves>>

Unsaved == <<0>>

(* The states in which messages are dispatched.                             *)
Modal == {"saving", "failed", "about"}
Pumping == {"main"} \cup Modal

-----------------------------------------------------------------------------
(* The main thread *)

(* createDialog, then _beginthread. The control may fail to be created,     *)
(* which WM_CREATE does not notice.                                         *)
createDialog ==
  /\ ui = "start"
  /\ \/ /\ ui' = "gone"                        \* exit(EXIT_FAILURE)
        /\ UNCHANGED <<window, edit, debug>>
     \/ /\ ui' = "main" /\ window' = TRUE
        /\ edit' \in BOOLEAN
        /\ debug' = "attach"
  /\ UNCHANGED <<control, queue, quit, memory, emitted, dropped, file, saves>>

(* DestroyWindow, and WM_DESTROY which it sends. Dialogs the window owns go *)
(* with it, so a modal loop ends.                                           *)
Destroyed ==
  /\ window' = FALSE /\ edit' = FALSE
  /\ queue' = <<>>
  /\ quit' = TRUE
  /\ ui' = "main"

(* WM_USER_APPEND_TEXT: the text goes to the end of the control, if there   *)
(* is one.                                                                  *)
AppendText_Slip ==
  /\ ui \in Pumping /\ queue # <<>> /\ Head(queue) # "close"
  /\ LET text == memory[Head(queue)]
     IN  /\ control' = IF edit /\ ui = "main" THEN Append(control, text) ELSE control
         /\ memory' = [memory EXCEPT ![Head(queue)] = Free]
  /\ queue' = Tail(queue)
  /\ UNCHANGED <<ui, window, edit, quit, debug, emitted, dropped, file, saves>>

AppendText ==
  /\ ui \in Pumping /\ queue # <<>> /\ Head(queue) # "close"
  /\ LET text == memory[Head(queue)]
     IN  /\ control' = IF edit THEN Append(control, text) ELSE control
         /\ memory' = [memory EXCEPT ![Head(queue)] = Free]
  /\ queue' = Tail(queue)
  /\ UNCHANGED <<ui, window, edit, quit, debug, emitted, dropped, file, saves>>

(* WM_CLOSE that was posted.                                                *)
Close ==
  /\ ui \in Pumping /\ queue # <<>> /\ Head(queue) = "close"
  /\ Destroyed
  /\ UNCHANGED <<control, memory, debug, emitted, dropped, file, saves>>

(* The close box sends WM_CLOSE.                                            *)
UserCloses ==
  /\ ui = "main" /\ window /\ queue = <<>>
  /\ Destroyed
  /\ UNCHANGED <<control, memory, debug, emitted, dropped, file, saves>>

(* CM_FILE_EXIT, or another program, posts it.                              *)
PostClose ==
  /\ ui \in Pumping /\ window
  /\ \A i \in DOMAIN queue : queue[i] # "close"
  /\ Len(queue) < QueueLimit
  /\ queue' = Append(queue, "close")
  /\ UNCHANGED <<ui, window, edit, control, quit, memory, debug, emitted, dropped, file,
                 saves>>

(* CM_HELP_ABOUT and CM_FILE_SAVEAS open a dialog.                          *)
OpenDialog ==
  /\ ui = "main" /\ window /\ queue = <<>>
  /\ \/ ui' = "about" /\ saves' = saves
     \/ ui' = "saving" /\ saves < Saves /\ saves' = saves + 1
  /\ UNCHANGED <<window, edit, control, queue, quit, memory, debug, emitted, dropped, file>>

(* The file name has been chosen. The file is created, or not; the text is  *)
(* written, or not; a control without text counts as a failure.             *)
Save ==
  /\ ui = "saving"
  /\ \/ /\ edit /\ control # <<>>
        /\ file' = control
        /\ ui' = "main"
     \/ /\ file' \in {file, <<>>}
        /\ ui' = "failed"
  /\ UNCHANGED <<window, edit, control, queue, quit, memory, debug, emitted, dropped, saves>>

(* A box is dismissed, or the user cancels.                                 *)
Dismiss ==
  /\ ui \in Modal
  /\ ui' = "main"
  /\ UNCHANGED <<window, edit, control, queue, quit, memory, debug, emitted, dropped, file,
                 saves>>

(* mainLoop returns when it gets WM_QUIT, and the process ends.             *)
Quit ==
  /\ ui = "main" /\ quit /\ queue = <<>>
  /\ ui' = "gone"
  /\ UNCHANGED <<window, edit, control, queue, quit, memory, debug, emitted, dropped, file,
                 saves>>

-----------------------------------------------------------------------------
(* The debugger thread, which stops where the process ends *)

Debugs(from) == ui # "gone" /\ debug = from

debugThread ==
  /\ Debugs("attach")
  /\ debug' \in {"report", "box"}       \* DebugActiveProcess, or ErrorMessageBox
  /\ UNCHANGED <<ui, window, edit, control, queue, quit, memory, emitted, dropped, file,
                 saves>>

(* _ErrorMessageBox: Ignore ends the thread, Abort and Retry the process.   *)
_ErrorMessageBox ==
  /\ Debugs("box")
  /\ \/ debug' = "over" /\ ui' = ui
     \/ ui' = "gone" /\ debug' = debug
  /\ UNCHANGED <<window, edit, control, queue, quit, memory, emitted, dropped, file, saves>>

(* lprintf formats the next text in its buffer.                             *)
lprintf ==
  /\ Debugs("report") /\ emitted < Report
  /\ emitted' = emitted + 1
  /\ memory' = [memory EXCEPT ![Stack] = emitted + 1]
  /\ debug' = "append"
  /\ UNCHANGED <<ui, window, edit, control, queue, quit, dropped, file, saves>>

(* appendText: wcsdup and PostMessage, whose result is not looked at.       *)
appendText_Slip ==
  /\ Debugs("append")
  /\ IF window /\ Len(queue) < QueueLimit
     THEN queue' = Append(queue, Stack) /\ dropped' = dropped
     ELSE queue' = queue /\ dropped' = dropped \cup {emitted}
  /\ debug' = "report"
  /\ UNCHANGED <<ui, window, edit, control, quit, memory, emitted, file, saves>>

appendText ==
  /\ Debugs("append")
  /\ \E szBuf \in Heap :
       /\ memory[szBuf] = Free
       /\ memory' = [memory EXCEPT ![szBuf] = memory[Stack]]
       /\ IF window /\ Len(queue) < QueueLimit
          THEN queue' = Append(queue, szBuf) /\ dropped' = dropped
          ELSE queue' = queue /\ dropped' = dropped \cup {emitted}
  /\ debug' = "report"
  /\ UNCHANGED <<ui, window, edit, control, quit, emitted, file, saves>>

(* DebugMainLoop returns, or calls exit().                                  *)
DebugMainLoop ==
  /\ Debugs("report")
  /\ \/ debug' = "over" /\ ui' = ui
     \/ ui' = "gone" /\ debug' = debug
  /\ UNCHANGED <<window, edit, control, queue, quit, memory, emitted, dropped, file, saves>>

-----------------------------------------------------------------------------
Init ==
  /\ ui = "start" /\ window = FALSE /\ edit = FALSE /\ quit = FALSE
  /\ control = <<>> /\ queue = <<>>
  /\ memory = [b \in Heap \cup {Stack} |-> Free]
  /\ debug = "none" /\ emitted = 0 /\ dropped = {}
  /\ file = Unsaved /\ saves = 0

Gone == ui = "gone" /\ UNCHANGED vars

Dispatch == AppendText \/ Close \/ Quit
Report_ == debugThread \/ lprintf \/ appendText

Next ==
  \/ createDialog \/ Dispatch
  \/ UserCloses \/ PostClose \/ OpenDialog \/ Save \/ Dismiss
  \/ debugThread \/ _ErrorMessageBox \/ lprintf \/ appendText \/ DebugMainLoop
  \/ Gone

Spec == Init /\ [][Next]_vars

(* A thread that pumps messages dispatches what is posted, and the debugger *)
(* thread goes on. Nothing is assumed of the user.                          *)
FairSpec == Spec /\ WF_vars(Dispatch) /\ WF_vars(Report_)

-----------------------------------------------------------------------------
(* Properties *)

(* The places of the queue that hold a text, and the texts themselves.      *)
Posted == {i \in DOMAIN queue : queue[i] # "close"}
Pending(i) == memory[queue[i]]

Reported == IF debug = "append" THEN emitted - 1 ELSE emitted
Shown == {control[i] : i \in DOMAIN control}

(* What the control shows, followed by what is on its way to it, is the     *)
(* report: in order, and no text is lost but those that could not be        *)
(* posted, none comes twice, early or late, or as a later one (appendText   *)
(* copies lprintf's buffer, WndProc appends at the end; dialog.cpp:55). And *)
(* what has been saved last is what the control showed.                     *)
TextInOrder ==
  /\ window /\ edit =>
       /\ \A i, j \in DOMAIN control : i < j => control[i] < control[j]
       /\ \A i \in DOMAIN control, j \in Posted : control[i] < Pending(j)
       /\ \A i, j \in Posted : i < j => Pending(i) < Pending(j)
       /\ Shown \cup {Pending(i) : i \in Posted} = (1 .. Reported) \ dropped
  /\ file # Unsaved => /\ Len(file) <= Len(control)
                       /\ file = SubSeq(control, 1, Len(file))

(* A copy belongs to one message, which has not been dispatched, or could   *)
(* not be posted: the window procedure never reads a buffer that has been   *)
(* freed or was given to another text, and frees each once (NOLINT of       *)
(* dialog.cpp:57: szBuf is freed in WndProc).                               *)
BuffersOwned ==
  /\ \A i, j \in Posted : queue[i] = queue[j] => i = j
  /\ window =>
       {b \in Heap : memory[b] # Free}
         = {queue[i] : i \in Posted} \cup {b \in Heap : memory[b] \in dropped}

(* As long as the window is there, all that could be posted is shown in the *)
(* end, whatever dialogs the user has open meanwhile (mainLoop).            *)
ReportShown ==
  (debug = "over" /\ edit) ~> (~edit \/ ui = "gone" \/ Shown = (1 .. Reported) \ dropped)
=============================================================================
