------------------------------ MODULE DialogProofs -----------------------------
(***************************************************************************)
(* Proofs about Dialog: the texts of the report reach the control in       *)
(* order, whatever happens to the window meanwhile, and their copies are   *)
(* each freed once.                                                        *)
(***************************************************************************)
EXTENDS Dialog, SequenceTheorems, TLAPS

-----------------------------------------------------------------------------
(* The inductive invariant.                                                *)

Buffer == Heap \cup {Stack}

DialogTypeOK ==
  /\ ui \in {"start", "gone"} \cup Pumping
  /\ window \in BOOLEAN /\ edit \in BOOLEAN /\ quit \in BOOLEAN
  /\ control \in Seq(Texts)
  /\ queue \in Seq(Heap \cup {"close"})
  /\ memory \in [Buffer -> 0 .. Report]
  /\ debug \in {"none", "attach", "report", "append", "box", "over"}
  /\ emitted \in 0 .. Report
  /\ dropped \subseteq Texts
  /\ file \in Seq(0 .. Report)
  /\ saves \in 0 .. Saves

\* As long as there is no debugger thread, nothing has been reported.
NothingYet ==
  /\ ui = "start" => debug = "none"
  /\ debug = "none" => /\ control = <<>> /\ queue = <<>>
                       /\ memory = [b \in Buffer |-> Free]
                       /\ emitted = 0 /\ dropped = {}

\* The control and the messages are the window's.
OfTheWindow ==
  /\ window => debug # "none"
  /\ edit => window
  /\ queue # <<>> => window

\* lprintf's buffer holds the text that is being posted.
Formatted == debug = "append" => emitted >= 1 /\ memory[Stack] = emitted

\* What was dropped, and what waits, has been reported.
ReportedPast ==
  /\ dropped \subseteq 1 .. Reported
  /\ \A i \in Posted : Pending(i) <= Reported

IInv ==
  /\ DialogTypeOK /\ NothingYet /\ OfTheWindow /\ Formatted /\ ReportedPast
  /\ TextInOrder /\ BuffersOwned

(* Places and texts.                                                       *)

\* What the invariant says of the places of the queue.
LEMMA PostedFacts ==
  ASSUME DialogTypeOK
  PROVE  /\ DOMAIN queue = 1 .. Len(queue) /\ Len(queue) \in Nat
         /\ DOMAIN control = 1 .. Len(control) /\ Len(control) \in Nat
         /\ Posted \subseteq 1 .. Len(queue)
         /\ \A i \in Posted : queue[i] \in Heap /\ Pending(i) \in 0 .. Report
         /\ \A i \in DOMAIN control : control[i] \in Texts
BY DEF DialogTypeOK, Posted, Pending, Buffer

\* No text that waits is Free, and there is a text in each copy.
LEMMA PendingIsText ==
  ASSUME DialogTypeOK, OfTheWindow, BuffersOwned, NEW i \in Posted
  PROVE  window /\ Pending(i) \in Texts
<1>1. queue # <<>> /\ window
  BY PostedFacts DEF OfTheWindow
<1>2. memory[queue[i]] # Free
  BY <1>1 DEF BuffersOwned
<1> QED
  BY <1>1, <1>2, PostedFacts DEF Pending, Free, Texts, DialogTypeOK

\* Steps that move no text.
LEMMA CalmKeeps ==
  ASSUME IInv, DialogTypeOK', UNCHANGED <<window, edit, control, queue, memory, emitted, dropped, file>>,
         \/ debug' = debug
         \/ debug \notin {"append", "none"} /\ debug' \notin {"append", "none"},
         ui' # "start" \/ ui' = ui
  PROVE  IInv'
<1>1. Reported' = Reported /\ Shown' = Shown /\ Posted' = Posted
  BY DEF Reported, Shown, Posted
<1>2. \A i \in Posted : Pending(i)' = Pending(i)
  BY DEF Pending
<1>3. NothingYet' /\ OfTheWindow' /\ Formatted' /\ ReportedPast'
  BY <1>1, <1>2 DEF IInv, NothingYet, OfTheWindow, Formatted, ReportedPast
<1>4. TextInOrder'
  BY <1>1, <1>2 DEF IInv, TextInOrder
<1>5. BuffersOwned'
  BY <1>1, <1>2 DEF IInv, BuffersOwned
<1> QED
  BY <1>3, <1>4, <1>5 DEF IInv

-----------------------------------------------------------------------------
(* Each action keeps the invariant.                                        *)

\* createDialog, and the thread is started.
LEMMA CreateKeeps ==
  ASSUME IInv, createDialog
  PROVE  IInv'
<1>1. /\ debug = "none" /\ control = <<>> /\ queue = <<>> /\ emitted = 0 /\ dropped = {}
      /\ memory = [b \in Buffer |-> Free]
  BY DEF IInv, NothingYet, createDialog
<1>2. UNCHANGED <<control, queue, quit, memory, emitted, dropped, file, saves>>
  BY DEF createDialog
<1>3. DialogTypeOK'
  BY <1>2 DEF createDialog, DialogTypeOK, Pumping, IInv
<1>4. CASE ui' = "gone" /\ UNCHANGED <<window, edit, debug>>
  BY <1>2, <1>3, <1>4, CalmKeeps
<1>5. CASE ui' = "main" /\ window' = TRUE /\ debug' = "attach"
  <2>1. Posted' = {} /\ Shown' = {} /\ Reported' = 0
    BY <1>1, <1>2, <1>5 DEF Posted, Shown, Reported
  <2>2. NothingYet' /\ OfTheWindow' /\ Formatted' /\ ReportedPast'
    BY <1>1, <1>2, <1>5, <2>1 DEF NothingYet, OfTheWindow, Formatted, ReportedPast
  <2>3. TextInOrder'
    BY <1>1, <1>2, <2>1 DEF TextInOrder, IInv
  <2>4. BuffersOwned'
    BY <1>1, <1>2, <2>1 DEF BuffersOwned, Buffer
  <2> QED
    BY <1>3, <2>2, <2>3, <2>4 DEF IInv
<1> QED
  BY <1>4, <1>5 DEF createDialog

\* The window goes, and all that was on its way to it.
LEMMA DestroyedKeeps ==
  ASSUME IInv, Destroyed, UNCHANGED <<control, memory, debug, emitted, dropped, file, saves>>
  PROVE  IInv'
<1>1. Posted' = {} /\ Reported' = Reported /\ ~window' /\ ~edit' /\ queue' = <<>>
  BY DEF Destroyed, Posted, Reported
<1>2. DialogTypeOK'
  <2>1. queue' \in Seq(Heap \cup {"close"})
    BY <1>1
  <2> QED
    BY <2>1 DEF Destroyed, DialogTypeOK, Pumping, IInv
<1>3. NothingYet' /\ OfTheWindow' /\ Formatted' /\ ReportedPast'
  BY <1>1 DEF IInv, Destroyed, NothingYet, OfTheWindow, Formatted, ReportedPast
<1>4. TextInOrder'
  BY <1>1 DEF TextInOrder, IInv
<1>5. BuffersOwned'
  BY <1>1 DEF BuffersOwned
<1> QED
  BY <1>2, <1>3, <1>4, <1>5 DEF IInv

\* A message that is no text.
LEMMA PostCloseKeeps ==
  ASSUME IInv, PostClose
  PROVE  IInv'
<1>1. /\ window /\ queue' = Append(queue, "close")
      /\ UNCHANGED <<ui, window, edit, control, quit, memory, debug, emitted, dropped, file, saves>>
  BY DEF PostClose
<1>2. queue \in Seq(Heap \cup {"close"})
  BY DEF IInv, DialogTypeOK
<1>3. /\ queue' \in Seq(Heap \cup {"close"}) /\ Len(queue') = Len(queue) + 1
      /\ \A i \in 1 .. Len(queue) : queue'[i] = queue[i]
      /\ queue'[Len(queue) + 1] = "close"
  BY <1>1, <1>2, AppendProperties
<1>4. Posted' = Posted
  BY <1>2, <1>3, LenProperties DEF Posted
<1>5. \A i \in Posted : queue'[i] = queue[i] /\ Pending(i)' = Pending(i)
  BY <1>1, <1>3, PostedFacts DEF Pending, IInv
<1>6. Shown' = Shown /\ Reported' = Reported
  BY <1>1 DEF Shown, Reported
<1>7. DialogTypeOK'
  BY <1>1, <1>3 DEF DialogTypeOK, IInv
<1>8. NothingYet' /\ OfTheWindow' /\ Formatted' /\ ReportedPast'
  <2>1. debug # "none"
    BY <1>1 DEF IInv, OfTheWindow
  <2> QED
    BY <1>1, <1>4, <1>5, <1>6, <2>1 DEF IInv, NothingYet, OfTheWindow, Formatted, ReportedPast
<1>9. TextInOrder'
  BY <1>1, <1>4, <1>5, <1>6 DEF IInv, TextInOrder
<1>10. BuffersOwned'
  <2>1. {queue'[i] : i \in Posted'} = {queue[i] : i \in Posted}
    BY <1>4, <1>5
  <2>2. \A i, j \in Posted' : queue'[i] = queue'[j] => i = j
    BY <1>4, <1>5 DEF IInv, BuffersOwned
  <2> QED
    BY <1>1, <2>1, <2>2 DEF IInv, BuffersOwned
<1> QED
  BY <1>7, <1>8, <1>9, <1>10 DEF IInv

\* What has been saved stays the beginning of what is shown.
LEMMA PrefixOfAppend ==
  ASSUME NEW S, NEW s \in Seq(S), NEW e \in S, NEW n \in 0 .. Len(s)
  PROVE  SubSeq(Append(s, e), 1, n) = SubSeq(s, 1, n)
<1>1. /\ Append(s, e) \in Seq(S) /\ Len(Append(s, e)) = Len(s) + 1
      /\ \A i \in 1 .. Len(s) : Append(s, e)[i] = s[i]
  BY AppendProperties
<1>2. /\ Len(s) \in Nat
      /\ \A i \in 1 .. n : s[i] \in S
      /\ \A i \in 1 .. n : Append(s, e)[i] \in S
  BY <1>1, ElementOfSeq, LenProperties
<1>3. /\ SubSeq(s, 1, n) \in Seq(S) /\ Len(SubSeq(s, 1, n)) = n
      /\ \A i \in 1 .. n : SubSeq(s, 1, n)[i] = s[i]
  BY <1>2, SubSeqProperties
<1>4. /\ SubSeq(Append(s, e), 1, n) \in Seq(S) /\ Len(SubSeq(Append(s, e), 1, n)) = n
      /\ \A i \in 1 .. n : SubSeq(Append(s, e), 1, n)[i] = Append(s, e)[i]
  BY <1>2, SubSeqProperties
<1> QED
  BY <1>1, <1>3, <1>4, SeqEqual

\* WM_USER_APPEND_TEXT: the first text that waits becomes the last one shown.
LEMMA AppendTextKeeps ==
  ASSUME IInv, AppendText
  PROVE  IInv'
<1> DEFINE text == Pending(1)
<1>1. /\ queue # <<>> /\ queue' = Tail(queue) /\ Head(queue) = queue[1]
      /\ memory' = [memory EXCEPT ![queue[1]] = Free]
      /\ control' = IF edit THEN Append(control, text) ELSE control
      /\ UNCHANGED <<ui, window, edit, quit, debug, emitted, dropped, file, saves>>
  BY DEF AppendText, Pending
<1>2. /\ Len(queue) \in Nat \ {0} /\ DOMAIN queue = 1 .. Len(queue)
      /\ queue \in Seq(Heap \cup {"close"}) /\ control \in Seq(Texts)
      /\ memory \in [Buffer -> 0 .. Report]
  BY <1>1, PostedFacts DEF IInv, DialogTypeOK
<1>3. 1 \in Posted /\ queue[1] \in Heap
  BY <1>1, <1>2 DEF AppendText, Posted
<1>4. window /\ text \in Texts
  BY <1>3, PendingIsText DEF IInv
<1>5. /\ queue' \in Seq(Heap \cup {"close"}) /\ Len(queue') = Len(queue) - 1
      /\ DOMAIN queue' = 1 .. Len(queue) - 1
      /\ \A i \in 1 .. Len(queue) - 1 : queue'[i] = queue[i + 1]
  BY <1>1, <1>2, HeadTailProperties, LenProperties
<1>6. Posted' = {i \in 1 .. Len(queue) - 1 : i + 1 \in Posted}
  BY <1>2, <1>5 DEF Posted
<1>7. \A i \in Posted' : i + 1 \in Posted /\ queue'[i] = queue[i + 1] /\ queue[i + 1] # queue[1]
  <2> SUFFICES ASSUME NEW i \in Posted'
               PROVE  i + 1 \in Posted /\ queue'[i] = queue[i + 1] /\ queue[i + 1] # queue[1]
    OBVIOUS
  <2>1. i \in 1 .. Len(queue) - 1 /\ i + 1 \in Posted
    BY <1>6
  <2>2. queue[i + 1] = queue[1] => i + 1 = 1
    BY <1>3, <2>1 DEF BuffersOwned, IInv
  <2> QED
    BY <1>5, <2>1, <2>2
<1>8. \A i \in Posted' : Pending(i)' = Pending(i + 1)
  BY <1>1, <1>2, <1>3, <1>7, PostedFacts DEF Pending, Buffer, IInv
<1>9. \A i \in Posted : i = 1 \/ i - 1 \in Posted'
  BY <1>2, <1>6, PostedFacts DEF IInv
<1>10. Reported' = Reported
  BY <1>1 DEF Reported
<1>11. DialogTypeOK'
  <2>1. control' \in Seq(Texts)
    BY <1>1, <1>2, <1>4, AppendProperties
  <2>2. memory' \in [Buffer -> 0 .. Report]
    <3>1. Free \in 0 .. Report
      BY DialogAssumption DEF Free, DialogAssumption
    <3> QED
      BY <1>1, <1>2, <3>1
  <2> QED
    BY <1>1, <1>5, <2>1, <2>2 DEF DialogTypeOK, IInv
<1>12. NothingYet' /\ OfTheWindow' /\ Formatted' /\ ReportedPast'
  <2>1. debug # "none" /\ Stack # queue[1]
    BY <1>3, <1>4, DialogAssumption DEF OfTheWindow, IInv, DialogAssumption
  <2>2. memory'[Stack] = memory[Stack]
    BY <1>1, <1>2, <2>1
  <2>3. ReportedPast'
    BY <1>1, <1>7, <1>8, <1>10 DEF IInv, ReportedPast
  <2> QED
    BY <1>1, <1>4, <2>1, <2>2, <2>3 DEF IInv, NothingYet, OfTheWindow, Formatted
<1>13. TextInOrder'
  <2>1. ASSUME edit
        PROVE  /\ \A i, j \in DOMAIN control' : i < j => control'[i] < control'[j]
               /\ \A i \in DOMAIN control', j \in Posted' : control'[i] < Pending(j)'
               /\ \A i, j \in Posted' : i < j => Pending(i)' < Pending(j)'
               /\ Shown' \cup {Pending(i)' : i \in Posted'} = (1 .. Reported) \ dropped
    <3>1. /\ \A i, j \in DOMAIN control : i < j => control[i] < control[j]
          /\ \A i \in DOMAIN control, j \in Posted : control[i] < Pending(j)
          /\ \A i, j \in Posted : i < j => Pending(i) < Pending(j)
          /\ Shown \cup {Pending(i) : i \in Posted} = (1 .. Reported) \ dropped
      BY <1>4, <2>1 DEF TextInOrder, IInv
    <3>2. /\ DOMAIN control = 1 .. Len(control) /\ Len(control) \in Nat
          /\ DOMAIN control' = 1 .. Len(control) + 1
          /\ control'[Len(control) + 1] = text
          /\ \A i \in 1 .. Len(control) : control'[i] = control[i]
      BY <1>1, <1>2, <1>4, <2>1, AppendProperties, LenProperties
    <3>3. \A i, j \in DOMAIN control' : i < j => control'[i] < control'[j]
      BY <1>3, <3>1, <3>2
    <3>4. \A i \in DOMAIN control', j \in Posted' : control'[i] < Pending(j)'
      <4> SUFFICES ASSUME NEW i \in DOMAIN control', NEW j \in Posted'
                   PROVE  control'[i] < Pending(j + 1)
        BY <1>8
      <4>1. j + 1 \in Posted /\ 1 < j + 1
        BY <1>6, <1>7
      <4> QED
        BY <1>3, <3>1, <3>2, <4>1
    <3>5. \A i, j \in Posted' : i < j => Pending(i)' < Pending(j)'
      <4> SUFFICES ASSUME NEW i \in Posted', NEW j \in Posted', i < j
                   PROVE  Pending(i + 1) < Pending(j + 1)
        BY <1>8
      <4>1. i + 1 \in Posted /\ j + 1 \in Posted /\ i + 1 < j + 1
        BY <1>6
      <4> QED
        BY <3>1, <4>1
    <3>6. Shown' = Shown \cup {text}
      BY <3>2 DEF Shown
    <3>7. {Pending(i) : i \in Posted} = {text} \cup {Pending(i)' : i \in Posted'}
      <4>1. \A i \in Posted : Pending(i) \in {text} \cup {Pending(k)' : k \in Posted'}
        <5> SUFFICES ASSUME NEW i \in Posted, i # 1
                     PROVE  \E k \in Posted' : Pending(i) = Pending(k)'
          OBVIOUS
        <5>1. i - 1 \in Posted' /\ (i - 1) + 1 = i
          BY <1>2, <1>9, PostedFacts DEF IInv
        <5> QED
          BY <1>8, <5>1
      <4>2. \A k \in Posted' : Pending(k)' \in {Pending(i) : i \in Posted}
        BY <1>7, <1>8
      <4> QED
        BY <1>3, <4>1, <4>2
    <3> QED
      BY <3>1, <3>3, <3>4, <3>5, <3>6, <3>7
  <2>2. file # Unsaved => Len(file) <= Len(control') /\ file = SubSeq(control', 1, Len(file))
    <3> SUFFICES ASSUME file # Unsaved, edit
                 PROVE  Len(file) <= Len(control') /\ file = SubSeq(control', 1, Len(file))
      BY <1>1 DEF TextInOrder, IInv
    <3>1. /\ Len(file) <= Len(control) /\ file = SubSeq(control, 1, Len(file))
          /\ Len(file) \in Nat /\ Len(control) \in Nat
      BY <1>2 DEF TextInOrder, IInv, DialogTypeOK
    <3>2. SubSeq(control', 1, Len(file)) = SubSeq(control, 1, Len(file))
      BY <1>1, <1>2, <1>4, <3>1, PrefixOfAppend
    <3>3. Len(control') = Len(control) + 1
      BY <1>1, <1>2, <1>4, AppendProperties
    <3> QED
      BY <3>1, <3>2, <3>3
  <2> QED
    BY <1>1, <1>10, <2>1, <2>2 DEF TextInOrder
<1>14. BuffersOwned'
  <2>1. \A i, j \in Posted' : queue'[i] = queue'[j] => i = j
    <3> SUFFICES ASSUME NEW i \in Posted', NEW j \in Posted', queue[i + 1] = queue[j + 1]
                 PROVE  i = j
      BY <1>7
    <3>1. i + 1 = j + 1 /\ i \in Nat /\ j \in Nat
      BY <1>6, <1>7 DEF BuffersOwned, IInv
    <3> QED BY <3>1
  <2>2. {b \in Heap : memory[b] # Free}
          = {queue[i] : i \in Posted} \cup {b \in Heap : memory[b] \in dropped}
    BY <1>4 DEF BuffersOwned, IInv
  <2>3. Free \notin dropped
    BY DEF IInv, DialogTypeOK, Texts, Free
  <2>4. /\ memory'[queue[1]] = Free
        /\ \A b \in Heap \ {queue[1]} : memory'[b] = memory[b]
    BY <1>1, <1>2, <1>3 DEF Buffer
  <2>5. {queue'[i] : i \in Posted'} = {queue[i] : i \in Posted} \ {queue[1]}
    <3>1. \A i \in Posted : queue[i] # queue[1] => \E k \in Posted' : queue[i] = queue'[k]
      <4> SUFFICES ASSUME NEW i \in Posted, queue[i] # queue[1]
                   PROVE  \E k \in Posted' : queue[i] = queue'[k]
        OBVIOUS
      <4>1. i - 1 \in Posted' /\ (i - 1) + 1 = i
        BY <1>2, <1>9, PostedFacts DEF IInv
      <4> QED
        BY <1>7, <4>1
    <3> QED
      BY <1>7, <3>1
  <2>6. {b \in Heap : memory'[b] # Free}
          = {queue'[i] : i \in Posted'} \cup {b \in Heap : memory'[b] \in dropped}
    BY <2>2, <2>3, <2>4, <2>5
  <2> QED
    BY <1>1, <2>1, <2>6 DEF BuffersOwned
<1> QED
  BY <1>11, <1>12, <1>13, <1>14 DEF IInv

\* lprintf: the next text is in its buffer, and is not reported before it is
\* posted.
LEMMA FormatKeeps ==
  ASSUME IInv, lprintf
  PROVE  IInv'
<1>1. /\ debug = "report" /\ debug' = "append" /\ emitted' = emitted + 1 /\ emitted < Report
      /\ memory' = [memory EXCEPT ![Stack] = emitted + 1]
      /\ UNCHANGED <<ui, window, edit, control, queue, quit, dropped, file, saves>>
  BY DEF lprintf, Debugs
<1>2. memory \in [Buffer -> 0 .. Report] /\ emitted \in 0 .. Report /\ Report \in Nat
  BY DialogAssumption DEF IInv, DialogTypeOK, DialogAssumption
<1>3. Reported' = Reported /\ Shown' = Shown /\ Posted' = Posted
  BY <1>1, <1>2 DEF Reported, Shown, Posted
<1>4. memory'[Stack] = emitted + 1 /\ \A b \in Heap : memory'[b] = memory[b]
  BY <1>1, <1>2, DialogAssumption DEF Buffer, DialogAssumption
<1>5. \A i \in Posted : Pending(i)' = Pending(i)
  BY <1>1, <1>4, PostedFacts DEF Pending, IInv
<1>6. DialogTypeOK'
  <2>1. emitted + 1 \in 0 .. Report
    BY <1>1, <1>2
  <2>2. memory' \in [Buffer -> 0 .. Report]
    BY <1>1, <1>2, <2>1
  <2> QED
    BY <1>1, <2>1, <2>2 DEF DialogTypeOK, IInv
<1>7. NothingYet' /\ OfTheWindow' /\ Formatted' /\ ReportedPast'
  BY <1>1, <1>2, <1>3, <1>4, <1>5 DEF IInv, NothingYet, OfTheWindow, Formatted, ReportedPast
<1>8. TextInOrder'
  BY <1>1, <1>3, <1>5 DEF IInv, TextInOrder
<1>9. BuffersOwned'
  BY <1>1, <1>3, <1>4 DEF IInv, BuffersOwned
<1> QED
  BY <1>6, <1>7, <1>8, <1>9 DEF IInv

\* appendText: the text is copied, and the copy waits at the end of the queue,
\* or is dropped.
LEMMA PostTextKeeps ==
  ASSUME IInv, appendText
  PROVE  IInv'
<1> DEFINE n == Len(queue)
<1>1. PICK szBuf \in Heap :
        /\ memory[szBuf] = Free /\ memory' = [memory EXCEPT ![szBuf] = memory[Stack]]
        /\ IF window /\ Len(queue) < QueueLimit
           THEN queue' = Append(queue, szBuf) /\ dropped' = dropped
           ELSE queue' = queue /\ dropped' = dropped \cup {emitted}
  BY DEF appendText
<1>2. /\ debug = "append" /\ debug' = "report"
      /\ UNCHANGED <<ui, window, edit, control, quit, emitted, file, saves>>
  BY DEF appendText, Debugs
<1>3. /\ memory \in [Buffer -> 0 .. Report] /\ memory[Stack] = emitted /\ emitted \in 1 .. Report
      /\ queue \in Seq(Heap \cup {"close"}) /\ n \in Nat
      /\ DOMAIN queue = 1 .. n /\ Posted \subseteq 1 .. n
  BY <1>2, PostedFacts DEF IInv, DialogTypeOK, Formatted
<1>4. Reported = emitted - 1 /\ Reported' = emitted /\ (1 .. Reported)' = (1 .. Reported) \cup {emitted}
  BY <1>2, <1>3 DEF Reported
<1>5. memory'[szBuf] = emitted /\ memory'[Stack] = emitted
      /\ \A b \in Heap \ {szBuf} : memory'[b] = memory[b]
  BY <1>1, <1>3, DialogAssumption DEF Buffer, DialogAssumption
<1>6. dropped \subseteq 1 .. Reported /\ emitted \notin dropped /\ Free \notin dropped \cup {emitted}
  BY <1>3, <1>4 DEF IInv, ReportedPast, Free
<1>7. \A i \in Posted : /\ window => queue[i] # szBuf
                        /\ window => memory'[queue[i]] = memory[queue[i]]
  <2> SUFFICES ASSUME NEW i \in Posted, window
               PROVE  queue[i] # szBuf /\ memory'[queue[i]] = memory[queue[i]]
    OBVIOUS
  <2>1. Pending(i) # Free /\ queue[i] \in Heap
    BY PendingIsText, PostedFacts DEF IInv, Texts, Free
  <2> QED
    BY <1>1, <1>5, <2>1 DEF Pending
<1>8. queue # <<>> => window
  BY DEF IInv, OfTheWindow
<1>9. DialogTypeOK'
  <2>1. memory' \in [Buffer -> 0 .. Report]
    <3>1. memory[Stack] \in 0 .. Report
      BY <1>3 DEF Buffer
    <3> QED
      BY <1>1, <1>3, <3>1
  <2>2. queue' \in Seq(Heap \cup {"close"})
    <3>1. szBuf \in Heap \cup {"close"}
      OBVIOUS
    <3>2. Append(queue, szBuf) \in Seq(Heap \cup {"close"})
      BY <1>3, <3>1, AppendProperties
    <3> QED
      BY <1>1, <1>3, <3>2
  <2>3. dropped' \subseteq Texts
    BY <1>1, <1>3 DEF IInv, DialogTypeOK, Texts
  <2> QED
    BY <1>2, <2>1, <2>2, <2>3 DEF DialogTypeOK, IInv
<1>10. NothingYet' /\ OfTheWindow' /\ Formatted' /\ dropped' \subseteq 1 .. Reported'
  <2>1. queue' # <<>> => window
    BY <1>1, <1>8
  <2>2. dropped' \subseteq 1 .. Reported'
    BY <1>1, <1>3, <1>4, <1>6
  <2> QED
    BY <1>2, <2>1, <2>2 DEF IInv, NothingYet, OfTheWindow, Formatted
<1>11. CASE window /\ Len(queue) < QueueLimit
  <2>1. queue' = Append(queue, szBuf) /\ dropped' = dropped
    BY <1>1, <1>11
  <2>2. /\ DOMAIN queue' = 1 .. n + 1 /\ queue'[n + 1] = szBuf
        /\ \A i \in 1 .. n : queue'[i] = queue[i]
    BY <1>3, <2>1, AppendProperties, LenProperties
  <2>3. Posted' = Posted \cup {n + 1}
    BY <1>3, <2>2, DialogAssumption DEF Posted, DialogAssumption
  <2> DEFINE Text(i) == memory'[queue'[i]]
  <2>4. Text(n + 1) = emitted /\ \A i \in Posted : Text(i) = Pending(i) /\ i < n + 1
    BY <1>3, <1>5, <1>7, <1>11, <2>2 DEF Pending
  <2>5. {Text(i) : i \in Posted'} = {Pending(i) : i \in Posted} \cup {emitted}
    BY <2>3, <2>4
  <2>6. {queue'[i] : i \in Posted'} = {queue[i] : i \in Posted} \cup {szBuf}
    BY <1>3, <2>2, <2>3
  <2>7. TextInOrder'
    <3>1. ASSUME edit
          PROVE  /\ \A i, j \in DOMAIN control : i < j => control[i] < control[j]
                 /\ \A i \in DOMAIN control, j \in Posted' : control[i] < Text(j)
                 /\ \A i, j \in Posted' : i < j => Text(i) < Text(j)
                 /\ Shown \cup {Text(i) : i \in Posted'} = (1 .. Reported)' \ dropped
      <4>1. /\ \A i, j \in DOMAIN control : i < j => control[i] < control[j]
            /\ \A i \in DOMAIN control, j \in Posted : control[i] < Pending(j)
            /\ \A i, j \in Posted : i < j => Pending(i) < Pending(j)
            /\ Shown \cup {Pending(i) : i \in Posted} = (1 .. Reported) \ dropped
        BY <1>11, <3>1 DEF TextInOrder, IInv
      <4>2. /\ \A i \in DOMAIN control : control[i] \in 1 .. Reported
            /\ \A i \in Posted : Pending(i) \in 1 .. Reported
        BY <4>1 DEF Shown
      <4>3. /\ \A i \in DOMAIN control : control[i] < emitted
            /\ \A i \in Posted : Pending(i) < emitted
        BY <1>3, <1>4, <4>2
      <4>4. \A i, j \in Posted' : i < j => Text(i) < Text(j)
        <5> SUFFICES ASSUME NEW i \in Posted', NEW j \in Posted', i < j
                     PROVE  Text(i) < Text(j)
          OBVIOUS
        <5>1. i \in Posted
          BY <1>3, <2>3
        <5> QED
          BY <2>3, <2>4, <4>1, <4>3, <5>1
      <4> QED
        <5>1. \A i \in DOMAIN control, j \in Posted' : control[i] < Text(j)
          BY <2>3, <2>4, <4>1, <4>3
        <5>2. Shown \cup {Text(i) : i \in Posted'} = (1 .. Reported)' \ dropped
          BY <1>4, <1>6, <2>5, <4>1
        <5> QED
          BY <4>1, <4>4, <5>1, <5>2
    <3> QED
      BY <1>2, <2>1, <3>1 DEF TextInOrder, IInv, Shown, Pending
  <2>8. BuffersOwned'
    <3>1. \A i, j \in Posted' : queue'[i] = queue'[j] => i = j
      BY <1>3, <1>7, <1>11, <2>2, <2>3 DEF BuffersOwned, IInv
    <3>2. {b \in Heap : memory[b] # Free}
            = {queue[i] : i \in Posted} \cup {b \in Heap : memory[b] \in dropped}
      BY <1>11 DEF BuffersOwned, IInv
    <3>3. {b \in Heap : memory'[b] # Free} = {b \in Heap : memory[b] # Free} \cup {szBuf}
      BY <1>1, <1>3, <1>5 DEF Free
    <3>4. {b \in Heap : memory'[b] \in dropped'} = {b \in Heap : memory[b] \in dropped}
      BY <1>1, <1>5, <1>6, <2>1
    <3> QED
      BY <1>2, <2>6, <3>1, <3>2, <3>3, <3>4 DEF BuffersOwned
  <2>9. ReportedPast'
    <3>1. \A i \in Posted : Pending(i) \in 0 .. Report /\ Pending(i) <= emitted - 1
      BY <1>4, PostedFacts DEF IInv, ReportedPast
    <3>2. \A i \in Posted' : Text(i) <= emitted
      BY <1>3, <2>3, <2>4, <3>1
    <3> QED
      BY <1>4, <1>10, <3>2 DEF ReportedPast, Pending
  <2> QED
    BY <1>9, <1>10, <2>7, <2>8, <2>9 DEF IInv
<1>12. CASE ~(window /\ Len(queue) < QueueLimit)
  <2>1. queue' = queue /\ dropped' = dropped \cup {emitted} /\ Posted' = Posted
    BY <1>1, <1>12 DEF Posted
  <2>2. window => \A i \in Posted : Pending(i)' = Pending(i)
    BY <1>7, <2>1 DEF Pending
  <2>3. (1 .. Reported)' \ dropped' = (1 .. Reported) \ dropped
    BY <1>3, <1>4, <2>1
  <2>4. TextInOrder'
    BY <1>2, <2>1, <2>2, <2>3 DEF TextInOrder, IInv, Shown
  <2>5. BuffersOwned'
    <3>1. ASSUME window
          PROVE  {b \in Heap : memory'[b] # Free}
                   = {queue[i] : i \in Posted} \cup {b \in Heap : memory'[b] \in dropped'}
      <4>1. {b \in Heap : memory[b] # Free}
              = {queue[i] : i \in Posted} \cup {b \in Heap : memory[b] \in dropped}
        BY <3>1 DEF BuffersOwned, IInv
      <4>2. {b \in Heap : memory'[b] # Free} = {b \in Heap : memory[b] # Free} \cup {szBuf}
        BY <1>1, <1>3, <1>5 DEF Free
      <4>3. \A b \in Heap : b # szBuf => memory[b] # emitted
        <5> SUFFICES ASSUME NEW b \in Heap, memory[b] = emitted
                     PROVE  FALSE
          OBVIOUS
        <5>1. PICK i \in Posted : queue[i] = b
          BY <1>3, <1>6, <4>1 DEF Free
        <5>2. Pending(i) <= emitted - 1
          BY <1>4 DEF IInv, ReportedPast
        <5> QED
          BY <1>3, <5>1, <5>2 DEF Pending
      <4>4. {b \in Heap : memory'[b] \in dropped'} = {b \in Heap : memory[b] \in dropped} \cup {szBuf}
        BY <1>1, <1>5, <1>6, <2>1, <4>3
      <4> QED
        BY <4>1, <4>2, <4>4
    <3> QED
      BY <1>2, <2>1, <3>1 DEF BuffersOwned, IInv
  <2>6. ReportedPast'
    <3>1. \A i \in Posted : Pending(i)' = Pending(i) /\ Pending(i) \in 0 .. Report
                           /\ Pending(i) <= emitted - 1
      BY <1>4, <2>2, PendingIsText, PostedFacts DEF IInv, ReportedPast
    <3> QED
      BY <1>3, <1>4, <1>10, <2>1, <3>1 DEF ReportedPast
  <2> QED
    BY <1>9, <1>10, <2>4, <2>5, <2>6 DEF IInv
<1> QED
  BY <1>11, <1>12

\* What the user saves is what is shown at that time.
LEMMA SaveKeeps ==
  ASSUME IInv, Save
  PROVE  IInv'
<1>1. /\ UNCHANGED <<window, edit, control, queue, quit, memory, debug, emitted, dropped, saves>>
      /\ file' \in {control, file, <<>>} /\ ui' \in {"main", "failed"} /\ ui = "saving"
  BY DEF Save
<1>2. control \in Seq(Texts) /\ file \in Seq(0 .. Report)
  BY DEF IInv, DialogTypeOK
<1>3. file' \in Seq(0 .. Report)
  <2>1. Texts \subseteq 0 .. Report
    BY DEF Texts
  <2>2. control \in Seq(0 .. Report)
    BY <1>2, <2>1, SeqMonotonic
  <2>3. <<>> \in Seq(0 .. Report)
    BY EmptySeq
  <2> QED
    BY <1>1, <1>2, <2>2, <2>3
<1>4. DialogTypeOK'
  BY <1>1, <1>3 DEF DialogTypeOK, Pumping, Modal, IInv
<1>5. Reported' = Reported /\ Shown' = Shown /\ Posted' = Posted
  BY <1>1 DEF Reported, Shown, Posted
<1>6. \A i \in Posted : Pending(i)' = Pending(i)
  BY <1>1 DEF Pending
<1>7. NothingYet' /\ OfTheWindow' /\ Formatted' /\ ReportedPast'
  BY <1>1, <1>5, <1>6 DEF IInv, NothingYet, OfTheWindow, Formatted, ReportedPast
<1>8. file' # Unsaved => Len(file') <= Len(control) /\ file' = SubSeq(control, 1, Len(file'))
  <2>1. CASE file' = control
    BY <1>2, <2>1, SubSeqFull, LenProperties
  <2>2. CASE file' = file
    BY <2>2 DEF IInv, TextInOrder
  <2>3. CASE file' = <<>>
    <3>1. SubSeq(control, 1, 0) = <<>> /\ Len(control) \in Nat
      BY <1>2, SubSeqEmpty, LenProperties
    <3> QED
      BY <2>3, <3>1
  <2> QED
    BY <1>1, <2>1, <2>2, <2>3
<1>9. TextInOrder'
  BY <1>1, <1>5, <1>6, <1>8 DEF IInv, TextInOrder
<1>10. BuffersOwned'
  BY <1>1, <1>5, <1>6 DEF IInv, BuffersOwned
<1> QED
  BY <1>4, <1>7, <1>9, <1>10 DEF IInv

-----------------------------------------------------------------------------
(* The theorems.                                                           *)

LEMMA InitInvariant == Init => IInv
<1> SUFFICES ASSUME Init PROVE IInv
  OBVIOUS
<1> USE DEF Init
<1>1. Posted = {} /\ Reported = 0 /\ Shown = {}
  BY DEF Posted, Reported, Shown
<1>2. DialogTypeOK
  <2>1. Unsaved \in Seq(0 .. Report)
    BY DialogAssumption DEF DialogAssumption, Unsaved
  <2>2. <<>> \in Seq(Texts) /\ <<>> \in Seq(Heap \cup {"close"})
    BY EmptySeq
  <2>3. memory \in [Buffer -> 0 .. Report]
    BY DialogAssumption DEF DialogAssumption, Buffer, Free
  <2>4. emitted \in 0 .. Report /\ saves \in 0 .. Saves /\ dropped \subseteq Texts
    BY DialogAssumption DEF DialogAssumption
  <2>5. control \in Seq(Texts) /\ queue \in Seq(Heap \cup {"close"}) /\ file \in Seq(0 .. Report)
    BY <2>1, <2>2
  <2> QED
    BY <2>3, <2>4, <2>5 DEF DialogTypeOK
<1>3. NothingYet /\ OfTheWindow /\ Formatted /\ ReportedPast
  BY <1>1 DEF NothingYet, OfTheWindow, Formatted, ReportedPast, Buffer
<1>4. TextInOrder /\ BuffersOwned
  BY <1>1 DEF TextInOrder, BuffersOwned
<1> QED
  BY <1>2, <1>3, <1>4 DEF IInv

LEMMA NextKeeps == IInv /\ [Next]_vars => IInv'
<1> SUFFICES ASSUME IInv, [Next]_vars PROVE IInv'
  OBVIOUS
<1>1. CASE createDialog
  BY <1>1, CreateKeeps
<1>2. CASE AppendText
  BY <1>2, AppendTextKeeps
<1>3. CASE Close \/ UserCloses
  BY <1>3, DestroyedKeeps DEF Close, UserCloses
<1>4. CASE PostClose
  BY <1>4, PostCloseKeeps
<1>5. CASE Save
  BY <1>5, SaveKeeps
<1>6. CASE lprintf
  BY <1>6, FormatKeeps
<1>7. CASE appendText
  BY <1>7, PostTextKeeps
<1>8. CASE OpenDialog \/ Dismiss \/ Quit
  <2>1. DialogTypeOK' /\ ui' # "start"
    BY <1>8, DialogAssumption
    DEF OpenDialog, Dismiss, Quit, DialogTypeOK, IInv, Pumping, Modal, DialogAssumption
  <2> QED
    BY <1>8, <2>1, CalmKeeps DEF OpenDialog, Dismiss, Quit
<1>9. CASE debugThread \/ _ErrorMessageBox \/ DebugMainLoop
  <2>1. DialogTypeOK' /\ (ui' # "start" \/ ui' = ui)
    BY <1>9 DEF debugThread, _ErrorMessageBox, DebugMainLoop, DialogTypeOK, IInv, Debugs
  <2> QED
    BY <1>9, <2>1, CalmKeeps DEF debugThread, _ErrorMessageBox, DebugMainLoop, Debugs
<1>10. CASE UNCHANGED vars
  <2>1. DialogTypeOK'
    BY <1>10 DEF vars, DialogTypeOK, IInv
  <2> QED
    BY <1>10, <2>1, CalmKeeps DEF vars
<1> QED
  BY <1>1, <1>2, <1>3, <1>4, <1>5, <1>6, <1>7, <1>8, <1>9, <1>10 DEF Next, Dispatch, Gone

LEMMA DialogInvariance == Spec => []IInv
BY InitInvariant, NextKeeps, PTL DEF Spec

\* The texts of a report reach the control in order, each once, but for those
\* that could not be posted, and what is saved is what was shown (appendText
\* and WM_USER_APPEND_TEXT of WndProc), for reports, heaps and queues of any
\* size, and wherever the user closes the window or opens a dialog.
THEOREM TextsInOrder == Spec => []TextInOrder
<1>1. IInv => TextInOrder
  BY DEF IInv
<1> QED
  BY <1>1, DialogInvariance, PTL

\* Each copy of a text is in one message, or lost with a message that could not
\* be posted: none is read after it was freed, or freed twice (appendText's
\* wcsdup and the free of WndProc).
THEOREM CopiesOwned == Spec => []BuffersOwned
<1>1. IInv => BuffersOwned
  BY DEF IInv
<1> QED
  BY <1>1, DialogInvariance, PTL
================================================================================
