---------------------------- MODULE ExcHndlProofs ----------------------------
(***************************************************************************)
(* Proofs about ExcHndl: the types, which filter Windows holds, that        *)
(* cBeenHere keeps all but one of the calls from making a report; and, from *)
(* there, that the handler implements ReportLog, gives back what it borrows *)
(* of the process, and has reported every fault that reaches it.           *)
(***************************************************************************)
EXTENDS ExcHndl, FiniteSetTheorems, SequenceTheorems, TLAPS

-----------------------------------------------------------------------------
(* The inductive invariant.                                                *)

\* One thread initializes the library, as programs do that call ExcHndlInit
\* at the start of main.  Otherwise two threads may both pass the test of
\* g_bHandlerSet and the filter would be saved as its own predecessor.
OneInitializes == \A t, u \in InitThreads : t = u

\* Windows holds the filter only while the library is loaded and will take
\* the filter out again, at the latest when SetupHandler has returned.
FilterInstalled ==
  /\ topFilter = "exchndl" =>
       attached /\ (g_bHandlerSet \/ \E t \in Thread : init[t] = "flag")
  /\ \A t \in Thread : init[t] # "idle" => attached /\ ~g_bHandlerSet /\ t \in InitThreads

\* Calls are in progress only while the library is loaded.
CallsAttached == \A c \in Call : pc[c] # "idle" => attached

\* cBeenHere counts the calls between the two interlocked operations, and
\* those the program has unwound through.
CallsCounted ==
  /\ Cardinality(Counted) <= cBeenHere
  /\ cBeenHere = Cardinality(Counted) \/ abandoned

IInv == FilterSane /\ FilterInstalled /\ CallsAttached /\ CallsCounted /\ OneReporter

-----------------------------------------------------------------------------
(* Types.                                                                  *)

USE ExcHndlAssumption DEF globals, system

\* Writing an element into a sequence, or at its end, gives a sequence.
LEMMA OverwriteType ==
  ASSUME NEW S, NEW s \in Seq(S), NEW e \in S, NEW at \in Nat
  PROVE  (IF at < Len(s) THEN [s EXCEPT ![at + 1] = e] ELSE Append(s, e)) \in Seq(S)
<1>1. CASE at < Len(s)
  <2>1. Len(s) \in Nat
    BY LenProperties
  <2>2. at + 1 \in 1..Len(s)
    BY <1>1, <2>1
  <2> QED BY <1>1, <2>2, ExceptSeq
<1>2. CASE ~(at < Len(s))
  BY <1>2, AppendProperties
<1> QED BY <1>1, <1>2

\* A part of a report that is written leaves sequences of parts in the files.
LEMMA WrittenType ==
  ASSUME ExcHndlTypeOK, NEW c \in Call, NEW part \in Parts, NEW at \in Nat
  PROVE  Written(c, part, at) \in [Sink -> Seq([crash : Nat, part : Parts])]
<1>1. CASE g_hReportFile \notin Sink
  BY <1>1 DEF Written, ExcHndlTypeOK
<1>2. CASE g_hReportFile \in Sink
  <2>1. [crash |-> crash[c], part |-> part] \in [crash : Nat, part : Parts]
    BY DEF ExcHndlTypeOK
  <2>2. content[g_hReportFile] \in Seq([crash : Nat, part : Parts])
    BY <1>2 DEF ExcHndlTypeOK
  <2>3. (IF at < Len(content[g_hReportFile])
         THEN [content[g_hReportFile] EXCEPT ![at + 1] = [crash |-> crash[c], part |-> part]]
         ELSE Append(content[g_hReportFile], [crash |-> crash[c], part |-> part]))
          \in Seq([crash : Nat, part : Parts])
    BY <2>1, <2>2, OverwriteType
  <2> QED BY <2>3, <1>2 DEF Written, ExcHndlTypeOK
<1> QED BY <1>1, <1>2

LEMMA InitTyped == ExcHndlInit => ExcHndlTypeOK
<1> SUFFICES ASSUME ExcHndlInit PROVE ExcHndlTypeOK
  OBVIOUS
<1>1. content \in [Sink -> Seq([crash : Nat, part : Parts])]
  <2>1. [crash |-> 0, part |-> "modules"] \in [crash : Nat, part : Parts]
    BY DEF Parts
  <2>2. \A S : \A e \in S : <<e>> \in Seq(S)
    OBVIOUS
  <2>3. <<[crash |-> 0, part |-> "modules"]>> \in Seq([crash : Nat, part : Parts])
    BY <2>1, <2>2
  <2> QED BY <2>3 DEF ExcHndlInit
<1> QED BY <1>1 DEF ExcHndlInit, ExcHndlTypeOK, Filter, Location

\* The file pointer never goes before the beginning.
LEMMA EndOfFileType == ExcHndlTypeOK => EndOfFile \in Nat
BY LenProperties DEF EndOfFile, ExcHndlTypeOK

LEMMA WritePartTyped ==
  ASSUME ExcHndlTypeOK, NEW c \in Call, NEW part \in Parts, NEW at \in Nat,
         NEW next \in Location, WritePart(c, part, at, next)
  PROVE  ExcHndlTypeOK'
<1>1. content' \in [Sink -> Seq([crash : Nat, part : Parts])]
  BY WrittenType DEF WritePart
<1>2. pos' \in Nat
  BY DEF WritePart
<1>3. pc' \in [Call -> Location]
  BY DEF WritePart, Goto, ExcHndlTypeOK
<1> QED BY <1>1, <1>2, <1>3 DEF WritePart, ExcHndlTypeOK

\* A step of the program keeps the types.
LEMMA ProgramTyped ==
  ASSUME ExcHndlTypeOK,
         \/ \E dynamic \in BOOLEAN : Attach(dynamic)
         \/ Detach
         \/ \E t \in Thread : InitTest(t) \/ InitInstall(t) \/ InitFlag(t)
         \/ \E name \in File \cup {"-", "empty"} : ExcHndlSetLogFileName(name)
         \/ AppFilter
  PROVE  ExcHndlTypeOK'
<1> USE DEF ExcHndlTypeOK
<1>1. ASSUME NEW dynamic \in BOOLEAN, Attach(dynamic) PROVE ExcHndlTypeOK'
  BY <1>1 DEF Attach, Filter
<1>2. ASSUME Detach PROVE ExcHndlTypeOK'
  BY <1>2 DEF Detach, CleanupHandler, Cleanup, Filter
<1>3. ASSUME NEW t \in Thread, InitTest(t) PROVE ExcHndlTypeOK'
  BY <1>3 DEF InitTest
<1>4. ASSUME NEW t \in Thread, InitInstall(t) PROVE ExcHndlTypeOK'
  BY <1>4 DEF InitInstall, Filter
<1>5. ASSUME NEW t \in Thread, InitFlag(t) PROVE ExcHndlTypeOK'
  BY <1>5 DEF InitFlag
<1>6. ASSUME NEW name \in File \cup {"-", "empty"}, ExcHndlSetLogFileName(name) PROVE ExcHndlTypeOK'
  BY <1>6 DEF ExcHndlSetLogFileName
<1>7. ASSUME AppFilter PROVE ExcHndlTypeOK'
  BY <1>7 DEF AppFilter, Filter
<1> QED BY <1>1, <1>2, <1>3, <1>4, <1>5, <1>6, <1>7

\* So does a fault.
LEMMA FaultTyped ==
  ASSUME ExcHndlTypeOK, NEW t \in Thread, Fault(t)
  PROVE  ExcHndlTypeOK'
<1> USE DEF ExcHndlTypeOK
<1>1. ASSUME Terminate PROVE ExcHndlTypeOK'
  BY <1>1 DEF Terminate
<1>2. ASSUME Unwind(t) PROVE ExcHndlTypeOK'
  BY <1>2 DEF Unwind, Location
<1>3. ASSUME NEW n \in 1..Depth, topFilter = "exchndl",
             crashes' = crashes + 1, Goto(<<t, n>>, "enter"),
             crash' = [crash EXCEPT ![<<t, n>>] = crashes + 1],
             UNCHANGED <<globals, init, fuOldErrorMode, system, process, abandoned>>
      PROVE  ExcHndlTypeOK'
  <2>1. crashes' \in Nat /\ crashes + 1 \in Nat
    BY <1>3
  <2>2. crash' \in [Call -> Nat]
    BY <1>3, <2>1
  <2>3. pc' \in [Call -> Location]
    BY <1>3 DEF Goto, Location
  <2> QED BY <1>3, <2>1, <2>2, <2>3
<1> QED BY <1>1, <1>2, <1>3 DEF Fault

\* So does a step of the filter.
LEMMA FilterTyped ==
  ASSUME ExcHndlTypeOK, NEW c \in Call, FilterStep(c),
         pc[c] = "leave" => cBeenHere > 0
  PROVE  ExcHndlTypeOK'
<1>1. CASE Enter(c)
  <2>1. cBeenHere' \in Nat
    BY <1>1 DEF Enter, At, ExcHndlTypeOK
  <2>2. pc' \in [Call -> Location]
    BY <1>1 DEF Enter, Goto, ExcHndlTypeOK, Location, Reporting
  <2> QED BY <1>1, <2>1, <2>2 DEF Enter, ExcHndlTypeOK
<1>2. CASE SetErrorModeAndOpen(c)
  BY <1>2 DEF SetErrorModeAndOpen, At, Goto, ReportFile, ExcHndlTypeOK, Location, Reporting
<1>3. CASE Banner(c)
  BY <1>3, WritePartTyped, EndOfFileType DEF Banner, Location, Reporting, Parts
<1>4. CASE InitializeSym(c)
  BY <1>4 DEF InitializeSym, At, Goto, ExcHndlTypeOK, Location, Reporting
<1>5. CASE dumpException(c)
  BY <1>5, WritePartTyped DEF dumpException, Location, Reporting, Parts, ExcHndlTypeOK
<1>6. CASE dumpStack(c)
  BY <1>6, WritePartTyped DEF dumpStack, Location, Reporting, Parts, ExcHndlTypeOK
<1>7. CASE SymCleanup(c)
  BY <1>7 DEF SymCleanup, At, Goto, ExcHndlTypeOK, Location, Reporting
<1>8. CASE dumpModules(c)
  BY <1>8, WritePartTyped DEF dumpModules, Location, Reporting, Parts, ExcHndlTypeOK
<1>9. CASE RestoreErrorMode(c)
  BY <1>9 DEF RestoreErrorMode, At, Goto, ExcHndlTypeOK, Location, Reporting
<1>11. CASE Leave(c)
  <2>1. cBeenHere' \in Nat
    BY <1>11 DEF Leave, At, ExcHndlTypeOK
  <2>2. pc' \in [Call -> Location]
    BY <1>11 DEF Leave, Goto, ExcHndlTypeOK, Location, Reporting
  <2> QED BY <1>11, <2>1, <2>2 DEF Leave, ExcHndlTypeOK
<1>12. CASE CallPrevious(c)
  <2>1. CASE Terminate
    BY <2>1 DEF Terminate, ExcHndlTypeOK
  <2>2. CASE Unwind(c[1])
    BY <2>2 DEF Unwind, ExcHndlTypeOK, Location
  <2>3. CASE Resume(c)
    BY <2>3 DEF Resume, Goto, ExcHndlTypeOK, Location
  <2>4. CASE Goto(c, "enter")
                /\ UNCHANGED <<globals, init, crash, fuOldErrorMode, system, process, crashes,
                               abandoned>>
    BY <2>4 DEF Goto, ExcHndlTypeOK, Location
  <2> QED BY <1>12, <2>1, <2>2, <2>3, <2>4 DEF CallPrevious
<1> QED BY <1>1, <1>2, <1>3, <1>4, <1>5, <1>6, <1>7, <1>8, <1>9, <1>11, <1>12 DEF FilterStep

-----------------------------------------------------------------------------
(* Which filter Windows holds.                                             *)

FilterInv == FilterSane /\ FilterInstalled /\ CallsAttached

LEMMA InitFilter == ExcHndlInit => FilterInv
BY DEF ExcHndlInit, FilterInv, FilterSane, FilterInstalled, CallsAttached

\* A step of the filter leaves what the loading and installing maintain, and
\* is one of a call in progress.
LEMMA FilterStepFilter ==
  ASSUME ExcHndlTypeOK, FilterInv, NEW c \in Call, FilterStep(c)
  PROVE  FilterInv'
<1>1. UNCHANGED <<attached, g_bHandlerSet, g_prevExceptionFilter, init, topFilter>>
  BY DEF FilterStep, Enter, SetErrorModeAndOpen, Banner, InitializeSym, dumpException,
         dumpStack, SymCleanup, dumpModules, RestoreErrorMode, Leave, CallPrevious,
         WritePart, Terminate, Unwind, Resume
<1>2. pc[c] # "idle"
  BY DEF FilterStep, Enter, SetErrorModeAndOpen, Banner, InitializeSym, dumpException,
         dumpStack, SymCleanup, dumpModules, RestoreErrorMode, Leave, CallPrevious, At,
         Executing
<1>3. attached
  BY <1>2 DEF FilterInv, CallsAttached
<1> QED BY <1>1, <1>3 DEF FilterInv, FilterSane, FilterInstalled, CallsAttached

LEMMA FaultFilter ==
  ASSUME ExcHndlTypeOK, FilterInv, NEW t \in Thread, Fault(t)
  PROVE  FilterInv'
<1> USE DEF FilterInv, FilterSane, FilterInstalled, CallsAttached
<1>1. CASE Terminate
  BY <1>1 DEF Terminate
<1>2. CASE Unwind(t)
  BY <1>2 DEF Unwind
<1>3. CASE topFilter = "exchndl" /\ UNCHANGED <<globals, init, system>>
  BY <1>3
<1> QED BY <1>1, <1>2, <1>3 DEF Fault

LEMMA ProgramFilter ==
  ASSUME ExcHndlTypeOK, FilterInv, OneInitializes,
         \/ \E dynamic \in BOOLEAN : Attach(dynamic)
         \/ Detach
         \/ \E t \in Thread : InitTest(t) \/ InitInstall(t) \/ InitFlag(t)
         \/ \E name \in File \cup {"-", "empty"} : ExcHndlSetLogFileName(name)
         \/ AppFilter
  PROVE  FilterInv'
<1> USE DEF FilterInv, FilterSane, FilterInstalled, CallsAttached, ExcHndlTypeOK
<1>1. ASSUME NEW dynamic \in BOOLEAN, Attach(dynamic) PROVE FilterInv'
  BY <1>1 DEF Attach
<1>2. ASSUME Detach PROVE FilterInv'
  BY <1>2 DEF Detach, CleanupHandler
<1>3. ASSUME NEW t \in Thread, InitTest(t) PROVE FilterInv'
  BY <1>3 DEF InitTest
<1>4. ASSUME NEW t \in Thread, InitInstall(t) PROVE FilterInv'
  <2>1. \A u \in Thread : init[u] = "flag" => u = t
    BY <1>4 DEF InitInstall, OneInitializes
  <2>2. topFilter # "exchndl"
    BY <1>4, <2>1 DEF InitInstall
  <2> QED BY <1>4, <2>2 DEF InitInstall
<1>5. ASSUME NEW t \in Thread, InitFlag(t) PROVE FilterInv'
  <2>1. \A u \in Thread : init[u] # "idle" => u = t
    BY <1>5 DEF InitFlag, OneInitializes
  <2> QED BY <1>5, <2>1 DEF InitFlag
<1>6. ASSUME NEW name \in File \cup {"-", "empty"}, ExcHndlSetLogFileName(name) PROVE FilterInv'
  BY <1>6 DEF ExcHndlSetLogFileName
<1>7. ASSUME AppFilter PROVE FilterInv'
  BY <1>7 DEF AppFilter
<1> QED BY <1>1, <1>2, <1>3, <1>4, <1>5, <1>6, <1>7

-----------------------------------------------------------------------------
(* Counting the calls.                                                     *)

LEMMA CountedFinite ==
  ASSUME NEW S \in SUBSET Call
  PROVE  IsFiniteSet(S) /\ Cardinality(S) \in Nat
<1>1. IsFiniteSet(1..Depth)
  BY FS_Interval
<1>2. IsFiniteSet(Call)
  BY <1>1, FS_Product DEF Call
<1> QED BY <1>2, FS_Subset, FS_CardinalityType

CountInv == CallsCounted /\ OneReporter

LEMMA InitCount == ExcHndlInit => CountInv
<1> SUFFICES ASSUME ExcHndlInit PROVE CountInv
  OBVIOUS
<1>1. Counted = {} /\ Reporters = {}
  BY DEF ExcHndlInit, Counted, Reporters, Reporting
<1> QED BY <1>1, FS_EmptySet DEF ExcHndlInit, CountInv, CallsCounted, OneReporter

\* A step that neither begins nor ends a call keeps the count.
LEMMA CountKept ==
  ASSUME CountInv, Counted' = Counted, Reporters' \subseteq Reporters,
         cBeenHere' = cBeenHere, abandoned => abandoned'
  PROVE  CountInv'
<1>1. Cardinality(Counted') = Cardinality(Counted)
  OBVIOUS
<1> QED BY <1>1 DEF CountInv, CallsCounted, OneReporter

\* Moving a call from one part of the report to another.
LEMMA GotoCount ==
  ASSUME ExcHndlTypeOK, NEW c \in Call, NEW location, Goto(c, location),
         \/ pc[c] \in Reporting /\ location \in Reporting \cup {"leave"}
         \/ pc[c] \in {"idle", "chain"} /\ location \in {"idle", "enter"}
  PROVE  Counted' = Counted /\ Reporters' \subseteq Reporters
BY DEF Goto, ExcHndlTypeOK, Counted, Reporters, Reporting

LEMMA EnterCount ==
  ASSUME ExcHndlTypeOK, CountInv, NEW c \in Call, Enter(c)
  PROVE  CountInv'
<1>1. pc[c] = "enter" /\ c \notin Counted
  BY DEF Enter, At, Counted, Reporting
<1>2. Counted \in SUBSET Call /\ Reporters \subseteq Counted
  BY DEF Counted, Reporters
<1>3. IsFiniteSet(Counted) /\ Cardinality(Counted) \in Nat
  BY <1>2, CountedFinite
<1>4. Counted' = Counted \cup {c}
  BY DEF Enter, Goto, ExcHndlTypeOK, Counted, Reporting
<1>5. Cardinality(Counted') = Cardinality(Counted) + 1
  BY <1>1, <1>3, <1>4, FS_AddElement
<1>6. Reporters' \subseteq Reporters \cup {c}
  BY DEF Enter, Goto, ExcHndlTypeOK, Reporters, Reporting
<1>7. CallsCounted'
  <2>1. cBeenHere' = cBeenHere + 1 /\ abandoned' = abandoned /\ cBeenHere \in Nat
    BY DEF Enter, ExcHndlTypeOK
  <2> QED BY <1>3, <1>5, <2>1 DEF CountInv, CallsCounted
<1>8. CASE cBeenHere = 0
  <2>1. Cardinality(Counted) = 0
    BY <1>3, <1>8 DEF CountInv, CallsCounted
  <2>2. Counted = {}
    BY <1>3, <2>1, FS_EmptySet
  <2>3. Reporters' \subseteq {c}
    BY <1>2, <1>6, <2>2
  <2> QED BY <1>7, <2>3 DEF CountInv, OneReporter
<1>9. CASE cBeenHere # 0
  <2>1. pc'[c] = "leave"
    BY <1>9 DEF Enter, Goto, ExcHndlTypeOK
  <2>2. Reporters' \subseteq Reporters
    BY <1>6, <2>1 DEF Reporters, Reporting
  <2> QED BY <1>7, <2>2 DEF CountInv, OneReporter
<1> QED BY <1>8, <1>9

LEMMA LeaveCount ==
  ASSUME ExcHndlTypeOK, CountInv, NEW c \in Call, Leave(c)
  PROVE  cBeenHere > 0 /\ CountInv'
<1>1. pc[c] = "leave" /\ c \in Counted
  BY DEF Leave, At, Counted
<1>2. Counted \in SUBSET Call
  BY DEF Counted
<1>3. IsFiniteSet(Counted) /\ Cardinality(Counted) \in Nat
  BY <1>2, CountedFinite
<1>4. Counted' = Counted \ {c}
  BY <1>1 DEF Leave, Goto, ExcHndlTypeOK, Counted, Reporting
<1>5. Cardinality(Counted') = Cardinality(Counted) - 1
  BY <1>1, <1>3, <1>4, FS_RemoveElement
<1>6. Cardinality(Counted) # 0
  BY <1>1, <1>3, FS_EmptySet
<1>7. cBeenHere' = cBeenHere - 1 /\ abandoned' = abandoned /\ cBeenHere \in Nat
  BY DEF Leave, ExcHndlTypeOK
<1>8. cBeenHere > 0 /\ CallsCounted'
  BY <1>3, <1>5, <1>6, <1>7 DEF CountInv, CallsCounted
<1>9. Reporters' \subseteq Reporters
  BY <1>1 DEF Leave, Goto, ExcHndlTypeOK, Reporters, Reporting
<1> QED BY <1>8, <1>9 DEF CountInv, OneReporter

\* What is unwound through is abandoned, or was not counted.
LEMMA UnwindCount ==
  ASSUME ExcHndlTypeOK, CountInv, NEW t \in Thread, Unwind(t)
  PROVE  CountInv'
<1>1. Counted' \subseteq Counted /\ Reporters' \subseteq Reporters
  BY DEF Unwind, ExcHndlTypeOK, Counted, Reporters, Reporting
<1>2. Counted \in SUBSET Call /\ Counted' \in SUBSET Counted
  BY <1>1 DEF Counted
<1>3. IsFiniteSet(Counted) /\ Cardinality(Counted) \in Nat
  BY <1>2, CountedFinite
<1>4. Cardinality(Counted') <= Cardinality(Counted) /\ Cardinality(Counted') \in Nat
  <2>1. IsFiniteSet(Counted') /\ Cardinality(Counted') <= Cardinality(Counted)
    BY <1>2, <1>3, FS_Subset
  <2> QED BY <2>1, FS_CardinalityType
<1>5. abandoned' \/ (~abandoned /\ Counted' = Counted)
  BY DEF Unwind, ExcHndlTypeOK, Counted, Reporting
<1>6. cBeenHere' = cBeenHere /\ cBeenHere \in Nat
  BY DEF Unwind, ExcHndlTypeOK
<1>7. Cardinality(Counted') <= cBeenHere'
  BY <1>3, <1>4, <1>6 DEF CountInv, CallsCounted
<1>8. abandoned' \/ cBeenHere' = Cardinality(Counted')
  BY <1>5, <1>6 DEF CountInv, CallsCounted
<1> QED BY <1>1, <1>7, <1>8 DEF CountInv, CallsCounted, OneReporter

LEMMA FaultCount ==
  ASSUME ExcHndlTypeOK, CountInv, NEW t \in Thread, Fault(t)
  PROVE  CountInv'
<1>1. CASE Terminate
  BY <1>1, CountKept DEF Terminate, Counted, Reporters
<1>2. CASE Unwind(t)
  BY <1>2, UnwindCount
<1>3. ASSUME NEW n \in 1..Depth, pc[<<t, n>>] = "idle", Goto(<<t, n>>, "enter"),
             UNCHANGED <<globals, abandoned>>
      PROVE  CountInv'
  <2>1. <<t, n>> \in Call
    BY DEF Call
  <2> QED BY <1>3, <2>1, GotoCount, CountKept
<1>4. ASSUME NEW n \in 1..Depth,
             \A m \in 1..Depth :
               IF m >= n THEN pc[<<t, m>>] = "idle" ELSE pc[<<t, m>>] \in Reporting
      PROVE  pc[<<t, n>>] = "idle"
  <2>1. n >= n
    OBVIOUS
  <2> QED BY <1>4, <2>1
<1> QED BY <1>1, <1>2, <1>3, <1>4 DEF Fault

LEMMA FilterStepCount ==
  ASSUME ExcHndlTypeOK, CountInv, NEW c \in Call, FilterStep(c)
  PROVE  CountInv'
<1>1. CASE Enter(c)
  BY <1>1, EnterCount
<1>2. CASE Leave(c)
  BY <1>2, LeaveCount
<1>3. ASSUME NEW location \in Reporting \cup {"leave"}, pc[c] \in Reporting, Goto(c, location),
             UNCHANGED <<cBeenHere, abandoned>>
      PROVE  CountInv'
  BY <1>3, GotoCount, CountKept
<1>4. CASE \/ SetErrorModeAndOpen(c) \/ Banner(c) \/ InitializeSym(c) \/ dumpException(c)
           \/ dumpStack(c) \/ SymCleanup(c) \/ dumpModules(c) \/ RestoreErrorMode(c)
  BY <1>3, <1>4 DEF SetErrorModeAndOpen, Banner, InitializeSym, dumpException, dumpStack,
     SymCleanup, dumpModules, RestoreErrorMode, WritePart, At, Reporting
<1>5. CASE CallPrevious(c)
  <2>1. CASE Terminate
    BY <2>1, CountKept DEF Terminate, Counted, Reporters
  <2>2. CASE Unwind(c[1])
    BY <2>2, UnwindCount DEF Call
  <2>3. ASSUME NEW location \in {"idle", "enter"}, Goto(c, location),
               UNCHANGED <<cBeenHere, abandoned>>
        PROVE  CountInv'
    BY <1>5, <2>3, GotoCount, CountKept DEF CallPrevious, At
  <2> QED BY <1>5, <2>1, <2>2, <2>3 DEF CallPrevious, Resume
<1> QED BY <1>1, <1>2, <1>4, <1>5 DEF FilterStep

LEMMA ProgramCount ==
  ASSUME ExcHndlTypeOK, FilterInv, CountInv,
         \/ \E dynamic \in BOOLEAN : Attach(dynamic)
         \/ Detach
         \/ \E t \in Thread : InitTest(t) \/ InitInstall(t) \/ InitFlag(t)
         \/ \E name \in File \cup {"-", "empty"} : ExcHndlSetLogFileName(name)
         \/ AppFilter
  PROVE  CountInv'
<1>1. ASSUME NEW dynamic \in BOOLEAN, Attach(dynamic) PROVE CountInv'
  <2>1. \A c \in Call : pc[c] = "idle"
    BY <1>1 DEF Attach, FilterInv, CallsAttached
  <2>2. Counted' = {} /\ Reporters' = {}
    BY <1>1, <2>1 DEF Attach, Counted, Reporters, Reporting
  <2>3. cBeenHere' = 0
    BY <1>1 DEF Attach
  <2> QED BY <2>2, <2>3, FS_EmptySet DEF CountInv, CallsCounted, OneReporter
<1>2. CASE UNCHANGED <<pc, cBeenHere, abandoned>>
  BY <1>2, CountKept DEF Counted, Reporters
<1> QED BY <1>1, <1>2 DEF Detach, InitTest, InitInstall, InitFlag, ExcHndlSetLogFileName, AppFilter

-----------------------------------------------------------------------------
(* Where the report is written.                                            *)

\* After the banner the file pointer stays at the end of the report file.
Appending == {"symbols", "exception", "stack", "cleanup", "modules"}
PosAtEnd ==
  \A c \in Call : pc[c] \in Appending /\ g_hReportFile \in Sink =>
    pos = Len(content[g_hReportFile])

Part == [crash : Nat, part : Parts]

LEMMA PrefixKept ==
  ASSUME NEW S, NEW s \in Seq(S)
  PROVE  /\ SubSeq(s, 1, Len(s)) = s
         /\ \A e \in S : /\ SubSeq(Append(s, e), 1, Len(s)) = s
                         /\ Len(Append(s, e)) = Len(s) + 1
<1>1. Len(s) \in Nat
  BY LenProperties
<1>2. ASSUME NEW r \in Seq(S), Len(r) >= Len(s), \A i \in 1..Len(s) : r[i] = s[i]
      PROVE  SubSeq(r, 1, Len(s)) = s
  <2>1. \A i \in 1..Len(s) : r[i] \in S
    BY <1>2, ElementOfSeq
  <2>2. /\ SubSeq(r, 1, Len(s)) \in Seq(S)
        /\ Len(SubSeq(r, 1, Len(s))) = Len(s)
        /\ \A i \in 1..Len(s) : SubSeq(r, 1, Len(s))[i] = r[i]
    BY <1>1, <2>1, SubSeqProperties
  <2> QED BY <1>2, <2>2, SeqEqual
<1>3. \A e \in S : /\ Append(s, e) \in Seq(S)
                   /\ Len(Append(s, e)) = Len(s) + 1
                   /\ \A i \in 1..Len(s) : Append(s, e)[i] = s[i]
  BY <1>1, AppendProperties
<1> QED BY <1>1, <1>2, <1>3

\* A part written at the end of the file is appended to it.
LEMMA WrittenAtEnd ==
  ASSUME ExcHndlTypeOK, NEW c \in Call, NEW part \in Parts, NEW at,
         g_hReportFile \in Sink => at = Len(content[g_hReportFile])
  PROVE  /\ g_hReportFile \in Sink => Len(Written(c, part, at)[g_hReportFile]) = at + 1
         /\ \A f \in Sink : SubSeq(Written(c, part, at)[f], 1, Len(content[f])) = content[f]
<1> DEFINE e == [crash |-> crash[c], part |-> part]
<1>1. e \in Part
  BY DEF ExcHndlTypeOK, Part
<1>2. content \in [Sink -> Seq(Part)]
  BY DEF ExcHndlTypeOK, Part
<1>3. CASE g_hReportFile \notin Sink
  <2>1. Written(c, part, at) = content
    BY <1>3 DEF Written
  <2> QED BY <1>2, <1>3, <2>1, PrefixKept
<1>4. CASE g_hReportFile \in Sink
  <2>1. Len(content[g_hReportFile]) \in Nat
    BY <1>2, <1>4, LenProperties
  <2>2. ~(at < Len(content[g_hReportFile]))
    BY <1>4, <2>1
  <2>3. Written(c, part, at) =
          [content EXCEPT ![g_hReportFile] = Append(content[g_hReportFile], e)]
    BY <1>4, <2>2 DEF Written
  <2> HIDE DEF e
  <2>4. \A f \in Sink : Written(c, part, at)[f] =
          IF f = g_hReportFile THEN Append(content[f], e) ELSE content[f]
    BY <1>2, <2>3
  <2>5. ASSUME NEW f \in Sink
        PROVE  /\ SubSeq(Written(c, part, at)[f], 1, Len(content[f])) = content[f]
               /\ f = g_hReportFile => Len(Written(c, part, at)[f]) = Len(content[f]) + 1
    <3>1. content[f] \in Seq(Part)
      BY <1>2
    <3>2. /\ SubSeq(content[f], 1, Len(content[f])) = content[f]
          /\ SubSeq(Append(content[f], e), 1, Len(content[f])) = content[f]
          /\ Len(Append(content[f], e)) = Len(content[f]) + 1
      BY <1>1, <3>1, PrefixKept
    <3> QED BY <2>4, <3>2
  <2> QED BY <1>4, <2>5
<1> QED BY <1>3, <1>4

\* What a step of the filter writes, it appends.
LEMMA FilterStepAppends ==
  ASSUME ExcHndlTypeOK, CountInv, PosAtEnd, NEW c \in Call, FilterStep(c)
  PROVE  /\ PosAtEnd'
         /\ \A f \in Sink : SubSeq(content'[f], 1, Len(content[f])) = content[f]
<1>1. ASSUME UNCHANGED <<content>>
      PROVE  \A f \in Sink : SubSeq(content'[f], 1, Len(content[f])) = content[f]
  BY <1>1, PrefixKept DEF ExcHndlTypeOK
<1>2. ASSUME UNCHANGED <<content, pos, g_hReportFile>>,
             \A d \in Call : pc'[d] \in Appending => pc[d] \in Appending
      PROVE  PosAtEnd'
  BY <1>2 DEF PosAtEnd
<1>3. ASSUME NEW part \in Parts, NEW at, NEW next, WritePart(c, part, at, next),
             g_hReportFile \in Sink => at = Len(content[g_hReportFile])
      PROVE  /\ PosAtEnd'
             /\ \A f \in Sink : SubSeq(content'[f], 1, Len(content[f])) = content[f]
  <2>1. content' = Written(c, part, at) /\ pos' = at + 1 /\ g_hReportFile' = g_hReportFile
    BY <1>3 DEF WritePart
  <2> QED BY <1>3, <2>1, WrittenAtEnd DEF PosAtEnd
<1>4. CASE Banner(c)
  BY <1>3, <1>4 DEF Banner, EndOfFile, Parts
<1>5. CASE dumpException(c) \/ dumpStack(c) \/ dumpModules(c)
  <2>1. pc[c] \in Appending
    BY <1>5 DEF dumpException, dumpStack, dumpModules, At, Appending
  <2>2. g_hReportFile \in Sink => pos = Len(content[g_hReportFile])
    BY <2>1 DEF PosAtEnd
  <2> QED BY <1>3, <1>5, <2>2 DEF dumpException, dumpStack, dumpModules, Parts
<1>6. CASE SetErrorModeAndOpen(c)
  <2>1. pc[c] = "mode" /\ UNCHANGED content
    BY <1>6 DEF SetErrorModeAndOpen, At
  <2>2. \A d \in Call : pc[d] \notin Appending
    BY <2>1 DEF CountInv, OneReporter, Reporters, Reporting, Appending
  <2>3. \A d \in Call : pc'[d] \notin Appending
    BY <1>6, <2>2 DEF SetErrorModeAndOpen, Goto, ExcHndlTypeOK, Appending
  <2> QED BY <1>1, <2>1, <2>3 DEF PosAtEnd
<1>7. CASE InitializeSym(c) \/ SymCleanup(c)
  <2>1. UNCHANGED <<content, pos, g_hReportFile>> /\ pc[c] \in Appending
    BY <1>7 DEF InitializeSym, SymCleanup, At, Appending
  <2>2. \A d \in Call : pc'[d] \in Appending => pc[d] \in Appending
    BY <1>7, <2>1 DEF InitializeSym, SymCleanup, Goto, ExcHndlTypeOK
  <2> QED BY <1>1, <1>2, <2>1, <2>2
<1>8. CASE Enter(c) \/ RestoreErrorMode(c) \/ Leave(c)
  <2>1. UNCHANGED <<content, pos, g_hReportFile>>
    BY <1>8 DEF Enter, RestoreErrorMode, Leave
  <2>2. \A d \in Call : pc'[d] \in Appending => pc[d] \in Appending
    BY <1>8 DEF Enter, RestoreErrorMode, Leave, Goto, ExcHndlTypeOK, Appending
  <2> QED BY <1>1, <1>2, <2>1, <2>2
<1>9. CASE CallPrevious(c)
  <2>1. UNCHANGED <<content, pos, g_hReportFile>>
    BY <1>9 DEF CallPrevious, Terminate, Unwind, Resume
  <2>2. \A d \in Call : pc'[d] \in Appending => pc[d] \in Appending
    BY <1>9 DEF CallPrevious, Terminate, Unwind, Resume, Goto, ExcHndlTypeOK, Appending
  <2> QED BY <1>1, <1>2, <2>1, <2>2
<1> QED BY <1>4, <1>5, <1>6, <1>7, <1>8, <1>9 DEF FilterStep

\* No other step writes, and a call begins before it appends.
LEMMA OthersAppend ==
  ASSUME ExcHndlTypeOK, FilterInv, PosAtEnd,
         \/ \E dynamic \in BOOLEAN : Attach(dynamic)
         \/ Detach
         \/ \E t \in Thread : InitTest(t) \/ InitInstall(t) \/ InitFlag(t)
         \/ \E name \in File \cup {"-", "empty"} : ExcHndlSetLogFileName(name)
         \/ AppFilter
         \/ \E t \in Thread : Fault(t)
  PROVE  PosAtEnd' /\ UNCHANGED content
<1>1. ASSUME NEW dynamic \in BOOLEAN, Attach(dynamic) PROVE PosAtEnd' /\ UNCHANGED content
  BY <1>1 DEF Attach, FilterInv, CallsAttached, PosAtEnd, Appending
<1>2. ASSUME Detach PROVE PosAtEnd' /\ UNCHANGED content
  BY <1>2 DEF Detach, PosAtEnd, Appending
<1>3. CASE UNCHANGED <<pc, content, pos, g_hReportFile>>
  BY <1>3 DEF PosAtEnd
<1>4. ASSUME NEW t \in Thread, Fault(t) PROVE PosAtEnd' /\ UNCHANGED content
  <2>1. UNCHANGED <<content, pos, g_hReportFile>>
    BY <1>4 DEF Fault, Terminate, Unwind
  <2>2. \A d \in Call : pc'[d] \in Appending => pc[d] \in Appending
    <3>1. CASE Terminate \/ Unwind(t)
      BY <3>1 DEF Terminate, Unwind, Appending
    <3>2. ASSUME NEW n \in 1..Depth, Goto(<<t, n>>, "enter")
          PROVE  \A d \in Call : pc'[d] \in Appending => pc[d] \in Appending
      BY <3>2 DEF Goto, ExcHndlTypeOK, Appending
    <3> QED BY <1>4, <3>1, <3>2 DEF Fault
  <2> QED BY <2>1, <2>2 DEF PosAtEnd
<1> QED BY <1>1, <1>2, <1>3, <1>4
        DEF InitTest, InitInstall, InitFlag, ExcHndlSetLogFileName, AppFilter

-----------------------------------------------------------------------------
(* The theorems.                                                           *)

Inv == ExcHndlTypeOK /\ FilterInv /\ CountInv /\ PosAtEnd

LEMMA InvInit == ExcHndlInit => Inv
<1> SUFFICES ASSUME ExcHndlInit PROVE Inv
  OBVIOUS
<1>1. PosAtEnd
  BY DEF ExcHndlInit, PosAtEnd, Appending
<1> QED BY <1>1, InitTyped, InitFilter, InitCount DEF Inv

\* Every step keeps the invariant, and what the files hold.
LEMMA InvNext ==
  ASSUME Inv, OneInitializes, [ExcHndlNext]_vars
  PROVE  /\ Inv'
         /\ \A f \in Sink : SubSeq(content'[f], 1, Len(content[f])) = content[f]
<1> USE DEF Inv
<1>1. ASSUME UNCHANGED content
      PROVE  \A f \in Sink : SubSeq(content'[f], 1, Len(content[f])) = content[f]
  BY <1>1, PrefixKept DEF ExcHndlTypeOK
<1>2. CASE \/ \E dynamic \in BOOLEAN : Attach(dynamic)
           \/ Detach
           \/ \E t \in Thread : InitTest(t) \/ InitInstall(t) \/ InitFlag(t)
           \/ \E name \in File \cup {"-", "empty"} : ExcHndlSetLogFileName(name)
           \/ AppFilter
  BY <1>1, <1>2, ProgramTyped, ProgramFilter, ProgramCount, OthersAppend
<1>3. ASSUME NEW t \in Thread, Fault(t)
      PROVE  /\ Inv'
             /\ \A f \in Sink : SubSeq(content'[f], 1, Len(content[f])) = content[f]
  BY <1>1, <1>3, FaultTyped, FaultFilter, FaultCount, OthersAppend
<1>4. ASSUME NEW c \in Call, FilterStep(c)
      PROVE  /\ Inv'
             /\ \A f \in Sink : SubSeq(content'[f], 1, Len(content[f])) = content[f]
  <2>1. pc[c] = "leave" => cBeenHere > 0
    <3> SUFFICES ASSUME pc[c] = "leave" PROVE cBeenHere > 0
      OBVIOUS
    <3>1. c \in Counted /\ Counted \in SUBSET Call
      BY DEF Counted
    <3>2. IsFiniteSet(Counted) /\ Cardinality(Counted) \in Nat
      BY <3>1, CountedFinite
    <3>3. Cardinality(Counted) # 0
      BY <3>1, <3>2, FS_EmptySet
    <3> QED BY <3>2, <3>3 DEF CountInv, CallsCounted, ExcHndlTypeOK
  <2> QED BY <1>4, <2>1, FilterTyped, FilterStepFilter, FilterStepCount, FilterStepAppends
<1>5. CASE UNCHANGED vars
  <2>1. Inv'
    BY <1>5 DEF vars, ExcHndlTypeOK, FilterInv, FilterSane, FilterInstalled, CallsAttached,
       CountInv, CallsCounted, OneReporter, Counted, Reporters, PosAtEnd
  <2> QED BY <1>1, <1>5, <2>1 DEF vars
<1> QED BY <1>2, <1>3, <1>4, <1>5 DEF ExcHndlNext, Ended

\* The types of the handler's state, the filters, the count of calls and the
\* file pointer are as the inductive invariant says, if one thread initializes.
THEOREM ExcHndlInvariance == OneInitializes => (ExcHndlSpec => []Inv)
<1> SUFFICES ASSUME OneInitializes PROVE ExcHndlSpec => []Inv
  OBVIOUS
<1>1. Inv /\ [ExcHndlNext]_vars => Inv'
  BY InvNext
<1> QED BY InvInit, <1>1, PTL DEF ExcHndlSpec

\* The handler's state is always of its type.
THEOREM ExcHndlTyping == OneInitializes => (ExcHndlSpec => []ExcHndlTypeOK)
<1>1. Inv => ExcHndlTypeOK
  BY DEF Inv
<1> QED BY ExcHndlInvariance, <1>1, PTL

\* TopLevelExceptionFilter never makes two reports at a time.
THEOREM ReportsAlone == OneInitializes => (ExcHndlSpec => []OneReporter)
<1>1. Inv => OneReporter
  BY DEF Inv, CountInv
<1> QED BY ExcHndlInvariance, <1>1, PTL

\* SetupHandler never saves the library's own filter, and CleanupHandler
\* leaves none behind.
THEOREM FiltersRestored == OneInitializes => (ExcHndlSpec => []FilterSane)
<1>1. Inv => FilterSane
  BY DEF Inv, FilterInv
<1> QED BY ExcHndlInvariance, <1>1, PTL

\* Reports are only ever appended to a report file.
THEOREM ReportsAppended == OneInitializes => (ExcHndlSpec => ReportsKept)
<1> SUFFICES ASSUME OneInitializes PROVE ExcHndlSpec => ReportsKept
  OBVIOUS
<1>1. Inv /\ [ExcHndlNext]_vars =>
        [\A f \in Sink : SubSeq(content'[f], 1, Len(content[f])) = content[f]]_vars
  BY InvNext
<1> QED BY ExcHndlInvariance, <1>1, PTL DEF ExcHndlSpec, ReportsKept

\* Only Enter takes a call from "enter" to "leave".
LEMMA OnlyEnterSkips ==
  ASSUME ExcHndlTypeOK, ExcHndlNext, NEW c \in Call, pc[c] = "enter", pc'[c] = "leave"
  PROVE  Enter(c)
<1>1. ASSUME NEW d \in Call, FilterStep(d), pc[d] # "enter"
      PROVE  FALSE
  <2>1. d # c
    BY <1>1
  <2>2. ASSUME NEW location, Goto(d, location)
        PROVE  FALSE
    BY <2>1, <2>2 DEF Goto, ExcHndlTypeOK
  <2>3. ~Enter(d)
    BY <1>1 DEF Enter, At
  <2>4. CASE CallPrevious(d)
    BY <2>2, <2>4 DEF CallPrevious, Terminate, Unwind, Resume, ExcHndlTypeOK
  <2> QED BY <1>1, <2>2, <2>3, <2>4 DEF FilterStep, SetErrorModeAndOpen, Banner, InitializeSym,
          dumpException, dumpStack, SymCleanup, dumpModules, RestoreErrorMode, Leave, WritePart
<1>2. ASSUME NEW d \in Call, FilterStep(d), pc[d] = "enter"
      PROVE  Enter(d)
  BY <1>2 DEF FilterStep, Enter, SetErrorModeAndOpen, Banner, InitializeSym, dumpException,
     dumpStack, SymCleanup, dumpModules, RestoreErrorMode, Leave, CallPrevious, At
<1>3. ASSUME NEW d \in Call, Enter(d)
      PROVE  d = c
  BY <1>3 DEF Enter, Goto, ExcHndlTypeOK
<1>4. ASSUME NEW t \in Thread, Fault(t)
      PROVE  FALSE
  <2>1. CASE Terminate \/ Unwind(t)
    BY <2>1 DEF Terminate, Unwind
  <2>2. ASSUME NEW n \in 1..Depth, Goto(<<t, n>>, "enter")
        PROVE  FALSE
    BY <2>2 DEF Goto, ExcHndlTypeOK
  <2> QED BY <1>4, <2>1, <2>2 DEF Fault
<1>5. pc' # pc
  OBVIOUS
<1> QED BY <1>1, <1>2, <1>3, <1>4, <1>5 DEF ExcHndlNext, Attach, Detach, InitTest, InitInstall,
        InitFlag, ExcHndlSetLogFileName, AppFilter, Ended, vars

USE ExcHndlAssumption DEF globals, system

-----------------------------------------------------------------------------
(* The handler implements ReportLog.                                       *)

\* What is seen of the handler while call c makes the report, and while none
\* does.
LEMMA Seen ==
  ASSUME OneReporter, NEW c \in Reporters
  PROVE  Reporters # {} /\ About = crash[c] /\ Due = DueAt(pc[c])
BY DEF OneReporter, Reporter, About, Due

LEMMA SeenNext ==
  ASSUME OneReporter', NEW c, c \in Reporters'
  PROVE  (Reporters # {})' /\ About' = crash'[c] /\ Due' = DueAt(pc'[c])
BY DEF OneReporter, Reporter, About, Due, DueAt

LEMMA NoneSeen == Reporters = {} => About = 0 /\ Due = "done"
BY DEF About, Due

LEMMA NoneSeenNext == Reporters' = {} => About' = 0 /\ Due' = "done"
BY DEF About, Due

\* A step that leaves the report being made alone, and where it goes.
LEMMA Unseen ==
  ASSUME OneReporter, OneReporter', Reporters' = Reporters,
         \A c \in Reporters : pc'[c] = pc[c] /\ crash'[c] = crash[c],
         UNCHANGED <<content, g_hReportFile>>
  PROVE  UNCHANGED Log!vars
<1>1. CASE Reporters = {}
  BY <1>1, NoneSeen, NoneSeenNext DEF Log!vars
<1>2. ASSUME NEW c \in Reporters PROVE UNCHANGED Log!vars
  BY <1>2, Seen, SeenNext DEF Log!vars
<1> QED BY <1>1, <1>2

\* A part of a report is appended to the report file.
LEMMA WrittenAppends ==
  ASSUME ExcHndlTypeOK, NEW c \in Call, NEW part \in Parts, NEW at,
         g_hReportFile \in Sink => at = Len(content[g_hReportFile])
  PROVE  Written(c, part, at) =
           IF g_hReportFile \in Sink
           THEN [content EXCEPT ![g_hReportFile] =
                   Append(@, [crash |-> crash[c], part |-> part])]
           ELSE content
<1>1. CASE g_hReportFile \notin Sink
  BY <1>1 DEF Written
<1>2. CASE g_hReportFile \in Sink
  <2>1. content[g_hReportFile] \in Seq(Part)
    BY <1>2 DEF ExcHndlTypeOK, Part
  <2>2. ~(at < Len(content[g_hReportFile]))
    BY <1>2, <2>1, LenProperties
  <2> QED BY <1>2, <2>2 DEF Written
<1> QED BY <1>1, <1>2

LEMMA WriteRefines ==
  ASSUME Inv, Inv', NEW c \in Call, NEW part \in Parts, NEW at, NEW next,
         WritePart(c, part, at, next), c \in Reporters, next \in Reporting,
         DueAt(pc[c]) = part, DueAt(next) = Log!NextDue[part],
         g_hReportFile \in Sink => at = Len(content[g_hReportFile])
  PROVE  Log!Write
<1>1. OneReporter /\ OneReporter'
  BY DEF Inv, CountInv
<1>2. pc'[c] = next /\ c \in Reporters'
  BY DEF WritePart, Goto, Inv, ExcHndlTypeOK, Reporters
<1>3. About = crash[c] /\ Due = part /\ Reporters # {}
  BY <1>1, Seen
<1>4. About' = crash[c] /\ Due' = Log!NextDue[part] /\ (Reporters # {})'
  <2>1. crash' = crash
    BY DEF WritePart
  <2> QED BY <1>1, <1>2, <2>1, SeenNext
<1>5. content' = Written(c, part, at) /\ g_hReportFile' = g_hReportFile
  BY DEF WritePart
<1>6. content' = IF g_hReportFile \in Sink
                 THEN [content EXCEPT ![g_hReportFile] =
                         Append(@, [crash |-> About, part |-> Due])]
                 ELSE content
  BY <1>3, <1>5, WrittenAppends DEF Inv
<1>7. Due \in Log!Part
  BY <1>3 DEF Parts, Log!Part
<1> QED BY <1>3, <1>4, <1>5, <1>6, <1>7 DEF Log!Write

\* Unwinding the stack abandons a report, or touches none.
LEMMA UnwindRefines ==
  ASSUME Inv, Inv', NEW t \in Thread, Unwind(t)
  PROVE  Log!Abandon \/ UNCHANGED Log!vars
<1>1. OneReporter /\ OneReporter'
  BY DEF Inv, CountInv
<1>2. UNCHANGED <<content, g_hReportFile, crash>>
  BY DEF Unwind
<1>3. \A c \in Call : pc'[c] = IF c[1] = t THEN "idle" ELSE pc[c]
  BY DEF Unwind, Inv, ExcHndlTypeOK
<1>4. CASE \E c \in Reporters : c[1] = t
  <2>1. PICK c \in Reporters : c[1] = t
    BY <1>4
  <2>2. Reporters' = {}
    BY <1>1, <1>3, <2>1 DEF Reporters, Reporting, OneReporter
  <2> QED BY <1>2, <2>1, <2>2, NoneSeenNext DEF Log!Abandon
<1>5. CASE \A c \in Reporters : c[1] # t
  <2>1. Reporters' = Reporters /\ \A c \in Reporters : pc'[c] = pc[c]
    BY <1>3, <1>5 DEF Reporters, Reporting
  <2> QED BY <1>1, <1>2, <2>1, Unseen
<1> QED BY <1>4, <1>5

\* Every step of the filter is one of ReportLog, or not seen there.
LEMMA FilterStepRefines ==
  ASSUME Inv, Inv', NEW c \in Call, FilterStep(c)
  PROVE  [Log!Next]_Log!vars
<1> USE DEF Reporting
<1>0. OneReporter /\ OneReporter' /\ pc \in [Call -> Location] /\ crash \in [Call -> Nat]
  BY DEF Inv, CountInv, ExcHndlTypeOK
<1>1. ASSUME NEW location, Goto(c, location)
      PROVE  \A d \in Call : pc'[d] = IF d = c THEN location ELSE pc[d]
  BY <1>0, <1>1 DEF Goto
<1>2. CASE Enter(c)
  <2>1. pc[c] = "enter" /\ c \notin Reporters /\ UNCHANGED <<content, g_hReportFile, crash>>
    BY <1>2 DEF Enter, At, Reporters
  <2>2. CASE cBeenHere = 0
    <3>1. Reporters = {}
      <4>1. Counted \in SUBSET Call /\ Reporters \subseteq Counted
        BY DEF Counted, Reporters
      <4>2. IsFiniteSet(Counted) /\ Cardinality(Counted) \in Nat
        BY <4>1, CountedFinite
      <4>3. Cardinality(Counted) = 0
        BY <2>2, <4>2 DEF Inv, CountInv, CallsCounted
      <4> QED BY <4>1, <4>2, <4>3, FS_EmptySet
    <3>2. c \in Reporters' /\ pc'[c] = "mode"
      BY <1>0, <1>1, <1>2, <2>2 DEF Enter, Reporters
    <3>3. About' = crash[c] /\ Due' = "banner" /\ (Reporters # {})'
      BY <1>0, <2>1, <3>2, SeenNext DEF DueAt
    <3>4. About' \in Nat
      BY <1>0, <3>3
    <3> QED BY <2>1, <3>1, <3>3, <3>4 DEF Log!Next, Log!Begin
  <2>3. CASE cBeenHere # 0
    <3>1. \A d \in Call : pc'[d] = IF d = c THEN "leave" ELSE pc[d]
      BY <1>1, <1>2, <2>3 DEF Enter
    <3>2. Reporters' = Reporters /\ \A d \in Reporters : pc'[d] = pc[d]
      BY <2>1, <3>1 DEF Reporters
    <3> QED BY <1>0, <2>1, <3>2, Unseen
  <2> QED BY <2>2, <2>3
<1>3. CASE SetErrorModeAndOpen(c)
  <2>1. pc[c] = "mode" /\ c \in Reporters /\ UNCHANGED <<content, crash>>
    BY <1>3 DEF SetErrorModeAndOpen, At, Reporters
  <2>2. c \in Reporters' /\ pc'[c] \in {"restore", "banner"}
    BY <1>0, <1>1, <1>3 DEF SetErrorModeAndOpen, Reporters
  <2>3. About = crash[c] /\ Due = "banner" /\ Reporters # {}
    BY <1>0, <2>1, Seen DEF DueAt
  <2>4. About' = crash[c] /\ Due' \in {"done", "banner"} /\ (Reporters # {})'
    BY <1>0, <2>1, <2>2, SeenNext DEF DueAt
  <2>5. g_hReportFile' \in Place
    BY DEF Inv, ExcHndlTypeOK, Place
  <2> QED BY <2>1, <2>3, <2>4, <2>5 DEF Log!Next, Log!Open
<1>4. CASE Banner(c)
  <2>1. pc[c] = "banner" /\ c \in Reporters
    BY <1>4 DEF Banner, At, Reporters
  <2>2. Log!Write
    BY <1>4, <2>1, WriteRefines DEF Banner, EndOfFile, Parts, DueAt, Log!NextDue
  <2> QED BY <2>2 DEF Log!Next
<1>5. CASE dumpException(c) \/ dumpStack(c) \/ dumpModules(c)
  <2>1. c \in Reporters /\ pc[c] \in Appending
    BY <1>5 DEF dumpException, dumpStack, dumpModules, At, Reporters, Appending
  <2>2. g_hReportFile \in Sink => pos = Len(content[g_hReportFile])
    BY <2>1 DEF Inv, PosAtEnd
  <2>3. CASE dumpException(c)
    BY <2>1, <2>2, <2>3, WriteRefines
       DEF dumpException, At, Parts, DueAt, Log!NextDue, Log!Next
  <2>4. CASE dumpStack(c)
    BY <2>1, <2>2, <2>4, WriteRefines
       DEF dumpStack, At, Parts, DueAt, Log!NextDue, Log!Next
  <2>5. CASE dumpModules(c)
    BY <2>1, <2>2, <2>5, WriteRefines
       DEF dumpModules, At, Parts, DueAt, Log!NextDue, Log!Next
  <2> QED BY <1>5, <2>3, <2>4, <2>5
<1>6. CASE InitializeSym(c) \/ SymCleanup(c)
  <2>1. c \in Reporters /\ UNCHANGED <<content, crash, g_hReportFile>>
    BY <1>6 DEF InitializeSym, SymCleanup, At, Reporters
  <2>2. \/ pc[c] = "symbols" /\ pc'[c] \in {"exception", "modules"}
        \/ pc[c] = "cleanup" /\ pc'[c] = "modules"
    BY <1>1, <1>6 DEF InitializeSym, SymCleanup, At
  <2>3. c \in Reporters'
    BY <2>2 DEF Reporters
  <2>4. About = crash[c] /\ Due = DueAt(pc[c]) /\ Reporters # {}
    BY <1>0, <2>1, Seen
  <2>5. About' = crash[c] /\ Due' = DueAt(pc'[c]) /\ (Reporters # {})'
    BY <1>0, <2>1, <2>3, SeenNext
  <2>6. CASE pc[c] = "symbols" /\ pc'[c] = "modules"
    BY <2>1, <2>4, <2>5, <2>6 DEF DueAt, Log!Omit, Log!Next
  <2>7. CASE ~(pc[c] = "symbols" /\ pc'[c] = "modules")
    BY <2>1, <2>2, <2>4, <2>5, <2>7 DEF DueAt, Log!vars
  <2> QED BY <2>6, <2>7
<1>7. CASE RestoreErrorMode(c)
  <2>1. pc[c] = "restore" /\ c \in Reporters /\ UNCHANGED <<content, g_hReportFile>>
    BY <1>7 DEF RestoreErrorMode, At, Reporters
  <2>2. \A d \in Call : pc'[d] = IF d = c THEN "leave" ELSE pc[d]
    BY <1>1, <1>7 DEF RestoreErrorMode
  <2>3. Reporters' = {}
    BY <1>0, <2>1, <2>2 DEF Reporters, OneReporter
  <2>4. Due = "done" /\ Reporters # {}
    BY <1>0, <2>1, Seen DEF DueAt
  <2> QED BY <2>1, <2>3, <2>4, NoneSeenNext DEF Log!Finish, Log!Next
<1>8. ASSUME NEW location, Goto(c, location), pc[c] \in {"leave", "chain"},
             location \notin Reporting, UNCHANGED <<content, g_hReportFile, crash>>
      PROVE  UNCHANGED Log!vars
  <2>1. Reporters' = Reporters /\ \A d \in Reporters : pc'[d] = pc[d]
    BY <1>1, <1>8 DEF Reporters
  <2> QED BY <1>0, <1>8, <2>1, Unseen
<1>9. CASE Leave(c)
  BY <1>8, <1>9 DEF Leave, At
<1>10. CASE CallPrevious(c)
  <2>1. CASE Terminate
    <3>1. UNCHANGED <<content, g_hReportFile, crash, pc>>
      BY <2>1 DEF Terminate
    <3> QED BY <1>0, <3>1, Unseen DEF Reporters
  <2>2. CASE Unwind(c[1])
    BY <2>2, UnwindRefines DEF Call, Log!Next
  <2>3. CASE Resume(c)
    BY <1>8, <1>10, <2>3 DEF CallPrevious, Resume, At
  <2>4. CASE /\ Goto(c, "enter")
             /\ UNCHANGED <<globals, init, crash, fuOldErrorMode, system, process, crashes,
                            abandoned>>
    BY <1>8, <1>10, <2>4 DEF CallPrevious, At
  <2> QED BY <1>10, <2>1, <2>2, <2>3, <2>4 DEF CallPrevious
<1> QED BY <1>2, <1>3, <1>4, <1>5, <1>6, <1>7, <1>9, <1>10 DEF FilterStep

\* A fault begins a call of the filter, which is not yet a report.
LEMMA FaultRefines ==
  ASSUME Inv, Inv', NEW t \in Thread, Fault(t)
  PROVE  [Log!Next]_Log!vars
<1>0. OneReporter /\ OneReporter'
  BY DEF Inv, CountInv
<1>1. CASE Terminate
  <2>1. UNCHANGED <<content, g_hReportFile, crash, pc>>
    BY <1>1 DEF Terminate
  <2> QED BY <1>0, <2>1, Unseen DEF Reporters
<1>2. CASE Unwind(t)
  BY <1>2, UnwindRefines DEF Log!Next
<1>3. ASSUME NEW n \in 1..Depth,
             \A m \in 1..Depth :
               IF m >= n THEN pc[<<t, m>>] = "idle" ELSE pc[<<t, m>>] \in Reporting,
             Goto(<<t, n>>, "enter"), crash' = [crash EXCEPT ![<<t, n>>] = crashes + 1],
             UNCHANGED <<globals, system>>
      PROVE  UNCHANGED Log!vars
  <2>1. pc[<<t, n>>] = "idle"
    <3>1. n >= n
      OBVIOUS
    <3> QED BY <1>3, <3>1
  <2>2. \A d \in Call : d # <<t, n>> => pc'[d] = pc[d] /\ crash'[d] = crash[d]
    BY <1>3 DEF Goto, Inv, ExcHndlTypeOK
  <2>3. pc'[<<t, n>>] = "enter"
    BY <1>3 DEF Goto, Inv, ExcHndlTypeOK, Call
  <2>4. Reporters' = Reporters
    BY <2>1, <2>2, <2>3 DEF Reporters, Reporting
  <2>5. <<t, n>> \notin Reporters
    BY <2>1 DEF Reporters, Reporting
  <2>6. \A d \in Reporters : pc'[d] = pc[d] /\ crash'[d] = crash[d]
    BY <2>2, <2>5 DEF Reporters
  <2> QED BY <1>0, <1>3, <2>4, <2>6, Unseen
<1> QED BY <1>1, <1>2, <1>3 DEF Fault

\* The program loads and frees the library between reports.
LEMMA ProgramRefines ==
  ASSUME Inv, Inv',
         \/ \E dynamic \in BOOLEAN : Attach(dynamic)
         \/ Detach
         \/ \E t \in Thread : InitTest(t) \/ InitInstall(t) \/ InitFlag(t)
         \/ \E name \in File \cup {"-", "empty"} : ExcHndlSetLogFileName(name)
         \/ AppFilter
  PROVE  [Log!Next]_Log!vars
<1>0. OneReporter /\ OneReporter'
  BY DEF Inv, CountInv
<1>1. ASSUME \A c \in Call : pc[c] = "idle", UNCHANGED <<content, pc>>
      PROVE  Log!Open
  <2>1. Reporters = {} /\ Reporters' = {}
    BY <1>1 DEF Reporters, Reporting
  <2>2. g_hReportFile' \in Place
    BY DEF Inv, ExcHndlTypeOK, Place
  <2> QED BY <1>1, <2>1, <2>2, NoneSeen, NoneSeenNext DEF Log!Open
<1>2. ASSUME NEW dynamic \in BOOLEAN, Attach(dynamic) PROVE Log!Open
  <2>1. \A c \in Call : pc[c] = "idle"
    BY <1>2 DEF Attach, Inv, FilterInv, CallsAttached
  <2> QED BY <1>1, <1>2, <2>1 DEF Attach
<1>3. CASE Detach
  BY <1>1, <1>3 DEF Detach, Log!Next
<1>4. CASE UNCHANGED <<content, pc, crash, g_hReportFile>>
  BY <1>0, <1>4, Unseen DEF Reporters
<1> QED BY <1>2, <1>3, <1>4
        DEF InitTest, InitInstall, InitFlag, ExcHndlSetLogFileName, AppFilter, Log!Next

LEMMA InitRefines == ExcHndlInit => Log!Init
<1> SUFFICES ASSUME ExcHndlInit PROVE Log!Init
  OBVIOUS
<1>1. Reporters = {}
  BY DEF ExcHndlInit, Reporters, Reporting
<1>2. content \in [Sink -> Seq([crash : Nat, part : Log!Part])]
  BY InitTyped DEF ExcHndlTypeOK, Parts, Log!Part
<1>3. g_hReportFile \in Place
  BY DEF ExcHndlInit, Place
<1> QED BY <1>1, <1>2, <1>3, NoneSeen DEF Log!Init

\* However many threads fault, and fault again while reporting,
\* TopLevelExceptionFilter makes its reports as ReportLog says: one at a time,
\* whole, each in one file and after what the file held.
THEOREM ReportsLogged == OneInitializes => (ExcHndlSpec => ImplementsReportLog)
<1> SUFFICES ASSUME OneInitializes PROVE ExcHndlSpec => ImplementsReportLog
  OBVIOUS
<1>1. ASSUME Inv, Inv', [ExcHndlNext]_vars PROVE [Log!Next]_Log!vars
  <2>1. CASE UNCHANGED vars
    <3>1. UNCHANGED <<content, pc, crash, g_hReportFile>>
      BY <2>1 DEF vars
    <3> QED BY <1>1, <3>1, Unseen DEF Reporters, Inv, CountInv
  <2> QED BY <1>1, <2>1, FilterStepRefines, FaultRefines, ProgramRefines
          DEF ExcHndlNext, Ended
<1>2. Inv /\ Inv' /\ [ExcHndlNext]_vars => [Log!Next]_Log!vars
  BY <1>1
<1> QED BY InitRefines, ExcHndlInvariance, <1>2, PTL
        DEF ExcHndlSpec, ImplementsReportLog, Log!Spec

-----------------------------------------------------------------------------
(* The handler gives back what it borrows.                                 *)

Borrowing == {"exception", "stack", "cleanup"}

\* The session is the program's own or the one the report has opened; the
\* error mode the report will restore is the program's; the handle of a file
\* is one the library owns, and a library that is not loaded has none.
BorrowInv ==
  /\ BorrowedReturned
  /\ g_hReportFile \in File => g_bOwnReportFile
  /\ ~attached => g_hReportFile = "null"
  /\ \A c \in Call : pc[c] \in Borrowing => ~appSession
  /\ ~abandoned => \A c \in Reporters :
       /\ pc[c] = "mode" => errorMode = "app"
       /\ pc[c] # "mode" => fuOldErrorMode[c] = "app"
       /\ session = (appSession \/ pc[c] \in Borrowing)

LEMMA InitBorrow == ExcHndlInit => BorrowInv
BY DEF ExcHndlInit, BorrowInv, BorrowedReturned, Reporters, Reporting, Borrowing

\* A step that leaves the report and what it borrows alone.
LEMMA BorrowKept ==
  ASSUME BorrowInv, Reporters' = Reporters, \A c \in Reporters : pc'[c] = pc[c],
         UNCHANGED <<attached, g_hReportFile, g_bOwnReportFile, errorMode, session,
                     appSession, opened, abandoned, fuOldErrorMode>>
  PROVE  BorrowInv'
<1>1. \A c \in Call : pc'[c] \in Borrowing => c \in Reporters /\ pc[c] \in Borrowing
  BY DEF Reporters, Reporting, Borrowing
<1> QED BY <1>1 DEF BorrowInv, BorrowedReturned

\* What is borrowed but the handle of the report file.
LentInv ==
  /\ appSession => session
  /\ Reporters = {} /\ ~abandoned => errorMode = "app" /\ session = appSession
  /\ \A c \in Call : pc[c] \in Borrowing => ~appSession
  /\ ~abandoned => \A c \in Reporters :
       /\ pc[c] = "mode" => errorMode = "app"
       /\ pc[c] # "mode" => fuOldErrorMode[c] = "app"
       /\ session = (appSession \/ pc[c] \in Borrowing)

LEMMA LentKept ==
  ASSUME BorrowInv, UNCHANGED <<pc, errorMode, session, appSession, abandoned, fuOldErrorMode>>
  PROVE  LentInv'
<1>1. Reporters' = Reporters
  BY DEF Reporters
<1>2. LentInv
  BY DEF BorrowInv, BorrowedReturned, LentInv
<1> QED BY <1>1, <1>2 DEF LentInv

LEMMA UnwindBorrow ==
  ASSUME Inv, BorrowInv, NEW t \in Thread, Unwind(t)
  PROVE  BorrowInv'
<1>1. \A c \in Call : pc'[c] = IF c[1] = t THEN "idle" ELSE pc[c]
  BY DEF Unwind, Inv, ExcHndlTypeOK
<1>2. UNCHANGED <<attached, g_hReportFile, g_bOwnReportFile, errorMode, session,
                  appSession, opened, fuOldErrorMode>>
  BY DEF Unwind
<1>3. \A c \in Call : pc'[c] \in Borrowing => pc[c] \in Borrowing
  BY <1>1 DEF Borrowing
<1>4. CASE \E c \in Reporters : c[1] = t
  <2>1. abandoned'
    BY <1>4 DEF Unwind, Reporters, Counted
  <2> QED BY <1>2, <1>3, <2>1 DEF BorrowInv, BorrowedReturned
<1>5. CASE \A c \in Reporters : c[1] # t
  <2>1. Reporters' = Reporters /\ \A c \in Reporters : pc'[c] = pc[c]
    BY <1>1, <1>5 DEF Reporters, Reporting
  <2>2. ~abandoned' => ~abandoned
    BY DEF Unwind
  <2> QED BY <1>2, <1>3, <2>1, <2>2 DEF BorrowInv, BorrowedReturned
<1> QED BY <1>4, <1>5

LEMMA FilterStepBorrow ==
  ASSUME Inv, Inv', BorrowInv, NEW c \in Call, FilterStep(c)
  PROVE  BorrowInv'
<1> USE DEF Reporting
<1>0. OneReporter /\ OneReporter' /\ pc \in [Call -> Location]
  BY DEF Inv, CountInv, ExcHndlTypeOK
<1>1. ASSUME NEW location, Goto(c, location)
      PROVE  \A d \in Call : pc'[d] = IF d = c THEN location ELSE pc[d]
  BY <1>0, <1>1 DEF Goto
<1>2. CASE Enter(c)
  <2>1. pc[c] = "enter" /\ c \notin Reporters
    BY <1>2 DEF Enter, At, Reporters
  <2>2. UNCHANGED <<attached, g_hReportFile, g_bOwnReportFile, errorMode, session,
                    appSession, opened, abandoned, fuOldErrorMode>>
    BY <1>2 DEF Enter
  <2>3. CASE cBeenHere = 0
    <3>1. Reporters = {}
      <4>1. Counted \in SUBSET Call /\ Reporters \subseteq Counted
        BY DEF Counted, Reporters
      <4>2. IsFiniteSet(Counted) /\ Cardinality(Counted) \in Nat
        BY <4>1, CountedFinite
      <4>3. Cardinality(Counted) = 0
        BY <2>3, <4>2 DEF Inv, CountInv, CallsCounted
      <4> QED BY <4>1, <4>2, <4>3, FS_EmptySet
    <3>2. \A d \in Call : pc'[d] = IF d = c THEN "mode" ELSE pc[d]
      BY <1>1, <1>2, <2>3 DEF Enter
    <3>3. Reporters' = {c} /\ pc'[c] = "mode"
      BY <3>1, <3>2 DEF Reporters
    <3>4. \A d \in Call : pc'[d] \notin Borrowing
      BY <3>3 DEF Reporters, Borrowing
    <3>5. /\ opened' = {g_hReportFile'} \cap File
          /\ g_hReportFile' \in File => g_bOwnReportFile'
          /\ ~attached' => g_hReportFile' = "null"
          /\ appSession' => session'
      BY <2>2 DEF BorrowInv, BorrowedReturned
    <3>6. ASSUME ~abandoned'
          PROVE  errorMode' = "app" /\ session' = appSession'
      BY <2>2, <3>1, <3>6 DEF BorrowInv, BorrowedReturned
    <3>7. "mode" \notin Borrowing
      BY DEF Borrowing
    <3>8. appSession' \in BOOLEAN
      BY DEF Inv, ExcHndlTypeOK
    <3>9. ASSUME ~abandoned', NEW d \in Reporters'
          PROVE  /\ pc'[d] = "mode" /\ errorMode' = "app"
                 /\ session' = (appSession' \/ pc'[d] \in Borrowing)
      BY <3>3, <3>6, <3>7, <3>8, <3>9
    <3> QED BY <3>3, <3>4, <3>5, <3>6, <3>9 DEF BorrowInv, BorrowedReturned
  <2>4. CASE cBeenHere # 0
    <3>1. \A d \in Call : pc'[d] = IF d = c THEN "leave" ELSE pc[d]
      BY <1>1, <1>2, <2>4 DEF Enter
    <3>2. Reporters' = Reporters /\ \A d \in Reporters : pc'[d] = pc[d]
      BY <2>1, <3>1 DEF Reporters
    <3> QED BY <2>2, <3>2, BorrowKept
  <2> QED BY <2>3, <2>4
<1>3. ASSUME c \in Reporters, NEW location \in Reporting, Goto(c, location)
      PROVE  Reporters = {c} /\ Reporters' = {c} /\ pc'[c] = location
             /\ \A d \in Call : pc'[d] \in Borrowing => d = c
  <2>1. \A d \in Call : pc'[d] = IF d = c THEN location ELSE pc[d]
    BY <1>1, <1>3
  <2>2. Reporters = {c}
    BY <1>0, <1>3 DEF OneReporter
  <2>3. Reporters' = {c}
    BY <2>1, <2>2 DEF Reporters
  <2> QED BY <2>1, <2>2, <2>3 DEF Reporters, Borrowing
<1>4. CASE SetErrorModeAndOpen(c)
  <2>1. c \in Reporters /\ pc[c] = "mode" /\ UNCHANGED <<attached, session, appSession, abandoned>>
    BY <1>4 DEF SetErrorModeAndOpen, At, Reporters
  <2>2. Reporters = {c} /\ Reporters' = {c} /\ pc'[c] \in {"restore", "banner"}
        /\ \A d \in Call : pc'[d] \in Borrowing => d = c
    BY <1>3, <1>4, <2>1 DEF SetErrorModeAndOpen
  <2>3. fuOldErrorMode'[c] = errorMode
    BY <1>4 DEF SetErrorModeAndOpen, Inv, ExcHndlTypeOK
  <2>4. opened' = {g_hReportFile'} \cap File /\ (g_hReportFile' \in File => g_bOwnReportFile')
    <3>1. ReportFile \in File => g_szLogFileName # "-"
      BY DEF ReportFile
    <3> QED BY <1>4, <3>1 DEF SetErrorModeAndOpen, BorrowInv, BorrowedReturned, ReportFile
  <2>5. attached
    BY <2>1 DEF Inv, FilterInv, CallsAttached
  <2> QED BY <2>1, <2>2, <2>3, <2>4, <2>5 DEF BorrowInv, BorrowedReturned, Borrowing
<1>5. CASE Banner(c) \/ dumpException(c) \/ dumpStack(c) \/ dumpModules(c)
  <2>1. c \in Reporters
        /\ UNCHANGED <<attached, g_hReportFile, g_bOwnReportFile, errorMode, session,
                       appSession, opened, abandoned, fuOldErrorMode>>
    BY <1>5 DEF Banner, dumpException, dumpStack, dumpModules, At, WritePart, Reporters
  <2>2. Reporters = {c} /\ Reporters' = {c} /\ \A d \in Call : pc'[d] \in Borrowing => d = c
    BY <1>3, <1>5, <2>1 DEF Banner, dumpException, dumpStack, dumpModules, WritePart
  <2>3. /\ pc[c] # "mode" /\ pc'[c] # "mode"
        /\ pc'[c] \in Borrowing <=> pc[c] \in Borrowing
    BY <1>1, <1>5 DEF Banner, dumpException, dumpStack, dumpModules, At, WritePart, Borrowing
  <2> QED BY <2>1, <2>2, <2>3 DEF BorrowInv, BorrowedReturned
<1>12. ASSUME Reporters = {c}, Reporters' = {c}, pc[c] # "mode", pc'[c] # "mode",
              \A d \in Call : pc'[d] \in Borrowing => d = c,
              UNCHANGED <<attached, g_hReportFile, g_bOwnReportFile, errorMode,
                          appSession, opened, abandoned, fuOldErrorMode>>,
              appSession' => session',
              pc'[c] \in Borrowing => ~appSession',
              ~abandoned' => session' = (appSession' \/ pc'[c] \in Borrowing)
       PROVE  BorrowInv'
  <2>1. BorrowedReturned'
    BY <1>12 DEF BorrowInv, BorrowedReturned
  <2>2. ASSUME ~abandoned'
        PROVE  fuOldErrorMode'[c] = "app"
    BY <1>12, <2>2 DEF BorrowInv
  <2> QED BY <1>12, <2>1, <2>2 DEF BorrowInv
<1>6. CASE InitializeSym(c)
  <2>1. c \in Reporters /\ pc[c] = "symbols" /\ session'
        /\ UNCHANGED <<attached, g_hReportFile, g_bOwnReportFile, errorMode,
                       appSession, opened, abandoned, fuOldErrorMode>>
    BY <1>6 DEF InitializeSym, At, Reporters
  <2>2. Reporters = {c} /\ Reporters' = {c} /\ \A d \in Call : pc'[d] \in Borrowing => d = c
    BY <1>3, <1>6, <2>1 DEF InitializeSym
  <2>3. pc'[c] = IF session THEN "modules" ELSE "exception"
    BY <1>1, <1>6 DEF InitializeSym
  <2>4. session' = TRUE /\ session \in BOOLEAN /\ appSession \in BOOLEAN
    BY <2>1 DEF Inv, ExcHndlTypeOK
  <2>5. ~abandoned => session = appSession
    <3>1. ~abandoned => session = (appSession \/ pc[c] \in Borrowing)
      BY <2>1 DEF BorrowInv
    <3>2. pc[c] \notin Borrowing
      BY <2>1 DEF Borrowing
    <3> QED BY <2>4, <3>1, <3>2
  <2>6. appSession => session
    BY DEF BorrowInv, BorrowedReturned
  <2>7. pc'[c] \in Borrowing <=> ~session
    BY <2>3 DEF Borrowing
  <2>8. pc'[c] # "mode"
    BY <2>3
  <2>9. pc'[c] \in Borrowing => ~appSession'
    BY <2>1, <2>6, <2>7
  <2>10. ~abandoned' => session' = (appSession' \/ pc'[c] \in Borrowing)
    BY <2>1, <2>4, <2>5, <2>7
  <2> QED BY <1>12, <2>1, <2>2, <2>8, <2>9, <2>10
<1>7. CASE SymCleanup(c)
  <2>1. c \in Reporters /\ pc[c] = "cleanup" /\ ~session'
        /\ UNCHANGED <<attached, g_hReportFile, g_bOwnReportFile, errorMode,
                       appSession, opened, abandoned, fuOldErrorMode>>
    BY <1>7 DEF SymCleanup, At, Reporters
  <2>2. Reporters = {c} /\ Reporters' = {c} /\ pc'[c] = "modules"
        /\ \A d \in Call : pc'[d] \in Borrowing => d = c
    BY <1>3, <1>7, <2>1 DEF SymCleanup
  <2>3. ~appSession
    BY <2>1 DEF BorrowInv, Borrowing
  <2>4. session' = FALSE
    BY <2>1 DEF Inv, ExcHndlTypeOK
  <2>5. pc'[c] \notin Borrowing
    BY <2>2 DEF Borrowing
  <2>6. ~abandoned' => session' = (appSession' \/ pc'[c] \in Borrowing)
    BY <2>1, <2>3, <2>4, <2>5
  <2> QED BY <1>12, <2>1, <2>2, <2>3, <2>5, <2>6
<1>8. CASE RestoreErrorMode(c)
  <2>1. c \in Reporters /\ pc[c] = "restore" /\ errorMode' = fuOldErrorMode[c]
        /\ UNCHANGED <<attached, g_hReportFile, g_bOwnReportFile, session, appSession, opened,
                       abandoned, fuOldErrorMode>>
    BY <1>8 DEF RestoreErrorMode, At, Reporters
  <2>2. \A d \in Call : pc'[d] = IF d = c THEN "leave" ELSE pc[d]
    BY <1>1, <1>8 DEF RestoreErrorMode
  <2>3. Reporters' = {} /\ Reporters = {c}
    BY <1>0, <2>1, <2>2 DEF Reporters, OneReporter
  <2>4. \A d \in Call : pc'[d] \notin Borrowing
    BY <2>3 DEF Reporters, Borrowing
  <2>5. appSession \in BOOLEAN /\ session \in BOOLEAN
    BY DEF Inv, ExcHndlTypeOK
  <2>6. ~abandoned => fuOldErrorMode[c] = "app" /\ session = appSession
    <3>1. pc[c] \notin Borrowing /\ pc[c] # "mode"
      BY <2>1 DEF Borrowing
    <3>2. ASSUME ~abandoned
          PROVE  fuOldErrorMode[c] = "app" /\ session = (appSession \/ pc[c] \in Borrowing)
      BY <2>1, <3>1, <3>2 DEF BorrowInv
    <3> QED BY <2>5, <3>1, <3>2
  <2>7. BorrowedReturned'
    BY <2>1, <2>6 DEF BorrowInv, BorrowedReturned
  <2> QED BY <2>1, <2>3, <2>4, <2>7 DEF BorrowInv
<1>9. ASSUME NEW location, Goto(c, location), pc[c] \in {"leave", "chain"},
             location \notin Reporting,
             UNCHANGED <<attached, g_hReportFile, g_bOwnReportFile, errorMode, session,
                         appSession, opened, abandoned, fuOldErrorMode>>
      PROVE  BorrowInv'
  <2>1. Reporters' = Reporters /\ \A d \in Reporters : pc'[d] = pc[d]
    BY <1>1, <1>9 DEF Reporters
  <2> QED BY <1>9, <2>1, BorrowKept
<1>10. CASE Leave(c)
  BY <1>9, <1>10 DEF Leave, At
<1>11. CASE CallPrevious(c)
  <2>1. CASE Terminate
    BY <2>1, BorrowKept DEF Terminate, Reporters
  <2>2. CASE Unwind(c[1])
    BY <2>2, UnwindBorrow DEF Call
  <2>3. CASE Resume(c)
    BY <1>9, <1>11, <2>3 DEF CallPrevious, Resume, At
  <2>4. CASE /\ Goto(c, "enter")
             /\ UNCHANGED <<globals, init, crash, fuOldErrorMode, system, process, crashes,
                            abandoned>>
    BY <1>9, <1>11, <2>4 DEF CallPrevious, At
  <2> QED BY <1>11, <2>1, <2>2, <2>3, <2>4 DEF CallPrevious
<1> QED BY <1>2, <1>4, <1>5, <1>6, <1>7, <1>8, <1>10, <1>11 DEF FilterStep

LEMMA FaultBorrow ==
  ASSUME Inv, BorrowInv, NEW t \in Thread, Fault(t)
  PROVE  BorrowInv'
<1>1. CASE Terminate
  BY <1>1, BorrowKept DEF Terminate, Reporters
<1>2. CASE Unwind(t)
  BY <1>2, UnwindBorrow
<1>3. ASSUME NEW n \in 1..Depth,
             \A m \in 1..Depth :
               IF m >= n THEN pc[<<t, m>>] = "idle" ELSE pc[<<t, m>>] \in Reporting,
             Goto(<<t, n>>, "enter"),
             UNCHANGED <<globals, system, fuOldErrorMode, abandoned>>
      PROVE  BorrowInv'
  <2>1. pc[<<t, n>>] = "idle"
    <3>1. n >= n
      OBVIOUS
    <3> QED BY <1>3, <3>1
  <2>2. \A d \in Call : pc'[d] = IF d = <<t, n>> THEN "enter" ELSE pc[d]
    BY <1>3 DEF Goto, Inv, ExcHndlTypeOK
  <2>3. Reporters' = Reporters /\ \A d \in Reporters : pc'[d] = pc[d]
    BY <2>1, <2>2 DEF Reporters, Reporting
  <2> QED BY <1>3, <2>3, BorrowKept
<1> QED BY <1>1, <1>2, <1>3 DEF Fault

LEMMA ProgramBorrow ==
  ASSUME Inv, BorrowInv,
         \/ \E dynamic \in BOOLEAN : Attach(dynamic)
         \/ Detach
         \/ \E t \in Thread : InitTest(t) \/ InitInstall(t) \/ InitFlag(t)
         \/ \E name \in File \cup {"-", "empty"} : ExcHndlSetLogFileName(name)
         \/ AppFilter
  PROVE  BorrowInv'
<1>1. ASSUME NEW dynamic \in BOOLEAN, Attach(dynamic) PROVE BorrowInv'
  <2>1. Reporters' = Reporters /\ pc' = pc
    BY <1>1 DEF Attach, Reporters
  <2>2. UNCHANGED <<errorMode, session, appSession, opened, abandoned, fuOldErrorMode>>
    BY <1>1 DEF Attach
  <2>3. g_hReportFile = "null" /\ g_hReportFile' = "null"
    BY <1>1 DEF Attach, BorrowInv
  <2>4. opened' = {g_hReportFile'} \cap File /\ g_hReportFile' \notin File
    BY <2>2, <2>3 DEF BorrowInv, BorrowedReturned
  <2>5. LentInv'
    BY <2>1, <2>2, LentKept
  <2> QED BY <2>3, <2>4, <2>5 DEF BorrowInv, BorrowedReturned, LentInv
<1>2. CASE Detach
  <2>1. Reporters' = Reporters /\ pc' = pc
    BY <1>2 DEF Detach, Reporters
  <2>2. UNCHANGED <<errorMode, session, appSession, abandoned, fuOldErrorMode>>
    BY <1>2 DEF Detach
  <2>3. opened' = {} /\ g_hReportFile' = "null"
    BY <1>2 DEF Detach, Cleanup, BorrowInv, BorrowedReturned
  <2>4. opened' = {g_hReportFile'} \cap File /\ g_hReportFile' \notin File
    BY <2>3
  <2>5. LentInv'
    BY <2>1, <2>2, LentKept
  <2> QED BY <2>3, <2>4, <2>5 DEF BorrowInv, BorrowedReturned, LentInv
<1>3. CASE /\ UNCHANGED pc
           /\ UNCHANGED <<attached, g_hReportFile, g_bOwnReportFile, errorMode, session,
                          appSession, opened, abandoned, fuOldErrorMode>>
  BY <1>3, BorrowKept DEF Reporters
<1> QED BY <1>1, <1>2, <1>3
        DEF InitTest, InitInstall, InitFlag, ExcHndlSetLogFileName, AppFilter

\* What is borrowed is accounted for in every reachable state.
LEMMA BorrowInvariance == OneInitializes => (ExcHndlSpec => []BorrowInv)
<1> SUFFICES ASSUME OneInitializes PROVE ExcHndlSpec => []BorrowInv
  OBVIOUS
<1>1. ASSUME Inv, Inv', BorrowInv, [ExcHndlNext]_vars PROVE BorrowInv'
  <2>1. CASE UNCHANGED vars
    BY <1>1, <2>1, BorrowKept DEF vars, Reporters
  <2> QED BY <1>1, <2>1, FilterStepBorrow, FaultBorrow, ProgramBorrow DEF ExcHndlNext, Ended
<1>2. Inv /\ Inv' /\ BorrowInv /\ [ExcHndlNext]_vars => BorrowInv'
  BY <1>1
<1> QED BY InitBorrow, ExcHndlInvariance, <1>2, PTL DEF ExcHndlSpec

\* The filter restores the error mode it changed and closes the DbgHelp session
\* it opened and no other, and the library closes its report file, unless the
\* program unwinds the stack through the filter.
THEOREM BorrowedIsReturned == OneInitializes => (ExcHndlSpec => []BorrowedReturned)
<1>1. BorrowInv => BorrowedReturned
  BY DEF BorrowInv
<1> QED BY BorrowInvariance, <1>1, PTL

-----------------------------------------------------------------------------
(* Every fault that reaches the filter is reported.                        *)

\* The parts of the report that a call has written when it gets to location.
WrittenBefore(location) ==
  IF location \in {"symbols", "exception"} THEN {"banner"}
  ELSE IF location = "stack" THEN {"banner", "exception"}
  ELSE IF location \in {"cleanup", "modules"} THEN {"banner", "exception", "stack"}
  ELSE IF location = "restore" THEN Parts
  ELSE {}

\* The parts a report may do without: DbgHelp had a session before it.
Excused(part) == part \in {"exception", "stack"} /\ (appSession \/ abandoned)

PartsWritten ==
  g_hReportFile \in Sink =>
    \A c \in Call : \A part \in WrittenBefore(pc[c]) : Excused(part) \/ Reported(c, part)

\* Only calls that make a report have written any part of it.
LEMMA WrittenByReporters ==
  ASSUME NEW c \in Call, WrittenBefore(pc[c]) # {}
  PROVE  c \in Reporters /\ pc[c] \in Appending \cup {"restore"}
BY DEF WrittenBefore, Reporters, Reporting, Appending

LEMMA NothingBefore ==
  \A location \in {"idle", "enter"} : WrittenBefore(location) = {}
BY DEF WrittenBefore

\* A step that writes nothing.
LEMMA PartsKept ==
  ASSUME PartsWritten, UNCHANGED <<content, appSession>>, abandoned => abandoned',
         g_hReportFile' \in Sink => g_hReportFile' = g_hReportFile,
         \A d \in Call : \A part \in WrittenBefore(pc'[d]) :
           part \in WrittenBefore(pc[d]) /\ crash'[d] = crash[d]
  PROVE  PartsWritten'
<1> SUFFICES ASSUME g_hReportFile' \in Sink, NEW d \in Call,
                    NEW part \in WrittenBefore(pc'[d])
             PROVE  Excused(part)' \/ Reported(d, part)'
  BY DEF PartsWritten
<1>1. Excused(part) \/ Reported(d, part)
  BY DEF PartsWritten
<1>2. Excused(part) => Excused(part)'
  BY DEF Excused
<1>3. Reported(d, part) => Reported(d, part)'
  BY DEF Reported
<1> QED BY <1>1, <1>2, <1>3

\* What is in a sequence is in it when something has been appended.
LEMMA AppendKeeps ==
  ASSUME NEW S, NEW s \in Seq(S), NEW e \in S
  PROVE  /\ \A x : (\E i \in DOMAIN s : s[i] = x) =>
              \E i \in DOMAIN Append(s, e) : Append(s, e)[i] = x
         /\ \E i \in DOMAIN Append(s, e) : Append(s, e)[i] = e
<1>1. Len(s) \in Nat /\ DOMAIN s = 1..Len(s)
  BY LenProperties
<1>2. /\ DOMAIN Append(s, e) = 1..(Len(s) + 1)
      /\ \A i \in 1..Len(s) : Append(s, e)[i] = s[i]
      /\ Append(s, e)[Len(s) + 1] = e
  BY <1>1, AppendProperties, LenProperties
<1>3. Len(s) + 1 \in 1..(Len(s) + 1) /\ \A i \in 1..Len(s) : i \in 1..(Len(s) + 1)
  BY <1>1
<1> QED BY <1>1, <1>2, <1>3

\* A step that writes a part.
LEMMA PartWritten ==
  ASSUME Inv, PartsWritten, NEW c \in Call, NEW part \in Parts, NEW at, NEW next,
         WritePart(c, part, at, next),
         g_hReportFile \in Sink => at = Len(content[g_hReportFile]),
         WrittenBefore(next) = WrittenBefore(pc[c]) \cup {part}
  PROVE  PartsWritten'
<1> SUFFICES ASSUME g_hReportFile \in Sink, NEW d \in Call,
                    NEW p \in WrittenBefore(pc'[d])
             PROVE  Excused(p)' \/ Reported(d, p)'
  BY DEF PartsWritten, WritePart
<1> DEFINE old == content[g_hReportFile]
           e == [crash |-> crash[c], part |-> part]
<1>1. UNCHANGED <<g_hReportFile, crash, appSession, abandoned>>
  BY DEF WritePart
<1>2. pc'[d] = IF d = c THEN next ELSE pc[d]
  BY DEF WritePart, Goto, Inv, ExcHndlTypeOK
<1>3. e \in Part /\ old \in Seq(Part)
  BY DEF Inv, ExcHndlTypeOK, Part
<1>4. content'[g_hReportFile] = Append(old, e)
  <2>1. content' = Written(c, part, at)
    BY DEF WritePart
  <2>2. Written(c, part, at) = [content EXCEPT ![g_hReportFile] = Append(@, e)]
    BY WrittenAppends DEF Inv
  <2>3. g_hReportFile \in DOMAIN content
    BY DEF Inv, ExcHndlTypeOK
  <2> QED BY ONLY <2>1, <2>2, <2>3
<1>5. ASSUME Reported(d, p) PROVE Reported(d, p)'
  <2> DEFINE x == [crash |-> crash[d], part |-> p]
  <2>1. \E i \in DOMAIN old : old[i] = x
    BY <1>5 DEF Reported
  <2> HIDE DEF old, e, x
  <2>2. \E i \in DOMAIN Append(old, e) : Append(old, e)[i] = x
    BY <1>3, <2>1, AppendKeeps
  <2> QED BY <1>1, <1>4, <2>2 DEF Reported, x
<1>6. CASE d = c /\ p = part
  <2>1. e = [crash |-> crash[d], part |-> p]
    BY <1>6
  <2> HIDE DEF old, e
  <2>2. \E i \in DOMAIN Append(old, e) : Append(old, e)[i] = e
    BY <1>3, AppendKeeps
  <2> QED BY <1>1, <1>4, <2>1, <2>2 DEF Reported
<1>7. CASE p \in WrittenBefore(pc[d])
  <2>1. Excused(p) \/ Reported(d, p)
    BY <1>7 DEF PartsWritten
  <2> QED BY <1>1, <1>5, <2>1 DEF Excused
<1> QED BY <1>2, <1>6, <1>7

\* Every step of the filter keeps what is written.
LEMMA FilterStepParts ==
  ASSUME Inv, BorrowInv, PartsWritten, NEW c \in Call, FilterStep(c)
  PROVE  PartsWritten'
<1>0. OneReporter /\ PosAtEnd /\ pc \in [Call -> Location]
  BY DEF Inv, CountInv, ExcHndlTypeOK
<1>1. ASSUME NEW location, Goto(c, location)
      PROVE  \A d \in Call : pc'[d] = IF d = c THEN location ELSE pc[d]
  BY <1>0, <1>1 DEF Goto
<1>2. ASSUME NEW location, Goto(c, location), WrittenBefore(location) \subseteq WrittenBefore(pc[c]),
             UNCHANGED <<content, appSession, crash, g_hReportFile, abandoned>>
      PROVE  PartsWritten'
  <2>1. \A d \in Call : \A part \in WrittenBefore(pc'[d]) :
          part \in WrittenBefore(pc[d]) /\ crash'[d] = crash[d]
    BY <1>1, <1>2
  <2> QED BY <1>2, <2>1, PartsKept
<1>3. CASE Enter(c) \/ RestoreErrorMode(c) \/ Leave(c) \/ SymCleanup(c)
  <2>1. PICK location \in {"mode", "leave", "chain", "modules"} :
          /\ Goto(c, location)
          /\ WrittenBefore(location) \subseteq WrittenBefore(pc[c])
    BY <1>3 DEF Enter, RestoreErrorMode, Leave, SymCleanup, At, WrittenBefore
  <2> QED BY <1>2, <1>3, <2>1 DEF Enter, RestoreErrorMode, Leave, SymCleanup
<1>4. CASE SetErrorModeAndOpen(c)
  <2>1. /\ c \in Reporters /\ UNCHANGED <<content, appSession, crash, abandoned>>
    BY <1>4 DEF SetErrorModeAndOpen, At, Reporters, Reporting
  <2>2. PICK location \in {"restore", "banner"} :
          Goto(c, location) /\ (location = "restore" => g_hReportFile' = "null")
    BY <1>4 DEF SetErrorModeAndOpen
  <2>3. \A d \in Call : d # c => WrittenBefore(pc'[d]) = {}
    <3>1. \A d \in Call : d # c => pc'[d] = pc[d] /\ d \notin Reporters
      BY <1>0, <1>1, <2>1, <2>2 DEF OneReporter
    <3> QED BY <3>1, WrittenByReporters
  <2>4. pc'[c] = location
    BY <1>1, <2>2
  <2>5. CASE location = "restore"
    <3>1. g_hReportFile' \notin Sink
      BY <2>2, <2>5 DEF Sink
    <3> QED BY <3>1 DEF PartsWritten
  <2>6. CASE location = "banner"
    <3>1. WrittenBefore(pc'[c]) = {}
      BY <2>4, <2>6 DEF WrittenBefore
    <3> QED BY <2>3, <3>1 DEF PartsWritten
  <2> QED BY <2>5, <2>6
<1>5. CASE Banner(c)
  <2>1. WritePart(c, "banner", EndOfFile, "symbols") /\ pc[c] = "banner" /\ "banner" \in Parts
    BY <1>5 DEF Banner, At, Parts
  <2>2. g_hReportFile \in Sink => EndOfFile = Len(content[g_hReportFile])
    BY DEF EndOfFile
  <2>3. WrittenBefore("symbols") = WrittenBefore(pc[c]) \cup {"banner"}
    BY <2>1 DEF WrittenBefore
  <2> QED BY <2>1, <2>2, <2>3, PartWritten
<1>6. ASSUME NEW part \in Parts, NEW next, WritePart(c, part, pos, next), pc[c] \in Appending,
             WrittenBefore(next) = WrittenBefore(pc[c]) \cup {part}
      PROVE  PartsWritten'
  <2>1. g_hReportFile \in Sink => pos = Len(content[g_hReportFile])
    BY <1>0, <1>6 DEF PosAtEnd
  <2> QED BY <1>6, <2>1, PartWritten
<1>7. CASE dumpException(c) \/ dumpStack(c) \/ dumpModules(c)
  BY <1>6, <1>7 DEF dumpException, dumpStack, dumpModules, At, Appending, WrittenBefore, Parts
<1>8. CASE InitializeSym(c)
  <2>1. c \in Reporters /\ pc[c] = "symbols"
        /\ UNCHANGED <<content, appSession, crash, g_hReportFile, abandoned>>
    BY <1>8 DEF InitializeSym, At, Reporters, Reporting
  <2>2. CASE ~session
    BY <1>2, <1>8, <2>1, <2>2 DEF InitializeSym, WrittenBefore
  <2>3. CASE session
    <3>1. Goto(c, "modules")
      BY <1>8, <2>3 DEF InitializeSym
    <3>2. appSession \/ abandoned
      <4> SUFFICES ASSUME ~abandoned PROVE appSession
        OBVIOUS
      <4>1. session = (appSession \/ pc[c] \in Borrowing)
        BY <2>1 DEF BorrowInv
      <4>2. pc[c] \notin Borrowing
        BY <2>1 DEF Borrowing
      <4> QED BY <2>3, <4>1, <4>2
    <3> SUFFICES ASSUME g_hReportFile \in Sink, NEW d \in Call,
                        NEW part \in WrittenBefore(pc'[d])
                 PROVE  Excused(part)' \/ Reported(d, part)'
      BY <2>1 DEF PartsWritten
    <3>3. part \in {"exception", "stack"} \/ part \in WrittenBefore(pc[d])
      BY <1>1, <2>1, <3>1 DEF WrittenBefore
    <3>4. CASE part \in {"exception", "stack"}
      BY <2>1, <3>2, <3>4 DEF Excused
    <3>5. CASE part \in WrittenBefore(pc[d])
      <4>1. Excused(part) \/ Reported(d, part)
        BY <3>5 DEF PartsWritten
      <4> QED BY <2>1, <4>1 DEF Excused, Reported
    <3> QED BY <3>3, <3>4, <3>5
  <2> QED BY <2>2, <2>3
<1>9. CASE CallPrevious(c)
  <2>1. /\ UNCHANGED <<content, appSession, crash, g_hReportFile>>
        /\ abandoned => abandoned'
    <3>1. CASE Terminate
      BY <3>1 DEF Terminate, globals, system
    <3>2. CASE Unwind(c[1])
      BY <3>2 DEF Unwind, globals, system
    <3>3. CASE Resume(c)
      BY <3>3 DEF Resume, globals, system
    <3>4. CASE UNCHANGED <<globals, crash, system, abandoned>>
      BY <3>4 DEF globals, system
    <3> QED BY <1>9, <3>1, <3>2, <3>3, <3>4 DEF CallPrevious
  <2>2. \A d \in Call : pc'[d] = pc[d] \/ pc'[d] \in {"idle", "enter"}
    <3>1. CASE Terminate \/ Unwind(c[1])
      BY <3>1 DEF Terminate, Unwind
    <3>2. CASE Resume(c) \/ Goto(c, "enter")
      BY <1>1, <3>2 DEF Resume
    <3> QED BY <1>9, <3>1, <3>2 DEF CallPrevious
  <2>3. \A d \in Call : \A part \in WrittenBefore(pc'[d]) :
          part \in WrittenBefore(pc[d]) /\ crash'[d] = crash[d]
    BY <2>1, <2>2, NothingBefore
  <2> QED BY <2>1, <2>3, PartsKept
<1> QED BY <1>3, <1>4, <1>5, <1>7, <1>8, <1>9 DEF FilterStep

\* So do the steps of the program.
LEMMA OthersParts ==
  ASSUME Inv, PartsWritten,
         \/ \E dynamic \in BOOLEAN : Attach(dynamic)
         \/ Detach
         \/ \E t \in Thread : InitTest(t) \/ InitInstall(t) \/ InitFlag(t)
         \/ \E name \in File \cup {"-", "empty"} : ExcHndlSetLogFileName(name)
         \/ AppFilter
         \/ \E t \in Thread : Fault(t)
  PROVE  PartsWritten'
<1>1. CASE Detach \/ \E dynamic \in BOOLEAN : Attach(dynamic)
  <2>1. g_hReportFile' = "null"
    BY <1>1 DEF Attach, Detach
  <2>2. g_hReportFile' \notin Sink
    BY <2>1 DEF Sink
  <2> QED BY <2>2 DEF PartsWritten
<1>2. CASE UNCHANGED <<pc, crash, content, appSession, g_hReportFile, abandoned>>
  BY <1>2, PartsKept
<1>3. ASSUME NEW t \in Thread, Fault(t) PROVE PartsWritten'
  <2>1. /\ UNCHANGED <<content, appSession, g_hReportFile>>
        /\ abandoned => abandoned'
    BY <1>3 DEF Fault, Terminate, Unwind, globals, system
  <2>2. \A d \in Call : pc'[d] \in {"idle", "enter"} \/ (pc'[d] = pc[d] /\ crash'[d] = crash[d])
    <3>1. CASE Terminate \/ Unwind(t)
      BY <3>1 DEF Terminate, Unwind
    <3>2. ASSUME NEW n \in 1..Depth, Goto(<<t, n>>, "enter"),
                 crash' = [crash EXCEPT ![<<t, n>>] = crashes + 1]
          PROVE  \A d \in Call : pc'[d] \in {"idle", "enter"}
                                 \/ (pc'[d] = pc[d] /\ crash'[d] = crash[d])
      BY <3>2 DEF Goto, Inv, ExcHndlTypeOK
    <3> QED BY <1>3, <3>1, <3>2 DEF Fault
  <2>3. \A d \in Call : \A part \in WrittenBefore(pc'[d]) :
          part \in WrittenBefore(pc[d]) /\ crash'[d] = crash[d]
    BY <2>2, NothingBefore
  <2> QED BY <2>1, <2>3, PartsKept
<1> QED BY <1>1, <1>2, <1>3
        DEF InitTest, InitInstall, InitFlag, ExcHndlSetLogFileName, AppFilter

\* Every call of the filter makes a report, unless another call is in it or the
\* program has unwound one, and does not leave before the report, with all its
\* parts, is in the report file, if that is a file; the exception and the stack
\* are left out only when DbgHelp has had a session before.
THEOREM FaultsAreReported == OneInitializes => (ExcHndlSpec => FaultsReported)
<1> SUFFICES ASSUME OneInitializes PROVE ExcHndlSpec => FaultsReported
  OBVIOUS
<1> DEFINE Entering == \A c \in Call :
             pc[c] = "enter" /\ pc'[c] = "leave" => Counted # {} \/ abandoned
           Leaving == \A c \in Call :
             pc[c] = "restore" /\ pc'[c] = "leave" /\ g_hReportFile \in Sink =>
               \A part \in Parts :
                 \/ part \in {"exception", "stack"} /\ (appSession \/ abandoned)
                 \/ Reported(c, part)
<1>1. ASSUME Inv, [ExcHndlNext]_vars PROVE [Entering]_vars
  <2> SUFFICES ASSUME ExcHndlNext, NEW c \in Call, pc[c] = "enter", pc'[c] = "leave",
                      ~abandoned
               PROVE  Counted # {}
    BY <1>1
  <2>1. Enter(c)
    BY <1>1, OnlyEnterSkips DEF Inv
  <2>2. cBeenHere # 0
    BY <1>1, <2>1 DEF Enter, Goto, Inv, ExcHndlTypeOK
  <2>3. Cardinality(Counted) # 0
    BY <1>1, <2>2 DEF Inv, CountInv, CallsCounted
  <2> QED BY <2>3, FS_EmptySet
<1>2. ASSUME PartsWritten PROVE Leaving
  BY <1>2 DEF PartsWritten, WrittenBefore, Excused
<1>3. ExcHndlInit => PartsWritten
  BY DEF ExcHndlInit, PartsWritten, WrittenBefore
<1>4. ASSUME Inv, BorrowInv, PartsWritten, [ExcHndlNext]_vars PROVE PartsWritten'
  <2>1. CASE UNCHANGED vars
    BY <1>4, <2>1, PartsKept DEF vars
  <2> QED BY <1>4, <2>1, FilterStepParts, OthersParts DEF ExcHndlNext, Ended
<1>5. Inv /\ BorrowInv /\ PartsWritten /\ [ExcHndlNext]_vars => PartsWritten'
  BY <1>4
<1>6. Inv /\ PartsWritten /\ [ExcHndlNext]_vars =>
        [\A c \in Call :
           /\ pc[c] = "enter" /\ pc'[c] = "leave" => Counted # {} \/ abandoned
           /\ pc[c] = "restore" /\ pc'[c] = "leave" /\ g_hReportFile \in Sink =>
                \A part \in Parts :
                  \/ part \in {"exception", "stack"} /\ (appSession \/ abandoned)
                  \/ Reported(c, part)]_vars
  BY <1>1, <1>2
<1> QED BY ExcHndlInvariance, BorrowInvariance, <1>3, <1>5, <1>6, PTL
        DEF ExcHndlSpec, FaultsReported
==============================================================================
