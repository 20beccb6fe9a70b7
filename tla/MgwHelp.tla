-------------------------------- MODULE MgwHelp --------------------------------
(***************************************************************************)
(* The symbol library, src/mgwhelp, and its one client that matters, the   *)
(* stack dump of src/common/log.cpp.  MgwHelp keeps, beside the sessions   *)
(* of DbgHelp, a list of processes with a list of modules each; a module   *)
(* is created when its base address is first asked for, and stays until    *)
(* the session is closed.                                                  *)
(*                                                                         *)
(* Addresses are numbers; an image is mapped at a base and takes up Size   *)
(* addresses.  What a lookup returns is represented by where it was read:  *)
(* the file and the offset, or the entry of the symbol table.              *)
(*                                                                         *)
(* Calls of Windows that open something may fail (Faults).  The result of  *)
(* an operation is then a set of outcomes, each with what it leaves open.  *)
(*                                                                         *)
(* Definitions named ..._Slip are forms of the one that follows them with  *)
(* a slip of the hand in it; nothing uses them, but replacing the          *)
(* definition by one of them breaks a property.                            *)
(***************************************************************************)
EXTENDS Integers, SequencesExt

CONSTANTS
  Handle,       \* process handles
  Base, Size,   \* where images are mapped, and how many addresses they take up
  Image,        \* files: executables, libraries, separate debug files
  Link,         \* Link[i]: the file .gnu_debuglink of i names, or "none"
  DebugInfo,    \* the files libdwarf accepts
  Lines,        \* Lines[i]: the offsets for which DWARF data in i has a line
  BadTable,     \* files whose symbol table extends beyond the file
  Tables,       \* possible COFF symbol tables of the images: functions on Image
  Layouts,      \* Layouts[h]: address spaces of processes with handle h, functions
                \* from Base to what is there
  FramePcs,     \* values AddrPC takes in stack frames
  Word,         \* stack pointers are counted modulo Word
  InsideWine,   \* the result of isInsideWine()
  Faults        \* whether calls of Windows may fail

Offset == 0..Size - 1
BadFood == 47789        \* stands for 0xBAADF00D

\* A record of a symbol table is a function's or another symbol's, has a name
\* that begins with a dot or not, and is followed by aux records, which are
\* not symbols whatever they look like.
Record == [value : Offset, function : BOOLEAN, dot : BOOLEAN, aux : 0..255, symbol : BOOLEAN]

\* As the format has it: the records that are symbols are the first, and those
\* after the aux records of another.
SymbolTable(t) ==
  /\ t \in Seq(Record)
  /\ t # <<>> => t[1].symbol
  /\ \A i, j \in DOMAIN t : t[i].symbol /\ i < j /\ j <= i + t[i].aux => ~t[j].symbol
  /\ \A i, j \in DOMAIN t : t[i].symbol /\ j = i + t[i].aux + 1 => t[j].symbol

ASSUME MgwHelpAssumption ==
  /\ Base \subseteq Nat \ {0} /\ Size \in Nat \ {0}
  /\ \A b, c \in Base : b # c => b + Size <= c \/ c + Size <= b
  /\ Handle # {} /\ "none" \notin Image
  /\ Link \in [Image -> Image \cup {"none"}]
  /\ \A i \in Image : Link[i] # "none" => Link[Link[i]] = "none"    \* as debug files are made
  /\ DebugInfo \subseteq Image /\ BadTable \subseteq Image
  /\ Lines \in [Image -> SUBSET Offset]
  /\ \A t \in Tables : DOMAIN t = Image /\ \A i \in Image : SymbolTable(t[i])
  /\ Layouts \in [Handle -> SUBSET [Base -> Image \cup {"free", "heap"}]]
  /\ FramePcs \subseteq Nat \ {0}
  /\ Word \in Nat \ {0} /\ {InsideWine, Faults} \subseteq BOOLEAN

VARIABLES
  processes,    \* MgwHelp's list, the newest first
  info,         \* the static variable of MgwSymGetLineFromAddrW64
  leaked,       \* the kinds of things left open and out of reach
  sessions,     \* the handles DbgHelp has a session for
  mapped,       \* mapped[h][b]: what the process has at base b
  remapped,     \* the places that changed after MgwHelp had a module for them
  table,        \* table[i]: the COFF symbol table of an image
  dump,         \* where dumpStack is
  printed       \* the frame it is printing

vars == <<processes, info, leaked, sessions, mapped, remapped, table, dump, printed>>

\* A module that has been created holds these.
Resource == {"module", "file", "mapping", "view", "pe_obj", "pe_mapping", "pe_view", "intfc"}
DwarfParts == {"pe_obj", "pe_mapping", "pe_view", "intfc"}

\* dwarf is the file the DWARF data came from.
Module == [Base : Base, image : Image \cup {"heap"}, dwarf : Image \cup {"none"}]
NoModule == [Base |-> 0, image |-> "none", dwarf |-> "none"]

\* First index in s of an element that satisfies a test, given as a set, or 0.
First(indices) == IF indices = {} THEN 0 ELSE CHOOSE i \in indices : \A j \in indices : i <= j

-----------------------------------------------------------------------------
(* Reading the DWARF data of an image (dwarf_pe.cpp).                      *)

\* What is held when a step of mgwhelp_dwarf_pe_init fails, and what the
\* labels give back.
PeHeld(step) ==
  {"pe_obj"} \cup (IF step \in {"view", "init"} THEN {"pe_mapping"} ELSE {})
             \cup (IF step = "init" THEN {"pe_view", "intfc"} ELSE {})
PeFreed_Slip(step) == PeHeld(step) \ {"pe_mapping"}
PeFreed(step) ==
  {"pe_obj"} \cup (IF step # "mapping" THEN {"pe_mapping"} ELSE {})
             \cup (IF step = "init" THEN {"pe_view", "intfc"} ELSE {})

NotRead(leaks) == [dwarf |-> "none", leaks |-> leaks]

\* The outcomes for the image i, given those for the file its debug link names.
\* The linked file, if it can be opened, is read first; if that succeeds the
\* image's own mapping is given back.
Reading(i, linked) ==
  LET gone(step) == PeHeld(step) \ PeFreed(step)
      own(o) == IF o.dwarf # "none" THEN [o EXCEPT !.leaks = @ \cup gone("init")]
                ELSE IF i \in DebugInfo THEN [dwarf |-> i, leaks |-> o.leaks]
                ELSE NotRead(o.leaks \cup gone("init"))
  IN  IF i \in BadTable THEN {NotRead(gone("init"))}
      ELSE {own(o) : o \in linked}
             \cup (IF Faults THEN {NotRead(gone("mapping")), NotRead(gone("view"))} ELSE {})

\* The function calls itself for the linked file, which has no link of its own.
mgwhelp_dwarf_pe_init(i) ==
  LET nothing == {NotRead({})}
  IN  Reading(i, IF Link[i] = "none" THEN nothing
                 ELSE Reading(Link[i], nothing) \cup (IF Faults THEN nothing ELSE {}))

\* dwarf_find_line, dwarf_find_symbol: libdwarf has both or none.
HasLine(file, offset) == offset \in Lines[file]

-----------------------------------------------------------------------------
(* The list of processes and their modules.                                *)

\* mgwhelp_process_lookup
ProcessIndex(h) == First({i \in DOMAIN processes : processes[i].hProcess = h})
ModuleIndex(i, b) ==
  First({m \in DOMAIN processes[i].modules : processes[i].modules[m].Base = b})

\* mgwhelp_module_create, given no more than the base ("nothing"), the name
\* too, or also the file: what is held at each step that may fail, and what
\* the labels give back.
Held(step, own) ==
  {"module"} \cup (IF own /\ step \in {"mapping", "view"} THEN {"file"} ELSE {})
             \cup (IF step = "view" THEN {"mapping"} ELSE {})
Freed(step, own) ==
  {"module"} \cup (IF own /\ step \in {"mapping", "view"} THEN {"file"} ELSE {})
             \cup (IF step = "view" THEN {"mapping"} ELSE {})

mgwhelp_module_create(b, image, given) ==
  LET own == given # "file"
      steps == IF image = "heap" THEN {"name"}
               ELSE IF ~Faults THEN {}
               ELSE IF own THEN {"file", "mapping", "view"} ELSE {"mapping", "view"}
  IN  {[module |-> NoModule, leaks |-> Held(s, own) \ Freed(s, own)] : s \in steps}
        \cup (IF image = "heap" THEN {}
              ELSE {[module |-> [Base |-> b, image |-> image, dwarf |-> o.dwarf],
                     leaks |-> o.leaks] : o \in mgwhelp_dwarf_pe_init(image)})

\* mgwhelp_module_destroy: what a module held that is not given back.
Leftover(module) ==
  LET held == {"module", "mapping", "view"}
                \cup (IF module.dwarf # "none" THEN DwarfParts ELSE {})
      freed == {"module", "view"} \cup (IF module.dwarf # "none" THEN DwarfParts ELSE {})
  IN  held \ freed

Found(module, ps, leaks) == [module |-> module, processes |-> ps, leaks |-> leaks]

mgwhelp_module_lookup(h, b, given) ==
  LET i == ProcessIndex(h)
      m == ModuleIndex(i, b)
  IN  IF i = 0 THEN {Found(NoModule, processes, {})}
      ELSE IF m # 0 THEN {Found(processes[i].modules[m], processes, {})}
      ELSE {Found(o.module,
                  IF o.module = NoModule THEN processes
                  ELSE [processes EXCEPT ![i].modules = <<o.module>> \o @],
                  o.leaks) : o \in mgwhelp_module_create(b, mapped[h][b], given)}

\* The base of what is mapped at an address, or 0.
GetModuleBase(h, a) ==
  LET there == {b \in Base : mapped[h][b] # "free" /\ b <= a /\ a < b + Size}
  IN  IF there = {} THEN 0 ELSE CHOOSE b \in there : TRUE

mgwhelp_find_module(h, a) ==
  LET b == GetModuleBase(h, a)
  IN  IF b = 0 THEN {Found(NoModule, processes, {})}
      ELSE mgwhelp_module_lookup(h, b, "nothing")

-----------------------------------------------------------------------------
(* Lookups.                                                                *)

Next_Slip(t, i) == i + 1
\* The record the loop of pe_find_symbol looks at after the i-th.
Next_(t, i) == i + 1 + t[i].aux

\* loop[i][best]: the loop from the i-th record on, with the best so far (0: none).
pe_find_symbol(t, offset) ==
  LET better(i, best) ==
        /\ t[i].function /\ ~t[i].dot /\ t[i].value <= offset
        /\ best = 0 \/ offset - t[i].value < offset - t[best].value
      loop[i \in 1..Len(t) + 256] == [best \in 0..Len(t) |->
        IF i > Len(t) THEN best
        ELSE IF ~better(i, best) THEN loop[Next_(t, i)][best]
        ELSE IF t[i].value = offset THEN i
        ELSE loop[Next_(t, i)][i]]
  IN  loop[1][0]

Answer(from, file, at) == [from |-> from, file |-> file, at |-> at]
NoAnswer == Answer("nowhere", "none", 0)

\* DbgHelp, asked last, has an answer of its own or none.
DbgHelpAnswers == {NoAnswer, Answer("dbghelp", "none", 0)}

\* MgwSymFromAddrW for an address at an offset into the module found.
SymFromAddr(module, offset) ==
  LET entry == IF module = NoModule THEN 0 ELSE pe_find_symbol(table[module.image], offset)
  IN  IF module # NoModule /\ module.dwarf # "none" /\ HasLine(module.dwarf, offset)
      THEN {Answer("dwarf", module.dwarf, offset)}
      ELSE IF module # NoModule /\ module.image \notin BadTable /\ entry # 0
      THEN {Answer("pe", module.image, entry)}
      ELSE DbgHelpAnswers

\* dwarf_find_line writes info only if it finds a line, and succeeds if there
\* is anything in it.
dwarf_find_line(module, offset) ==
  IF HasLine(module.dwarf, offset) THEN Answer("dwarf", module.dwarf, offset) ELSE info

-----------------------------------------------------------------------------
(* The interface.  The debugger calls it between dumps.                    *)

Idle == dump.at = "idle"

mgwhelp_initialize_Slip(h, ok) == <<[hProcess |-> h, modules |-> <<>>]>> \o processes
mgwhelp_initialize(h, ok) ==
  IF ok THEN <<[hProcess |-> h, modules |-> <<>>]>> \o processes ELSE processes

\* MgwSymInitializeW.  DbgHelp refuses a handle that has a session.
SymInitialize(h) ==
  /\ Idle
  /\ \E ok \in BOOLEAN :
       /\ ok => h \notin sessions
       /\ ~ok => h \in sessions \/ Faults
       /\ sessions' = IF ok THEN sessions \cup {h} ELSE sessions
       /\ processes' = mgwhelp_initialize(h, ok)
  /\ UNCHANGED <<info, leaked, mapped, remapped, table, dump, printed>>

\* MgwSymLoadModuleExW, called for a library that has just been mapped.
SymLoadModuleEx(h, b, given) ==
  /\ Idle
  /\ mapped[h][b] \in Image
  /\ \E o \in mgwhelp_module_lookup(h, b, given) :
       /\ processes' = o.processes
       /\ leaked' = leaked \cup o.leaks
  /\ UNCHANGED <<info, sessions, mapped, remapped, table, dump, printed>>

SymCleanup_Slip(h) ==
  /\ Idle /\ h \in sessions
  /\ sessions' = sessions \ {h}
  /\ UNCHANGED <<processes, info, leaked, mapped, remapped, table, dump, printed>>

\* MgwSymCleanup
SymCleanup(h) ==
  LET i == ProcessIndex(h)
  IN  /\ Idle /\ h \in sessions
      /\ sessions' = sessions \ {h}
      /\ IF i = 0 THEN UNCHANGED <<processes, leaked>>
         ELSE /\ processes' = RemoveAt(processes, i)
              /\ leaked' = leaked \cup UNION {Leftover(processes[i].modules[m]) :
                                                m \in DOMAIN processes[i].modules}
      /\ remapped' = {r \in remapped : r[1] # h}
      /\ UNCHANGED <<info, mapped, table, dump, printed>>

-----------------------------------------------------------------------------
(* dumpStack                                                               *)

\* AddrFrame is looked at inside Wine only.
Frame == [pc : FramePcs, sp : 0..Word - 1,
          frameIsZero : IF InsideWine THEN BOOLEAN ELSE {FALSE}]
NoFrame == [pc |-> 0, sp |-> 0, frameIsZero |-> FALSE]

\* A frame as it is printed; first tells the frame of the context itself from
\* its callers.
Printed(h, frame, first) ==
  [h |-> h, pc |-> frame.pc, first |-> first, symbol |-> NoAnswer, line |-> NoAnswer]
NothingPrinted == Printed(CHOOSE h \in Handle : TRUE, NoFrame, TRUE)
NotDumping == [at |-> "idle", h |-> NothingPrinted.h, frame |-> NoFrame,
               PrevFrameStackOffset |-> 0, nudge |-> 0, first |-> TRUE]

Before_Slip(sp) == sp - 1
\* What the first frame's stack pointer is compared with: the context's less
\* one, in unsigned arithmetic.
Before(sp) == (sp - 1) % Word

DumpStart(h) ==
  /\ Idle /\ h \in sessions
  /\ \E sp \in 0..Word - 1 :
       dump' = [at |-> "walk", h |-> h, frame |-> NoFrame,
                PrevFrameStackOffset |-> Before(sp), nudge |-> 0, first |-> TRUE]
  /\ UNCHANGED <<processes, info, leaked, sessions, mapped, remapped, table, printed>>

\* StackWalk64 gives another frame, whatever the stack holds, or fails.
\* Names are looked up only for frames in an image that DbgHelp knows, too.
WalkFrame ==
  /\ dump.at = "walk"
  /\ \/ /\ dump' = NotDumping
        /\ UNCHANGED printed
     \/ \E f \in Frame, known \in BOOLEAN :
          /\ LET b == GetModuleBase(dump.h, f.pc) IN known => b # 0 /\ mapped[dump.h][b] \in Image
          /\ dump' = [dump EXCEPT !.at = IF known THEN "symbol" ELSE "check", !.frame = f]
          /\ printed' = Printed(dump.h, f, dump.first)
  /\ UNCHANGED <<processes, info, leaked, sessions, mapped, remapped, table>>

Address == dump.frame.pc + dump.nudge

GetSymFromAddr ==
  /\ dump.at = "symbol"
  /\ \E o \in mgwhelp_find_module(dump.h, Address) :
       /\ processes' = o.processes
       /\ leaked' = leaked \cup o.leaks
       /\ \E s \in SymFromAddr(o.module, Address - o.module.Base) :
            /\ printed' = [printed EXCEPT !.symbol = s]
            /\ dump' = [dump EXCEPT !.at = IF s # NoAnswer THEN "line" ELSE "check"]
  /\ UNCHANGED <<info, sessions, mapped, remapped, table>>

\* MgwSymGetLineFromAddrW64
GetLineFromAddr ==
  /\ dump.at = "line"
  /\ \E o \in mgwhelp_find_module(dump.h, Address) :
       /\ processes' = o.processes
       /\ leaked' = leaked \cup o.leaks
       /\ info' = IF o.module = NoModule \/ o.module.dwarf = "none" THEN info
                  ELSE dwarf_find_line(o.module, Address - o.module.Base)
       /\ IF o.module # NoModule /\ o.module.dwarf # "none" /\ info' # NoAnswer
          THEN printed' = [printed EXCEPT !.line = info']
          ELSE \E l \in DbgHelpAnswers : printed' = [printed EXCEPT !.line = l]
  /\ dump' = [dump EXCEPT !.at = "check"]
  /\ UNCHANGED <<sessions, mapped, remapped, table>>

BadFrame_Slip ==
  \/ dump.frame.sp < dump.PrevFrameStackOffset
  \/ dump.frame.pc = BadFood
  \/ InsideWine /\ dump.frame.frameIsZero
BadFrame ==
  \/ dump.frame.sp <= dump.PrevFrameStackOffset
  \/ dump.frame.pc = BadFood
  \/ InsideWine /\ dump.frame.frameIsZero

\* Callers are looked up by the byte before the return address.
Nudge == -1

CheckFrame ==
  /\ dump.at = "check"
  /\ dump' = IF BadFrame THEN NotDumping
             ELSE [dump EXCEPT !.at = "walk", !.frame = NoFrame, !.nudge = Nudge,
                               !.first = FALSE, !.PrevFrameStackOffset = dump.frame.sp]
  /\ printed' = NothingPrinted
  /\ UNCHANGED <<processes, info, leaked, sessions, mapped, remapped, table>>

DumpStep == WalkFrame \/ GetSymFromAddr \/ GetLineFromAddr \/ CheckFrame

-----------------------------------------------------------------------------
(* The processes that are debugged.                                        *)

\* The value of a handle without a session comes to be another process's.
NewProcess(h) ==
  /\ Idle /\ h \notin sessions
  /\ \E l \in Layouts[h] : mapped' = [mapped EXCEPT ![h] = l]
  /\ UNCHANGED <<processes, info, leaked, sessions, remapped, table, dump, printed>>

\* A library is unloaded (SymUnloadModule64 is DbgHelp's own, MgwHelp does not
\* see it), and what another layout has at the base comes in its place.
Remap(h, b) ==
  /\ Idle /\ h \in sessions
  /\ \E l \in Layouts[h] : l[b] # mapped[h][b] /\ mapped' = [mapped EXCEPT ![h][b] = l[b]]
  /\ remapped' = IF ModuleIndex(ProcessIndex(h), b) = 0 THEN remapped
                 ELSE remapped \cup {<<h, b>>}
  /\ UNCHANGED <<processes, info, leaked, sessions, table, dump, printed>>

MgwHelpInit ==
  /\ processes = <<>> /\ info = NoAnswer /\ leaked = {} /\ sessions = {}
  /\ mapped \in [Handle -> UNION {Layouts[h] : h \in Handle}]
  /\ \A h \in Handle : mapped[h] \in Layouts[h]
  /\ remapped = {} /\ table \in Tables
  /\ dump = NotDumping /\ printed = NothingPrinted

MgwHelpNext ==
  \/ \E h \in Handle : SymInitialize(h) \/ SymCleanup(h) \/ DumpStart(h) \/ NewProcess(h)
  \/ \E h \in Handle, b \in Base, given \in {"name", "file"} : SymLoadModuleEx(h, b, given)
  \/ \E h \in Handle, b \in Base : Remap(h, b)
  \/ DumpStep

MgwHelpSpec == MgwHelpInit /\ [][MgwHelpNext]_vars /\ WF_vars(DumpStep)

-----------------------------------------------------------------------------
(* What MgwHelp and dumpStack promise.                                     *)

\* Every variable has the type of the code's state.
MgwHelpTypeOK ==
  /\ processes \in Seq([hProcess : Handle, modules : Seq(Module)])
  /\ leaked \subseteq Resource
  /\ sessions \subseteq Handle /\ remapped \subseteq Handle \X Base
  /\ mapped \in [Handle -> [Base -> Image \cup {"free", "heap"}]]
  /\ dump \in [at : {"idle", "walk", "symbol", "line", "check"}, h : Handle,
               frame : Frame \cup {NoFrame}, PrevFrameStackOffset : 0..Word - 1,
               nudge : {0, Nudge}, first : BOOLEAN]

\* MgwHelp has one process for each session of DbgHelp and no other.
SessionsPaired ==
  /\ {processes[i].hProcess : i \in DOMAIN processes} = sessions
  /\ \A i, j \in DOMAIN processes : processes[i].hProcess = processes[j].hProcess => i = j

\* The modules of a process are those mapped in it now, each at most once,
\* whatever processes had the handle before; except where something else was
\* mapped after MgwHelp had a module (mgwhelp_module_lookup never looks again).
ModulesCurrent ==
  \A i \in DOMAIN processes : \A m, n \in DOMAIN processes[i].modules :
    LET p == processes[i]
    IN  /\ \/ mapped[p.hProcess][p.modules[m].Base] = p.modules[m].image
           \/ <<p.hProcess, p.modules[m].Base>> \in remapped
        /\ p.modules[m].Base = p.modules[n].Base => m = n

\* However creating and reading a module fails, nothing stays open, except for
\* the mapping objects of destroyed modules (mgwhelp_module_destroy has no
\* CloseHandle for them).
OnlyMappingsLeft == leaked \subseteq {"mapping"}

\* The address a printed frame is about, and the image and offset there.
AddressOf(f) == IF f.first THEN f.pc ELSE f.pc - 1
ImageAt(h, a) ==
  IF GetModuleBase(h, a) = 0 THEN "free" ELSE mapped[h][GetModuleBase(h, a)]
OffsetOf(h, a) == a - GetModuleBase(h, a)

\* The answer was read from the DWARF data of the image at the address.
FromDwarf(answer, image, offset) ==
  /\ answer.file \in {image, Link[image]}
  /\ answer.at = offset /\ offset \in Lines[answer.file]

\* The entry is of the last function that begins at or before the offset.
IsClosest(t, entry, offset) ==
  LET functions == {i \in DOMAIN t : t[i].symbol /\ t[i].function /\ ~t[i].dot
                                      /\ t[i].value <= offset}
  IN  entry \in functions /\ \A i \in functions : t[i].value <= t[entry].value

\* The function named in a frame, if MgwHelp names one, is the one at the
\* context's address or before the return address, in the image mapped there:
\* by DWARF, or the closest in its symbol table (pe_find_symbol, nudge).  With
\* the same exception as above.
SymbolOfAddress ==
  LET a == AddressOf(printed)
      image == ImageAt(printed.h, a)
      offset == OffsetOf(printed.h, a)
      s == printed.symbol
      changed == <<printed.h, GetModuleBase(printed.h, a)>> \in remapped
  IN  /\ s.from = "dwarf" /\ ~changed => FromDwarf(s, image, offset)
      /\ s.from = "pe" /\ ~changed => s.file = image /\ IsClosest(table[image], s.at, offset)

\* A line MgwHelp gives for a frame is that of the frame's address.
LineOfAddress ==
  printed.line.from = "dwarf"
  /\ <<printed.h, GetModuleBase(printed.h, AddressOf(printed))>> \notin remapped =>
    FromDwarf(printed.line, ImageAt(printed.h, AddressOf(printed)),
              OffsetOf(printed.h, AddressOf(printed)))

\* The stack dump ends, whatever StackWalk64 finds on a corrupt stack.
DumpEnds == dump.at # "idle" ~> dump.at = "idle"
=============================================================================
