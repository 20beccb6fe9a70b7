----------------------------- MODULE MgwHelpProofs -----------------------------
(***************************************************************************)
(* Proofs about MgwHelp: the types, that its list of processes and          *)
(* DbgHelp's sessions stay in step, that a process has each of its modules  *)
(* once and as it is mapped now, what is left open, and that the function   *)
(* named in a frame of a stack dump is the one at its address.              *)
(***************************************************************************)
EXTENDS MgwHelp, Counting, SequenceTheorems, TLAPS

\* The files the DWARF data of an image may be from, and a module with data
\* from one of them.
DwarfFiles(i) == {"none", i, Link[i]}
ReadModule == {m \in Module : m.image \in Image /\ m.dwarf \in DwarfFiles(m.image)}
Process == [hProcess : Handle, modules : Seq(ReadModule)]

-----------------------------------------------------------------------------
(* The first index of a set.  The lists are searched for things that occur *)
(* at most once.                                                           *)

LEMMA FirstOfOne ==
  ASSUME NEW indices \in SUBSET (Nat \ {0}), \A i, j \in indices : i = j
  PROVE  /\ indices # {} => First(indices) \in indices
         /\ First(indices) = 0 <=> indices = {}
<1>1. CASE indices = {}
  BY <1>1 DEF First
<1>2. CASE indices # {}
  <2>0. PICK i \in indices : TRUE
    BY <1>2
  <2>1. \A j \in indices : i <= j
    BY <2>0
  <2>2. First(indices) \in indices
    BY <1>2, <2>0, <2>1 DEF First
  <2> QED
    BY <1>2, <2>2
<1> QED BY <1>1, <1>2

-----------------------------------------------------------------------------
(* Reading a module: nothing stays open, however it fails.                 *)

\* An outcome of reading DWARF data: from a file, or from none.
Outcome == [dwarf : Image \cup {"none"}, leaks : {{}}]

LEMMA NothingHeld ==
  /\ \A step \in {"mapping", "view", "init"} : PeHeld(step) \ PeFreed(step) = {}
  /\ \A step \in {"name", "file", "mapping", "view"}, own \in BOOLEAN :
       Held(step, own) \ Freed(step, own) = {}
BY DEF PeHeld, PeFreed, Held, Freed

LEMMA ReadingOutcome ==
  ASSUME NEW i \in Image, NEW linked \in SUBSET Outcome, NEW r \in Reading(i, linked)
  PROVE  r \in Outcome /\ (r.dwarf \in {"none", i} \/ \E o \in linked : r.dwarf = o.dwarf)
<1>1. NotRead({}) \in Outcome /\ NotRead({}).dwarf = "none"
  BY DEF NotRead, Outcome
<1>2. \A step \in {"mapping", "view", "init"} : PeHeld(step) \ PeFreed(step) = {}
  BY NothingHeld
<1> DEFINE gone(step) == PeHeld(step) \ PeFreed(step)
           own(o) == IF o.dwarf # "none" THEN [o EXCEPT !.leaks = @ \cup gone("init")]
                     ELSE IF i \in DebugInfo THEN [dwarf |-> i, leaks |-> o.leaks]
                     ELSE NotRead(o.leaks \cup gone("init"))
<1>3. gone("mapping") = {} /\ gone("view") = {} /\ gone("init") = {}
  BY <1>2
<1> HIDE DEF gone
<1>4. ASSUME NEW o \in linked
      PROVE  own(o) \in Outcome /\ own(o).dwarf \in {"none", i, o.dwarf}
  BY <1>3 DEF Outcome, NotRead
<1>5. Reading(i, linked) = IF i \in BadTable THEN {NotRead(gone("init"))}
        ELSE {own(o) : o \in linked}
               \cup (IF Faults THEN {NotRead(gone("mapping")), NotRead(gone("view"))} ELSE {})
  BY DEF Reading, gone
<1> HIDE DEF own
<1>6. r = NotRead({}) \/ \E o \in linked : r = own(o)
  BY <1>3, <1>5
<1> QED
  BY <1>1, <1>4, <1>6

LEMMA DwarfOutcome ==
  ASSUME NEW i \in Image, NEW r \in mgwhelp_dwarf_pe_init(i)
  PROVE  r \in Outcome /\ r.dwarf \in DwarfFiles(i)
<1> DEFINE nothing == {NotRead({})}
<1>1. nothing \in SUBSET Outcome /\ \A o \in nothing : o.dwarf = "none"
  BY DEF NotRead, Outcome
<1> HIDE DEF nothing
<1>2. CASE Link[i] = "none"
  <2>1. r \in Reading(i, nothing)
    BY <1>2 DEF mgwhelp_dwarf_pe_init, nothing
  <2>2. r \in Outcome /\ (r.dwarf \in {"none", i} \/ \E o \in nothing : r.dwarf = o.dwarf)
    BY <1>1, <2>1, ReadingOutcome
  <2> QED
    BY <1>1, <2>2 DEF DwarfFiles
<1>3. CASE Link[i] # "none"
  <2> DEFINE linked == Reading(Link[i], nothing) \cup (IF Faults THEN nothing ELSE {})
  <2>1. Link[i] \in Image
    BY <1>3, MgwHelpAssumption
  <2>2. \A o \in Reading(Link[i], nothing) :
          o \in Outcome /\ (o.dwarf \in {"none", Link[i]} \/ \E n \in nothing : o.dwarf = n.dwarf)
    BY <1>1, <2>1, ReadingOutcome
  <2>3. \A o \in linked : o \in Outcome /\ o.dwarf \in {"none", Link[i]}
    BY <1>1, <2>2
  <2>4. r \in Reading(i, linked)
    BY <1>3 DEF mgwhelp_dwarf_pe_init, nothing
  <2> HIDE DEF linked
  <2>5. r \in Outcome /\ (r.dwarf \in {"none", i} \/ \E o \in linked : r.dwarf = o.dwarf)
    BY <2>3, <2>4, ReadingOutcome
  <2> QED
    BY <2>3, <2>5 DEF DwarfFiles
<1> QED BY <1>2, <1>3

\* A module that is created is of the image mapped at the base.
LEMMA ModuleCreated ==
  ASSUME NEW b \in Base, NEW image \in Image \cup {"heap"}, NEW given,
         NEW o \in mgwhelp_module_create(b, image, given)
  PROVE  /\ o.leaks = {}
         /\ o.module # NoModule =>
              o.module \in ReadModule /\ o.module.Base = b /\ o.module.image = image
<1> DEFINE own == given # "file"
           steps == IF image = "heap" THEN {"name"}
                    ELSE IF ~Faults THEN {}
                    ELSE IF own THEN {"file", "mapping", "view"} ELSE {"mapping", "view"}
<1>1. \A s \in steps : Held(s, own) \ Freed(s, own) = {}
  BY NothingHeld
<1>2. CASE \E s \in steps : o = [module |-> NoModule, leaks |-> Held(s, own) \ Freed(s, own)]
  BY <1>1, <1>2
<1>3. CASE image # "heap" /\ \E r \in mgwhelp_dwarf_pe_init(image) :
             o = [module |-> [Base |-> b, image |-> image, dwarf |-> r.dwarf], leaks |-> r.leaks]
  <2>1. image \in Image
    BY <1>3
  <2>2. PICK r \in mgwhelp_dwarf_pe_init(image) :
          o = [module |-> [Base |-> b, image |-> image, dwarf |-> r.dwarf], leaks |-> r.leaks]
    BY <1>3
  <2>3. r \in Outcome /\ r.dwarf \in DwarfFiles(image)
    BY <2>1, <2>2, DwarfOutcome
  <2> QED
    BY <2>1, <2>2, <2>3 DEF Outcome, Module, ReadModule
<1> QED
  BY <1>2, <1>3 DEF mgwhelp_module_create

-----------------------------------------------------------------------------
(* Looking up a module: either the list of processes stays as it is, or    *)
(* the process gets one more, which it did not have.                       *)

Inv == /\ processes \in Seq(Process) /\ MgwHelpTypeOK
       /\ SessionsPaired /\ ModulesCurrent /\ OnlyMappingsLeft

\* What is in the list of processes.
LEMMA ListTypes ==
  ASSUME Inv
  PROVE  /\ processes \in Seq(Process)
         /\ Len(processes) \in Nat /\ DOMAIN processes = 1..Len(processes)
         /\ \A i \in DOMAIN processes :
              /\ processes[i] = [hProcess |-> processes[i].hProcess, modules |-> processes[i].modules]
              /\ processes[i].hProcess \in Handle
              /\ processes[i].modules \in Seq(ReadModule)
              /\ Len(processes[i].modules) \in Nat
              /\ DOMAIN processes[i].modules = 1..Len(processes[i].modules)
              /\ \A m \in DOMAIN processes[i].modules : processes[i].modules[m] \in ReadModule
<1>1. processes \in Seq(Process)
  BY DEF Inv
<1>2. Len(processes) \in Nat /\ DOMAIN processes = 1..Len(processes)
  BY <1>1
<1>3. ASSUME NEW i \in DOMAIN processes
      PROVE  /\ processes[i] = [hProcess |-> processes[i].hProcess, modules |-> processes[i].modules]
             /\ processes[i].hProcess \in Handle
             /\ processes[i].modules \in Seq(ReadModule)
  <2>1. processes[i] \in Process
    BY <1>1
  <2> QED
    BY <2>1 DEF Process
<1>4. ASSUME NEW i \in DOMAIN processes
      PROVE  /\ Len(processes[i].modules) \in Nat
             /\ DOMAIN processes[i].modules = 1..Len(processes[i].modules)
             /\ \A m \in DOMAIN processes[i].modules : processes[i].modules[m] \in ReadModule
  BY <1>3
<1> QED
  BY <1>1, <1>2, <1>3, <1>4

LEMMA ProcessFound ==
  ASSUME Inv, NEW h \in Handle
  PROVE  /\ ProcessIndex(h) = 0 <=> h \notin sessions
         /\ h \in sessions => ProcessIndex(h) \in DOMAIN processes
                              /\ processes[ProcessIndex(h)].hProcess = h
<1> DEFINE indices == {i \in DOMAIN processes : processes[i].hProcess = h}
<1>1. indices \in SUBSET (Nat \ {0}) /\ \A i, j \in indices : i = j
  BY ListTypes DEF Inv, SessionsPaired
<1>2. h \in sessions <=> indices # {}
  BY DEF Inv, SessionsPaired
<1>3. ProcessIndex(h) = First(indices)
  BY DEF ProcessIndex
<1> HIDE DEF indices
<1>4. /\ indices # {} => ProcessIndex(h) \in indices
      /\ ProcessIndex(h) = 0 <=> indices = {}
  BY <1>1, <1>3, FirstOfOne
<1> QED
  BY <1>2, <1>4 DEF indices

LEMMA ModuleFound ==
  ASSUME Inv, NEW i \in DOMAIN processes, NEW b \in Base
  PROVE  /\ ModuleIndex(i, b) = 0 <=>
              \A m \in DOMAIN processes[i].modules : processes[i].modules[m].Base # b
         /\ ModuleIndex(i, b) # 0 =>
              ModuleIndex(i, b) \in {m \in DOMAIN processes[i].modules : processes[i].modules[m].Base = b}
<1> DEFINE indices == {m \in DOMAIN processes[i].modules : processes[i].modules[m].Base = b}
<1>0. DOMAIN processes[i].modules \subseteq Nat \ {0}
  BY ListTypes DEF Inv
<1>1. indices \in SUBSET (Nat \ {0}) /\ \A m, n \in indices : m = n
  BY <1>0 DEF Inv, ModulesCurrent
<1>2. ModuleIndex(i, b) = First(indices)
  BY DEF ModuleIndex
<1> HIDE DEF indices
<1>3. /\ ModuleIndex(i, b) = 0 <=> indices = {}
      /\ indices # {} => ModuleIndex(i, b) \in indices
  BY <1>1, <1>2, FirstOfOne
<1> QED
  BY <1>3 DEF indices

\* The process h has a new module for what is mapped at b, and nothing else
\* has changed.
ModuleAdded(h, b, ps) ==
  \E i \in DOMAIN processes, module \in ReadModule :
    /\ processes[i].hProcess = h
    /\ \A m \in DOMAIN processes[i].modules : processes[i].modules[m].Base # b
    /\ module.Base = b /\ module.image = mapped[h][b]
    /\ ps = [processes EXCEPT ![i].modules = <<module>> \o @]

LEMMA LookupAdds ==
  ASSUME Inv, NEW h \in Handle, NEW b \in Base, NEW given,
         mapped[h][b] \in Image \cup {"heap"}, NEW o \in mgwhelp_module_lookup(h, b, given)
  PROVE  o.leaks = {} /\ (o.processes = processes \/ ModuleAdded(h, b, o.processes))
<1> DEFINE i == ProcessIndex(h)
           m == ModuleIndex(i, b)
<1>1. CASE i = 0
  BY <1>1 DEF mgwhelp_module_lookup, Found
<1>2. CASE i # 0 /\ m # 0
  BY <1>2 DEF mgwhelp_module_lookup, Found
<1>3. CASE i # 0 /\ m = 0
  <2>1. i \in DOMAIN processes /\ processes[i].hProcess = h
    BY <1>3, ProcessFound
  <2>2. \A n \in DOMAIN processes[i].modules : processes[i].modules[n].Base # b
    BY <1>3, <2>1, ModuleFound
  <2>4. PICK c \in mgwhelp_module_create(b, mapped[h][b], given) :
          o = Found(c.module, IF c.module = NoModule THEN processes
                              ELSE [processes EXCEPT ![i].modules = <<c.module>> \o @], c.leaks)
    BY <1>3 DEF mgwhelp_module_lookup
  <2>5. /\ c.leaks = {}
        /\ c.module # NoModule => c.module \in ReadModule /\ c.module.Base = b
                                  /\ c.module.image = mapped[h][b]
    <3>1. \A image \in Image \cup {"heap"} : \A r \in mgwhelp_module_create(b, image, given) :
            /\ r.leaks = {}
            /\ r.module # NoModule =>
                 r.module \in ReadModule /\ r.module.Base = b /\ r.module.image = image
      BY ModuleCreated
    <3> QED
      BY <2>4, <3>1
  <2>6. CASE c.module = NoModule
    BY <2>4, <2>5, <2>6 DEF Found
  <2>7. CASE c.module # NoModule
    <3>1. o.processes = [processes EXCEPT ![i].modules = <<c.module>> \o @] /\ o.leaks = {}
      BY <2>4, <2>5, <2>7 DEF Found
    <3> QED
      BY <2>1, <2>2, <2>5, <2>7, <3>1 DEF ModuleAdded
  <2> QED BY <2>6, <2>7
<1> QED BY <1>1, <1>2, <1>3

LEMMA FindAdds ==
  ASSUME Inv, NEW h \in Handle, NEW a, NEW o \in mgwhelp_find_module(h, a)
  PROVE  o.leaks = {} /\ (o.processes = processes \/ \E b \in Base : ModuleAdded(h, b, o.processes))
<1> DEFINE b == GetModuleBase(h, a)
<1>1. CASE b = 0
  BY <1>1 DEF mgwhelp_find_module, Found
<1>2. CASE b # 0
  <2>1. b \in Base /\ mapped[h][b] # "free"
    BY <1>2 DEF GetModuleBase
  <2>3. mapped[h][b] \in Image \cup {"heap"}
    BY <2>1 DEF Inv, MgwHelpTypeOK
  <2>2. o \in mgwhelp_module_lookup(h, b, "nothing")
    BY <1>2 DEF mgwhelp_find_module
  <2> QED
    BY <2>1, <2>2, <2>3, LookupAdds
<1> QED BY <1>1, <1>2

\* Adding a module keeps what is said of the list.
LEMMA AddedKeeps ==
  ASSUME Inv, NEW h \in Handle, NEW b \in Base, ModuleAdded(h, b, processes'),
         UNCHANGED <<sessions, mapped, remapped>>
  PROVE  /\ processes' \in Seq(Process)
         /\ SessionsPaired' /\ ModulesCurrent'
<1>1. PICK i \in DOMAIN processes, module \in ReadModule :
        /\ processes[i].hProcess = h
        /\ \A m \in DOMAIN processes[i].modules : processes[i].modules[m].Base # b
        /\ module.Base = b /\ module.image = mapped[h][b]
        /\ processes' = [processes EXCEPT ![i].modules = <<module>> \o @]
  BY DEF ModuleAdded
<1> DEFINE old == processes[i].modules
           new == <<module>> \o old
<1>2. /\ processes \in Seq(Process) /\ old \in Seq(ReadModule)
      /\ processes[i] = [hProcess |-> h, modules |-> old]
  BY <1>1, ListTypes DEF Inv
<1>3. /\ new \in Seq(ReadModule) /\ Len(new) = Len(old) + 1
      /\ new[1] = module /\ \A m \in 2..Len(new) : new[m] = old[m - 1] /\ m - 1 \in DOMAIN old
  BY <1>2
<1> HIDE DEF new
<1>4. processes' = [processes EXCEPT ![i] = [hProcess |-> h, modules |-> new]]
  <2>1. [processes[i] EXCEPT !.modules = new] = [hProcess |-> h, modules |-> new]
    BY <1>2
  <2>2. processes' = [processes EXCEPT ![i] = [processes[i] EXCEPT !.modules = new]]
    BY <1>1 DEF new
  <2> QED
    BY <2>1, <2>2
<1>5. /\ DOMAIN processes' = DOMAIN processes
      /\ processes'[i] = [hProcess |-> h, modules |-> new]
      /\ \A j \in DOMAIN processes \ {i} : processes'[j] = processes[j]
  BY <1>2, <1>4
<1>6. processes' \in Seq(Process)
  BY <1>2, <1>3, <1>4 DEF Process
<1>7. \A j \in DOMAIN processes : processes'[j].hProcess = processes[j].hProcess
  BY <1>1, <1>5
<1>8. SessionsPaired'
  BY <1>5, <1>7 DEF Inv, SessionsPaired
<1>9. ModulesCurrent'
  <2> SUFFICES ASSUME NEW j \in DOMAIN processes, NEW m \in DOMAIN processes'[j].modules,
                      NEW n \in DOMAIN processes'[j].modules
               PROVE  LET p == processes'[j]
                      IN  /\ \/ mapped[p.hProcess][p.modules[m].Base] = p.modules[m].image
                             \/ <<p.hProcess, p.modules[m].Base>> \in remapped
                          /\ p.modules[m].Base = p.modules[n].Base => m = n
    BY <1>5 DEF ModulesCurrent
  <2>1. CASE j # i
    BY <1>5, <2>1 DEF Inv, ModulesCurrent
  <2>2. CASE j = i
    <3>1. processes'[j].hProcess = h /\ processes'[j].modules = new
      BY <1>5, <2>2
    <3>2. m \in 1..Len(new) /\ n \in 1..Len(new)
      BY <1>3, <3>1
    <3>3. \A k \in 2..Len(new) :
            /\ \/ mapped[h][new[k].Base] = new[k].image
               \/ <<h, new[k].Base>> \in remapped
            /\ new[k].Base # b
      <4>1. \A k \in DOMAIN old : \/ mapped[h][old[k].Base] = old[k].image
                                 \/ <<h, old[k].Base>> \in remapped
        BY <1>1 DEF Inv, ModulesCurrent
      <4> QED
        BY <1>1, <1>3, <4>1
    <3>4. \A k, l \in 2..Len(new) : new[k].Base = new[l].Base => k = l
      <4> SUFFICES ASSUME NEW k \in 2..Len(new), NEW l \in 2..Len(new), new[k].Base = new[l].Base
                   PROVE  k = l
        OBVIOUS
      <4>1. old[k - 1].Base = old[l - 1].Base /\ k - 1 \in DOMAIN old /\ l - 1 \in DOMAIN old
        BY <1>3
      <4>2. k - 1 = l - 1
        BY <4>1 DEF Inv, ModulesCurrent
      <4> QED BY <4>2
    <3>5. new[1].Base = b /\ new[1].image = mapped[h][b]
      BY <1>1, <1>3
    <3>6. \A k \in 1..Len(new) : k = 1 \/ k \in 2..Len(new)
      BY <1>2, <1>3
    <3> QED
      BY <3>1, <3>2, <3>3, <3>4, <3>5, <3>6
  <2> QED BY <2>1, <2>2
<1> QED BY <1>6, <1>8, <1>9
-----------------------------------------------------------------------------
(* The steps of the interface and of the processes.                        *)

\* The part of the types that a stack dump may change, and the rest.
DumpTypes ==
  dump \in [at : {"idle", "walk", "symbol", "line", "check"}, h : Handle,
            frame : Frame \cup {NoFrame}, PrevFrameStackOffset : 0..Word - 1,
            nudge : {0, Nudge}, first : BOOLEAN]
PlaceTypes ==
  /\ sessions \subseteq Handle /\ remapped \subseteq Handle \X Base
  /\ mapped \in [Handle -> [Base -> Image \cup {"free", "heap"}]]

LEMMA TypesSplit ==
  /\ processes \in Seq(Process) /\ leaked \subseteq Resource /\ PlaceTypes /\ DumpTypes
       => MgwHelpTypeOK
  /\ MgwHelpTypeOK => leaked \subseteq Resource /\ PlaceTypes /\ DumpTypes
<1>1. \A modules \in Seq(ReadModule) : modules \in Seq(Module)
  BY DEF ReadModule
<1> DEFINE S == [hProcess : Handle, modules : Seq(Module)]
<1>2. Process \subseteq S
  BY <1>1 DEF Process
<1> HIDE DEF S
<1>3. \A ps \in Seq(Process) : ps \in Seq(S)
  BY <1>2
<1> QED
  BY <1>3 DEF MgwHelpTypeOK, PlaceTypes, DumpTypes, S

LEMMA RemoveAtProperties ==
  ASSUME NEW S, NEW s \in Seq(S), NEW i \in 1..Len(s)
  PROVE  /\ RemoveAt(s, i) \in Seq(S) /\ Len(RemoveAt(s, i)) = Len(s) - 1
         /\ \A j \in 1..Len(s) - 1 : RemoveAt(s, i)[j] = IF j < i THEN s[j] ELSE s[j + 1]
<1> DEFINE before == SubSeq(s, 1, i - 1)
           after == SubSeq(s, i + 1, Len(s))
<1>1. Len(s) \in Nat /\ \A j \in 1..Len(s) : s[j] \in S
  OBVIOUS
<1>2. /\ before \in Seq(S) /\ Len(before) = i - 1
      /\ \A j \in 1..i - 1 : before[j] = s[j]
  <2>1. /\ before \in Seq(S) /\ Len(before) = IF 1 <= i - 1 THEN i - 1 - 1 + 1 ELSE 0
        /\ \A j \in 1..i - 1 - 1 + 1 : before[j] = s[1 + j - 1]
    BY <1>1, SubSeqProperties
  <2> QED BY <2>1
<1>3. /\ after \in Seq(S) /\ Len(after) = Len(s) - i
      /\ \A j \in 1..Len(s) - i : after[j] = s[i + j]
  <2>1. /\ after \in Seq(S)
        /\ Len(after) = IF i + 1 <= Len(s) THEN Len(s) - (i + 1) + 1 ELSE 0
        /\ \A j \in 1..Len(s) - (i + 1) + 1 : after[j] = s[i + 1 + j - 1]
    BY <1>1, SubSeqProperties
  <2> QED BY <2>1
<1> HIDE DEF before, after
<1>4. RemoveAt(s, i) = before \o after
  BY DEF RemoveAt, before, after
<1>5. RemoveAt(s, i) \in Seq(S) /\ Len(RemoveAt(s, i)) = Len(s) - 1
  BY <1>2, <1>3, <1>4
<1>6. \A j \in 1..Len(s) - 1 :
        RemoveAt(s, i)[j] = IF j < i THEN before[j] ELSE after[j - (i - 1)]
  BY <1>2, <1>3, <1>4
<1>7. ASSUME NEW j \in 1..Len(s) - 1
      PROVE  RemoveAt(s, i)[j] = IF j < i THEN s[j] ELSE s[j + 1]
  <2>1. CASE j < i
    BY <1>1, <1>2, <1>6, <2>1
  <2>2. CASE ~(j < i)
    <3>1. j - (i - 1) \in 1..Len(s) - i /\ i + (j - (i - 1)) = j + 1
      BY <1>1, <2>2
    <3> QED BY <1>3, <1>6, <2>2, <3>1
  <2> QED BY <2>1, <2>2
<1> QED
  BY <1>5, <1>7

LEMMA InitializeKeeps ==
  ASSUME Inv, NEW h \in Handle, SymInitialize(h)
  PROVE  processes' \in Seq(Process) /\ PlaceTypes' /\ SessionsPaired' /\ ModulesCurrent'
<1>1. PICK ok \in BOOLEAN :
        /\ ok => h \notin sessions
        /\ sessions' = IF ok THEN sessions \cup {h} ELSE sessions
        /\ processes' = mgwhelp_initialize(h, ok)
  BY DEF SymInitialize
<1>2. mapped' = mapped /\ remapped' = remapped
  BY DEF SymInitialize
<1>3. processes \in Seq(Process) /\ PlaceTypes
  BY TypesSplit DEF Inv
<1>4. PlaceTypes'
  BY <1>1, <1>2, <1>3 DEF PlaceTypes
<1>5. CASE ~ok
  BY <1>1, <1>2, <1>3, <1>4, <1>5 DEF mgwhelp_initialize, Inv, SessionsPaired, ModulesCurrent
<1>6. CASE ok
  <2> DEFINE new == [hProcess |-> h, modules |-> <<>>]
  <2>1. new \in Process
    BY DEF Process
  <2>2. new.hProcess = h /\ DOMAIN new.modules = {}
    OBVIOUS
  <2>3. processes' = <<new>> \o processes
    BY <1>1, <1>6 DEF mgwhelp_initialize
  <2> HIDE DEF new
  <2>4. /\ processes' \in Seq(Process) /\ DOMAIN processes' = 1..Len(processes) + 1
        /\ processes'[1] = new /\ DOMAIN processes = 1..Len(processes) /\ Len(processes) \in Nat
        /\ \A j \in 2..Len(processes) + 1 :
             j - 1 \in DOMAIN processes /\ processes'[j] = processes[j - 1]
    BY <1>3, <2>1, <2>3
  <2>5. \A j \in DOMAIN processes : processes[j].hProcess # h
    BY <1>1, <1>6 DEF Inv, SessionsPaired
  <2>6. {processes'[j].hProcess : j \in DOMAIN processes'}
          = {h} \cup {processes[j].hProcess : j \in DOMAIN processes}
    <3>1. ASSUME NEW j \in DOMAIN processes'
          PROVE  processes'[j].hProcess \in {h} \cup {processes[k].hProcess : k \in DOMAIN processes}
      BY <2>2, <2>4
    <3>2. ASSUME NEW k \in DOMAIN processes
          PROVE  k + 1 \in DOMAIN processes' /\ processes'[k + 1] = processes[k]
      BY <2>4
    <3>3. 1 \in DOMAIN processes' /\ processes'[1].hProcess = h
      BY <2>2, <2>4
    <3> QED
      BY <3>1, <3>2, <3>3
  <2>7. \A j, k \in DOMAIN processes' : processes'[j].hProcess = processes'[k].hProcess => j = k
    <3>1. \A j \in 2..Len(processes) + 1 : processes'[j].hProcess # h
      BY <2>4, <2>5
    <3>2. \A j, k \in 2..Len(processes) + 1 : processes'[j].hProcess = processes'[k].hProcess => j = k
      <4> SUFFICES ASSUME NEW j \in 2..Len(processes) + 1, NEW k \in 2..Len(processes) + 1,
                          processes'[j].hProcess = processes'[k].hProcess
                   PROVE  j = k
        OBVIOUS
      <4>1. /\ j - 1 \in DOMAIN processes /\ processes'[j] = processes[j - 1]
            /\ k - 1 \in DOMAIN processes /\ processes'[k] = processes[k - 1]
        BY <2>4
      <4>2. j - 1 = k - 1
        BY <4>1 DEF Inv, SessionsPaired
      <4> QED BY <4>2
    <3> QED
      BY <2>2, <2>4, <3>1, <3>2
  <2>8. SessionsPaired'
    BY <1>1, <1>6, <2>6, <2>7 DEF Inv, SessionsPaired
  <2>9. ModulesCurrent'
    <3> SUFFICES ASSUME NEW j \in DOMAIN processes', NEW m \in DOMAIN processes'[j].modules,
                        NEW n \in DOMAIN processes'[j].modules
                 PROVE  LET p == processes'[j]
                        IN  /\ \/ mapped[p.hProcess][p.modules[m].Base] = p.modules[m].image
                               \/ <<p.hProcess, p.modules[m].Base>> \in remapped
                            /\ p.modules[m].Base = p.modules[n].Base => m = n
      BY <1>2 DEF ModulesCurrent
    <3>1. j - 1 \in DOMAIN processes /\ processes'[j] = processes[j - 1]
      BY <2>2, <2>4
    <3> QED
      BY <3>1 DEF Inv, ModulesCurrent
  <2> QED BY <1>4, <2>4, <2>8, <2>9
<1> QED BY <1>5, <1>6

LEMMA LoadKeeps ==
  ASSUME Inv, NEW h \in Handle, NEW b \in Base, NEW given, SymLoadModuleEx(h, b, given)
  PROVE  /\ processes' \in Seq(Process) /\ PlaceTypes' /\ SessionsPaired' /\ ModulesCurrent'
         /\ leaked' = leaked
<1>1. PICK o \in mgwhelp_module_lookup(h, b, given) :
        processes' = o.processes /\ leaked' = leaked \cup o.leaks
  BY DEF SymLoadModuleEx
<1>2. mapped[h][b] \in Image \cup {"heap"} /\ UNCHANGED <<sessions, mapped, remapped>>
  BY DEF SymLoadModuleEx
<1>3. o.leaks = {} /\ (o.processes = processes \/ ModuleAdded(h, b, o.processes))
  BY <1>2, LookupAdds
<1>4. PlaceTypes' /\ leaked' = leaked
  BY <1>1, <1>2, <1>3, TypesSplit DEF Inv, PlaceTypes
<1>5. CASE o.processes = processes
  <2>1. processes' = processes /\ processes \in Seq(Process)
    BY <1>1, <1>5, TypesSplit DEF Inv
  <2>2. SessionsPaired'
    BY <1>2, <2>1 DEF Inv, SessionsPaired
  <2>3. ModulesCurrent'
    BY <1>2, <2>1 DEF Inv, ModulesCurrent
  <2> QED BY <1>4, <2>1, <2>2, <2>3
<1>6. CASE ModuleAdded(h, b, o.processes)
  <2>1. ModuleAdded(h, b, processes')
    BY <1>1, <1>6
  <2> QED
    BY <1>2, <1>4, <2>1, AddedKeeps
<1> QED BY <1>3, <1>5, <1>6

LEMMA CleanupKeeps ==
  ASSUME Inv, NEW h \in Handle, SymCleanup(h)
  PROVE  /\ processes' \in Seq(Process) /\ PlaceTypes' /\ SessionsPaired' /\ ModulesCurrent'
         /\ leaked' \subseteq {"mapping"}
<1> DEFINE i == ProcessIndex(h)
<1>1. /\ h \in sessions /\ sessions' = sessions \ {h} /\ mapped' = mapped
      /\ remapped' = {r \in remapped : r[1] # h}
  BY DEF SymCleanup
<1>2. i # 0 /\ i \in DOMAIN processes /\ processes[i].hProcess = h
  BY <1>1, ProcessFound
<1> HIDE DEF i
<1>3. /\ processes' = RemoveAt(processes, i)
      /\ leaked' = leaked \cup UNION {Leftover(processes[i].modules[m]) :
                                         m \in DOMAIN processes[i].modules}
  BY <1>2 DEF SymCleanup, i
<1>4. processes \in Seq(Process) /\ PlaceTypes /\ Len(processes) \in Nat
      /\ DOMAIN processes = 1..Len(processes)
  BY TypesSplit, ListTypes DEF Inv
<1>5. /\ processes' \in Seq(Process) /\ Len(processes') = Len(processes) - 1
      /\ \A j \in 1..Len(processes) - 1 :
           processes'[j] = IF j < i THEN processes[j] ELSE processes[j + 1]
  BY <1>2, <1>3, <1>4, RemoveAtProperties
<1>6. DOMAIN processes' = 1..Len(processes) - 1
  BY <1>5
<1> DEFINE was(j) == IF j < i THEN j ELSE j + 1
<1>7. \A j \in DOMAIN processes' : was(j) \in DOMAIN processes \ {i} /\ processes'[j] = processes[was(j)]
  BY <1>2, <1>4, <1>5, <1>6
<1>8. \A j, k \in DOMAIN processes' : was(j) = was(k) => j = k
  BY <1>2, <1>4, <1>6
<1>9. ASSUME NEW k \in DOMAIN processes \ {i}
      PROVE  \E j \in DOMAIN processes' : was(j) = k
  <2>1. CASE k < i
    <3>1. k \in DOMAIN processes' /\ was(k) = k
      BY <1>2, <1>4, <1>6, <2>1
    <3> QED BY <3>1
  <2>2. CASE k > i
    <3>1. k - 1 \in DOMAIN processes' /\ was(k - 1) = k
      BY <1>2, <1>4, <1>6, <2>2
    <3> QED BY <3>1
  <2> QED
    BY <1>2, <1>4, <2>1, <2>2
<1> HIDE DEF was
<1>10. \A k \in DOMAIN processes : processes[k].hProcess = h <=> k = i
  BY <1>2 DEF Inv, SessionsPaired
<1>11. {processes'[j].hProcess : j \in DOMAIN processes'} = sessions'
  <2>1. sessions = {processes[k].hProcess : k \in DOMAIN processes}
    BY DEF Inv, SessionsPaired
  <2>2. ASSUME NEW j \in DOMAIN processes' PROVE processes'[j].hProcess \in sessions'
    BY <1>1, <1>7, <1>10, <2>1
  <2>3. ASSUME NEW g \in sessions' PROVE \E j \in DOMAIN processes' : processes'[j].hProcess = g
    <3>1. PICK k \in DOMAIN processes \ {i} : processes[k].hProcess = g
      BY <1>1, <1>2, <2>1
    <3>2. PICK j \in DOMAIN processes' : was(j) = k
      BY <1>9
    <3> QED BY <1>7, <3>1, <3>2
  <2> QED BY <2>2, <2>3
<1>12. SessionsPaired'
  <2>1. ASSUME NEW j \in DOMAIN processes', NEW k \in DOMAIN processes',
               processes'[j].hProcess = processes'[k].hProcess
        PROVE  j = k
    <3>1. was(j) = was(k)
      BY <1>7, <2>1 DEF Inv, SessionsPaired
    <3> QED BY <1>8, <3>1
  <2> QED BY <1>11, <2>1 DEF SessionsPaired
<1>13. ModulesCurrent'
  <2> SUFFICES ASSUME NEW j \in DOMAIN processes', NEW m \in DOMAIN processes'[j].modules,
                      NEW n \in DOMAIN processes'[j].modules
               PROVE  LET p == processes'[j]
                      IN  /\ \/ mapped[p.hProcess][p.modules[m].Base] = p.modules[m].image
                             \/ <<p.hProcess, p.modules[m].Base>> \in remapped'
                          /\ p.modules[m].Base = p.modules[n].Base => m = n
    BY <1>1 DEF ModulesCurrent
  <2>1. was(j) \in DOMAIN processes /\ processes'[j] = processes[was(j)]
        /\ processes'[j].hProcess # h
    BY <1>7, <1>10
  <2>2. LET p == processes'[j]
        IN  /\ \/ mapped[p.hProcess][p.modules[m].Base] = p.modules[m].image
               \/ <<p.hProcess, p.modules[m].Base>> \in remapped
            /\ p.modules[m].Base = p.modules[n].Base => m = n
    BY <2>1 DEF Inv, ModulesCurrent
  <2>3. \A r \in remapped : r[1] # h => r \in remapped'
    BY <1>1
  <2> QED BY <2>1, <2>2, <2>3
<1>14. PlaceTypes'
  BY <1>1, <1>4 DEF PlaceTypes
<1>15. leaked' \subseteq {"mapping"}
  <2>1. \A module : Leftover(module) \subseteq {"mapping"}
    BY DEF Leftover
  <2> QED
    BY <1>3, <2>1 DEF Inv, OnlyMappingsLeft
<1> QED BY <1>5, <1>12, <1>13, <1>14, <1>15

LEMMA NewProcessKeeps ==
  ASSUME Inv, NEW h \in Handle, NewProcess(h)
  PROVE  PlaceTypes' /\ SessionsPaired' /\ ModulesCurrent'
<1>1. PICK l \in Layouts[h] : mapped' = [mapped EXCEPT ![h] = l]
  BY DEF NewProcess
<1>2. h \notin sessions /\ processes' = processes /\ sessions' = sessions /\ remapped' = remapped
  BY DEF NewProcess
<1>3. l \in [Base -> Image \cup {"free", "heap"}]
  BY <1>1, MgwHelpAssumption
<1>4. PlaceTypes
  BY TypesSplit DEF Inv
<1>5. PlaceTypes'
  BY <1>1, <1>2, <1>3, <1>4 DEF PlaceTypes
<1>6. \A i \in DOMAIN processes : mapped'[processes[i].hProcess] = mapped[processes[i].hProcess]
  BY <1>1, <1>2, <1>4 DEF Inv, SessionsPaired, PlaceTypes
<1> QED
  BY <1>2, <1>5, <1>6 DEF Inv, SessionsPaired, ModulesCurrent

LEMMA RemapKeeps ==
  ASSUME Inv, NEW h \in Handle, NEW b \in Base, Remap(h, b)
  PROVE  PlaceTypes' /\ SessionsPaired' /\ ModulesCurrent'
<1>1. PICK l \in Layouts[h] : mapped' = [mapped EXCEPT ![h][b] = l[b]]
  BY DEF Remap
<1>2. /\ h \in sessions /\ processes' = processes /\ sessions' = sessions
      /\ remapped' = IF ModuleIndex(ProcessIndex(h), b) = 0 THEN remapped
                     ELSE remapped \cup {<<h, b>>}
  BY DEF Remap
<1>3. l[b] \in Image \cup {"free", "heap"}
  BY <1>1, MgwHelpAssumption
<1>4. PlaceTypes
  BY TypesSplit DEF Inv
<1>5. PlaceTypes'
  BY <1>1, <1>2, <1>3, <1>4 DEF PlaceTypes
<1>6. \A g \in Handle, c \in Base : <<g, c>> # <<h, b>> => mapped'[g][c] = mapped[g][c]
  BY <1>1, <1>4 DEF PlaceTypes
<1>7. ModulesCurrent'
  <2> SUFFICES ASSUME NEW i \in DOMAIN processes, NEW m \in DOMAIN processes[i].modules,
                      NEW n \in DOMAIN processes[i].modules
               PROVE  LET p == processes[i]
                      IN  /\ \/ mapped'[p.hProcess][p.modules[m].Base] = p.modules[m].image
                             \/ <<p.hProcess, p.modules[m].Base>> \in remapped'
                          /\ p.modules[m].Base = p.modules[n].Base => m = n
    BY <1>2 DEF ModulesCurrent
  <2> DEFINE g == processes[i].hProcess
             c == processes[i].modules[m].Base
  <2>1. g \in Handle /\ c \in Base
    <3>1. g \in Handle /\ processes[i].modules[m] \in ReadModule
      BY ListTypes
    <3> QED BY <3>1 DEF Module, ReadModule
  <2>2. /\ mapped[g][c] = processes[i].modules[m].image \/ <<g, c>> \in remapped
        /\ processes[i].modules[m].Base = processes[i].modules[n].Base => m = n
    BY DEF Inv, ModulesCurrent
  <2>3. remapped \subseteq remapped'
    BY <1>2
  <2>4. CASE <<g, c>> # <<h, b>>
    BY <1>6, <2>1, <2>2, <2>3, <2>4
  <2>5. CASE g = h /\ c = b
    <3>1. ProcessIndex(h) = i
      <4>1. ProcessIndex(h) \in DOMAIN processes /\ processes[ProcessIndex(h)].hProcess = h
        BY <1>2, ProcessFound
      <4> QED BY <2>5, <4>1 DEF Inv, SessionsPaired
    <3>2. ModuleIndex(i, b) # 0
      BY <2>5, ModuleFound
    <3>3. <<h, b>> \in remapped'
      BY <1>2, <3>1, <3>2
    <3> QED BY <2>2, <2>5, <3>3
  <2> QED BY <2>4, <2>5
<1> QED
  BY <1>2, <1>5, <1>7 DEF Inv, SessionsPaired

-----------------------------------------------------------------------------
(* The steps of a stack dump.                                              *)

LEMMA DumpStartKeeps ==
  ASSUME DumpTypes, NEW h \in Handle, DumpStart(h)
  PROVE  DumpTypes'
<1>1. PICK sp \in 0..Word - 1 :
        dump' = [at |-> "walk", h |-> h, frame |-> NoFrame,
                 PrevFrameStackOffset |-> Before(sp), nudge |-> 0, first |-> TRUE]
  BY DEF DumpStart
<1>2. Before(sp) \in 0..Word - 1
  BY MgwHelpAssumption DEF Before
<1> QED BY <1>1, <1>2 DEF DumpTypes

LEMMA NotDumpingTypes ==
  NotDumping \in [at : {"idle", "walk", "symbol", "line", "check"}, h : Handle,
                  frame : Frame \cup {NoFrame}, PrevFrameStackOffset : 0..Word - 1,
                  nudge : {0, Nudge}, first : BOOLEAN]
<1>1. NothingPrinted.h \in Handle
  BY MgwHelpAssumption DEF NothingPrinted, Printed
<1>2. 0 \in 0..Word - 1
  BY MgwHelpAssumption
<1> QED BY <1>1, <1>2 DEF NotDumping

LEMMA WalkKeeps ==
  ASSUME DumpTypes, WalkFrame
  PROVE  DumpTypes'
<1>1. CASE dump' = NotDumping
  BY <1>1, NotDumpingTypes DEF DumpTypes
<1>2. CASE \E f \in Frame, known \in BOOLEAN :
             dump' = [dump EXCEPT !.at = IF known THEN "symbol" ELSE "check", !.frame = f]
  BY <1>2 DEF DumpTypes
<1> QED
  BY <1>1, <1>2 DEF WalkFrame

LEMMA SymbolKeeps ==
  ASSUME DumpTypes, GetSymFromAddr
  PROVE  DumpTypes'
<1>1. PICK at \in {"line", "check"} : dump' = [dump EXCEPT !.at = at]
  BY DEF GetSymFromAddr
<1> QED BY <1>1 DEF DumpTypes

LEMMA LineKeeps ==
  ASSUME DumpTypes, GetLineFromAddr
  PROVE  DumpTypes'
BY DEF GetLineFromAddr, DumpTypes

LEMMA CheckKeeps ==
  ASSUME DumpTypes, CheckFrame
  PROVE  DumpTypes'
<1>1. CASE BadFrame
  BY <1>1, NotDumpingTypes DEF CheckFrame, DumpTypes
<1>2. CASE ~BadFrame
  <2>1. dump' = [dump EXCEPT !.at = "walk", !.frame = NoFrame, !.nudge = Nudge,
                             !.first = FALSE, !.PrevFrameStackOffset = dump.frame.sp]
    BY <1>2 DEF CheckFrame
  <2>2. dump.frame.sp \in 0..Word - 1
    <3>1. dump.frame \in Frame \cup {NoFrame}
      BY DEF DumpTypes
    <3>2. NoFrame.sp \in 0..Word - 1
      BY MgwHelpAssumption DEF NoFrame
    <3>3. \A f \in Frame : f.sp \in 0..Word - 1
      BY DEF Frame
    <3> QED BY <3>1, <3>2, <3>3
  <2> QED
    BY <2>1, <2>2 DEF DumpTypes
<1> QED BY <1>1, <1>2

\* A lookup for a frame adds a module at most, and leaves nothing open.
LEMMA LookupKeeps ==
  ASSUME Inv, GetSymFromAddr \/ GetLineFromAddr
  PROVE  /\ processes' \in Seq(Process) /\ PlaceTypes' /\ SessionsPaired' /\ ModulesCurrent'
         /\ leaked' = leaked
<1>1. PICK o \in mgwhelp_find_module(dump.h, Address) :
        processes' = o.processes /\ leaked' = leaked \cup o.leaks
  BY DEF GetSymFromAddr, GetLineFromAddr
<1>2. UNCHANGED <<sessions, mapped, remapped>>
  BY DEF GetSymFromAddr, GetLineFromAddr
<1>3. dump.h \in Handle
  BY TypesSplit DEF Inv, DumpTypes
<1>4. o.leaks = {} /\ (o.processes = processes \/ \E b \in Base : ModuleAdded(dump.h, b, o.processes))
  BY <1>3, FindAdds
<1>5. PlaceTypes' /\ leaked' = leaked
  BY <1>1, <1>2, <1>4, TypesSplit DEF Inv, PlaceTypes
<1>6. CASE o.processes = processes
  <2>1. processes' = processes /\ processes \in Seq(Process)
    BY <1>1, <1>6, TypesSplit DEF Inv
  <2>2. SessionsPaired'
    BY <1>2, <2>1 DEF Inv, SessionsPaired
  <2>3. ModulesCurrent'
    <3>1. ModulesCurrent
      BY DEF Inv
    <3> QED BY <1>2, <2>1, <3>1 DEF ModulesCurrent
  <2> QED BY <1>5, <2>1, <2>2, <2>3
<1>7. CASE \E b \in Base : ModuleAdded(dump.h, b, o.processes)
  <2>1. PICK b \in Base : ModuleAdded(dump.h, b, processes')
    BY <1>1, <1>7
  <2> QED
    BY <1>2, <1>3, <1>5, <2>1, AddedKeeps
<1> QED BY <1>4, <1>6, <1>7

-----------------------------------------------------------------------------
(* The invariant, and what follows from it.                                *)

LEMMA InitInv == MgwHelpInit => Inv
<1> SUFFICES ASSUME MgwHelpInit PROVE Inv
  OBVIOUS
<1>1. processes = <<>> /\ leaked = {} /\ sessions = {} /\ remapped = {} /\ dump = NotDumping
  BY DEF MgwHelpInit
<1>2. mapped \in [Handle -> [Base -> Image \cup {"free", "heap"}]]
  BY MgwHelpAssumption DEF MgwHelpInit
<1>3. MgwHelpTypeOK
  BY <1>1, <1>2, NotDumpingTypes, TypesSplit DEF DumpTypes, PlaceTypes
<1>4. DOMAIN processes = {}
  BY <1>1
<1> QED
  BY <1>1, <1>3, <1>4 DEF Inv, SessionsPaired, ModulesCurrent, OnlyMappingsLeft

\* What every step has to keep.
Parts == /\ processes \in Seq(Process) /\ PlaceTypes /\ SessionsPaired /\ ModulesCurrent
         /\ leaked \subseteq {"mapping"} /\ DumpTypes

LEMMA InvParts == Inv <=> Parts
BY TypesSplit DEF Inv, OnlyMappingsLeft, Parts, Resource

LEMMA UntouchedKeeps ==
  ASSUME Parts, UNCHANGED <<processes, sessions, mapped, remapped>>
  PROVE  processes' \in Seq(Process) /\ PlaceTypes' /\ SessionsPaired' /\ ModulesCurrent'
<1>1. processes' \in Seq(Process) /\ PlaceTypes'
  BY DEF Parts, PlaceTypes
<1>2. SessionsPaired'
  BY DEF Parts, SessionsPaired
<1>3. ModulesCurrent'
  BY DEF Parts, ModulesCurrent
<1> QED BY <1>1, <1>2, <1>3

LEMMA StepInv == Inv /\ [MgwHelpNext]_vars => Inv'
<1> SUFFICES ASSUME Inv, [MgwHelpNext]_vars PROVE Inv'
  OBVIOUS
<1>1. Parts
  BY InvParts
<1>2. Parts' => Inv'
  BY InvParts, PTL
<1> SUFFICES Parts'
  BY <1>2
<1>3. ASSUME NEW h \in Handle, SymInitialize(h) PROVE Parts'
  <2>1. leaked' = leaked /\ dump' = dump
    BY <1>3 DEF SymInitialize
  <2> QED BY <1>1, <1>3, <2>1, InitializeKeeps DEF Parts, DumpTypes
<1>4. ASSUME NEW h \in Handle, SymCleanup(h) PROVE Parts'
  <2>1. dump' = dump
    BY <1>4 DEF SymCleanup
  <2> QED BY <1>1, <1>4, <2>1, CleanupKeeps DEF Parts, DumpTypes
<1>5. ASSUME NEW h \in Handle, DumpStart(h) PROVE Parts'
  <2>1. UNCHANGED <<processes, leaked, sessions, mapped, remapped>>
    BY <1>5 DEF DumpStart
  <2>2. DumpTypes'
    BY <1>1, <1>5, DumpStartKeeps DEF Parts
  <2> QED BY <1>1, <2>1, <2>2, UntouchedKeeps DEF Parts
<1>6. ASSUME NEW h \in Handle, NewProcess(h) PROVE Parts'
  <2>1. UNCHANGED <<processes, leaked, dump>>
    BY <1>6 DEF NewProcess
  <2> QED BY <1>1, <1>6, <2>1, NewProcessKeeps DEF Parts, DumpTypes
<1>7. ASSUME NEW h \in Handle, NEW b \in Base, NEW given \in {"name", "file"},
             SymLoadModuleEx(h, b, given)
      PROVE  Parts'
  <2>1. dump' = dump
    BY <1>7 DEF SymLoadModuleEx
  <2> QED BY <1>1, <1>7, <2>1, LoadKeeps DEF Parts, DumpTypes
<1>8. ASSUME NEW h \in Handle, NEW b \in Base, Remap(h, b) PROVE Parts'
  <2>1. UNCHANGED <<processes, leaked, dump>>
    BY <1>8 DEF Remap
  <2> QED BY <1>1, <1>8, <2>1, RemapKeeps DEF Parts, DumpTypes
<1>9. CASE WalkFrame
  <2>1. UNCHANGED <<processes, leaked, sessions, mapped, remapped>>
    BY <1>9 DEF WalkFrame
  <2>2. DumpTypes'
    BY <1>1, <1>9, WalkKeeps DEF Parts
  <2> QED BY <1>1, <2>1, <2>2, UntouchedKeeps DEF Parts
<1>10. CASE GetSymFromAddr
  <2>1. DumpTypes'
    BY <1>1, <1>10, SymbolKeeps DEF Parts
  <2> QED BY <1>1, <1>10, <2>1, LookupKeeps DEF Parts
<1>11. CASE GetLineFromAddr
  <2>1. DumpTypes'
    BY <1>1, <1>11, LineKeeps DEF Parts
  <2> QED BY <1>1, <1>11, <2>1, LookupKeeps DEF Parts
<1>12. CASE CheckFrame
  <2>1. UNCHANGED <<processes, leaked, sessions, mapped, remapped>>
    BY <1>12 DEF CheckFrame
  <2>2. DumpTypes'
    BY <1>1, <1>12, CheckKeeps DEF Parts
  <2> QED BY <1>1, <2>1, <2>2, UntouchedKeeps DEF Parts
<1>13. CASE UNCHANGED vars
  <2>1. UNCHANGED <<processes, sessions, mapped, remapped>> /\ leaked' = leaked /\ dump' = dump
    BY <1>13 DEF vars
  <2> QED BY <1>1, <2>1, UntouchedKeeps DEF Parts, DumpTypes
<1> QED
  BY <1>3, <1>4, <1>5, <1>6, <1>7, <1>8, <1>9, <1>10, <1>11, <1>12, <1>13
     DEF MgwHelpNext, DumpStep

-----------------------------------------------------------------------------
(* Searching a symbol table.  The loop of pe_find_symbol is a function that *)
(* is defined by recursion, from the end of the table backwards.            *)

Better(t, offset, i, best) ==
  /\ t[i].function /\ ~t[i].dot /\ t[i].value <= offset
  /\ best = 0 \/ offset - t[i].value < offset - t[best].value

\* The loop from the i-th record on, if g is the loop from the later ones on.
Body(t, offset, g, i) ==
  [best \in 0..Len(t) |->
    IF i > Len(t) THEN best
    ELSE IF ~Better(t, offset, i, best) THEN g[Next_(t, i)][best]
    ELSE IF t[i].value = offset THEN i
    ELSE g[Next_(t, i)][i]]

IsLoop(t, offset, g) == g = [i \in 1..Len(t) + 256 |-> Body(t, offset, g, i)]

LEMMA NextRecord ==
  ASSUME NEW t \in Seq(Record), NEW i \in 1..Len(t)
  PROVE  Next_(t, i) \in i + 1..Len(t) + 256
<1>1. t[i] \in Record /\ Len(t) \in Nat
  OBVIOUS
<1>2. t[i].aux \in 0..255
  BY <1>1 DEF Record
<1>3. \A a \in 0..255 : i + 1 + a \in i + 1..Len(t) + 256
  BY <1>1
<1> QED
  BY <1>2, <1>3 DEF Next_

LEMMA LoopExists ==
  ASSUME NEW t \in Seq(Record), NEW offset
  PROVE  \E g : IsLoop(t, offset, g)
<1> DEFINE n == Len(t) + 256
           \* the loop can be had for the last k positions
           T == {k \in 0..n : \E g : DOMAIN g = 1..n /\ g = [i \in 1..n |-> g[i]]
                   /\ \A i \in 1..n : i > n - k => g[i] = Body(t, offset, g, i)}
<1>0. n \in Nat
  OBVIOUS
<1>1. 0 \in T
  <2> DEFINE g == [i \in 1..n |-> i]
  <2>1. DOMAIN g = 1..n /\ g = [i \in 1..n |-> g[i]] /\ \A i \in 1..n : ~(i > n - 0)
    BY <1>0
  <2> HIDE DEF g
  <2>2. 0 \in 0..n
    BY <1>0
  <2> QED BY <2>1, <2>2
<1>2. ASSUME NEW k \in 0..n - 1, k \in T PROVE k + 1 \in T
  <2>1. PICK g : /\ DOMAIN g = 1..n /\ g = [i \in 1..n |-> g[i]]
                 /\ \A i \in 1..n : i > n - k => g[i] = Body(t, offset, g, i)
    BY <1>2
  <2> DEFINE h == [g EXCEPT ![n - k] = Body(t, offset, g, n - k)]
  <2>2. DOMAIN h = 1..n /\ h = [i \in 1..n |-> h[i]]
    BY <2>1
  <2>3. ASSUME NEW i \in 1..n, i >= n - k
        PROVE  Body(t, offset, h, i) = Body(t, offset, g, i)
    <3>1. CASE i > Len(t)
      BY <3>1 DEF Body
    <3>2. CASE i <= Len(t)
      <4>1. Next_(t, i) \in i + 1..n
        BY <3>2, NextRecord
      <4>2. h[Next_(t, i)] = g[Next_(t, i)]
        BY <2>1, <2>3, <4>1
      <4> QED BY <4>2 DEF Body
    <3> QED BY <3>1, <3>2
  <2>4. ASSUME NEW i \in 1..n, i > n - (k + 1)
        PROVE  h[i] = Body(t, offset, h, i)
    <3>1. i >= n - k
      BY <2>4
    <3>2. Body(t, offset, h, i) = Body(t, offset, g, i)
      BY <2>3, <3>1
    <3>3. h[i] = Body(t, offset, g, i)
      BY <2>1, <3>1
    <3> QED BY <3>2, <3>3
  <2>5. k + 1 \in 0..n
    BY <1>0
  <2> HIDE DEF h
  <2> QED
    BY <2>2, <2>4, <2>5
<1> HIDE DEF T
<1>3. \A k \in 0..n : k \in T
  BY <1>0, <1>1, <1>2, UpTo
<1>4. PICK g : /\ g = [i \in 1..n |-> g[i]]
               /\ \A i \in 1..n : i > n - n => g[i] = Body(t, offset, g, i)
  <2>1. n \in T
    BY <1>0, <1>3
  <2> QED BY <2>1 DEF T
<1>5. \A i \in 1..n : g[i] = Body(t, offset, g, i)
  BY <1>0, <1>4
<1>6. g = [i \in 1..n |-> Body(t, offset, g, i)]
  BY <1>4, <1>5
<1> QED BY <1>6 DEF IsLoop

LEMMA LoopUnfolds ==
  ASSUME NEW t \in Seq(Record), NEW offset
  PROVE  \E g : IsLoop(t, offset, g) /\ pe_find_symbol(t, offset) = g[1][0]
<1> DEFINE better(i, best) ==
             /\ t[i].function /\ ~t[i].dot /\ t[i].value <= offset
             /\ best = 0 \/ offset - t[i].value < offset - t[best].value
           loop[i \in 1..Len(t) + 256] == [best \in 0..Len(t) |->
             IF i > Len(t) THEN best
             ELSE IF ~better(i, best) THEN loop[Next_(t, i)][best]
             ELSE IF t[i].value = offset THEN i
             ELSE loop[Next_(t, i)][i]]
<1>1. pe_find_symbol(t, offset) = loop[1][0]
  BY Zenon DEF pe_find_symbol
<1>2. \E g : g = [i \in 1..Len(t) + 256 |-> [best \in 0..Len(t) |->
             IF i > Len(t) THEN best
             ELSE IF ~better(i, best) THEN g[Next_(t, i)][best]
             ELSE IF t[i].value = offset THEN i
             ELSE g[Next_(t, i)][i]]]
  <2>1. PICK g : IsLoop(t, offset, g)
    BY LoopExists
  <2>2. g = [i \in 1..Len(t) + 256 |-> [best \in 0..Len(t) |->
             IF i > Len(t) THEN best
             ELSE IF ~better(i, best) THEN g[Next_(t, i)][best]
             ELSE IF t[i].value = offset THEN i
             ELSE g[Next_(t, i)][i]]]
    BY <2>1, Zenon DEF IsLoop, Body, Better
  <2> QED BY <2>2
<1>3. loop = [i \in 1..Len(t) + 256 |-> [best \in 0..Len(t) |->
             IF i > Len(t) THEN best
             ELSE IF ~better(i, best) THEN loop[Next_(t, i)][best]
             ELSE IF t[i].value = offset THEN i
             ELSE loop[Next_(t, i)][i]]]
  BY <1>2
<1>4. IsLoop(t, offset, loop)
  BY <1>3 DEF IsLoop, Body, Better
<1> HIDE DEF loop
<1> QED BY <1>1, <1>4

\* The functions among the records before the i-th that begin at or before the
\* offset, and the best of them (0 if there are none).
FunctionsBefore(t, offset, i) ==
  {j \in DOMAIN t : t[j].symbol /\ t[j].function /\ ~t[j].dot /\ t[j].value <= offset /\ j < i}
Best(t, offset, i, best) ==
  IF best = 0 THEN FunctionsBefore(t, offset, i) = {}
  ELSE /\ best \in FunctionsBefore(t, offset, i)
       /\ \A j \in FunctionsBefore(t, offset, i) : t[j].value <= t[best].value

LEMMA TableTypes ==
  ASSUME NEW t, SymbolTable(t)
  PROVE  /\ t \in Seq(Record) /\ Len(t) \in Nat /\ DOMAIN t = 1..Len(t)
         /\ \A i \in 1..Len(t) : t[i].value \in Int
<1>1. t \in Seq(Record)
  BY DEF SymbolTable
<1>2. \A i \in 1..Len(t) : t[i] \in Record
  BY <1>1
<1>3. Size \in Int
  BY MgwHelpAssumption
<1> QED
  BY <1>1, <1>2, <1>3 DEF Record, Offset

\* One turn of the loop: what is the best before the next record.
LEMMA TurnOfLoop ==
  ASSUME NEW t, SymbolTable(t), NEW offset \in Int, NEW i \in 1..Len(t), NEW best \in 0..Len(t),
         t[i].symbol, Best(t, offset, i, best)
  PROVE  /\ Next_(t, i) > Len(t) \/ t[Next_(t, i)].symbol
         /\ ~Better(t, offset, i, best) => Best(t, offset, Next_(t, i), best)
         /\ Better(t, offset, i, best) => Best(t, offset, Next_(t, i), i)
<1> DEFINE F == FunctionsBefore(t, offset, i)
           N == FunctionsBefore(t, offset, Next_(t, i))
           fits == t[i].function /\ ~t[i].dot /\ t[i].value <= offset
<1>1. /\ t \in Seq(Record) /\ Len(t) \in Nat /\ DOMAIN t = 1..Len(t)
      /\ \A j \in 1..Len(t) : t[j].value \in Int
  BY TableTypes
<1>2. Next_(t, i) \in i + 1..Len(t) + 256
  BY <1>1, NextRecord
<1>3. t[i].aux \in 0..255
  <2>1. t[i] \in Record
    BY <1>1
  <2> QED BY <2>1 DEF Record
<1>4. Next_(t, i) = i + t[i].aux + 1
  <2>1. \A a \in 0..255 : i + 1 + a = i + a + 1
    BY <1>1
  <2> QED BY <1>3, <2>1 DEF Next_
<1>5. Next_(t, i) > Len(t) \/ t[Next_(t, i)].symbol
  <2>1. CASE Next_(t, i) <= Len(t)
    <3>1. Next_(t, i) \in DOMAIN t
      BY <1>1, <1>2, <2>1
    <3> QED BY <1>1, <1>4, <3>1 DEF SymbolTable
  <2> QED BY <1>1, <1>2, <2>1
<1>6. \A j \in 1..Len(t) : i < j /\ j < Next_(t, i) => ~t[j].symbol
  <2> SUFFICES ASSUME NEW j \in 1..Len(t), i < j, j < Next_(t, i) PROVE ~t[j].symbol
    OBVIOUS
  <2>1. \A a \in 0..255 : j < i + a + 1 => j <= i + a
    BY <1>1
  <2>2. j <= i + t[i].aux
    BY <1>3, <1>4, <2>1
  <2> QED BY <1>1, <2>2 DEF SymbolTable
<1>7. \A j : j \in N <=> j \in F \/ (fits /\ j = i)
  <2>1. ASSUME NEW j \in 1..Len(t), j \in N PROVE j \in F \/ (fits /\ j = i)
    <3>1. ~(i < j)
      BY <1>6, <2>1 DEF FunctionsBefore
    <3>2. j < i \/ j = i
      BY <3>1
    <3> QED BY <2>1, <3>2 DEF FunctionsBefore
  <2>2. ASSUME NEW j \in 1..Len(t), j \in F PROVE j \in N
    <3>1. j < Next_(t, i)
      BY <1>2, <2>2 DEF FunctionsBefore
    <3> QED BY <2>2, <3>1 DEF FunctionsBefore
  <2>3. fits => i \in N
    BY <1>1, <1>2 DEF FunctionsBefore
  <2>4. \A j : j \in N \/ j \in F => j \in 1..Len(t)
    BY <1>1 DEF FunctionsBefore
  <2> QED BY <2>1, <2>2, <2>3, <2>4
<1>8. /\ best = 0 => F = {}
      /\ best # 0 => best \in F /\ best \in 1..Len(t) /\ \A j \in F : t[j].value <= t[best].value
  BY <1>1 DEF Best
<1>9. \A j \in F : j \in 1..Len(t) /\ t[j].value <= offset
  BY <1>1 DEF FunctionsBefore
<1>10. ASSUME ~Better(t, offset, i, best) PROVE Best(t, offset, Next_(t, i), best)
  <2> HIDE DEF F, N
  <2>1. CASE ~fits
    <3>1. N = F
      BY <1>7, <2>1
    <3> QED BY <1>8, <3>1 DEF Best, N
  <2>2. CASE fits
    <3>1. best # 0 /\ ~(offset - t[i].value < offset - t[best].value)
      BY <1>10, <2>2 DEF Better
    <3>2. t[i].value <= t[best].value
      BY <1>1, <1>8, <3>1
    <3>3. best \in N /\ \A j \in N : t[j].value <= t[best].value
      BY <1>7, <1>8, <3>1, <3>2
    <3> QED BY <3>1, <3>3 DEF Best, N
  <2> QED BY <2>1, <2>2
<1>11. ASSUME Better(t, offset, i, best) PROVE Best(t, offset, Next_(t, i), i)
  <2>1. fits /\ (best = 0 \/ offset - t[i].value < offset - t[best].value)
    BY <1>11 DEF Better
  <2> HIDE DEF F, N
  <2>2. i # 0 /\ i \in N
    BY <1>7, <2>1
  <2>3. \A j \in F : t[j].value <= t[i].value
    <3>1. CASE best = 0
      BY <1>8, <3>1
    <3>2. CASE best # 0
      <4>1. t[best].value <= t[i].value
        BY <1>1, <1>8, <2>1, <3>2
      <4> QED BY <1>1, <1>8, <1>9, <3>2, <4>1
    <3> QED BY <3>1, <3>2
  <2>4. t[i].value <= t[i].value
    BY <1>1
  <2>5. \A j \in N : t[j].value <= t[i].value
    BY <1>7, <2>3, <2>4
  <2> QED BY <2>2, <2>5 DEF Best, N
<1> QED BY <1>5, <1>10, <1>11

LEMMA LoopFinds ==
  ASSUME NEW t, SymbolTable(t), NEW offset \in Int, NEW g, IsLoop(t, offset, g)
  PROVE  Best(t, offset, Len(t) + 1, g[1][0])
<1> DEFINE n == Len(t) + 256
           Holds(i) == \A best \in 0..Len(t) :
             /\ i > Len(t) \/ t[i].symbol
             /\ Best(t, offset, i, best)
             => Best(t, offset, Len(t) + 1, g[i][best])
           T == {k \in 0..n : \A i \in 1..n : i > n - k => Holds(i)}
<1>1. /\ t \in Seq(Record) /\ Len(t) \in Nat /\ n \in Nat /\ DOMAIN t = 1..Len(t)
      /\ \A i \in 1..Len(t) : t[i].value \in Int
  BY TableTypes
<1>2. \A i \in 1..n : g[i] = Body(t, offset, g, i)
  BY DEF IsLoop
<1>9. \A i \in 1..Len(t), best \in 0..Len(t) : t[i].symbol /\ Best(t, offset, i, best) =>
        /\ Next_(t, i) > Len(t) \/ t[Next_(t, i)].symbol
        /\ ~Better(t, offset, i, best) => Best(t, offset, Next_(t, i), best)
        /\ Better(t, offset, i, best) => Best(t, offset, Next_(t, i), i)
  BY TurnOfLoop
<1>3. 0 \in T
  BY <1>1
<1>4. ASSUME NEW k \in 0..n - 1, k \in T PROVE k + 1 \in T
  <2> DEFINE i == n - k
  <2>1. i \in 1..n /\ k + 1 \in 0..n
    BY <1>1
  <2>2. \A j \in 1..n : j > i => Holds(j)
    BY <1>4
  <2> HIDE DEF Holds
  <2>3. Holds(i)
    <3> SUFFICES ASSUME NEW best \in 0..Len(t), i > Len(t) \/ t[i].symbol, Best(t, offset, i, best)
                 PROVE  Best(t, offset, Len(t) + 1, g[i][best])
      BY DEF Holds
    <3>1. CASE i > Len(t)
      <4>1. g[i][best] = best
        <5>1. Body(t, offset, g, i)[best] = best
          BY <3>1 DEF Body
        <5> QED BY <1>2, <2>1, <5>1
      <4>2. FunctionsBefore(t, offset, i) = FunctionsBefore(t, offset, Len(t) + 1)
        BY <1>1, <2>1, <3>1 DEF FunctionsBefore
      <4> QED BY <4>1, <4>2 DEF Best
    <3>2. CASE i <= Len(t)
      <4>1. i \in 1..Len(t) /\ t[i].symbol
        BY <1>1, <2>1, <3>2
      <4>0. Next_(t, i) \in i + 1..n
        BY <1>1, <4>1, NextRecord
      <4>2. /\ Next_(t, i) > Len(t) \/ t[Next_(t, i)].symbol
            /\ ~Better(t, offset, i, best) => Best(t, offset, Next_(t, i), best)
            /\ Better(t, offset, i, best) => Best(t, offset, Next_(t, i), i)
        BY <4>1, <1>9
      <4>3. Holds(Next_(t, i))
        BY <1>1, <2>1, <2>2, <4>0
      <4>4. g[i][best] = IF ~Better(t, offset, i, best) THEN g[Next_(t, i)][best]
                         ELSE IF t[i].value = offset THEN i
                         ELSE g[Next_(t, i)][i]
        <5>1. Body(t, offset, g, i)[best] =
                IF ~Better(t, offset, i, best) THEN g[Next_(t, i)][best]
                ELSE IF t[i].value = offset THEN i
                ELSE g[Next_(t, i)][i]
          BY <1>1, <4>1 DEF Body
        <5> QED BY <1>2, <2>1, <5>1
      <4>5. CASE ~Better(t, offset, i, best)
        BY <4>2, <4>3, <4>4, <4>5 DEF Holds
      <4>6. CASE Better(t, offset, i, best) /\ t[i].value # offset
        <5>1. i \in 0..Len(t)
          BY <4>1
        <5> QED BY <4>2, <4>3, <4>4, <4>6, <5>1 DEF Holds
      <4>7. CASE Better(t, offset, i, best) /\ t[i].value = offset
        <5>1. g[i][best] = i
          BY <4>4, <4>7
        <5>2. i \in FunctionsBefore(t, offset, Len(t) + 1)
          BY <1>1, <4>1, <4>7 DEF FunctionsBefore, Better
        <5>3. \A j \in FunctionsBefore(t, offset, Len(t) + 1) : t[j].value <= t[i].value
          BY <4>7 DEF FunctionsBefore
        <5>4. i # 0
          BY <4>1
        <5> QED BY <5>1, <5>2, <5>3, <5>4 DEF Best
      <4> QED BY <4>5, <4>6, <4>7
    <3> QED BY <1>1, <2>1, <3>1, <3>2
  <2>4. ASSUME NEW j \in 1..n, j > n - (k + 1) PROVE Holds(j)
    <3>1. j = i \/ j > i
      BY <1>1, <2>4
    <3> QED BY <2>2, <2>3, <3>1
  <2> QED BY <2>1, <2>4
<1> HIDE DEF T, Holds
<1>5. \A k \in 0..n : k \in T
  BY <1>1, <1>3, <1>4, UpTo
<1>6. Holds(1)
  <2>1. n \in T
    BY <1>1, <1>5
  <2> QED BY <1>1, <2>1 DEF T
<1>7. Best(t, offset, 1, 0)
  BY <1>1 DEF Best, FunctionsBefore
<1>8. 1 > Len(t) \/ t[1].symbol
  <2>1. CASE t = <<>>
    BY <2>1
  <2>2. CASE t # <<>>
    BY <2>2 DEF SymbolTable
  <2> QED BY <2>1, <2>2
<1> QED BY <1>1, <1>6, <1>7, <1>8 DEF Holds

\* pe_find_symbol finds the last function at or before the offset, whatever
\* the order of the records and the aux records between them.
LEMMA FindsClosest ==
  ASSUME NEW t, SymbolTable(t), NEW offset \in Int, pe_find_symbol(t, offset) # 0
  PROVE  IsClosest(t, pe_find_symbol(t, offset), offset)
<1> DEFINE entry == pe_find_symbol(t, offset)
<1>1. t \in Seq(Record) /\ Len(t) \in Nat /\ DOMAIN t = 1..Len(t)
  BY TableTypes
<1>2. PICK g : IsLoop(t, offset, g) /\ entry = g[1][0]
  BY <1>1, LoopUnfolds
<1>3. Best(t, offset, Len(t) + 1, entry)
  BY <1>2, LoopFinds
<1> HIDE DEF entry
<1>4. \A i : i \in FunctionsBefore(t, offset, Len(t) + 1) <=>
        i \in {j \in DOMAIN t : t[j].symbol /\ t[j].function /\ ~t[j].dot /\ t[j].value <= offset}
  BY <1>1 DEF FunctionsBefore
<1>5. entry # 0
  BY DEF entry
<1>6. IsClosest(t, entry, offset)
  BY <1>3, <1>4, <1>5 DEF IsClosest, Best
<1> QED BY <1>6 DEF entry

-----------------------------------------------------------------------------
(* What is answered for a frame.                                           *)

LEMMA AddressesAreNumbers ==
  /\ \A b \in Base : b \in Int
  /\ \A f \in Frame \cup {NoFrame} : f.pc \in Int
<1>1. Base \subseteq Nat /\ FramePcs \subseteq Nat
  BY MgwHelpAssumption
<1>2. \A b \in Base : b \in Int
  BY <1>1
<1>3. \A pc \in FramePcs : pc \in Int
  BY <1>1
<1>4. \A f \in Frame : f.pc \in Int
  BY <1>3 DEF Frame
<1>5. NoFrame.pc \in Int
  BY DEF NoFrame
<1> QED BY <1>2, <1>4, <1>5

\* The module a lookup finds is of what is mapped there, unless that has
\* changed.
LEMMA LookupFinds ==
  ASSUME Inv, NEW h \in Handle, NEW b \in Base, NEW given,
         mapped[h][b] \in Image \cup {"heap"}, NEW o \in mgwhelp_module_lookup(h, b, given),
         o.module # NoModule
  PROVE  /\ o.module \in ReadModule /\ o.module.Base = b
         /\ o.module.image = mapped[h][b] \/ <<h, b>> \in remapped
<1> DEFINE i == ProcessIndex(h)
           m == ModuleIndex(i, b)
<1>1. i # 0
  BY DEF mgwhelp_module_lookup, Found
<1>2. i \in DOMAIN processes /\ processes[i].hProcess = h
  BY <1>1, ProcessFound
<1>3. CASE m # 0
  <2>1. m \in DOMAIN processes[i].modules /\ processes[i].modules[m].Base = b
    BY <1>2, <1>3, ModuleFound
  <2>2. o.module = processes[i].modules[m]
    BY <1>1, <1>3 DEF mgwhelp_module_lookup, Found
  <2>3. processes[i].modules[m] \in ReadModule
    BY <1>2, <2>1, ListTypes
  <2>4. \/ mapped[h][b] = processes[i].modules[m].image
        \/ <<h, b>> \in remapped
    BY <1>2, <2>1 DEF Inv, ModulesCurrent
  <2> QED BY <2>1, <2>2, <2>3, <2>4
<1>4. CASE m = 0
  <2>1. PICK c \in mgwhelp_module_create(b, mapped[h][b], given) : o.module = c.module
    <3>1. PICK c \in mgwhelp_module_create(b, mapped[h][b], given) :
            o = Found(c.module, IF c.module = NoModule THEN processes
                                ELSE [processes EXCEPT ![i].modules = <<c.module>> \o @], c.leaks)
      BY <1>1, <1>4 DEF mgwhelp_module_lookup
    <3> QED BY <3>1 DEF Found
  <2>2. \A image \in Image \cup {"heap"} : \A r \in mgwhelp_module_create(b, image, given) :
          r.module # NoModule =>
            r.module \in ReadModule /\ r.module.Base = b /\ r.module.image = image
    BY ModuleCreated
  <2> QED BY <2>1, <2>2
<1> QED BY <1>3, <1>4

LEMMA AnswerTrue ==
  ASSUME Inv, table \in Tables, NEW h \in Handle, NEW a \in Int,
         NEW o \in mgwhelp_find_module(h, a), NEW s \in SymFromAddr(o.module, a - o.module.Base),
         <<h, GetModuleBase(h, a)>> \notin remapped
  PROVE  /\ s.from = "dwarf" => FromDwarf(s, ImageAt(h, a), OffsetOf(h, a))
         /\ s.from = "pe" => /\ s.file = ImageAt(h, a)
                             /\ IsClosest(table[ImageAt(h, a)], s.at, OffsetOf(h, a))
<1> DEFINE b == GetModuleBase(h, a)
           module == o.module
<1>1. CASE module = NoModule
  <2>1. s \in DbgHelpAnswers
    BY <1>1 DEF SymFromAddr
  <2> QED BY <2>1 DEF DbgHelpAnswers, NoAnswer, Answer
<1>2. CASE module # NoModule
  <2>1. b # 0
    BY <1>2 DEF mgwhelp_find_module, Found
  <2>2. b \in Base /\ mapped[h][b] # "free"
    BY <2>1 DEF GetModuleBase
  <2>3. mapped[h][b] \in Image \cup {"heap"}
    BY <2>2 DEF Inv, MgwHelpTypeOK
  <2>4. o \in mgwhelp_module_lookup(h, b, "nothing")
    BY <2>1 DEF mgwhelp_find_module
  <2>5. module \in ReadModule /\ module.Base = b /\ module.image = mapped[h][b]
    BY <1>2, <2>2, <2>3, <2>4, LookupFinds
  <2>6. module.image = ImageAt(h, a) /\ a - module.Base = OffsetOf(h, a)
    BY <2>1, <2>5 DEF ImageAt, OffsetOf
  <2>7. module.image \in Image /\ module.dwarf \in {"none", module.image, Link[module.image]}
    BY <2>5 DEF ReadModule, DwarfFiles
  <2> DEFINE offset == OffsetOf(h, a)
             t == table[module.image]
  <2>8. b \in Int
    BY <2>2, AddressesAreNumbers
  <2>9. offset \in Int
    BY <2>8 DEF OffsetOf
  <2> HIDE DEF module, offset
  <2>10. \/ /\ module.dwarf # "none" /\ HasLine(module.dwarf, offset)
            /\ s = Answer("dwarf", module.dwarf, offset)
         \/ pe_find_symbol(t, offset) # 0 /\ s = Answer("pe", module.image, pe_find_symbol(t, offset))
         \/ s \in DbgHelpAnswers
    BY <1>2, <2>6 DEF SymFromAddr, module, offset
  <2>11. CASE /\ module.dwarf # "none" /\ HasLine(module.dwarf, offset)
              /\ s = Answer("dwarf", module.dwarf, offset)
    BY <2>6, <2>7, <2>11 DEF Answer, FromDwarf, HasLine, offset
  <2>12. CASE pe_find_symbol(t, offset) # 0 /\ s = Answer("pe", module.image, pe_find_symbol(t, offset))
    <3>1. SymbolTable(t)
      BY <2>7, MgwHelpAssumption
    <3>2. IsClosest(t, pe_find_symbol(t, offset), offset)
      BY <2>9, <2>12, <3>1, FindsClosest
    <3> QED BY <2>6, <2>12, <3>2 DEF Answer, offset
  <2>13. CASE s \in DbgHelpAnswers
    BY <2>13 DEF DbgHelpAnswers, NoAnswer, Answer
  <2> QED BY <2>10, <2>11, <2>12, <2>13
<1> QED BY <1>1, <1>2

\* The frame that is printed is the one that is looked up, and nothing is
\* answered before it is.
PrintedFrame ==
  /\ printed = [h |-> printed.h, pc |-> printed.pc, first |-> printed.first,
                symbol |-> printed.symbol, line |-> printed.line]
  /\ dump.at \in {"idle", "walk"} => printed.symbol = NoAnswer
  /\ dump.at \notin {"idle", "walk"} =>
       printed.h = dump.h /\ printed.pc = dump.frame.pc /\ printed.first = dump.first
  /\ dump.nudge = IF dump.first THEN 0 ELSE Nudge

Answers == table \in Tables /\ PrintedFrame /\ SymbolOfAddress

LEMMA NoSymbolYet ==
  printed.symbol = NoAnswer => SymbolOfAddress
BY DEF SymbolOfAddress, NoAnswer, Answer

\* An answer stays true as long as nothing is mapped, and it answers the same.
LEMMA SameAnswer ==
  ASSUME SymbolOfAddress, UNCHANGED <<mapped, remapped, table>>,
         AddressOf(printed') = AddressOf(printed), printed'.h = printed.h,
         printed'.symbol = printed.symbol
  PROVE  SymbolOfAddress'
<1>1. \A h, a : GetModuleBase(h, a)' = GetModuleBase(h, a)
  BY DEF GetModuleBase
<1>2. \A h, a : /\ ImageAt(h, a)' = ImageAt(h, a)
                /\ OffsetOf(h, a)' = OffsetOf(h, a)
  BY <1>1 DEF ImageAt, OffsetOf
<1> QED BY <1>1, <1>2 DEF SymbolOfAddress

LEMMA InitAnswers == MgwHelpInit => Answers
<1> SUFFICES ASSUME MgwHelpInit PROVE Answers
  OBVIOUS
<1>1. table \in Tables /\ dump = NotDumping /\ printed = NothingPrinted
  BY DEF MgwHelpInit
<1>2. PrintedFrame /\ printed.symbol = NoAnswer
  BY <1>1 DEF PrintedFrame, NotDumping, NothingPrinted, Printed
<1> QED BY <1>1, <1>2, NoSymbolYet DEF Answers

LEMMA SymbolAnswers ==
  ASSUME Inv, Answers, GetSymFromAddr
  PROVE  Answers'
<1>1. PICK o \in mgwhelp_find_module(dump.h, Address) :
        \E s \in SymFromAddr(o.module, Address - o.module.Base) :
          /\ printed' = [printed EXCEPT !.symbol = s]
          /\ dump' = [dump EXCEPT !.at = IF s # NoAnswer THEN "line" ELSE "check"]
  BY DEF GetSymFromAddr
<1>2. PICK s \in SymFromAddr(o.module, Address - o.module.Base) :
        /\ printed' = [printed EXCEPT !.symbol = s]
        /\ dump' = [dump EXCEPT !.at = IF s # NoAnswer THEN "line" ELSE "check"]
  BY <1>1
<1>3. dump.at = "symbol" /\ UNCHANGED <<mapped, remapped, table>>
  BY DEF GetSymFromAddr
<1>4. DumpTypes
  BY TypesSplit DEF Inv
<1>5. /\ dump'.at \in {"line", "check"} /\ dump'.h = dump.h /\ dump'.frame = dump.frame
      /\ dump'.first = dump.first /\ dump'.nudge = dump.nudge
  BY <1>2, <1>4 DEF DumpTypes
<1>6. /\ printed' = [h |-> printed.h, pc |-> printed.pc, first |-> printed.first,
                     symbol |-> s, line |-> printed.line]
      /\ printed.h = dump.h /\ printed.pc = dump.frame.pc /\ printed.first = dump.first
  BY <1>2, <1>3 DEF Answers, PrintedFrame
<1>7. PrintedFrame'
  BY <1>5, <1>6 DEF Answers, PrintedFrame
<1>8. dump.frame.pc \in Int
  <2>1. dump.frame \in Frame \cup {NoFrame}
    BY <1>4 DEF DumpTypes
  <2>2. \A f \in Frame \cup {NoFrame} : f.pc \in Int
    BY AddressesAreNumbers
  <2> QED BY <2>1, <2>2
<1> DEFINE a == Address
           h == dump.h
<1>9. a \in Int /\ h \in Handle /\ dump.first \in BOOLEAN
  BY <1>4, <1>8 DEF Address, DumpTypes, Nudge
<1>10. AddressOf(printed') = a /\ printed'.h = h /\ printed'.symbol = s
  BY <1>6, <1>8, <1>9 DEF AddressOf, Address, Answers, PrintedFrame, Nudge
<1>11. <<h, GetModuleBase(h, a)>> \notin remapped =>
         /\ s.from = "dwarf" => FromDwarf(s, ImageAt(h, a), OffsetOf(h, a))
         /\ s.from = "pe" => /\ s.file = ImageAt(h, a)
                             /\ IsClosest(table[ImageAt(h, a)], s.at, OffsetOf(h, a))
  BY <1>9, AnswerTrue DEF Answers
<1> HIDE DEF a, h
<1>12. SymbolOfAddress'
  BY <1>3, <1>10, <1>11 DEF SymbolOfAddress, GetModuleBase, ImageAt, OffsetOf
<1> QED BY <1>3, <1>7, <1>12 DEF Answers

LEMMA StepAnswers == Inv /\ Answers /\ [MgwHelpNext]_vars => Answers'
<1> SUFFICES ASSUME Inv, Answers, [MgwHelpNext]_vars PROVE Answers'
  OBVIOUS
<1>0. DumpTypes
  BY TypesSplit DEF Inv
<1>1. printed'.symbol = NoAnswer => SymbolOfAddress'
  BY DEF SymbolOfAddress, NoAnswer, Answer
\* Between dumps nothing is printed.
<1>2. ASSUME UNCHANGED <<table, dump, printed>>, Idle PROVE Answers'
  <2>1. PrintedFrame' /\ printed'.symbol = NoAnswer
    BY <1>2 DEF Answers, PrintedFrame, Idle
  <2> QED BY <1>1, <1>2, <2>1 DEF Answers
<1>3. ASSUME NEW h \in Handle, SymInitialize(h) \/ SymCleanup(h) \/ NewProcess(h) PROVE Answers'
  BY <1>2, <1>3 DEF SymInitialize, SymCleanup, NewProcess
<1>4. ASSUME NEW h \in Handle, NEW b \in Base, NEW given, SymLoadModuleEx(h, b, given) PROVE Answers'
  BY <1>2, <1>4 DEF SymLoadModuleEx
<1>5. ASSUME NEW h \in Handle, NEW b \in Base, Remap(h, b) PROVE Answers'
  BY <1>2, <1>5 DEF Remap
<1>6. ASSUME NEW h \in Handle, DumpStart(h) PROVE Answers'
  <2>1. /\ dump.at = "idle" /\ dump'.at = "walk" /\ dump'.nudge = 0 /\ dump'.first = TRUE
        /\ printed' = printed /\ table' = table
    BY <1>6 DEF DumpStart, Idle
  <2>2. PrintedFrame' /\ printed'.symbol = NoAnswer
    BY <2>1 DEF Answers, PrintedFrame
  <2> QED BY <1>1, <2>1, <2>2 DEF Answers
<1>7. CASE WalkFrame
  <2>0. dump.at = "walk" /\ table' = table
    BY <1>7 DEF WalkFrame
  <2>1. CASE dump' = NotDumping /\ printed' = printed
    <3>1. PrintedFrame' /\ printed'.symbol = NoAnswer
      BY <2>0, <2>1 DEF Answers, PrintedFrame, NotDumping
    <3> QED BY <1>1, <2>0, <3>1 DEF Answers
  <2>2. CASE \E f \in Frame, known \in BOOLEAN :
               /\ dump' = [dump EXCEPT !.at = IF known THEN "symbol" ELSE "check", !.frame = f]
               /\ printed' = Printed(dump.h, f, dump.first)
    <3>1. PICK f \in Frame, known \in BOOLEAN :
            /\ dump' = [dump EXCEPT !.at = IF known THEN "symbol" ELSE "check", !.frame = f]
            /\ printed' = Printed(dump.h, f, dump.first)
      BY <2>2
    <3>2. /\ dump'.at \in {"symbol", "check"} /\ dump'.h = dump.h /\ dump'.frame = f
          /\ dump'.first = dump.first /\ dump'.nudge = dump.nudge
      BY <1>0, <3>1 DEF DumpTypes
    <3>3. PrintedFrame' /\ printed'.symbol = NoAnswer
      BY <3>1, <3>2 DEF Answers, PrintedFrame, Printed
    <3> QED BY <1>1, <2>0, <3>3 DEF Answers
  <2> QED BY <1>7, <2>1, <2>2 DEF WalkFrame
<1>8. CASE GetSymFromAddr
  BY <1>8, SymbolAnswers
<1>9. CASE GetLineFromAddr
  <2>1. PICK l : printed' = [printed EXCEPT !.line = l]
    BY <1>9 DEF GetLineFromAddr
  <2>2. /\ dump.at = "line" /\ dump' = [dump EXCEPT !.at = "check"]
        /\ UNCHANGED <<mapped, remapped, table>>
    BY <1>9 DEF GetLineFromAddr
  <2>3. /\ dump'.at = "check" /\ dump'.h = dump.h /\ dump'.frame = dump.frame
        /\ dump'.first = dump.first /\ dump'.nudge = dump.nudge
    BY <1>0, <2>2 DEF DumpTypes
  <2>4. printed' = [h |-> printed.h, pc |-> printed.pc, first |-> printed.first,
                    symbol |-> printed.symbol, line |-> l]
    BY <2>1 DEF Answers, PrintedFrame
  <2>5. PrintedFrame'
    BY <2>2, <2>3, <2>4 DEF Answers, PrintedFrame
  <2>6. AddressOf(printed') = AddressOf(printed) /\ printed'.h = printed.h
        /\ printed'.symbol = printed.symbol
    BY <2>4 DEF AddressOf
  <2>7. SymbolOfAddress'
    BY <2>2, <2>6, SameAnswer DEF Answers
  <2> QED BY <2>2, <2>5, <2>7 DEF Answers
<1>10. CASE CheckFrame
  <2>1. printed' = NothingPrinted /\ table' = table
    BY <1>10 DEF CheckFrame
  <2>2. \/ dump' = NotDumping
        \/ dump'.at = "walk" /\ dump'.first = FALSE /\ dump'.nudge = Nudge
    BY <1>0, <1>10 DEF CheckFrame, DumpTypes
  <2>3. dump'.at \in {"idle", "walk"} /\ dump'.nudge = IF dump'.first THEN 0 ELSE Nudge
    BY <2>2 DEF NotDumping
  <2>4. PrintedFrame' /\ printed'.symbol = NoAnswer
    BY <2>1, <2>3 DEF PrintedFrame, NothingPrinted, Printed
  <2> QED BY <1>1, <2>1, <2>4 DEF Answers
<1>11. CASE UNCHANGED vars
  <2>1. UNCHANGED <<mapped, remapped, table, dump, printed>>
    BY <1>11 DEF vars
  <2>2. PrintedFrame'
    BY <2>1 DEF Answers, PrintedFrame
  <2>3. AddressOf(printed') = AddressOf(printed)
    BY <2>1
  <2>4. SymbolOfAddress'
    BY <2>1, <2>3, SameAnswer DEF Answers
  <2> QED BY <2>1, <2>2, <2>4 DEF Answers
<1> QED
  BY <1>3, <1>4, <1>5, <1>6, <1>7, <1>8, <1>9, <1>10, <1>11 DEF MgwHelpNext, DumpStep

LEMMA MgwHelpInvariance == MgwHelpSpec => []Inv
BY InitInv, StepInv, PTL DEF MgwHelpSpec

\* The lists and the state of the dump keep their types: a lookup puts nothing
\* but a module into the list of the process (mgwhelp_module_lookup), and the
\* stack pointers compared stay unsigned (dumpStack).
THEOREM MgwHelpTyping == MgwHelpSpec => []MgwHelpTypeOK
BY MgwHelpInvariance, PTL DEF Inv

\* MgwSymInitializeW and MgwSymCleanup keep MgwHelp's list of processes and the
\* sessions of DbgHelp in step, whichever of them are refused or fail, for any
\* number of handles.
THEOREM SessionsInStep == MgwHelpSpec => []SessionsPaired
BY MgwHelpInvariance, PTL DEF Inv

\* A process has each of its modules once, and as it is mapped now, also after
\* its handle has been another process's; except at bases mapped anew while
\* MgwHelp had a module for them (mgwhelp_module_lookup).
THEOREM ModulesAreCurrent == MgwHelpSpec => []ModulesCurrent
BY MgwHelpInvariance, PTL DEF Inv

\* Nothing but the mapping objects of destroyed modules is left open, whichever
\* of the calls that create a module and read its DWARF data fails
\* (mgwhelp_module_create, mgwhelp_dwarf_pe_init).
THEOREM OnlyMappingsAreLeft == MgwHelpSpec => []OnlyMappingsLeft
BY MgwHelpInvariance, PTL DEF Inv

LEMMA AnswersInvariance == MgwHelpSpec => []Answers
BY MgwHelpInvariance, InitAnswers, StepAnswers, PTL DEF MgwHelpSpec

\* The function MgwHelp names in a frame of a stack dump is the one at the
\* context's address, or before the return address: by the DWARF data of the
\* image there or of its debug file, or the closest function of its symbol
\* table, for every table of the format (pe_find_symbol, dumpStack's nudge).
THEOREM SymbolsOfAddresses == MgwHelpSpec => []SymbolOfAddress
BY AnswersInvariance, PTL DEF Answers
=============================================================================
