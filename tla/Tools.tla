------------------------------- MODULE Tools --------------------------------
(****************************************************************************)
(* The main functions of the three tools: from the command line to what it  *)
(* makes them do. catchsegv (src/src/catchsegv/catchsegv.cpp) launches a    *)
(* program, addr2line (src/src/addr2line/addr2line.cpp) answers for each    *)
(* address, drmingw (src/src/drmingw/main.cpp) installs itself as the       *)
(* debugger of the system, uninstalls itself, or attaches to a process.     *)
(* The three share the option parser (GetOpt). What the tools do afterwards *)
(* is modelled in CatchSegv and Dialog.                                     *)
(*                                                                          *)
(* The AeDebug key of the registry connects two runs of drmingw: the        *)
(* command the first writes is the one the system starts the second with.   *)
(*                                                                          *)
(* The operators that end in _Slip are what a plausible mistake would make  *)
(* of the definition after them.                                            *)
(****************************************************************************)
EXTENDS GetOpt, CmdLine

CONSTANTS
  Commands,     \* Commands[t]: the command lines, as argv, tool t is run with
  Again,        \* the command lines drmingw is run with a second time
  Views,        \* the registry views install() is called for, in order
  Self,         \* the path of drmingw
  ProcessId,    \* what the system puts for the two %ld of the command
  EventHandle,
  Processes,    \* Processes[name]: the identifier of a running process
  Base,         \* where addr2line's module is loaded
  Word,         \* 2^32 or 2^64: how wide an address is
  ULONG,        \* 2^32: how many values a long has
  ULONGLONG     \* 2^64: how many a long long has

ToolsAssumption ==
  /\ DOMAIN Commands \subseteq {"catchsegv", "addr2line", "drmingw"}
  /\ \A args \in Again \cup UNION {Commands[t] : t \in DOMAIN Commands} :
       args \in Texts /\ Len(args) >= 1
  /\ Views \in Seq({Views[i] : i \in DOMAIN Views}) /\ Views # <<>>
  /\ {Self, ProcessId, EventHandle} \subseteq Text
  /\ NULL \notin Text \cup {"??", "name", "demangled"}
  /\ Base \in Nat /\ {Word, ULONG, ULONGLONG} \subseteq Nat \ {0} /\ ULONG % 2 = 0
ASSUME ToolsAssumption

VARIABLES
  tool,       \* which tool runs
  pc,         \* where it is
  g,          \* getopt's variables, argv among them
  opt,        \* debugOptions and the variables the options set
  aeDebug,    \* the AeDebug key, in each view
  out,        \* addr2line: what has been written for the addresses
  child,      \* catchsegv: the arguments the launched program reads
  typed,      \* history: the command line of the tool
  got,        \* history: the options getopt returned, in order
  view,       \* drmingw: how many views install or uninstall is through with
  asked,      \* history: the options of the command, in each view
  started     \* history: the view whose command the system has started

vars == <<tool, pc, g, opt, aeDebug, out, child, typed, got, view, asked, started>>

-----------------------------------------------------------------------------
(* Numbers, as wcstoul, wcstol and wcstoull read them: blanks, a sign, the  *)
(* digits there are; what is too large becomes the largest. The small       *)
(* letters stand for the capital ones, too.                                 *)

DigitOf == [c \in {"0", "1", "2", "3", "4", "5", "6", "7", "8", "9",
                   "a", "b", "c", "d", "e", "f"} |->
  CASE c = "0" -> 0 [] c = "1" -> 1 [] c = "2" -> 2 [] c = "3" -> 3
    [] c = "4" -> 4 [] c = "5" -> 5 [] c = "6" -> 6 [] c = "7" -> 7
    [] c = "8" -> 8 [] c = "9" -> 9 [] c = "a" -> 10 [] c = "b" -> 11
    [] c = "c" -> 12 [] c = "d" -> 13 [] c = "e" -> 14 [] c = "f" -> 15]

IsDigit(c, base) == c \in DOMAIN DigitOf /\ DigitOf[c] < base

(* The digits at the start of the text; 0 when there are none.              *)
Digits(text, base) ==
  LET n == IF \A i \in 1 .. Len(text) : IsDigit(text[i], base) THEN Len(text)
           ELSE Least({i \in 1 .. Len(text) : ~IsDigit(text[i], base)}) - 1
      v[i \in 0 .. n] == IF i = 0 THEN 0 ELSE v[i - 1] * base + DigitOf[text[i]]
  IN  v[n]

Hex(text) == Len(text) >= 2 /\ SubSeq(text, 1, 2) = <<"0", "x">>
From3(text) == SubSeq(text, 3, Len(text))

Unblanked(text) ==
  LET some == {i \in 1 .. Len(text) : text[i] \notin Blank}
  IN  IF some = {} THEN <<>> ELSE SubSeq(text, Least(some), Len(text))

Negative(text) == Unblanked(text) # <<>> /\ Unblanked(text)[1] = "-"
Unsigned(text) ==
  LET t == Unblanked(text)
  IN  IF t # <<>> /\ t[1] \in {"-", "+"} THEN Tail(t) ELSE t

(* Base 0: by the prefix.                                                   *)
Magnitude(text, base) ==
  LET t == Unsigned(text)
  IN  CASE base \in {0, 16} /\ Hex(t) -> Digits(From3(t), 16)
        [] base = 0 /\ ~Hex(t) /\ t # <<>> /\ t[1] = "0" -> Digits(t, 8)
        [] OTHER -> Digits(t, IF base = 0 THEN 10 ELSE base)

(* The negative of an unsigned number is one, too.                          *)
UnsignedValue(text, base, width) ==
  LET n == Magnitude(text, base)
  IN  IF n >= width THEN width - 1
      ELSE IF Negative(text) THEN (width - n) % width ELSE n

wcstoul(text) == UnsignedValue(text, 0, ULONG)
wcstoull(text, base) == UnsignedValue(text, base, ULONGLONG)

wcstol(text) ==
  LET n == Magnitude(text, 0)
      half == ULONG \div 2
  IN  IF Negative(text) THEN IF n > half THEN -half ELSE -n
      ELSE IF n >= half THEN half - 1 ELSE n

-----------------------------------------------------------------------------
(* The options *)

NoOptions ==
  [verbose_flag |-> FALSE, debug_flag |-> FALSE, first_chance |-> FALSE,
   breakpoint_flag |-> FALSE, minidump |-> FALSE, minidumpDir |-> NULL,
   no_debug_string |-> FALSE, hEvent |-> 0, dwThreadId |-> 0,
   g_TimeOut |-> 0, g_ModalDialogIgnore |-> FALSE, debugHeap |-> FALSE,
   szModule |-> NULL, functions |-> FALSE, demangle |-> FALSE, debug |-> FALSE,
   pretty |-> FALSE, process_id_given |-> FALSE, install_given |-> FALSE,
   uninstall_given |-> FALSE, dwProcessId |-> 0]

CatchSegvOptions == <<"?", "1", "d", "h", "H", "m", "t", ":", "z", "Z", ":", "v", "q">>
Addr2LineOptions == <<"?", "C", "D", "e", ":", "f", "H", "p">>
DrmingwOptions == <<"?", "h", "V", "i", "u", "p", ":", "e", ":", "t", ":", "v", "b", "d">>

DrmingwLongOptions ==
  LET Long(name, has_arg, val) == [name |-> name, has_arg |-> has_arg, val |-> val]
  IN  << Long(<<"h", "e", "l", "p">>, "no", "h"),
         Long(<<"v", "e", "r", "s", "i", "o", "n">>, "no", "V"),
         Long(<<"i", "n", "s", "t", "a", "l", "l">>, "no", "i"),
         Long(<<"u", "n", "i", "n", "s", "t", "a", "l", "l">>, "no", "u"),
         Long(<<"p", "r", "o", "c", "e", "s", "s", "-", "i", "d">>, "required", "p"),
         Long(<<"e", "v", "e", "n", "t">>, "required", "e"),
         Long(<<"t", "i", "d">>, "required", "t"),
         Long(<<"b", "r", "e", "a", "k", "p", "o", "i", "n", "t">>, "no", "b"),
         Long(<<"v", "e", "r", "b", "o", "s", "e">>, "no", "v"),
         Long(<<"d", "e", "b", "u", "g">>, "no", "d") >>

(* A call of the tool's parser.                                             *)
Parsed ==
  CASE tool = "catchsegv" -> getoptW(g, CatchSegvOptions)
    [] tool = "addr2line" -> getoptW(g, Addr2LineOptions)
    [] tool = "drmingw"   -> getoptW_long_only(g, DrmingwOptions, DrmingwLongOptions)

Options(r, options, next) ==
  /\ g' = r.g
  /\ got' = IF r.ret = "done" THEN got ELSE Append(got, <<r.ret, r.g.optarg>>)
  /\ opt' = options
  /\ pc' = next
  /\ UNCHANGED <<tool, aeDebug, out, child, typed, view, asked, started>>

(* catchsegv: an option that is not known ends the loop, like the last one. *)
CatchSegvOption ==
  /\ tool = "catchsegv" /\ pc = "options"
  /\ \E r \in {Parsed} :
       LET c == r.ret
           a == r.g.optarg
       IN
       CASE c = "h" \/ (c = "?" /\ r.g.optopt = "?") -> Options(r, opt, "usage")
         [] c = "v" -> Options(r, [opt EXCEPT !.verbose_flag = TRUE], pc)
         [] c = "d" -> Options(r, [opt EXCEPT !.debug_flag = TRUE], pc)
         [] c = "1" -> Options(r, [opt EXCEPT !.first_chance = TRUE], pc)
         [] c = "m" -> Options(r, [opt EXCEPT !.g_ModalDialogIgnore = TRUE], pc)
         [] c = "t" -> Options(r, [opt EXCEPT !.g_TimeOut = wcstoul(a)], pc)
         [] c = "H" -> Options(r, [opt EXCEPT !.debugHeap = TRUE], pc)
         [] c = "z" -> Options(r, [opt EXCEPT !.minidump = TRUE], pc)
         [] c = "Z" -> Options(r, [opt EXCEPT !.minidump = TRUE, !.minidumpDir = a], pc)
         [] c = "q" -> Options(r, [opt EXCEPT !.no_debug_string = TRUE], pc)
         [] OTHER   -> Options(r, opt, "launch")

Addr2LineOption ==
  /\ tool = "addr2line" /\ pc = "options"
  /\ \E r \in {Parsed} :
       LET c == r.ret
       IN
       CASE c = "C" -> Options(r, [opt EXCEPT !.demangle = TRUE], pc)
         [] c = "D" -> Options(r, [opt EXCEPT !.debug = TRUE], pc)
         [] c = "e" -> Options(r, [opt EXCEPT !.szModule = r.g.optarg], pc)
         [] c = "f" -> Options(r, [opt EXCEPT !.functions = TRUE], pc)
         [] c = "H" -> Options(r, opt, "usage")
         [] c = "p" -> Options(r, [opt EXCEPT !.pretty = TRUE], pc)
         [] c = "done" -> Options(r, opt, IF opt.szModule = NULL THEN "failed" ELSE "load")
         [] OTHER -> Options(r, opt, "failed")

getProcessIdByName(name) == IF name \in DOMAIN Processes THEN Processes[name] ELSE 0

(* -p: an identifier, or a name, which also asks for breakpoints.           *)
ProcessGiven(a) ==
  LET number == a # <<>> /\ IsDigit(a[1], 10)
  IN  [opt EXCEPT !.process_id_given = TRUE,
                  !.breakpoint_flag = @ \/ ~number,
                  !.dwProcessId = IF number THEN wcstoul(a) ELSE getProcessIdByName(a)]

DrmingwOption ==
  /\ tool = "drmingw" /\ pc = "options"
  /\ \E r \in {Parsed} :
       LET c == r.ret
           a == r.g.optarg
       IN
       CASE c = "?" /\ r.g.optopt # "?" -> Options(r, opt, "failed")
         [] c \in {"h", "V"} \/ (c = "?" /\ r.g.optopt = "?") -> Options(r, opt, "usage")
         [] c = "i" -> IF opt.uninstall_given THEN Options(r, opt, "conflict")
                       ELSE Options(r, [opt EXCEPT !.install_given = TRUE], pc)
         [] c = "u" -> IF opt.install_given THEN Options(r, opt, "conflict")
                       ELSE Options(r, [opt EXCEPT !.uninstall_given = TRUE], pc)
         [] c = "p" -> IF opt.process_id_given THEN Options(r, opt, "failed")
                       ELSE Options(r, ProcessGiven(a),
                                    IF ProcessGiven(a).dwProcessId = 0 THEN "failed" ELSE pc)
         [] c = "e" -> IF opt.hEvent # 0 THEN Options(r, opt, "failed")
                       ELSE Options(r, [opt EXCEPT !.hEvent = wcstol(a)], pc)
         [] c = "t" -> Options(r, [opt EXCEPT !.dwThreadId = wcstoul(a)], pc)
         [] c = "b" -> Options(r, [opt EXCEPT !.breakpoint_flag = TRUE], pc)
         [] c = "v" -> Options(r, [opt EXCEPT !.verbose_flag = TRUE], pc)
         [] c = "d" -> Options(r, [opt EXCEPT !.debug_flag = TRUE], pc)
         [] c = "done" ->
              Options(r, opt, CASE opt.install_given -> "install"
                                [] ~opt.install_given /\ opt.uninstall_given -> "uninstall"
                                [] ~opt.install_given /\ ~opt.uninstall_given
                                     /\ opt.process_id_given -> "attach"
                                [] OTHER -> "usage")
         [] OTHER -> Options(r, opt, "failed")

-----------------------------------------------------------------------------
(* The actions after the options. What a tool leaves alone: *)

Parsing == <<tool, g, opt, typed, got, started>>
Goes(next) == pc' = next

(* catchsegv: what getopt has left is the command line of the program.      *)
Rest == SubSeq(g.argv, g.optind + 1, Len(g.argv))

Launch ==
  /\ tool = "catchsegv" /\ pc = "launch"
  /\ \/ /\ commandLine(Rest) # <<>>
        /\ child' = ArgumentsOf(commandLine(Rest))
        /\ Goes("timer")
     \/ /\ child' = child          \* no command line, or CreateProcess fails
        /\ Goes("failed")
  /\ UNCHANGED <<Parsing, aeDebug, out, view, asked>>

(* The timer queue and the timer, and then the debug loop.                  *)
StartTimer ==
  /\ tool = "catchsegv" /\ pc = "timer"
  /\ \/ Goes("debugging")
     \/ Goes("failed")
  /\ UNCHANGED <<Parsing, aeDebug, out, child, view, asked>>

(* addr2line: the module, the symbol session, one line per address.         *)
LoadModule ==
  /\ tool = "addr2line" /\ pc = "load"
  /\ \/ Goes("symbols")
     \/ Goes("failed")
  /\ UNCHANGED <<Parsing, aeDebug, out, child, view, asked>>

(* A module without symbols is only warned about.                           *)
InitSymbols ==
  /\ tool = "addr2line" /\ pc = "symbols"
  /\ \/ Goes("addresses")
     \/ Goes("failed")
  /\ UNCHANGED <<Parsing, aeDebug, out, child, view, asked>>

RelAddr(arg) == IF Hex(arg) THEN wcstoull(From3(arg), 16) ELSE wcstoull(arg, 10)

(* function: what SymFromAddr and UnDecorateSymbolName give.                *)
Functions ==
  IF ~opt.functions THEN {NULL}
  ELSE {"??", "name"} \cup (IF opt.demangle THEN {"demangled"} ELSE {})

Answer_Slip ==
  /\ tool = "addr2line" /\ pc = "addresses"
  /\ g.optind < argc(g)
  /\ \E function \in Functions, line \in {"??:?", "file:line"} :
       out' = IF line = "??:?" THEN out
              ELSE Append(out, [addr |-> (Base + RelAddr(Arg(g, g.optind))) % Word,
                                function |-> function, line |-> line])
  /\ g' = [g EXCEPT !.optind = @ + 1]
  /\ UNCHANGED <<tool, pc, opt, aeDebug, child, typed, got, view, asked, started>>

Answer ==
  /\ tool = "addr2line" /\ pc = "addresses"
  /\ g.optind < argc(g)
  /\ \E function \in Functions, line \in {"??:?", "file:line"} :
       out' = Append(out, [addr |-> (Base + RelAddr(Arg(g, g.optind))) % Word,
                           function |-> function, line |-> line])
  /\ g' = [g EXCEPT !.optind = @ + 1]
  /\ UNCHANGED <<tool, pc, opt, aeDebug, child, typed, got, view, asked, started>>

Cleanup ==
  /\ tool = "addr2line" /\ pc = "addresses"
  /\ g.optind >= argc(g)
  /\ Goes("answered")
  /\ UNCHANGED <<Parsing, aeDebug, out, child, view, asked>>

-----------------------------------------------------------------------------
(* drmingw: install and uninstall, one view of the registry at a time *)

(* GetModuleFileNameW cuts off what has no place in a buffer of MAX_PATH.   *)
MAX_PATH == 260
szFile == IF Len(Self) < MAX_PATH THEN Self ELSE SubSeq(Self, 1, MAX_PATH - 1)

Command_Slip ==
  LET If(flag, letter) == IF flag THEN <<Space, "-", letter>> ELSE <<>>
  IN  szFile \o <<Space, "-", "p", Space, "%ld", Space, "-", "e", Space, "%ld">>
        \o If(opt.verbose_flag, "v") \o If(opt.breakpoint_flag, "b")
        \o If(opt.debug_flag, "d")

Command ==
  LET If(flag, letter) == IF flag THEN <<Space, "-", letter>> ELSE <<>>
  IN  <<Quote>> \o szFile
        \o <<Quote, Space, "-", "p", Space, "%ld", Space, "-", "e", Space, "%ld">>
        \o If(opt.verbose_flag, "v") \o If(opt.breakpoint_flag, "b")
        \o If(opt.debug_flag, "d")

Asked == [verbose_flag |-> opt.verbose_flag, breakpoint_flag |-> opt.breakpoint_flag,
          debug_flag |-> opt.debug_flag]

(* The next view, unless this was the last one.                             *)
ViewDone_Slip(outcome) ==
  /\ view' = view
  /\ pc' = outcome

ViewDone(outcome) ==
  /\ view' = view + 1
  /\ pc' = IF view + 1 = Len(Views) THEN outcome ELSE pc

(* install: nothing is written, Debugger is, or Debugger and Auto are.      *)
Install ==
  LET v == Views[view + 1] IN
  /\ tool = "drmingw" /\ pc = "install"
  /\ \/ /\ Goes("failed")
        /\ UNCHANGED <<aeDebug, asked, view>>
     \/ /\ Goes("failed")
        /\ aeDebug' = [aeDebug EXCEPT ![v].Debugger = Command]
        /\ asked' = [asked EXCEPT ![v] = Asked]
        /\ UNCHANGED view
     \/ /\ ViewDone("installed")
        /\ aeDebug' = [aeDebug EXCEPT ![v] = [Debugger |-> Command, Auto |-> "1"]]
        /\ asked' = [asked EXCEPT ![v] = Asked]
  /\ UNCHANGED <<Parsing, out, child>>

(* uninstall: the key has to exist; Auto stays as it is.                    *)
Uninstall ==
  LET v == Views[view + 1] IN
  /\ tool = "drmingw" /\ pc = "uninstall"
  /\ \/ /\ Goes("failed")
        /\ UNCHANGED <<aeDebug, asked, view>>
     \/ /\ ViewDone("uninstalled")
        /\ aeDebug' = [aeDebug EXCEPT ![v].Debugger = <<>>]
        /\ asked' = [asked EXCEPT ![v] = NULL]
  /\ UNCHANGED <<Parsing, out, child>>

-----------------------------------------------------------------------------
(* External: another run of drmingw, by the user or by the system. *)

Final == {"usage", "conflict", "failed", "debugging", "answered",
          "installed", "uninstalled", "attach"}

Run(args) ==
  /\ typed' = args /\ g' = Fresh(args) /\ got' = <<>>
  /\ opt' = [NoOptions EXCEPT !.first_chance = TRUE]
  /\ pc' = "options" /\ view' = 0
  /\ UNCHANGED <<tool, aeDebug, out, child, asked>>

RunAgain ==
  /\ tool = "drmingw" /\ pc \in Final /\ started = NULL
  /\ \E v \in DOMAIN asked : asked[v] # NULL
  /\ \E args \in Again : args # typed /\ Run(args)
  /\ UNCHANGED started

(* A program of that view crashes: %ld becomes its identifier and an event. *)
Substituted(command) ==
  LET at == {i \in 1 .. Len(command) : command[i] = "%ld"}
      p  == Least(at)
      e  == Least(at \ {p})
  IN  SubSeq(command, 1, p - 1) \o ProcessId \o SubSeq(command, p + 1, e - 1)
        \o EventHandle \o SubSeq(command, e + 1, Len(command))

SystemStarts ==
  /\ tool = "drmingw" /\ pc \in Final /\ started = NULL
  /\ \E v \in DOMAIN asked :
       /\ asked[v] # NULL
       /\ started' = v
       /\ Run(ArgumentsOf(Substituted(aeDebug[v].Debugger)))

-----------------------------------------------------------------------------
Init ==
  /\ tool \in DOMAIN Commands
  /\ typed \in Commands[tool]
  /\ pc = "options"
  /\ g = Fresh(typed)
  /\ opt = [NoOptions EXCEPT !.first_chance = (tool = "drmingw")]
  /\ aeDebug = [v \in {Views[i] : i \in DOMAIN Views} |-> [Debugger |-> <<>>, Auto |-> "0"]]
  /\ asked = [v \in DOMAIN aeDebug |-> NULL]
  /\ out = <<>> /\ child = NULL /\ got = <<>> /\ view = 0 /\ started = NULL

Ended == pc \in Final /\ UNCHANGED vars

Next ==
  \/ CatchSegvOption \/ Launch \/ StartTimer
  \/ Addr2LineOption \/ LoadModule \/ InitSymbols \/ Answer \/ Cleanup
  \/ DrmingwOption \/ Install \/ Uninstall
  \/ RunAgain \/ SystemStarts
  \/ Ended

Spec == Init /\ [][Next]_vars

-----------------------------------------------------------------------------
(* What a command line means, independently of how getopt goes about it:    *)
(* the options in order, the operands in order, or not ok. The meaning of   *)
(* the arguments from the k-th on is m[k]. An option makes it out of the    *)
(* meaning m1 of those after its own, or, when it takes the next argument,  *)
(* out of the meaning m2 of those after that one.                           *)

Nothing == [ok |-> TRUE, opts |-> <<>>, operands |-> <<>>]
Wrong == [ok |-> FALSE, opts |-> <<>>, operands |-> <<>>]

WithOption(c, arg, m) == [m EXCEPT !.opts = <<<<c, arg>>>> \o @]

IsOption(c, optstring) == c # ":" /\ \E i \in DOMAIN optstring : optstring[i] = c
Takes(c, optstring) ==
  \E i \in 1 .. Len(optstring) - 1 : optstring[i] = c /\ optstring[i + 1] = ":"

ByNext(c, args, k, m2) ==
  IF k < Len(args) THEN WithOption(c, args[k + 1], m2) ELSE Wrong

(* The options of the k-th argument, from its j-th character on; rest is    *)
(* what those from the next on mean.                                        *)
GroupStep(args, k, optstring, m1, m2, j, rest) ==
  LET c == args[k][j]
      last == j = Len(args[k])
  IN  CASE ~IsOption(c, optstring) -> Wrong
        [] IsOption(c, optstring) /\ ~Takes(c, optstring) ->
             WithOption(c, NULL, IF last THEN m1 ELSE rest)
        [] IsOption(c, optstring) /\ Takes(c, optstring) /\ ~last ->
             WithOption(c, SubSeq(args[k], j + 1, Len(args[k])), m1)
        [] OTHER -> ByNext(c, args, k, m2)

GroupMeaning(args, k, optstring, m1, m2) ==
  LET group[j \in 2 .. Len(args[k])] ==
        GroupStep(args, k, optstring, m1, m2, j, group[j + 1])
  IN  group

(* The long option a text names: exactly, or as the only one it begins.     *)
LongNamed(text, longopts) ==
  LET Starts(name, stem) == Len(stem) <= Len(name) /\ SubSeq(name, 1, Len(stem)) = stem
      exact == {i \in DOMAIN longopts : longopts[i].name = Stem(text)}
      some  == {i \in DOMAIN longopts : Starts(longopts[i].name, Stem(text))}
  IN  IF exact # {} THEN exact ELSE {i \in some : \A j \in some : j = i}

LongMeaning(o, text, args, k, m1, m2) ==
  CASE Assigned(text) # NULL ->
         IF o.has_arg = "no" THEN Wrong ELSE WithOption(o.val, Assigned(text), m1)
    [] Assigned(text) = NULL /\ o.has_arg = "required" -> ByNext(o.val, args, k, m2)
    [] OTHER -> WithOption(o.val, NULL, m1)

ArgMeaning(args, k, optstring, longopts, m1, m2) ==
  LET arg == args[k]
      dashes == IF arg[2] = "-" THEN 2 ELSE 1
      text == SubSeq(arg, dashes + 1, Len(arg))
  IN  CASE arg = <<"-", "-">> ->
             [Nothing EXCEPT !.operands = SubSeq(args, k + 1, Len(args))]
        [] ~is_option(arg) -> [m1 EXCEPT !.operands = <<arg>> \o @]
        [] OTHER ->
             IF longopts # <<>> /\ LongNamed(text, longopts) # {}
             THEN LongMeaning(longopts[Least(LongNamed(text, longopts))], text, args, k, m1, m2)
             ELSE IF dashes = 2 THEN Wrong
             ELSE GroupMeaning(args, k, optstring, m1, m2)[2]

MeaningFrom(args, optstring, longopts) ==
  LET m[k \in 2 .. Len(args) + 2] ==
        IF k > Len(args) THEN Nothing
        ELSE ArgMeaning(args, k, optstring, longopts, m[k + 1], m[k + 2])
  IN  m

Meaning(args, optstring, longopts) == MeaningFrom(args, optstring, longopts)[2]

Meant ==
  CASE tool = "catchsegv" -> Meaning(typed, CatchSegvOptions, <<>>)
    [] tool = "addr2line" -> Meaning(typed, Addr2LineOptions, <<>>)
    [] tool = "drmingw"   -> Meaning(typed, DrmingwOptions, DrmingwLongOptions)

-----------------------------------------------------------------------------
(* Properties *)

(* The indices getopt keeps between calls stay within argv, so that every   *)
(* argv[k] it reads or moves exists (getoptW.c: argv[optmark = argind],     *)
(* arglist[optmark + optspan]), and the options permuted to the front are   *)
(* behind the one read last.                                                *)
ToolsTypeOK ==
  /\ pc \in Final \cup {"options", "launch", "timer", "load", "symbols", "addresses",
                         "install", "uninstall"}
  /\ g.argind \in 0 .. argc(g)
  /\ g.optbase \in 0 .. argc(g)
  /\ g.optmark \in 0 .. argc(g)
  /\ g.optind \in 1 .. argc(g)
  /\ g.optbase <= g.argind + 1
  /\ view \in 0 .. Len(Views)

(* When the options have been read, what getopt returned call by call and   *)
(* what it left in the permuted argv are the options and the operands the   *)
(* command line means, whatever their order, grouping, abbreviation and     *)
(* attachment (getoptW_parse, the wmain loops).                             *)
ArgumentsMeant ==
  pc \in {"launch", "load", "install", "uninstall", "attach"} =>
    \/ /\ Meant.ok
       /\ got = Meant.opts
       /\ Rest = Meant.operands
    \/ ~Meant.ok /\ tool = "catchsegv"

(* The program catchsegv launches reads the arguments that were given to    *)
(* catchsegv for it, in spite of being passed as one string                 *)
(* (needsQuote, quoteArg and the loop of wmain), but for those Carried      *)
(* excepts.                                                                 *)
ProgramGetsItsArguments ==
  /\ child # NULL
  /\ Meant.ok
  /\ \A i \in DOMAIN Meant.operands : Carried(Meant.operands[i])
  => child = Meant.operands

(* addr2line answers for each address it was given, in the order given,     *)
(* wherever the options were (the loop over optind of wmain).               *)
OneAnswerPerAddress ==
  pc = "answered" =>
    /\ Len(out) = Len(Meant.operands)
    /\ \A i \in DOMAIN out :
         /\ out[i].addr = (Base + RelAddr(Meant.operands[i])) % Word
         /\ (out[i].function = NULL) = (<<"f", NULL>> \notin {got[j] : j \in DOMAIN got})

(* After "has been installed" or "has been uninstalled" every view of the   *)
(* registry is what the message says, also when an earlier run had failed   *)
(* half way (wmain, install, uninstall).                                    *)
MessageTrue ==
  /\ pc = "installed" =>
       \A v \in DOMAIN aeDebug : aeDebug[v] = [Debugger |-> Command, Auto |-> "1"]
  /\ pc = "uninstalled" => \A v \in DOMAIN aeDebug : aeDebug[v].Debugger = <<>>

(* What an installation looks like: drmingw has a path that fits szFile, a  *)
(* file name does not end in a backslash and has no quote, and none of it   *)
(* reads as the number the system fills in; the process and the event are   *)
(* positive numbers of a signed long, in decimal (%ld).                     *)
Decimal == {"0", "1", "2", "3", "4", "5", "6", "7", "8", "9"}
OrdinaryInstallation ==
  /\ Self # <<>> /\ Len(Self) < MAX_PATH /\ Self[Len(Self)] # Backslash
  /\ \A i \in 1..Len(Self) : Self[i] \notin {Quote, "%ld"}
  /\ \A number \in {ProcessId, EventHandle} :
       /\ number \in Seq(Decimal) \ {<<>>} /\ number[1] # "0"
       /\ Digits(number, 10) \in 1 .. (ULONG \div 2 - 1)

(* The command drmingw has written to the registry means to the drmingw the *)
(* system starts with it what the user asked for when installing: the path  *)
(* and its blanks, the flags, and the numbers the system has filled in      *)
(* survive both conversions (install, getoptW_long_only, wmain).            *)
StartedAsInstalled ==
  started # NULL /\ pc # "options" =>
    /\ pc = "attach"
    /\ Len(g.argv) > 0 /\ g.argv[1] = Self
    /\ Asked = asked[started]
    /\ opt.dwProcessId = Digits(ProcessId, 10)
    /\ opt.hEvent = Digits(EventHandle, 10)
=============================================================================
