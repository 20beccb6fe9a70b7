------------------------------- MODULE GetOpt -------------------------------
(****************************************************************************)
(* The option parser of the tools, src/thirdparty/getoptW/getoptW.c.        *)
(*                                                                          *)
(* A command line argument is a sequence of characters. The public globals  *)
(* and the static variables of getoptW_parse() are the fields of one record *)
(* g; a call is the operator getoptW_parse, which gives the record after it *)
(* and the value returned. argv is permuted in place. An index of C's argv  *)
(* counts from 0: Arg(g, k) is argv[k].                                     *)
(*                                                                          *)
(* nextchar is the text still to be read; the code only ever asks whether   *)
(* there is any, so <<>> stands both for NULL and for the end of the text.  *)
(* Messages are left out (opterr). A long option of the tools has no flag,  *)
(* and the environment does not set POSIXLY_CORRECT.                        *)
(*                                                                          *)
(* The operators that end in _Slip are what a plausible mistake would make  *)
(* of the definition after them.                                            *)
(****************************************************************************)
EXTENDS Integers, Sequences

CONSTANT NULL      \* no argument

(* The globals before the first call.                                       *)
Fresh(args) ==
  [argv |-> args, optind |-> 1, optarg |-> NULL, optopt |-> "?",
   argind |-> 0, optbase |-> 0, nextchar |-> <<>>, optmark |-> 0]

argc(g) == Len(g.argv)
Arg(g, k) == g.argv[k + 1]

(* More than a bare hyphen after a switch character.                        *)
is_option(arg) == Len(arg) > 1 /\ arg[1] = "-"

Least(S) == CHOOSE i \in S : \A j \in S : i <= j

-----------------------------------------------------------------------------
(* Short options: optstring is the sequence of option characters, each      *)
(* followed by ":" when it takes an argument and "::" when it may.          *)

Flags(optstring) == IF optstring # <<>> /\ optstring[1] \in {"+", "-"} THEN 1 ELSE 0

(* The place of a character in optstring, 0 when it is no option.           *)
getoptW_match(c, optstring) ==
  LET skip == Flags(optstring)
      from == IF Len(optstring) > skip /\ optstring[skip + 1] = ":"
              THEN skip + 2 ELSE skip + 1
      at   == {i \in from .. Len(optstring) : optstring[i] = c}
  IN  IF at = {} THEN 0 ELSE Least(at)

takes_argument(i, optstring) == i < Len(optstring) /\ optstring[i + 1] = ":"

getoptW_missing_arg(optstring) ==
  LET i == Flags(optstring) + 1
  IN  IF i <= Len(optstring) /\ optstring[i] = ":" THEN ":" ELSE "?"

(* Whether a text that is no long option is a group of short ones.          *)
getoptW_verify(text, optstring) ==
  \E k \in 1 .. Len(text) :
    /\ \A j \in 1 .. k : getoptW_match(text[j], optstring) # 0
    /\ k = Len(text) \/ takes_argument(getoptW_match(text[k], optstring), optstring)

(* The option argument that is not attached: the next element of argv.      *)
WithNextArg(g, c, optstring) ==
  IF argc(g) - g.argind > 1
  THEN [g |-> [g EXCEPT !.optarg = Arg(g, g.argind + 1), !.argind = @ + 1,
                        !.optind = g.argind + 2, !.nextchar = <<>>],
        ret |-> c]
  ELSE [g |-> [g EXCEPT !.optarg = <<>>], ret |-> getoptW_missing_arg(optstring)]

(* One character of a group of short options.                               *)
ShortOption(g, mode, optstring) ==
  LET c    == Head(g.nextchar)
      rest == Tail(g.nextchar)
      at   == getoptW_match(c, optstring)
      next == IF rest # <<>> THEN g.argind ELSE g.argind + 1
      read == [g EXCEPT !.nextchar = rest, !.optopt = c]
      done == [read EXCEPT !.optind = g.argind + 1, !.nextchar = <<>>]
  IN  CASE at = 0 /\ mode = "long_only" ->
             [g |-> [done EXCEPT !.optopt = NULL], ret |-> "?"]
        [] at = 0 /\ mode # "long_only" ->
             [g |-> [read EXCEPT !.optind = next], ret |-> "?"]
        [] at # 0 /\ ~takes_argument(at, optstring) ->
             [g |-> [read EXCEPT !.optarg = NULL, !.optind = next], ret |-> c]
        [] at # 0 /\ takes_argument(at, optstring) /\ rest # <<>> ->
             [g |-> [done EXCEPT !.optarg = rest], ret |-> c]
        [] at # 0 /\ takes_argument(at, optstring) /\ rest = <<>> ->
             IF takes_argument(at + 1, optstring)
             THEN [g |-> [done EXCEPT !.optarg = NULL], ret |-> c]
             ELSE WithNextArg(read, c, optstring)

-----------------------------------------------------------------------------
(* Long options: a sequence of [name, has_arg, val], has_arg one of "no",   *)
(* "required" and "optional". The names contain no "=".                     *)

Assign(text) == {i \in 1 .. Len(text) : text[i] = "="}
Stem(text) == IF Assign(text) = {} THEN text ELSE SubSeq(text, 1, Least(Assign(text)) - 1)
Assigned(text) == IF Assign(text) = {} THEN NULL
                  ELSE SubSeq(text, Least(Assign(text)) + 1, Len(text))

getoptW_match_long(text, name) ==
  LET stem == Stem(text)
  IN  CASE stem = name -> "exact"
        [] stem # name /\ Len(stem) < Len(name) /\ SubSeq(name, 1, Len(stem)) = stem
             -> "abbreviated"
        [] OTHER -> "none"

getoptW_argerror(g, opt, retval) == [g |-> [g EXCEPT !.optopt = opt.val], ret |-> retval]

getoptW_resolved(g, opt, optstring) ==
  LET s == [g EXCEPT !.optind = g.argind + 1, !.nextchar = <<>>]
  IN  CASE s.optarg # NULL /\ opt.has_arg = "no" -> getoptW_argerror(s, opt, "?")
        [] s.optarg = NULL /\ opt.has_arg = "required" ->
             IF s.optind < argc(s)
             THEN [g |-> [s EXCEPT !.optarg = Arg(s, s.optind), !.argind = s.optind,
                                   !.optind = s.optind + 1],
                   ret |-> opt.val]
             ELSE getoptW_argerror(s, opt, getoptW_missing_arg(optstring))
        [] OTHER -> [g |-> s, ret |-> opt.val]

(* No, or more than one, long option: the argument is skipped.              *)
NotResolved(g) ==
  [g |-> [g EXCEPT !.optopt = NULL, !.nextchar = <<>>, !.optind = g.argind + 1],
   ret |-> "?"]

(* The list is searched in order. An exact match ends the search, and so    *)
(* does a second abbreviation.                                              *)
LongOption(g, mode, text, optstring, longopts) ==
  LET Matches(how) == {i \in DOMAIN longopts :
                         getoptW_match_long(text, longopts[i].name) = how}
      abbreviated  == Matches("abbreviated")
      decisive     == Matches("exact")
                        \cup {i \in abbreviated : \E j \in abbreviated : j < i}
      s     == [g EXCEPT !.nextchar = text,
                         !.optarg = IF Matches("exact") \cup abbreviated = {}
                                    THEN NULL ELSE Assigned(text)]
      short == mode = "long_only" /\ getoptW_verify(text, optstring)
  IN  CASE decisive # {} /\ Least(decisive) \notin abbreviated ->
             getoptW_resolved(s, longopts[Least(decisive)], optstring)
        [] decisive = {} /\ abbreviated # {} ->
             getoptW_resolved(s, longopts[Least(abbreviated)], optstring)
        [] OTHER ->
             IF short THEN ShortOption(s, mode, optstring) ELSE NotResolved(s)

-----------------------------------------------------------------------------
(* The caller has moved optind since the last call.                         *)
Resumed(g) ==
  LET first == IF g.optind < 1 THEN 1 ELSE g.optind
  IN  CASE g.optind < 1 \/ g.optind < g.optbase ->
             [g EXCEPT !.optind = first, !.optmark = first - 1, !.optbase = first - 1,
                       !.argind = first - 1, !.nextchar = <<>>]
        [] g.optind >= 1 /\ g.optind >= g.optbase /\ g.optind > g.argind + 1 ->
             [g EXCEPT !.argind = g.optind - 1, !.nextchar = <<>>]
        [] OTHER -> g

(* The elements from..to of argv move in front of those from `base' on.     *)
Moved(args, base, from, to) ==
  SubSeq(args, 1, base) \o SubSeq(args, from + 1, to + 1)
    \o SubSeq(args, base + 1, from) \o SubSeq(args, to + 2, Len(args))

(* The last option, with its argument, moves in front of the operands that  *)
(* were skipped to find it.                                                 *)
Permuted_Slip2(g) ==
  IF g.optmark > g.optbase
  THEN [g EXCEPT !.argv = Moved(g.argv, g.optbase, g.optmark, g.optmark),
                 !.optbase = @ + 1,
                 !.optmark = g.optbase - 1]
  ELSE [g EXCEPT !.optbase = g.argind + 1]

Permuted_Slip1(g) ==
  IF g.optmark > g.optbase
  THEN [g EXCEPT !.argv = Moved(g.argv, g.optbase, g.optmark, g.argind),
                 !.optbase = @ + g.argind + 1,
                 !.optmark = g.optbase - 1]
  ELSE [g EXCEPT !.optbase = g.argind + 1]

Permuted(g) ==
  IF g.optmark > g.optbase
  THEN [g EXCEPT !.argv = Moved(g.argv, g.optbase, g.optmark, g.argind),
                 !.optbase = @ + g.argind - g.optmark + 1,
                 !.optmark = g.optbase - 1]
  ELSE [g EXCEPT !.optbase = g.argind + 1]

(* The end marker moves in front of the operands skipped before it.         *)
EndOfOptions(g) ==
  [g |-> [g EXCEPT !.argv = IF g.optmark > g.optbase
                            THEN Moved(g.argv, g.optbase, g.optmark, g.optmark) ELSE @,
                   !.optmark = IF g.optmark > g.optbase THEN g.optbase - 1 ELSE @,
                   !.optbase = @ + 1, !.optind = g.optbase + 1],
   ret |-> "done"]

(* The argument at argind looks like an option.                             *)
Candidate(g, mode, optstring, longopts) ==
  LET arg  == Arg(g, g.argind)
      text == SubSeq(arg, 2, Len(arg))
  IN  CASE arg = <<"-", "-">> -> EndOfOptions(g)
        [] arg # <<"-", "-">> /\ arg[2] = "-" /\ mode # "standard" ->
             LongOption(g, "long", SubSeq(arg, 3, Len(arg)), optstring, longopts)
        [] arg[2] # "-" /\ mode = "long_only" ->
             LongOption(g, mode, text, optstring, longopts)
        [] OTHER -> ShortOption([g EXCEPT !.nextchar = text], "standard", optstring)

(* The scan goes on to the next candidate. An operand is skipped, or ends   *)
(* the scan ("+"), or is returned as if it were an option ("-"). nextchar   *)
(* is left behind the hyphen or at the text of the last operand skipped:    *)
(* the tools never call again after the end or an error.                    *)
Scan(g, mode, optstring, longopts) ==
  LET found == {k \in g.argind + 1 .. argc(g) - 1 : is_option(Arg(g, k))}
      next  == g.argind + 1
      stop  == optstring # <<>> /\ optstring[1] \in {"+", "-"}
                 /\ next < argc(g) /\ next \notin found
      Left(k) == IF Arg(g, k) = <<"-">> THEN <<>> ELSE Arg(g, k)
      At(k) == [g EXCEPT !.argind = k, !.optmark = k, !.nextchar = Left(k)]
  IN  CASE stop /\ optstring[1] = "-" ->
             [g |-> [At(next) EXCEPT !.nextchar = <<>>, !.optind = next + 1,
                                     !.optarg = Arg(g, next)],
              ret |-> "ordered"]
        [] stop /\ optstring[1] = "+" ->
             [g |-> [At(next) EXCEPT !.optind = g.optbase], ret |-> "done"]
        [] ~stop /\ found = {} ->
             LET last == IF next < argc(g) THEN At(argc(g) - 1) ELSE g
             IN  [g |-> [last EXCEPT !.argind = argc(g), !.optind = g.optbase],
                  ret |-> "done"]
        [] ~stop /\ found # {} -> Candidate(At(Least(found)), mode, optstring, longopts)

getoptW_parse(g, mode, optstring, longopts) ==
  LET s == Resumed(g)
  IN  IF s.nextchar # <<>>
      THEN ShortOption(s, mode, optstring)
      ELSE Scan(Permuted(s), mode, optstring, longopts)

getoptW(g, optstring) == getoptW_parse(g, "standard", optstring, <<>>)
getoptW_long(g, optstring, longopts) == getoptW_parse(g, "long", optstring, longopts)
getoptW_long_only(g, optstring, longopts) == getoptW_parse(g, "long_only", optstring, longopts)
=============================================================================
