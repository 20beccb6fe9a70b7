------------------------------ MODULE CmdLine -------------------------------
(****************************************************************************)
(* How catchsegv writes the command line of the program it launches         *)
(* (src/src/catchsegv/catchsegv.cpp) and how that program reads it back.    *)
(* Arguments and command lines are sequences of characters.                 *)
(****************************************************************************)
EXTENDS Integers, Sequences

Quote == "\""
Backslash == "\\"
Space == " "
Blank == {Space, "TAB"}

(* Any, and by name those the tools write themselves.                       *)
Character == STRING \cup {Space, Backslash, Quote, "-", "p", "e", "v", "b", "d", "%ld"}
Text == Seq(Character)
Texts == Seq(Text)

-----------------------------------------------------------------------------
(* catchsegv *)

(* The positions of an argument the scan of needsQuote gets to: it steps    *)
(* over what follows a backslash.                                           *)
LookedAt(arg) ==
  LET at[i \in 0 .. Len(arg)] ==
        CASE i = 0 -> {}
          [] i > 0 /\ i - 1 \in at[i - 1] /\ arg[i - 1] = Backslash -> at[i - 1]
          [] OTHER -> at[i - 1] \cup {i}
  IN  at[Len(arg)]

(* What follows a backslash does count when it is a quote.                  *)
needsQuote(arg) ==
  \E i \in LookedAt(arg) :
    \/ arg[i] \in Blank \cup {Quote}
    \/ arg[i] = Backslash /\ i < Len(arg) /\ arg[i + 1] = Quote

Backslashes(n) == [i \in 1 .. n |-> Backslash]

(* The length of the run of backslashes that ends at position i.            *)
RunTo(arg) ==
  LET r[i \in 0 .. Len(arg)] ==
        IF i > 0 /\ arg[i] = Backslash THEN r[i - 1] + 1 ELSE 0
  IN  r

(* quoteArg: a quote is escaped, and so are the backslashes right before it.*)
quoteArg_Slip(arg) ==
  LET q[i \in 0 .. Len(arg)] ==
        CASE i = 0 -> <<Quote>>
          [] i > 0 /\ arg[i] = Quote -> q[i - 1] \o <<Backslash, Quote>>
          [] OTHER -> Append(q[i - 1], arg[i])
  IN  Append(q[Len(arg)], Quote)

quoteArg(arg) ==
  LET q[i \in 0 .. Len(arg)] ==
        CASE i = 0 -> <<Quote>>
          [] i > 0 /\ arg[i] = Quote ->
               q[i - 1] \o Backslashes(RunTo(arg)[i - 1]) \o <<Backslash, Quote>>
          [] OTHER -> Append(q[i - 1], arg[i])
  IN  Append(q[Len(arg)], Quote)

Written(arg) == IF needsQuote(arg) THEN quoteArg(arg) ELSE arg

(* The remaining arguments, concatenated. The separator comes before every  *)
(* argument but the first.                                                  *)
commandLine(args) ==
  LET c[i \in 0 .. Len(args)] ==
        CASE i = 0 -> <<>>
          [] i = 1 -> Written(args[1])
          [] OTHER -> c[i - 1] \o <<Space>> \o Written(args[i])
  IN  c[Len(args)]

-----------------------------------------------------------------------------
(* The program: the rules by which a Windows program splits its command     *)
(* line. External: they are CommandLineToArgvW's and the C library's.       *)
(* 2n backslashes before a quote are n backslashes, one more makes the      *)
(* quote a character; elsewhere a backslash is a character.                 *)

(* st.word is the argument being read, NoWord between arguments.            *)
ReadStart == [args |-> <<>>, word |-> <<>>, inWord |-> FALSE, quoted |-> FALSE, slashes |-> 0]

Flush(st) == [st EXCEPT !.word = @ \o Backslashes(st.slashes), !.slashes = 0]

ReadChar(st, c) ==
  CASE c = Backslash -> [st EXCEPT !.slashes = @ + 1, !.inWord = TRUE]
    [] c = Quote /\ st.slashes % 2 = 1 ->
         [st EXCEPT !.word = @ \o Backslashes(st.slashes \div 2) \o <<Quote>>,
                    !.slashes = 0]
    [] c = Quote /\ st.slashes % 2 = 0 ->
         [st EXCEPT !.word = @ \o Backslashes(st.slashes \div 2),
                    !.slashes = 0, !.inWord = TRUE, !.quoted = ~@]
    [] c \in Blank /\ ~st.quoted ->
         IF st.inWord
         THEN [ReadStart EXCEPT !.args = Append(st.args, Flush(st).word)]
         ELSE st
    [] OTHER -> [Flush(st) EXCEPT !.word = Append(@, c), !.inWord = TRUE]

ArgumentsOf(line) ==
  LET s[i \in 0 .. Len(line)] ==
        IF i = 0 THEN ReadStart ELSE ReadChar(s[i - 1], line[i])
      end == s[Len(line)]
  IN  IF end.inWord THEN Append(end.args, Flush(end).word) ELSE end.args

-----------------------------------------------------------------------------
(* The arguments catchsegv does not carry over: an empty one, which is not  *)
(* quoted; a blank after a backslash, which needsQuote skips; a backslash   *)
(* at the end of an argument it quotes.                                     *)
Skips(arg) == \E i \in 2 .. Len(arg) : arg[i] \in Blank /\ arg[i - 1] = Backslash
Carried(arg) ==
  /\ arg # <<>>
  /\ Skips(arg) => needsQuote(arg)
  /\ ~(needsQuote(arg) /\ arg[Len(arg)] = Backslash)
=============================================================================
