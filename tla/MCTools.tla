------------------------------ MODULE MCTools -------------------------------
(* Command lines for Tools: every one of up to a few arguments out of those *)
(* below, which mix options alone, grouped, with an argument attached,      *)
(* separate or missing, long, abbreviated and ambiguous ones, the end       *)
(* marker, unknown ones, operands, and arguments that are hard to quote.    *)
EXTENDS Tools, SequencesExt

Argv(tools, args, n) == {<<tools>> \o s : s \in SeqOf(args, n)}

CatchSegvArgs ==
  {<<"-", "v">>, <<"-", "d", "t">>, <<"-", "t", "5">>, <<"-", "?">>, <<"-", "x">>,
   <<"-", "-">>, <<"-">>, <<"5">>, <<"p", " ", "q">>}

Mixed ==
  {<<"-", "d", "t">>, <<"-", "v">>, <<"-", "-">>, <<"5">>, <<"p", " ", "q">>}

Awkward ==
  {<<>>, <<"a">>, <<"-", "v">>, <<"a", "\\">>, <<"a", "\\", " ", "b">>, <<"\"">>,
   <<"a", "\\", "\"", "b">>, <<"a", " ", "\\">>, <<"\\", "\\", "\"", "TAB">>,
   <<"\\", "\\", " ", "c">>}

Addr2LineArgs ==
  {<<"-", "f">>, <<"-", "e">>, <<"-", "C", "p", "e">>, <<"-", "e", "m">>, <<"m">>,
   <<"0", "x", "1", "f">>, <<"1", "2">>, <<"-", "H">>}

DrmingwArgs ==
  {<<"-", "i">>, <<"-", "u">>, <<"-", "v", "b">>, <<"-", "v", "e", "r", "b">>,
   <<"-", "-", "d", "e", "b", "u", "g">>, <<"-", "p">>, <<"-", "p", "5">>,
   <<"-", "-", "p", "r", "o", "=", "5">>, <<"-", "-", "v", "e">>,
   <<"-", "e", "v", "e", "n", "t", "=", "7">>, <<"-", "e">>, <<"5">>, <<"n">>,
   <<"-", "-">>}

Program == {<<"p">>}

MCCommands ==
  [t \in {"catchsegv", "addr2line", "drmingw"} |->
    CASE t = "catchsegv" ->
           Argv(<<"c">>, CatchSegvArgs, 4) \cup Argv(<<"c">>, Mixed, 5)
             \cup {<<<<"c">>, <<"-", "-">>, <<"p">>>> \o s : s \in SeqOf(Awkward, 2)}
      [] t = "addr2line" -> Argv(<<"a">>, Addr2LineArgs, 4)
      [] t = "drmingw"   -> Argv(<<"d">>, DrmingwArgs, 3)]

MCAgain ==
  {<<<<"d">>, <<"-", "u">>>>, <<<<"d">>, <<"-", "i", "v">>>>,
   <<<<"d">>, <<"-", "d">>, <<"-", "i">>>>}

MCViews == <<"native", "wow64">>
MCSelf == <<"d", " ", "w">>
MCProcessId == <<"5">>
MCEventHandle == <<"1", "2">>
MCProcesses == [n \in {<<"n">>} |-> 9]

\* What StartsAsInstalled is proved from is so here.
ASSUME MCOrdinary == OrdinaryInstallation
=============================================================================
