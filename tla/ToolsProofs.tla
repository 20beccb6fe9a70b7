----------------------------- MODULE ToolsProofs ------------------------------
(****************************************************************************)
(* Proofs about Tools.  A call of getopt reads what the command line means: *)
(* between two calls, the state of the parser owes the rest of the meaning  *)
(* (Owes), and the operands it has passed over are set aside in argv        *)
(* (Skipped).  From this follows what each tool does, as the invariants of  *)
(* Tools have it; ArgumentsReadBack of CmdLineProofs makes it what the      *)
(* program catchsegv launches reads.  The command of the registry is        *)
(* followed through both conversions to the drmingw that is started with    *)
(* it (CommandReadBack, ReadsLetter, StartedInv).                           *)
(****************************************************************************)
EXTENDS Tools, CmdLineProofs

-----------------------------------------------------------------------------
(* Sequences *)

LEMMA LeastIs ==
  ASSUME NEW S \in SUBSET Nat, S # {}
  PROVE  Least(S) \in S /\ \A i \in S : Least(S) <= i
BY LeastNat DEF Least

LEMMA SubSeqIs ==
  ASSUME NEW C, NEW s \in Seq(C), NEW i \in 1..Len(s) + 1, NEW j \in i - 1..Len(s)
  PROVE  /\ SubSeq(s, i, j) \in Seq(C)
         /\ Len(SubSeq(s, i, j)) = j - i + 1
         /\ \A k \in 1..j - i + 1 : SubSeq(s, i, j)[k] = s[i + k - 1]
OBVIOUS

\* The rest of a sequence: its head, its tail.
LEMMA SuffixIs ==
  ASSUME NEW C, NEW s \in Seq(C), NEW j \in 1..Len(s)
  PROVE  /\ SubSeq(s, j, Len(s)) # <<>>
         /\ Head(SubSeq(s, j, Len(s))) = s[j]
         /\ Tail(SubSeq(s, j, Len(s))) = SubSeq(s, j + 1, Len(s))
         /\ SubSeq(s, j + 1, Len(s)) = <<>> <=> j = Len(s)
<1>1. SubSeq(s, j, Len(s)) # <<>> /\ (SubSeq(s, j + 1, Len(s)) = <<>> <=> j = Len(s))
  <2> DEFINE t == SubSeq(s, j, Len(s))
             u == SubSeq(s, j + 1, Len(s))
  <2>1. Len(t) = Len(s) - j + 1 /\ Len(u) = Len(s) - j /\ u \in Seq(C) /\ Len(s) \in Nat
    OBVIOUS
  <2> HIDE DEF t, u
  <2>2. t # <<>>
    BY <2>1, EmptySeq
  <2>3. u = <<>> <=> Len(u) = 0
    BY <2>1, EmptySeq
  <2> QED BY <2>1, <2>2, <2>3 DEF t, u
<1>2. Len(s) \in j..Len(s)
  OBVIOUS
<1> QED BY <1>1, <1>2, HeadTailOfSubSeq

\* A part of a sequence, cut in two.
LEMMA SubSeqCut ==
  ASSUME NEW C, NEW s \in Seq(C), NEW i \in 1..Len(s) + 1, NEW j \in i - 1..Len(s),
         NEW k \in i - 1..j
  PROVE  SubSeq(s, i, j) = SubSeq(s, i, k) \o SubSeq(s, k + 1, j)
OBVIOUS

\* Parts of two sequences that agree there.
LEMMA SubSeqSame ==
  ASSUME NEW C, NEW s \in Seq(C), NEW t \in Seq(C), Len(s) = Len(t),
         NEW i \in 1..Len(s) + 1, NEW j \in i - 1..Len(s),
         \A k \in i..j : s[k] = t[k]
  PROVE  SubSeq(s, i, j) = SubSeq(t, i, j)
OBVIOUS

-----------------------------------------------------------------------------
(* The option characters of a tool: each once, no dash, none optional. *)

OptString(optstring) ==
  /\ Len(optstring) \in Nat /\ DOMAIN optstring = 1..Len(optstring)
  /\ optstring # <<>> /\ optstring[1] \notin {"+", "-", ":"}
  /\ \A i \in 1..Len(optstring) : optstring[i] # "-"
  /\ \A i, j \in 1..Len(optstring) : optstring[i] = optstring[j] /\ optstring[i] # ":" => i = j
  /\ \A i \in 1..Len(optstring) - 1 : ~(optstring[i] = ":" /\ optstring[i + 1] = ":")

LEMMA MatchIs ==
  ASSUME NEW optstring, OptString(optstring), NEW c
  PROVE  LET at == getoptW_match(c, optstring) IN
         /\ at = 0 \/ (at \in 1..Len(optstring) /\ optstring[at] = c)
         /\ at = 0 <=> \A i \in 1..Len(optstring) : optstring[i] # c
<1> DEFINE S == {i \in 1..Len(optstring) : optstring[i] = c}
<1>1. Len(optstring) \in Nat /\ S \in SUBSET Nat
  BY DEF OptString
<1>2. getoptW_match(c, optstring) = IF S = {} THEN 0 ELSE Least(S)
  <2>1. Flags(optstring) = 0
    BY DEF OptString, Flags
  <2>2. ~(Len(optstring) > 0 /\ optstring[0 + 1] = ":")
    BY DEF OptString
  <2> DEFINE from == IF Len(optstring) > Flags(optstring)
                          /\ optstring[Flags(optstring) + 1] = ":"
                     THEN Flags(optstring) + 2 ELSE Flags(optstring) + 1
             at == {i \in from..Len(optstring) : optstring[i] = c}
  <2>3. from = 1
    BY <2>1, <2>2
  <2>4. at = S
    BY <2>3
  <2>5. getoptW_match(c, optstring) = IF at = {} THEN 0 ELSE Least(at)
    BY DEF getoptW_match
  <2> HIDE DEF at, S
  <2> QED BY <2>4, <2>5
<1>3. CASE S = {}
  BY <1>2, <1>3
<1>4. CASE S # {}
  <2>1. Least(S) \in S
    BY <1>1, <1>4, LeastIs
  <2> QED BY <1>1, <1>2, <1>4, <2>1
<1> QED BY <1>3, <1>4

\* What getopt knows of a character, and what the character means.
LEMMA OptionIs ==
  ASSUME NEW optstring, OptString(optstring), NEW c
  PROVE  LET at == getoptW_match(c, optstring) IN
         /\ at \in Nat
         /\ at = 0 => ~IsOption(c, optstring)
         /\ c = ":" => ~IsOption(c, optstring)
         /\ at # 0 /\ c # ":" => IsOption(c, optstring)
         /\ at # 0 /\ c # ":" => (takes_argument(at, optstring) <=> Takes(c, optstring))
         /\ at # 0 /\ c = ":" => ~takes_argument(at, optstring)
         /\ takes_argument(at, optstring) => ~takes_argument(at + 1, optstring)
<1> DEFINE at == getoptW_match(c, optstring)
           n == Len(optstring)
<1>1. /\ n \in Nat /\ DOMAIN optstring = 1..n
      /\ \A i, j \in 1..n : optstring[i] = optstring[j] /\ optstring[i] # ":" => i = j
      /\ \A i \in 1..n - 1 : ~(optstring[i] = ":" /\ optstring[i + 1] = ":")
  BY DEF OptString
<1>2. /\ at = 0 \/ (at \in 1..n /\ optstring[at] = c)
      /\ at = 0 <=> \A i \in 1..n : optstring[i] # c
  BY MatchIs
<1> HIDE DEF at, n
<1>3. at = 0 => ~IsOption(c, optstring)
  BY <1>1, <1>2 DEF IsOption
<1>4. at # 0 /\ c # ":" => IsOption(c, optstring)
  BY <1>1, <1>2 DEF IsOption
<1>5. ASSUME at # 0, c # ":" PROVE takes_argument(at, optstring) <=> Takes(c, optstring)
  <2>1. at \in 1..n /\ optstring[at] = c
    BY <1>2, <1>5
  <2>2. \A i \in 1..n : optstring[i] = c => i = at
    BY <1>1, <1>5, <2>1
  <2>3. ASSUME takes_argument(at, optstring) PROVE Takes(c, optstring)
    <3>1. at < n /\ optstring[at + 1] = ":"
      BY <2>3 DEF takes_argument, n
    <3> QED BY <1>1, <2>1, <3>1 DEF Takes, n
  <2>4. ASSUME Takes(c, optstring) PROVE takes_argument(at, optstring)
    <3>1. PICK i \in 1..n - 1 : optstring[i] = c /\ optstring[i + 1] = ":"
      BY <2>4 DEF Takes, n
    <3>2. i = at
      BY <1>1, <2>2, <3>1
    <3> QED BY <1>1, <3>1, <3>2 DEF takes_argument, n
  <2> QED BY <2>3, <2>4
<1>6. ASSUME at # 0, c = ":" PROVE ~takes_argument(at, optstring)
  BY <1>1, <1>2, <1>6 DEF takes_argument, n
<1>7. ASSUME takes_argument(at, optstring) PROVE ~takes_argument(at + 1, optstring)
  <2>1. at < n /\ optstring[at + 1] = ":"
    BY <1>7 DEF takes_argument, n
  <2>2. at + 1 \in 1..n
    BY <1>1, <1>2, <2>1
  <2> QED BY <1>1, <2>1, <2>2 DEF takes_argument, n
<1> QED BY <1>1, <1>2, <1>3, <1>4, <1>5, <1>6, <1>7 DEF at, IsOption

-----------------------------------------------------------------------------
(* Meanings *)

\* V: what options are called.
Optarg == Text \cup {NULL}
Meanings(V) == [ok : BOOLEAN, opts : Seq(V \X Optarg), operands : Texts]

LEMMA NothingMeans ==
  ASSUME NEW V
  PROVE  Nothing \in Meanings(V) /\ Wrong \in Meanings(V) /\ Wrong.ok = FALSE
<1>1. <<>> \in Seq(V \X Optarg) /\ <<>> \in Texts
  BY EmptySeq DEF Texts
<1> QED BY <1>1 DEF Nothing, Wrong, Meanings

LEMMA WithOptionIs ==
  ASSUME NEW V, NEW c \in V, NEW a \in Optarg, NEW m \in Meanings(V)
  PROVE  /\ WithOption(c, a, m) \in Meanings(V)
         /\ WithOption(c, a, m).ok = m.ok
         /\ WithOption(c, a, m).opts = <<<<c, a>>>> \o m.opts
         /\ WithOption(c, a, m).operands = m.operands
<1>1. <<<<c, a>>>> \in Seq(V \X Optarg) /\ m.opts \in Seq(V \X Optarg)
  BY DEF Meanings
<1>2. <<<<c, a>>>> \o m.opts \in Seq(V \X Optarg)
  BY <1>1, ConcatTypes
<1> QED BY <1>2 DEF WithOption, Meanings

LEMMA ByNextIs ==
  ASSUME NEW V, NEW c \in V, NEW args \in Texts, NEW k \in 1..Len(args), NEW m \in Meanings(V)
  PROVE  ByNext(c, args, k, m) \in Meanings(V)
<1>1. k < Len(args) => args[k + 1] \in Text
  BY DEF Texts
<1> QED BY <1>1, WithOptionIs, NothingMeans DEF ByNext, Optarg

LEMMA GroupStepIs ==
  ASSUME NEW args, NEW k, NEW optstring, NEW m1, NEW m2, NEW j, NEW rest
  PROVE  LET c == args[k][j]
             step == GroupStep(args, k, optstring, m1, m2, j, rest)
         IN  /\ ~IsOption(c, optstring) => step = Wrong
             /\ IsOption(c, optstring) /\ ~Takes(c, optstring) =>
                  step = WithOption(c, NULL, IF j = Len(args[k]) THEN m1 ELSE rest)
             /\ IsOption(c, optstring) /\ Takes(c, optstring) /\ j # Len(args[k]) =>
                  step = WithOption(c, SubSeq(args[k], j + 1, Len(args[k])), m1)
             /\ IsOption(c, optstring) /\ Takes(c, optstring) /\ j = Len(args[k]) =>
                  step = ByNext(c, args, k, m2)
BY DEF GroupStep

LEMMA GroupStepTypes ==
  ASSUME NEW V, Character \subseteq V, NEW args \in Texts, NEW k \in 1..Len(args),
         NEW optstring, NEW m1 \in Meanings(V), NEW m2 \in Meanings(V),
         NEW j \in 2..Len(args[k]), NEW rest,
         j # Len(args[k]) => rest \in Meanings(V)
  PROVE  GroupStep(args, k, optstring, m1, m2, j, rest) \in Meanings(V)
<1> DEFINE c == args[k][j]
           a == SubSeq(args[k], j + 1, Len(args[k]))
           r == IF j = Len(args[k]) THEN m1 ELSE rest
<1>1. args[k] \in Text /\ Len(args[k]) \in Nat
  BY DEF Texts, Text
<1>2. c \in V
  BY <1>1 DEF Text
<1>3. a \in Optarg /\ NULL \in Optarg
  BY <1>1, SubSeqIs DEF Text, Optarg
<1>4. r \in Meanings(V)
  OBVIOUS
<1>5. /\ WithOption(c, a, m1) \in Meanings(V) /\ WithOption(c, NULL, r) \in Meanings(V)
      /\ ByNext(c, args, k, m2) \in Meanings(V) /\ Wrong \in Meanings(V)
  <2> HIDE DEF c, a, r
  <2> QED BY <1>2, <1>3, <1>4, WithOptionIs, ByNextIs, NothingMeans
<1> QED BY <1>5, GroupStepIs

LEMMA GroupUnfolds ==
  ASSUME NEW V, Character \subseteq V, NEW args \in Texts, NEW k \in 1..Len(args),
         NEW optstring, NEW m1 \in Meanings(V), NEW m2 \in Meanings(V)
  PROVE  LET group == GroupMeaning(args, k, optstring, m1, m2)
             n == Len(args[k])
         IN  \A j \in 2..n :
               /\ group[j] = GroupStep(args, k, optstring, m1, m2, j, group[j + 1])
               /\ group[j] \in Meanings(V)
<1> DEFINE n == Len(args[k])
           M == Meanings(V)
           Step(j, rest) == GroupStep(args, k, optstring, m1, m2, j, rest)
           Recipe(j) == [f \in Values(2, n, M) |-> Step(j, f[j + 1])]
           F == [j \in 2..n |-> Recipe(j)]
           group == CHOOSE f : f = [j \in 2..n |-> Step(j, f[j + 1])]
<1>1. n \in Nat
  BY DEF Texts, Text
<1>2. \A j \in 2..n : \A rest : (j # n => rest \in M) => Step(j, rest) \in M
  BY GroupStepTypes
<1>3. \A rest, rest2 : Step(n, rest) = Step(n, rest2)
  BY DEF GroupStep
<1>4. group = GroupMeaning(args, k, optstring, m1, m2)
  BY DEF GroupMeaning
<1>5. Nothing \in M
  BY NothingMeans
<1> HIDE DEF n, M, Step
<1>6. \A f \in Values(2, n, M) : \A j \in 2..n : j # n => f[j + 1] \in M
  BY <1>1 DEF Values
<1>7. F \in Recipes(2, n, M)
  <2>1. \A j \in 2..n : Recipe(j) \in [Values(2, n, M) -> M]
    BY <1>2, <1>6
  <2> QED BY <2>1 DEF Recipes
<1>8. \A j \in 2..n : \A f \in Values(2, n, M) : F[j][f] = Step(j, f[j + 1])
  OBVIOUS
<1> HIDE DEF F
<1>9. LooksAhead(2, n, M, F)
  <2>1. ASSUME NEW j \in 2..n, NEW f \in Values(2, n, M), NEW h \in Values(2, n, M),
               \A i \in j + 1..n : f[i] = h[i]
        PROVE  F[j][f] = F[j][h]
    <3>1. CASE j = n
      BY <1>3, <1>8, <3>1
    <3>2. CASE j # n
      <4>1. f[j + 1] = h[j + 1]
        BY <1>1, <2>1, <3>2
      <4> QED BY <1>8, <4>1
    <3> QED BY <3>1, <3>2
  <2> QED BY <2>1 DEF LooksAhead
<1>10. PICK f : Solves(2, n, M, F, f)
  BY <1>1, <1>5, <1>7, <1>9, Backwards
<1>11. f = [j \in 2..n |-> Step(j, f[j + 1])]
  BY <1>8, <1>10 DEF Solves, Values
<1>12. group = [j \in 2..n |-> Step(j, group[j + 1])]
  BY <1>11
<1> HIDE DEF group
<1>13. \A j \in 2..n : group[j] = Step(j, group[j + 1])
  BY <1>12
<1> DEFINE T == {j \in 2..n : group[j] \in M}
<1>14. ASSUME NEW j \in 2..n, \A i \in j + 1..n : i \in T PROVE j \in T
  <2>1. j # n => group[j + 1] \in M
    BY <1>1, <1>14
  <2> QED BY <1>2, <1>13, <2>1
<1> HIDE DEF T
<1>15. \A j \in 2..n : j \in T
  BY <1>1, <1>14, DownTo
<1>16. \A j \in 2..n : group[j] \in M
  BY <1>15 DEF T
<1> QED BY <1>4, <1>13, <1>16 DEF n, M, Step

\* The long options of a tool, by names in V.
LongOptions(longopts, V) ==
  DOMAIN longopts \in SUBSET Nat /\ \A i \in DOMAIN longopts : longopts[i].val \in V

LEMMA AssignedTypes ==
  ASSUME NEW text \in Text
  PROVE  Assigned(text) \in Optarg
<1>1. CASE Assign(text) = {}
  BY <1>1 DEF Assigned, Optarg
<1>2. CASE Assign(text) # {}
  <2>1. Len(text) \in Nat /\ Assign(text) \in SUBSET Nat
    BY DEF Assign, Text
  <2>2. Least(Assign(text)) \in 1..Len(text)
    BY <1>2, <2>1, LeastIs DEF Assign
  <2> DEFINE i == Least(Assign(text))
  <2>3. i + 1 \in 1..Len(text) + 1 /\ Len(text) \in (i + 1) - 1..Len(text)
    BY <2>1, <2>2
  <2>4. Assigned(text) = SubSeq(text, i + 1, Len(text))
    BY <1>2 DEF Assigned
  <2> HIDE DEF i
  <2>5. SubSeq(text, i + 1, Len(text)) \in Text
    BY <2>3, SubSeqIs DEF Text
  <2> QED BY <2>4, <2>5 DEF Optarg
<1> QED BY <1>1, <1>2

LEMMA LongNamedIs ==
  ASSUME NEW V, NEW longopts, LongOptions(longopts, V), NEW text, LongNamed(text, longopts) # {}
  PROVE  Least(LongNamed(text, longopts)) \in DOMAIN longopts
<1>1. LongNamed(text, longopts) \in SUBSET DOMAIN longopts
  BY DEF LongNamed
<1> QED BY <1>1, LeastIs DEF LongOptions

LEMMA LongMeaningTypes ==
  ASSUME NEW V, NEW longopts, LongOptions(longopts, V), NEW i \in DOMAIN longopts,
         NEW text \in Text, NEW args \in Texts, NEW k \in 1..Len(args),
         NEW m1 \in Meanings(V), NEW m2 \in Meanings(V)
  PROVE  LongMeaning(longopts[i], text, args, k, m1, m2) \in Meanings(V)
<1> DEFINE o == longopts[i]
           a == Assigned(text)
<1>1. o.val \in V /\ a \in Optarg /\ NULL \in Optarg
  BY AssignedTypes DEF LongOptions, Optarg
<1>2. LongMeaning(o, text, args, k, m1, m2)
        \in {Wrong, WithOption(o.val, a, m1), ByNext(o.val, args, k, m2),
            WithOption(o.val, NULL, m1)}
  BY DEF LongMeaning
<1> HIDE DEF o, a
<1>3. /\ WithOption(o.val, a, m1) \in Meanings(V) /\ WithOption(o.val, NULL, m1) \in Meanings(V)
      /\ ByNext(o.val, args, k, m2) \in Meanings(V) /\ Wrong \in Meanings(V)
  BY <1>1, WithOptionIs, ByNextIs, NothingMeans
<1> QED BY <1>2, <1>3 DEF o

LEMMA OperandsOnly ==
  ASSUME NEW V, NEW args \in Texts, NEW k \in 1..Len(args), NEW m \in Meanings(V)
  PROVE  /\ [Nothing EXCEPT !.operands = SubSeq(args, k + 1, Len(args))] \in Meanings(V)
         /\ [m EXCEPT !.operands = <<args[k]>> \o @] \in Meanings(V)
<1>1. SubSeq(args, k + 1, Len(args)) \in Texts
  <2>1. k + 1 \in 1..Len(args) + 1 /\ Len(args) \in (k + 1) - 1..Len(args)
    BY DEF Texts
  <2> QED BY <2>1, SubSeqIs DEF Texts
<1>2. <<args[k]>> \o m.operands \in Texts
  <2>1. <<args[k]>> \in Texts /\ m.operands \in Texts
    BY DEF Texts, Meanings
  <2> QED BY <2>1, ConcatTypes DEF Texts
<1>3. Nothing \in Meanings(V)
  BY NothingMeans
<1> QED BY <1>1, <1>2, <1>3 DEF Meanings

LEMMA ArgMeaningTypes ==
  ASSUME NEW V, Character \subseteq V, NEW longopts, LongOptions(longopts, V),
         NEW args \in Texts, NEW k \in 1..Len(args), NEW optstring,
         NEW m1 \in Meanings(V), NEW m2 \in Meanings(V)
  PROVE  ArgMeaning(args, k, optstring, longopts, m1, m2) \in Meanings(V)
<1> DEFINE arg == args[k]
           dashes == IF arg[2] = "-" THEN 2 ELSE 1
           text == SubSeq(arg, dashes + 1, Len(arg))
           named == LongNamed(text, longopts)
           long == LongMeaning(longopts[Least(named)], text, args, k, m1, m2)
           group == GroupMeaning(args, k, optstring, m1, m2)
<1>1. arg \in Text /\ Len(arg) \in Nat
  BY DEF Texts, Text
<1>2. is_option(arg) => Len(arg) > 1
  BY DEF is_option
<1>3. arg = <<"-", "-">> => is_option(arg)
  BY DEF is_option
<1>4. ArgMeaning(args, k, optstring, longopts, m1, m2)
        = CASE arg = <<"-", "-">> -> [Nothing EXCEPT !.operands = SubSeq(args, k + 1, Len(args))]
            [] ~is_option(arg) -> [m1 EXCEPT !.operands = <<arg>> \o @]
            [] OTHER -> IF longopts # <<>> /\ named # {} THEN long
                        ELSE IF dashes = 2 THEN Wrong ELSE group[2]
  BY DEF ArgMeaning
<1>5. /\ [Nothing EXCEPT !.operands = SubSeq(args, k + 1, Len(args))] \in Meanings(V)
      /\ [m1 EXCEPT !.operands = <<arg>> \o @] \in Meanings(V)
  BY OperandsOnly
<1>6. ASSUME is_option(arg), named # {} PROVE long \in Meanings(V)
  <2>1. dashes + 1 \in 1..Len(arg) + 1 /\ Len(arg) \in (dashes + 1) - 1..Len(arg)
    BY <1>1, <1>2, <1>6
  <2>2. text \in Text
    <3> HIDE DEF dashes
    <3> QED BY <1>1, <2>1, SubSeqIs DEF Text
  <2>3. Least(named) \in DOMAIN longopts
    BY <1>6, LongNamedIs
  <2> HIDE DEF text, named
  <2> QED BY <2>2, <2>3, LongMeaningTypes
<1>7. ASSUME is_option(arg) PROVE group[2] \in Meanings(V)
  <2>1. 2 \in 2..Len(arg)
    BY <1>1, <1>2, <1>7
  <2> QED BY <2>1, GroupUnfolds
<1>8. Wrong \in Meanings(V)
  BY NothingMeans
<1> HIDE DEF long, group, named, dashes
<1>9. CASE arg = <<"-", "-">>
  BY <1>4, <1>5, <1>9
<1>10. CASE arg # <<"-", "-">> /\ ~is_option(arg)
  BY <1>3, <1>4, <1>5, <1>10
<1>11. CASE arg # <<"-", "-">> /\ is_option(arg)
  BY <1>4, <1>6, <1>7, <1>8, <1>11
<1> QED BY <1>9, <1>10, <1>11

LEMMA MeaningUnfolds ==
  ASSUME NEW V, Character \subseteq V, NEW longopts, LongOptions(longopts, V),
         NEW args \in Texts, NEW optstring
  PROVE  LET m == MeaningFrom(args, optstring, longopts)
             n == Len(args)
         IN  \A k \in 2..n + 2 :
               /\ m[k] \in Meanings(V)
               /\ k > n => m[k] = Nothing
               /\ k <= n => m[k] = ArgMeaning(args, k, optstring, longopts, m[k + 1], m[k + 2])
<1> DEFINE n == Len(args)
           M == Meanings(V)
           Arg_(k, m1, m2) == ArgMeaning(args, k, optstring, longopts, m1, m2)
           Step(k, m1, m2) == IF k > n THEN Nothing ELSE Arg_(k, m1, m2)
           Recipe(k) == [f \in Values(2, n + 2, M) |-> Step(k, f[k + 1], f[k + 2])]
           F == [k \in 2..n + 2 |-> Recipe(k)]
           m == CHOOSE f : f = [k \in 2..n + 2 |-> Step(k, f[k + 1], f[k + 2])]
<1>1. n \in Nat /\ n + 2 \in Nat
  BY DEF Texts
<1>2. \A k \in 1..n : \A m1, m2 \in M : Arg_(k, m1, m2) \in M
  BY ArgMeaningTypes
<1>3. m = MeaningFrom(args, optstring, longopts)
  BY DEF MeaningFrom
<1>4. Nothing \in M
  BY NothingMeans
<1> HIDE DEF n, M, Arg_
<1>5. \A k \in 2..n + 2 : \A m1, m2 : (k <= n => m1 \in M /\ m2 \in M) => Step(k, m1, m2) \in M
  BY <1>1, <1>2, <1>4
<1>6. \A f \in Values(2, n + 2, M) : \A k \in 2..n + 2 :
        k <= n => f[k + 1] \in M /\ f[k + 2] \in M
  BY <1>1 DEF Values
<1>7. \A k \in 2..n + 2 : \A m1, m2, x1, x2 : k > n => Step(k, m1, m2) = Step(k, x1, x2)
  BY <1>1
<1>8. \A k \in 2..n + 2 : \A m1, m2 :
        /\ k > n => Step(k, m1, m2) = Nothing
        /\ k <= n => Step(k, m1, m2) = Arg_(k, m1, m2)
  BY <1>1
<1> HIDE DEF Step
<1>9. F \in Recipes(2, n + 2, M)
  <2>1. \A k \in 2..n + 2 : Recipe(k) \in [Values(2, n + 2, M) -> M]
    BY <1>5, <1>6
  <2> QED BY <2>1 DEF Recipes
<1>10. \A k \in 2..n + 2 : \A f \in Values(2, n + 2, M) : F[k][f] = Step(k, f[k + 1], f[k + 2])
  OBVIOUS
<1> HIDE DEF F
<1>11. LooksAhead(2, n + 2, M, F)
  <2>1. ASSUME NEW k \in 2..n + 2, NEW f \in Values(2, n + 2, M), NEW h \in Values(2, n + 2, M),
               \A i \in k + 1..n + 2 : f[i] = h[i]
        PROVE  F[k][f] = F[k][h]
    <3>1. CASE k > n
      BY <1>7, <1>10, <3>1
    <3>2. CASE k <= n
      <4>1. f[k + 1] = h[k + 1] /\ f[k + 2] = h[k + 2]
        BY <1>1, <2>1, <3>2
      <4> QED BY <1>10, <4>1
    <3> QED BY <1>1, <3>1, <3>2
  <2> QED BY <2>1 DEF LooksAhead
<1>12. PICK f : Solves(2, n + 2, M, F, f)
  <2>1. 2 \in Nat
    OBVIOUS
  <2> QED BY <1>1, <1>4, <1>9, <1>11, <2>1, Backwards
<1>13. f = [k \in 2..n + 2 |-> Step(k, f[k + 1], f[k + 2])]
  BY <1>10, <1>12 DEF Solves, Values
<1>14. m = [k \in 2..n + 2 |-> Step(k, m[k + 1], m[k + 2])]
  BY <1>13
<1> HIDE DEF m
<1>15. \A k \in 2..n + 2 : m[k] = Step(k, m[k + 1], m[k + 2])
  BY <1>14
<1> DEFINE T == {k \in 2..n + 2 : m[k] \in M}
<1>16. ASSUME NEW k \in 2..n + 2, \A i \in k + 1..n + 2 : i \in T PROVE k \in T
  <2>1. k <= n => m[k + 1] \in M /\ m[k + 2] \in M
    BY <1>1, <1>16
  <2> QED BY <1>5, <1>15, <2>1
<1> HIDE DEF T
<1>17. \A k \in 2..n + 2 : k \in T
  <2>1. 2 \in Nat
    OBVIOUS
  <2> QED BY <1>1, <1>16, <2>1, DownTo
<1>18. \A k \in 2..n + 2 : m[k] \in M
  BY <1>17 DEF T
<1>19. \A k \in 2..n + 2 : /\ m[k] \in M
                           /\ k > n => m[k] = Nothing
                           /\ k <= n => m[k] = Arg_(k, m[k + 1], m[k + 2])
  <2> TAKE k \in 2..n + 2
  <2>1. m[k] = Step(k, m[k + 1], m[k + 2])
    BY <1>15
  <2>2. m[k] \in M
    BY <1>18
  <2>3. /\ k > n => Step(k, m[k + 1], m[k + 2]) = Nothing
        /\ k <= n => Step(k, m[k + 1], m[k + 2]) = Arg_(k, m[k + 1], m[k + 2])
    BY <1>8
  <2> QED BY <2>1, <2>2, <2>3
<1> QED BY <1>3, <1>19 DEF n, M, Arg_

\* What the facts below are about: the command line of a tool, its options
\* and the meanings of the ends of the command line.
Context(V, A, optstring, longopts, m) ==
  /\ Character \subseteq V /\ A \in Texts
  /\ OptString(optstring) /\ LongOptions(longopts, V)
  /\ m = MeaningFrom(A, optstring, longopts)

Group(A, optstring, m, k) == GroupMeaning(A, k, optstring, m[k + 1], m[k + 2])

LEMMA ContextTypes ==
  ASSUME NEW V, NEW A, NEW optstring, NEW longopts, NEW m, Context(V, A, optstring, longopts, m)
  PROVE  /\ Len(A) \in Nat /\ A \in Texts
         /\ \A k \in 1..Len(A) : A[k] \in Text /\ Len(A[k]) \in Nat
         /\ \A k \in 2..Len(A) + 2 : m[k] \in Meanings(V)
         /\ \A k \in Len(A) + 1..Len(A) + 2 : k >= 2 => m[k] = Nothing
         /\ \A k \in 2..Len(A) :
              m[k] = ArgMeaning(A, k, optstring, longopts, m[k + 1], m[k + 2])
<1>1. Len(A) \in Nat /\ A \in Texts /\ \A k \in 1..Len(A) : A[k] \in Text /\ Len(A[k]) \in Nat
  BY DEF Context, Texts, Text
<1>2. \A k \in 2..Len(A) + 2 :
        /\ m[k] \in Meanings(V)
        /\ k > Len(A) => m[k] = Nothing
        /\ k <= Len(A) => m[k] = ArgMeaning(A, k, optstring, longopts, m[k + 1], m[k + 2])
  BY MeaningUnfolds DEF Context
<1> QED BY <1>1, <1>2

\* x is y with operands in front.
Before(operands, x, y) ==
  x.ok = y.ok /\ x.opts = y.opts /\ x.operands = operands \o y.operands

\* x is the operands, and no options.
Ends(operands, x) == x.ok = TRUE /\ x.opts = <<>> /\ x.operands = operands

\* x is no command line the tool takes.
Rejected(x) == x.ok = FALSE

EndMarker == <<"-", "-">>

LEMMA EndMarkerIs == is_option(<<"-", "-">>)
<1>1. Len(<<"-", "-">>) = 2 /\ <<"-", "-">>[1] = "-"
  OBVIOUS
<1> QED BY <1>1 DEF is_option

LEMMA ArgMeaningIs ==
  ASSUME NEW V, NEW args, NEW k, NEW optstring, NEW longopts, NEW m1 \in Meanings(V), NEW m2
  PROVE  LET arg == args[k]
             means == ArgMeaning(args, k, optstring, longopts, m1, m2)
         IN  /\ arg = EndMarker => Ends(SubSeq(args, k + 1, Len(args)), means)
             /\ ~is_option(arg) => Before(<<arg>>, means, m1)
<1> DEFINE arg == args[k]
           other == LET dashes == IF arg[2] = "-" THEN 2 ELSE 1
                        text == SubSeq(arg, dashes + 1, Len(arg))
                    IN IF longopts # <<>> /\ LongNamed(text, longopts) # {}
                       THEN LongMeaning(longopts[Least(LongNamed(text, longopts))],
                                        text, args, k, m1, m2)
                       ELSE IF dashes = 2 THEN Wrong
                       ELSE GroupMeaning(args, k, optstring, m1, m2)[2]
<1>1. ArgMeaning(args, k, optstring, longopts, m1, m2)
        = CASE arg = <<"-", "-">> -> [Nothing EXCEPT !.operands = SubSeq(args, k + 1, Len(args))]
            [] ~is_option(arg) -> [m1 EXCEPT !.operands = <<arg>> \o @]
            [] OTHER -> other
  BY DEF ArgMeaning
<1>2. arg = <<"-", "-">> => is_option(arg)
  BY EndMarkerIs
<1> DEFINE end == [Nothing EXCEPT !.operands = SubSeq(args, k + 1, Len(args))]
           operand == [m1 EXCEPT !.operands = <<arg>> \o @]
<1>3. Ends(SubSeq(args, k + 1, Len(args)), end)
  BY DEF Nothing, Ends
<1>4. Before(<<arg>>, operand, m1)
  BY DEF Before, Meanings
<1> HIDE DEF other, end, operand
<1>5. CASE arg = EndMarker
  <2>1. ArgMeaning(args, k, optstring, longopts, m1, m2) = end
    BY <1>1, <1>2, <1>5 DEF end, EndMarker
  <2>2. is_option(arg)
    BY <1>2, <1>5 DEF EndMarker
  <2> QED BY <1>3, <2>1, <2>2 DEF arg
<1>6. CASE ~is_option(arg)
  <2>1. ArgMeaning(args, k, optstring, longopts, m1, m2) = operand
    BY <1>1, <1>2, <1>6 DEF operand
  <2>2. arg # EndMarker
    BY <1>2, <1>6 DEF EndMarker
  <2> QED BY <1>4, <2>1, <2>2 DEF arg
<1>7. CASE arg # EndMarker /\ is_option(arg)
  BY <1>7 DEF arg
<1> QED BY <1>5, <1>6, <1>7

LEMMA EndMarkerMeans ==
  ASSUME NEW V, NEW A, NEW optstring, NEW longopts, NEW m, Context(V, A, optstring, longopts, m),
         NEW k \in 2..Len(A), A[k] = EndMarker
  PROVE  Ends(SubSeq(A, k + 1, Len(A)), m[k])
<1>1. /\ m[k] = ArgMeaning(A, k, optstring, longopts, m[k + 1], m[k + 2])
      /\ m[k + 1] \in Meanings(V)
  BY ContextTypes
<1> QED BY <1>1, ArgMeaningIs

LEMMA OperandMeans ==
  ASSUME NEW V, NEW A, NEW optstring, NEW longopts, NEW m, Context(V, A, optstring, longopts, m),
         NEW k \in 2..Len(A), ~is_option(A[k])
  PROVE  Before(<<A[k]>>, m[k], m[k + 1])
<1>1. /\ m[k] = ArgMeaning(A, k, optstring, longopts, m[k + 1], m[k + 2])
      /\ m[k + 1] \in Meanings(V)
  BY ContextTypes
<1> QED BY <1>1, ArgMeaningIs

LEMMA GroupMeans ==
  ASSUME NEW V, NEW A, NEW optstring, NEW longopts, NEW m, Context(V, A, optstring, longopts, m),
         NEW k \in 2..Len(A), is_option(A[k]), A[k] # EndMarker, A[k][2] # "-",
         longopts = <<>> \/ LongNamed(SubSeq(A[k], 2, Len(A[k])), longopts) = {}
  PROVE  m[k] = Group(A, optstring, m, k)[2]
<1>1. m[k] = ArgMeaning(A, k, optstring, longopts, m[k + 1], m[k + 2])
  BY ContextTypes
<1>2. 1 + 1 = 2
  OBVIOUS
<1> QED BY <1>1, <1>2 DEF ArgMeaning, Group, EndMarker

LEMMA DoubleDashMeans ==
  ASSUME NEW V, NEW A, NEW optstring, NEW longopts, NEW m, Context(V, A, optstring, longopts, m),
         longopts = <<>>,
         NEW k \in 2..Len(A), is_option(A[k]), A[k] # EndMarker, A[k][2] = "-"
  PROVE  Rejected(m[k])
<1>1. m[k] = ArgMeaning(A, k, optstring, longopts, m[k + 1], m[k + 2])
  BY ContextTypes
<1>2. m[k] = Wrong
  BY <1>1 DEF ArgMeaning, EndMarker
<1> QED BY <1>2 DEF Wrong, Rejected

LEMMA LongMeans ==
  ASSUME NEW V, NEW A, NEW optstring, NEW longopts, NEW m, Context(V, A, optstring, longopts, m),
         NEW k \in 2..Len(A), is_option(A[k]), A[k] # EndMarker, longopts # <<>>,
         NEW text, A[k][2] = "-" => text = SubSeq(A[k], 3, Len(A[k])),
         A[k][2] # "-" => text = SubSeq(A[k], 2, Len(A[k])),
         LongNamed(text, longopts) # {}
  PROVE  m[k] = LongMeaning(longopts[Least(LongNamed(text, longopts))], text, A, k,
                            m[k + 1], m[k + 2])
<1>1. m[k] = ArgMeaning(A, k, optstring, longopts, m[k + 1], m[k + 2])
  BY ContextTypes
<1>2. 1 + 1 = 2 /\ 2 + 1 = 3
  OBVIOUS
<1>3. CASE A[k][2] = "-"
  BY <1>1, <1>2, <1>3 DEF ArgMeaning, EndMarker
<1>4. CASE A[k][2] # "-"
  BY <1>1, <1>2, <1>4 DEF ArgMeaning, EndMarker
<1> QED BY <1>3, <1>4

LEMMA TextsAssociate == \A s, t, u \in Texts : s \o (t \o u) = (s \o t) \o u
BY ConcatAssociates DEF Texts

LEMMA BeforeNothing ==
  ASSUME NEW V, NEW x \in Meanings(V)
  PROVE  Before(<<>>, x, x)
<1>1. x.operands \in Texts
  BY DEF Meanings
<1> QED BY <1>1, ConcatEmptySeq DEF Before, Texts

LEMMA BeforeBoth ==
  ASSUME NEW V, NEW x, NEW y, NEW z \in Meanings(V), NEW s \in Texts, NEW t \in Texts,
         Before(s, x, y), Before(t, y, z)
  PROVE  Before(s \o t, x, z)
<1>1. z.operands \in Texts
  BY DEF Meanings
<1>2. s \o (t \o z.operands) = (s \o t) \o z.operands
  BY <1>1, TextsAssociate
<1> QED BY <1>2 DEF Before

\* Arguments that are no options are operands.
LEMMA OperandsMean ==
  ASSUME NEW V, NEW A, NEW optstring, NEW longopts, NEW m, Context(V, A, optstring, longopts, m),
         NEW i \in 2..Len(A) + 1, NEW j \in i..Len(A) + 1,
         \A k \in i..j - 1 : ~is_option(A[k])
  PROVE  Before(SubSeq(A, i, j - 1), m[i], m[j])
<1> DEFINE T == {k \in i..j : Before(SubSeq(A, k, j - 1), m[k], m[j])}
<1>1. /\ Len(A) \in Nat /\ A \in Texts /\ \A k \in 1..Len(A) : A[k] \in Text
      /\ \A k \in 2..Len(A) + 2 : m[k] \in Meanings(V)
  BY ContextTypes
<1>2. j \in T
  <2>1. SubSeq(A, j, j - 1) = <<>>
    BY <1>1, SubSeqEmpty
  <2>2. Before(<<>>, m[j], m[j])
    BY <1>1, BeforeNothing
  <2>3. j \in i..j
    BY <1>1
  <2> QED BY <2>1, <2>2, <2>3
<1>3. ASSUME NEW k \in i..j - 1, k + 1 \in T PROVE k \in T
  <2>1. k \in 2..Len(A) /\ k \in 1..Len(A) /\ j - 1 \in k..Len(A) /\ k \in i..j
    BY <1>1
  <2>2. Before(<<A[k]>>, m[k], m[k + 1])
    BY <2>1, OperandMeans
  <2>3. Before(SubSeq(A, k + 1, j - 1), m[k + 1], m[j])
    BY <1>3
  <2>4. SubSeq(A, k, j - 1) = <<A[k]>> \o SubSeq(A, k + 1, j - 1)
    BY <1>1, <2>1, SubSeqRecursiveFirst DEF Texts
  <2>5. <<A[k]>> \in Texts /\ SubSeq(A, k + 1, j - 1) \in Texts /\ m[j] \in Meanings(V)
    <3>1. <<A[k]>> \in Texts
      BY <1>1, <2>1 DEF Texts
    <3>2. k + 1 \in 1..Len(A) + 1 /\ j - 1 \in (k + 1) - 1..Len(A) /\ j \in 2..Len(A) + 2
      BY <1>1, <2>1
    <3>3. SubSeq(A, k + 1, j - 1) \in Texts
      BY <1>1, <3>2, SubSeqIs DEF Texts
    <3> QED BY <1>1, <3>1, <3>2, <3>3
  <2>6. Before(SubSeq(A, k, j - 1), m[k], m[j])
    BY <2>2, <2>3, <2>4, <2>5, BeforeBoth
  <2> QED BY <2>1, <2>6
<1> HIDE DEF T
<1>4. ASSUME NEW k \in i..j, \A x \in k + 1..j : x \in T PROVE k \in T
  <2>1. CASE k = j
    BY <1>2, <2>1
  <2>2. CASE k # j
    <3>1. k \in i..j - 1 /\ k + 1 \in k + 1..j
      BY <1>1, <2>2
    <3> QED BY <1>3, <1>4, <3>1
  <2> QED BY <2>1, <2>2
<1>5. \A k \in i..j : k \in T
  <2>1. i \in Nat /\ j \in Nat
    BY <1>1
  <2> QED BY <1>4, <2>1, DownTo
<1>6. i \in T
  BY <1>1, <1>5
<1> QED BY <1>6 DEF T

-----------------------------------------------------------------------------
(* A call of getopt *)

Fields == {"argv", "optind", "optarg", "optopt", "argind", "optbase", "nextchar", "optmark"}

\* The last option read is at argind, the operands skipped before it end at
\* optmark, and what follows it is as it was typed.
Placed(A, s) ==
  /\ DOMAIN s = Fields
  /\ s.argv \in Texts /\ Len(s.argv) = Len(A)
  /\ s.optbase \in Nat /\ s.optmark \in s.optbase..s.argind
  /\ s.optbase < s.optmark => s.optbase # 0
  /\ s.argind \in 0..Len(A) - 1 /\ s.optind \in 1..Len(A)
  /\ \A i \in s.argind + 1..Len(A) : s.argv[i] = A[i]

\* getopt is at the j-th character of a group.
InGroup(A, s, j) ==
  LET arg == A[s.argind + 1] IN
  /\ Placed(A, s) /\ s.argind # 0
  /\ j \in 2..Len(arg) /\ s.nextchar = SubSeq(arg, j, Len(arg))

\* x is the meaning of what getopt has left to read.
Owes(A, optstring, m, s, x) ==
  /\ Placed(A, s)
  /\ \/ s.nextchar = <<>> /\ s.optind = s.argind + 1 /\ x = m[s.argind + 2]
     \/ /\ s.optind = s.argind
        /\ \E j : InGroup(A, s, j) /\ x = Group(A, optstring, m, s.argind + 1)[j]

Skipped(s) == SubSeq(s.argv, s.optbase + 1, s.optmark)

\* What holds also after the last call.
Bounded(A, s) ==
  /\ DOMAIN s = Fields
  /\ s.argv \in Texts /\ Len(s.argv) = Len(A)
  /\ s.argind \in 0..Len(A) /\ s.optmark \in 0..Len(A) /\ s.optind \in 1..Len(A)
  /\ s.optbase \in 0..Len(A) /\ s.optbase <= s.argind + 1

\* A call that returns an option, one that fails.
ReadsOption(V, A, optstring, m, s, x, r) ==
  /\ r.ret \in V /\ r.g.optarg \in Optarg
  /\ \E y \in Meanings(V) : /\ Owes(A, optstring, m, r.g, y)
                            /\ x = WithOption(r.ret, r.g.optarg, y)
  /\ Skipped(r.g) = Skipped(s)

\* c is one of the tool's options.
Returned(optstring, longopts, c) ==
  IsOption(c, optstring) \/ \E i \in DOMAIN longopts : c = longopts[i].val

ShortRead(optstring, r) ==
  /\ IsOption(r.ret, optstring) /\ r.g.optopt = r.ret
  /\ ~Takes(r.ret, optstring) => r.g.optarg = NULL

Fails(A, r) == r.ret \in {"?", ":"} /\ Bounded(A, r.g)

LEMMA MissingArg ==
  ASSUME NEW optstring, OptString(optstring)
  PROVE  getoptW_missing_arg(optstring) = "?"
<1>1. Flags(optstring) = 0 /\ optstring[0 + 1] # ":"
  BY DEF OptString, Flags
<1> QED BY <1>1 DEF getoptW_missing_arg

LEMMA PlacedBounded ==
  ASSUME NEW A, Len(A) \in Nat, NEW s, Placed(A, s)
  PROVE  Bounded(A, s)
BY DEF Placed, Bounded

\* A state that differs only in what Placed does not mention.
LEMMA PlacedStill ==
  ASSUME NEW A, NEW s, Placed(A, s), NEW t, DOMAIN t = Fields, t.argv = s.argv,
         t.optbase = s.optbase, t.optmark = s.optmark, t.argind = s.argind,
         t.optind \in 1..Len(A)
  PROVE  Placed(A, t) /\ Skipped(t) = Skipped(s)
BY DEF Placed, Skipped

\* The next character of a group, read or not.
LEMMA ShortFails ==
  ASSUME NEW A, Len(A) \in Nat, NEW s, Placed(A, s), NEW t, DOMAIN t = Fields, t.argv = s.argv,
         t.optbase = s.optbase, t.optmark = s.optmark, t.argind = s.argind,
         t.optind \in {s.argind, s.argind + 1, s.optind}, s.argind # 0
  PROVE  Bounded(A, t)
<1>1. t.optind \in 1..Len(A)
  BY DEF Placed
<1> QED BY <1>1, PlacedStill, PlacedBounded

LEMMA ShortOptionIs ==
  ASSUME NEW V, NEW A, NEW optstring, NEW longopts, NEW m, Context(V, A, optstring, longopts, m),
         NEW s, NEW j, InGroup(A, s, j), NEW mode,
         NEW x, x = Group(A, optstring, m, s.argind + 1)[j],
         NEW r, r = ShortOption(s, mode, optstring)
  PROVE  \/ ReadsOption(V, A, optstring, m, s, x, r) /\ ShortRead(optstring, r)
         \/ Fails(A, r) /\ Rejected(x)
<1> DEFINE k == s.argind + 1
           n == Len(A)
           arg == A[k]
           c == Head(s.nextchar)
           rest == Tail(s.nextchar)
           at == getoptW_match(c, optstring)
           next == IF rest # <<>> THEN s.argind ELSE s.argind + 1
           read == [s EXCEPT !.nextchar = rest, !.optopt = c]
           done == [read EXCEPT !.optind = s.argind + 1, !.nextchar = <<>>]
           takes == takes_argument(at, optstring)
           group == Group(A, optstring, m, k)
<1>1. /\ Placed(A, s) /\ s.argind # 0
      /\ j \in 2..Len(arg) /\ s.nextchar = SubSeq(arg, j, Len(arg))
  BY DEF InGroup
<1>2. /\ DOMAIN s = Fields /\ s.argind \in Nat /\ k \in 2..n /\ s.optind \in 1..n
      /\ s.argv \in Texts /\ Len(s.argv) = n
      /\ \A i \in k..n : s.argv[i] = A[i]
  BY <1>1, ContextTypes DEF Placed
<1>3. /\ n \in Nat /\ arg \in Text /\ Len(arg) \in Nat
      /\ m[k + 1] \in Meanings(V) /\ m[k + 2] \in Meanings(V)
      /\ OptString(optstring) /\ Character \subseteq V
  <2>1. k + 1 \in 2..n + 2 /\ k + 2 \in 2..n + 2 /\ k \in 1..n
    BY <1>2, ContextTypes
  <2> QED BY <2>1, ContextTypes DEF Context
<1>4. /\ c = arg[j] /\ rest = SubSeq(arg, j + 1, Len(arg)) /\ (rest = <<>> <=> j = Len(arg))
      /\ c \in Character /\ rest \in Text
  <2>1. j \in 1..Len(arg) /\ arg \in Seq(Character)
    BY <1>1, <1>3 DEF Text
  <2>2. c = arg[j] /\ rest = SubSeq(arg, j + 1, Len(arg)) /\ (rest = <<>> <=> j = Len(arg))
    <3> DEFINE t == SubSeq(arg, j, Len(arg))
    <3>1. /\ Head(t) = arg[j] /\ Tail(t) = SubSeq(arg, j + 1, Len(arg))
          /\ SubSeq(arg, j + 1, Len(arg)) = <<>> <=> j = Len(arg)
      <4> HIDE DEF arg
      <4> QED BY <2>1, SuffixIs
    <3>2. s.nextchar = t
      BY <1>1
    <3> HIDE DEF t
    <3> QED BY <3>1, <3>2
  <2>3. arg[j] \in Character
    BY <2>1
  <2>4. SubSeq(arg, j + 1, Len(arg)) \in Text
    BY <2>1, SubSeqIs DEF Text
  <2> QED BY <2>2, <2>3, <2>4
<1>5. x = GroupStep(A, k, optstring, m[k + 1], m[k + 2], j, group[j + 1])
      /\ (j # Len(arg) => group[j + 1] \in Meanings(V))
  <2>1. k \in 1..n /\ A \in Texts
    BY <1>2, ContextTypes
  <2>2. \A i \in 2..Len(arg) :
          /\ group[i] = GroupStep(A, k, optstring, m[k + 1], m[k + 2], i, group[i + 1])
          /\ group[i] \in Meanings(V)
    BY <1>3, <2>1, GroupUnfolds DEF Group
  <2>3. j # Len(arg) => j + 1 \in 2..Len(arg)
    BY <1>1, <1>3
  <2> QED BY <1>1, <2>2, <2>3
<1>6. /\ at = 0 => ~IsOption(c, optstring)
      /\ c = ":" => ~IsOption(c, optstring)
      /\ at # 0 /\ c # ":" => IsOption(c, optstring) /\ (takes <=> Takes(c, optstring))
      /\ at # 0 /\ c = ":" => ~takes
      /\ takes => ~takes_argument(at + 1, optstring)
  BY <1>3, OptionIs
<1>7. ~IsOption(c, optstring) => Rejected(x)
  <2>1. ~IsOption(c, optstring) => x = Wrong
    BY <1>4, <1>5, GroupStepIs
  <2> QED BY <2>1, NothingMeans DEF Rejected
<1>8. /\ DOMAIN read = Fields /\ read.argv = s.argv /\ read.optbase = s.optbase
      /\ read.optmark = s.optmark /\ read.argind = s.argind /\ read.optind = s.optind
      /\ read.nextchar = rest /\ read.optopt = c
  BY <1>2 DEF Fields
<1>9. /\ DOMAIN done = Fields /\ done.argv = s.argv /\ done.optbase = s.optbase
      /\ done.optmark = s.optmark /\ done.argind = s.argind /\ done.optind = s.argind + 1
      /\ done.nextchar = <<>> /\ done.optopt = c
  <2> HIDE DEF read
  <2> QED BY <1>8 DEF Fields
<1>10. /\ at = 0 /\ mode = "long_only" =>
            r = [g |-> [done EXCEPT !.optopt = NULL], ret |-> "?"]
       /\ at = 0 /\ mode # "long_only" => r = [g |-> [read EXCEPT !.optind = next], ret |-> "?"]
       /\ at # 0 /\ ~takes =>
            r = [g |-> [read EXCEPT !.optarg = NULL, !.optind = next], ret |-> c]
       /\ at # 0 /\ takes /\ rest # <<>> =>
            r = [g |-> [done EXCEPT !.optarg = rest], ret |-> c]
       /\ at # 0 /\ takes /\ rest = <<>> /\ ~takes_argument(at + 1, optstring) =>
            r = WithNextArg(read, c, optstring)
  BY DEF ShortOption
<1> HIDE DEF c, rest, at, read, done, takes, group, n
<1>11. CASE at = 0
  <2>1. CASE mode = "long_only"
    <3>1. r.ret = "?" /\ r.g = [done EXCEPT !.optopt = NULL]
      BY <1>10, <1>11, <2>1
    <3>2. /\ DOMAIN r.g = Fields /\ r.g.argv = s.argv /\ r.g.optbase = s.optbase
          /\ r.g.optmark = s.optmark /\ r.g.argind = s.argind /\ r.g.optind = s.argind + 1
      BY <1>9, <3>1 DEF Fields
    <3>3. Bounded(A, r.g)
      BY <1>1, <1>3, <3>2, ShortFails DEF n
    <3> QED BY <1>6, <1>7, <1>11, <3>1, <3>3 DEF Fails
  <2>2. CASE mode # "long_only"
    <3>1. r.ret = "?" /\ r.g = [read EXCEPT !.optind = next]
      BY <1>10, <1>11, <2>2
    <3>2. /\ DOMAIN r.g = Fields /\ r.g.argv = s.argv /\ r.g.optbase = s.optbase
          /\ r.g.optmark = s.optmark /\ r.g.argind = s.argind /\ r.g.optind = next
      BY <1>8, <3>1 DEF Fields
    <3>3. Bounded(A, r.g)
      BY <1>1, <1>3, <3>2, ShortFails DEF n
    <3> QED BY <1>6, <1>7, <1>11, <3>1, <3>3 DEF Fails
  <2> QED BY <2>1, <2>2
<1>12. CASE at # 0 /\ ~takes
  <2>1. r.ret = c /\ r.g = [read EXCEPT !.optarg = NULL, !.optind = next]
    BY <1>10, <1>12
  <2>2. /\ DOMAIN r.g = Fields /\ r.g.argv = s.argv /\ r.g.optbase = s.optbase
        /\ r.g.optmark = s.optmark /\ r.g.argind = s.argind /\ r.g.optind = next
        /\ r.g.nextchar = rest /\ r.g.optopt = c /\ r.g.optarg = NULL
    <3> HIDE DEF next
    <3> QED BY <1>8, <2>1 DEF Fields
  <2>3. CASE c = ":"
    <3>1. Bounded(A, r.g)
      BY <1>1, <1>3, <2>2, ShortFails DEF n
    <3> QED BY <1>6, <1>7, <2>1, <2>3, <3>1 DEF Fails
  <2>4. CASE c # ":"
    <3>1. IsOption(c, optstring) /\ ~Takes(c, optstring)
      BY <1>6, <1>12, <2>4
    <3> DEFINE y == IF j = Len(arg) THEN m[k + 1] ELSE group[j + 1]
    <3>2. x = WithOption(c, NULL, y)
      BY <1>4, <1>5, <3>1, GroupStepIs
    <3>3. y \in Meanings(V)
      BY <1>3, <1>5
    <3>4. next \in 1..Len(A)
      BY <1>1, <1>2 DEF n
    <3>5. Placed(A, r.g) /\ Skipped(r.g) = Skipped(s)
      <4> HIDE DEF next
      <4> QED BY <1>1, <2>2, <3>4, PlacedStill
    <3>6. Owes(A, optstring, m, r.g, y)
      <4>1. CASE j = Len(arg)
        <5>1. r.g.nextchar = <<>> /\ r.g.optind = r.g.argind + 1
          BY <1>4, <2>2, <4>1
        <5>2. y = m[r.g.argind + 2]
          BY <1>2, <2>2, <4>1
        <5> QED BY <3>5, <5>1, <5>2 DEF Owes
      <4>2. CASE j # Len(arg)
        <5>1. r.g.optind = r.g.argind
          BY <1>4, <2>2, <4>2
        <5>2. InGroup(A, r.g, j + 1)
          BY <1>1, <1>3, <1>4, <2>2, <3>5, <4>2 DEF InGroup
        <5>3. y = Group(A, optstring, m, r.g.argind + 1)[j + 1]
          BY <2>2, <4>2 DEF group
        <5> HIDE DEF y
        <5> QED BY <3>5, <5>1, <5>2, <5>3 DEF Owes
      <4> QED BY <4>1, <4>2
    <3> HIDE DEF y
    <3>7. r.ret \in V /\ r.g.optarg \in Optarg
      BY <1>3, <1>4, <2>1, <2>2 DEF Optarg
    <3> QED BY <2>1, <2>2, <3>1, <3>2, <3>3, <3>5, <3>6, <3>7 DEF ReadsOption, ShortRead
  <2> QED BY <2>3, <2>4
<1>13. CASE at # 0 /\ takes /\ rest # <<>>
  <2>1. r.ret = c /\ r.g = [done EXCEPT !.optarg = rest]
    BY <1>10, <1>13
  <2>2. /\ DOMAIN r.g = Fields /\ r.g.argv = s.argv /\ r.g.optbase = s.optbase
        /\ r.g.optmark = s.optmark /\ r.g.argind = s.argind /\ r.g.optind = s.argind + 1
        /\ r.g.nextchar = <<>> /\ r.g.optopt = c /\ r.g.optarg = rest
    BY <1>9, <2>1 DEF Fields
  <2>3. IsOption(c, optstring) /\ Takes(c, optstring) /\ j # Len(arg)
    BY <1>4, <1>6, <1>13
  <2>4. x = WithOption(c, rest, m[k + 1])
    BY <1>4, <1>5, <2>3, GroupStepIs
  <2>5. Placed(A, r.g) /\ Skipped(r.g) = Skipped(s)
    <3>1. s.argind + 1 \in 1..Len(A)
      BY <1>2 DEF n
    <3> QED BY <1>1, <2>2, <3>1, PlacedStill
  <2>6. Owes(A, optstring, m, r.g, m[k + 1])
    <3>1. k + 1 = r.g.argind + 2
      BY <1>2, <2>2
    <3> QED BY <2>2, <2>5, <3>1 DEF Owes
  <2>7. r.ret \in V /\ r.g.optarg \in Optarg
    BY <1>3, <1>4, <2>1, <2>2 DEF Optarg
  <2> QED BY <1>3, <2>1, <2>2, <2>3, <2>4, <2>5, <2>6, <2>7 DEF ReadsOption, ShortRead
<1>14. CASE at # 0 /\ takes /\ rest = <<>>
  <2>1. r = WithNextArg(read, c, optstring)
    BY <1>6, <1>10, <1>14
  <2>2. IsOption(c, optstring) /\ Takes(c, optstring) /\ j = Len(arg)
    BY <1>4, <1>6, <1>14
  <2>3. x = ByNext(c, A, k, m[k + 2])
    BY <1>4, <1>5, <2>2, GroupStepIs
  <2>4. CASE k < n
    <3> DEFINE a == Arg(read, read.argind + 1)
    <3>1. r.ret = c /\ r.g = [read EXCEPT !.optarg = a, !.argind = @ + 1,
                                          !.optind = read.argind + 2, !.nextchar = <<>>]
      <4>1. argc(read) - read.argind > 1
        BY <1>2, <1>3, <1>8, <2>4 DEF argc
      <4> QED BY <2>1, <4>1 DEF WithNextArg
    <3>2. a = A[k + 1] /\ a \in Text
      <4>1. (s.argind + 1) + 1 = k + 1 /\ k + 1 \in k..n /\ k + 1 \in 1..n
        BY <1>2, <1>3, <2>4
      <4>2. A[k + 1] \in Text
        BY <4>1, ContextTypes DEF n
      <4> QED BY <1>2, <1>8, <4>1, <4>2 DEF Arg
    <3> HIDE DEF a
    <3>3. /\ DOMAIN r.g = Fields /\ r.g.argv = s.argv /\ r.g.optbase = s.optbase
          /\ r.g.optmark = s.optmark /\ r.g.argind = s.argind + 1 /\ r.g.optind = s.argind + 2
          /\ r.g.nextchar = <<>> /\ r.g.optopt = c /\ r.g.optarg = a
      BY <1>8, <3>1 DEF Fields
    <3>4. x = WithOption(c, a, m[k + 2])
      BY <2>3, <2>4, <3>2 DEF ByNext, n
    <3>5. Placed(A, r.g) /\ Skipped(r.g) = Skipped(s)
      <4>1. Skipped(r.g) = Skipped(s)
        BY <3>3 DEF Skipped
      <4>2. s.argind + 1 \in 0..n - 1 /\ s.argind + 2 \in 1..n
        BY <1>2, <1>3, <2>4
      <4>3. /\ s.optbase \in Nat /\ s.optmark \in s.optbase..s.argind + 1
            /\ s.optbase < s.optmark => s.optbase # 0
        BY <1>1, <1>2 DEF Placed
      <4>4. \A i \in (s.argind + 1) + 1..n : s.argv[i] = A[i]
        BY <1>2, <1>3
      <4> QED BY <1>2, <3>3, <4>1, <4>2, <4>3, <4>4 DEF Placed, n
    <3>6. Owes(A, optstring, m, r.g, m[k + 2])
      <4>1. k + 2 = r.g.argind + 2 /\ r.g.optind = r.g.argind + 1
        BY <1>2, <3>3
      <4> QED BY <3>3, <3>5, <4>1 DEF Owes
    <3>7. r.ret \in V /\ r.g.optarg \in Optarg
      BY <1>3, <1>4, <3>1, <3>2, <3>3 DEF Optarg
    <3> QED BY <1>3, <2>2, <3>1, <3>3, <3>4, <3>5, <3>6, <3>7 DEF ReadsOption, ShortRead
  <2>5. CASE ~(k < n)
    <3>1. r.ret = "?" /\ r.g = [read EXCEPT !.optarg = <<>>]
      <4>1. ~(argc(read) - read.argind > 1)
        BY <1>2, <1>3, <1>8, <2>5 DEF argc
      <4> QED BY <1>3, <2>1, <4>1, MissingArg DEF WithNextArg
    <3>2. /\ DOMAIN r.g = Fields /\ r.g.argv = s.argv /\ r.g.optbase = s.optbase
          /\ r.g.optmark = s.optmark /\ r.g.argind = s.argind /\ r.g.optind = s.optind
      BY <1>8, <3>1 DEF Fields
    <3>3. Bounded(A, r.g)
      BY <1>1, <1>3, <3>2, ShortFails DEF n
    <3>4. Rejected(x)
      BY <2>3, <2>5, NothingMeans DEF ByNext, n, Rejected
    <3> QED BY <3>1, <3>3, <3>4 DEF Fails
  <2> QED BY <2>4, <2>5
<1> QED BY <1>11, <1>12, <1>13, <1>14

\* No name of a long option begins another one.
Begins(stem, name) == Len(stem) <= Len(name) /\ SubSeq(name, 1, Len(stem)) = stem
LongNames(longopts, C) ==
  /\ \A i \in DOMAIN longopts : longopts[i].name \in Seq(C)
  /\ \A i, j \in DOMAIN longopts : i # j => ~Begins(longopts[i].name, longopts[j].name)

\* The sets getopt searches for a long option.
Exact(text, longopts) ==
  {i \in DOMAIN longopts : getoptW_match_long(text, longopts[i].name) = "exact"}
Abbreviated(text, longopts) ==
  {i \in DOMAIN longopts : getoptW_match_long(text, longopts[i].name) = "abbreviated"}
Decisive(text, longopts) ==
  Exact(text, longopts)
    \cup {i \in Abbreviated(text, longopts) : \E j \in Abbreviated(text, longopts) : j < i}

LEMMA StemTypes ==
  ASSUME NEW text \in Text
  PROVE  Stem(text) \in Text /\ Len(Stem(text)) \in Nat
<1>1. CASE Assign(text) = {}
  BY <1>1 DEF Stem, Text
<1>2. CASE Assign(text) # {}
  <2>1. Len(text) \in Nat /\ Assign(text) \in SUBSET Nat
    BY DEF Assign, Text
  <2>2. Least(Assign(text)) \in 1..Len(text)
    BY <1>2, <2>1, LeastIs DEF Assign
  <2> DEFINE i == Least(Assign(text))
  <2>3. i - 1 \in 0..Len(text) /\ Stem(text) = SubSeq(text, 1, i - 1)
    BY <1>2, <2>1, <2>2 DEF Stem
  <2> HIDE DEF i
  <2> QED BY <2>3, PrefixTypes DEF Text
<1> QED BY <1>1, <1>2

LEMMA MatchLongIs ==
  ASSUME NEW C, NEW name \in Seq(C), NEW text \in Text
  PROVE  /\ getoptW_match_long(text, name) = "exact" <=> name = Stem(text)
         /\ getoptW_match_long(text, name) = "abbreviated"
              <=> name # Stem(text) /\ Begins(Stem(text), name)
<1> DEFINE stem == Stem(text)
<1>1. stem \in Text /\ Len(stem) \in Nat /\ Len(name) \in Nat
  BY StemTypes
<1>2. getoptW_match_long(text, name)
        = CASE stem = name -> "exact"
            [] stem # name /\ Len(stem) < Len(name) /\ SubSeq(name, 1, Len(stem)) = stem
                 -> "abbreviated"
            [] OTHER -> "none"
  BY DEF getoptW_match_long
<1>3. SubSeq(name, 1, Len(name)) = name
  BY SubSeqFull
<1> HIDE DEF stem
<1>4. Len(stem) = Len(name) /\ SubSeq(name, 1, Len(stem)) = stem => stem = name
  BY <1>3
<1>5. Begins(stem, name) /\ stem # name
        <=> stem # name /\ Len(stem) < Len(name) /\ SubSeq(name, 1, Len(stem)) = stem
  BY <1>1, <1>4 DEF Begins
<1> QED BY <1>2, <1>5 DEF stem

\* The long option a text names is the one getopt finds.
LEMMA LongFound ==
  ASSUME NEW V, NEW C, NEW longopts, LongOptions(longopts, V), LongNames(longopts, C),
         NEW text \in Text
  PROVE  LET exact == Exact(text, longopts)
             abbreviated == Abbreviated(text, longopts)
             decisive == Decisive(text, longopts)
             named == LongNamed(text, longopts)
         IN  /\ decisive # {} /\ Least(decisive) \notin abbreviated =>
                  named # {} /\ Least(named) = Least(decisive)
             /\ decisive = {} /\ abbreviated # {} =>
                  named # {} /\ Least(named) = Least(abbreviated)
             /\ (decisive # {} /\ Least(decisive) \in abbreviated)
                  \/ (decisive = {} /\ abbreviated = {}) => named = {}
<1> DEFINE D == DOMAIN longopts
           stem == Stem(text)
           exact == Exact(text, longopts)
           abbreviated == Abbreviated(text, longopts)
           decisive == Decisive(text, longopts)
           named == LongNamed(text, longopts)
           name(i) == longopts[i].name
           some == {i \in D : Begins(stem, name(i))}
<1>1. D \in SUBSET Nat /\ \A i \in D : name(i) \in Seq(C) /\ Len(name(i)) \in Nat
  BY DEF LongOptions, LongNames
<1>2. \A i, j \in D : i # j => ~Begins(name(i), name(j))
  BY DEF LongNames
<1>3. exact = {i \in D : name(i) = stem}
  BY <1>1, MatchLongIs DEF Exact
<1>4. abbreviated = {i \in D : name(i) # stem /\ Begins(stem, name(i))}
  BY <1>1, MatchLongIs DEF Abbreviated
<1>5. decisive = exact \cup {i \in abbreviated : \E j \in abbreviated : j < i}
  BY DEF Decisive
<1>6. named = IF exact # {} THEN exact ELSE {i \in some : \A j \in some : j = i}
  BY <1>3 DEF LongNamed, Begins
<1>7. \A i \in D : name(i) = stem => Begins(stem, name(i))
  <2> TAKE i \in D
  <2>1. Len(name(i)) <= Len(name(i)) /\ SubSeq(name(i), 1, Len(name(i))) = name(i)
    BY <1>1, SubSeqFull
  <2> QED BY <2>1 DEF Begins
<1> HIDE DEF D, stem, exact, abbreviated, decisive, named, name
<1>8. some = exact \cup abbreviated
  BY <1>3, <1>4, <1>7
<1> HIDE DEF some
<1>9. \A i, j \in exact : i = j
  BY <1>2, <1>3, <1>7
<1>10. exact # {} => abbreviated = {}
  BY <1>2, <1>3, <1>4
<1>11. exact \in SUBSET Nat /\ abbreviated \in SUBSET Nat /\ decisive \in SUBSET Nat
  BY <1>1, <1>3, <1>4, <1>5
<1>12. CASE exact # {}
  <2>1. decisive = exact /\ named = exact /\ abbreviated = {}
    BY <1>5, <1>6, <1>10, <1>12
  <2> QED BY <1>12, <2>1 DEF decisive, named, exact, abbreviated
<1>13. CASE exact = {} /\ decisive = {} /\ abbreviated # {}
  <2>1. \A i, j \in abbreviated : i = j
    BY <1>5, <1>11, <1>13
  <2>2. named = abbreviated
    BY <1>6, <1>8, <1>13, <2>1
  <2> QED BY <1>13, <2>2 DEF decisive, named, exact, abbreviated
<1>14. CASE exact = {} /\ decisive = {} /\ abbreviated = {}
  <2>1. named = {}
    BY <1>6, <1>8, <1>14
  <2> QED BY <1>14, <2>1 DEF decisive, named, exact, abbreviated
<1>15. CASE exact = {} /\ decisive # {}
  <2>1. Least(decisive) \in decisive
    BY <1>11, <1>15, LeastIs
  <2>2. PICK i \in abbreviated : \E j \in abbreviated : j < i
    BY <1>5, <1>15
  <2>3. PICK j \in abbreviated : j # i
    BY <1>11, <2>2
  <2>4. named = {}
    BY <1>6, <1>8, <1>15, <2>2, <2>3
  <2>5. Least(decisive) \in abbreviated
    BY <1>5, <1>15, <2>1
  <2> QED BY <1>15, <2>4, <2>5 DEF decisive, named, exact, abbreviated
<1> QED BY <1>12, <1>13, <1>14, <1>15

\* A long option, found, with or without an argument.
LEMMA ResolvedIs ==
  ASSUME NEW V, NEW A, NEW optstring, NEW longopts, NEW m, Context(V, A, optstring, longopts, m),
         NEW s, Placed(A, s), NEW k, k = s.argind + 1,
         NEW i \in DOMAIN longopts, NEW text \in Text, s.optarg = Assigned(text),
         NEW x, x = LongMeaning(longopts[i], text, A, k, m[k + 1], m[k + 2]),
         NEW r, r = getoptW_resolved(s, longopts[i], optstring)
  PROVE  \/ ReadsOption(V, A, optstring, m, s, x, r) /\ Returned(optstring, longopts, r.ret)
         \/ Fails(A, r)
<1> DEFINE n == Len(A)
           o == longopts[i]
           done == [s EXCEPT !.optind = s.argind + 1, !.nextchar = <<>>]
           a == Assigned(text)
<1>1. /\ DOMAIN s = Fields /\ s.argind \in Nat /\ k \in 1..n /\ n \in Nat
      /\ s.argv \in Texts /\ Len(s.argv) = n /\ s.optbase \in Nat
      /\ s.optmark \in s.optbase..s.argind /\ (s.optbase < s.optmark => s.optbase # 0)
      /\ \A j \in k..n : s.argv[j] = A[j]
  BY ContextTypes, SMTT(30) DEF Placed
<1>2. /\ m[k + 1] \in Meanings(V) /\ o.val \in V /\ a \in Optarg /\ OptString(optstring)
      /\ k < n => m[k + 2] \in Meanings(V)
  <2>1. k + 1 \in 2..n + 2 /\ k + 2 \in 2..n + 2
    BY <1>1, SMTT(30)
  <2>2. m[k + 1] \in Meanings(V) /\ m[k + 2] \in Meanings(V)
    BY <2>1, ContextTypes
  <2> QED BY <2>2, AssignedTypes DEF Context, LongOptions
<1>3. /\ DOMAIN done = Fields /\ done.argv = s.argv /\ done.optbase = s.optbase
      /\ done.optmark = s.optmark /\ done.argind = s.argind /\ done.optind = s.argind + 1
      /\ done.nextchar = <<>> /\ done.optarg = a
  BY <1>1 DEF Fields
<1>4. r = CASE done.optarg # NULL /\ o.has_arg = "no" -> getoptW_argerror(done, o, "?")
            [] done.optarg = NULL /\ o.has_arg = "required" ->
                 IF done.optind < argc(done)
                 THEN [g |-> [done EXCEPT !.optarg = Arg(done, done.optind),
                                          !.argind = done.optind, !.optind = done.optind + 1],
                       ret |-> o.val]
                 ELSE getoptW_argerror(done, o, getoptW_missing_arg(optstring))
            [] OTHER -> [g |-> done, ret |-> o.val]
  BY DEF getoptW_resolved
<1>5. x = CASE a # NULL -> IF o.has_arg = "no" THEN Wrong ELSE WithOption(o.val, a, m[k + 1])
            [] a = NULL /\ o.has_arg = "required" -> ByNext(o.val, A, k, m[k + 2])
            [] OTHER -> WithOption(o.val, NULL, m[k + 1])
  BY DEF LongMeaning
<1>6. Placed(A, done) /\ Skipped(done) = Skipped(s) /\ Bounded(A, done)
  <2>1. s.argind + 1 \in 1..Len(A)
    BY <1>1
  <2>2. Placed(A, done) /\ Skipped(done) = Skipped(s)
    <3> HIDE DEF done
    <3> QED BY <1>3, <2>1, PlacedStill
  <2> QED BY <1>1, <2>2, PlacedBounded
<1>7. ASSUME NEW c, NEW e, e = getoptW_argerror(done, o, c), c = "?" PROVE Fails(A, e)
  <2>1. e.ret = "?" /\ e.g = [done EXCEPT !.optopt = o.val]
    BY <1>7 DEF getoptW_argerror
  <2> HIDE DEF done, o
  <2>2. /\ DOMAIN e.g = Fields /\ e.g.argv = s.argv /\ e.g.optbase = s.optbase
        /\ e.g.optmark = s.optmark /\ e.g.argind = s.argind /\ e.g.optind = s.argind + 1
    BY <1>3, <2>1 DEF Fields
  <2>3. Bounded(A, e.g)
    BY <1>3, <1>6, <2>2 DEF Bounded
  <2> QED BY <2>1, <2>3 DEF Fails
<1> HIDE DEF done, o, a
<1>8. CASE a # NULL /\ o.has_arg = "no"
  <2>1. r = getoptW_argerror(done, o, "?")
    BY <1>3, <1>4, <1>8
  <2> QED BY <1>7, <2>1
<1>9. CASE a = NULL /\ o.has_arg = "required" /\ ~(k < n)
  <2>1. ~(done.optind < argc(done))
    BY <1>1, <1>3, <1>9 DEF argc
  <2>2. r = getoptW_argerror(done, o, getoptW_missing_arg(optstring))
    BY <1>3, <1>4, <1>9, <2>1
  <2> QED BY <1>2, <1>7, <2>2, MissingArg
<1>10. CASE a = NULL /\ o.has_arg = "required" /\ k < n
  <2>1. done.optind < argc(done)
    BY <1>1, <1>3, <1>10 DEF argc
  <2> DEFINE b == Arg(done, done.optind)
  <2>2. r.ret = o.val /\ r.g = [done EXCEPT !.optarg = b, !.argind = done.optind,
                                            !.optind = done.optind + 1]
    BY <1>3, <1>4, <1>10, <2>1
  <2>3. b = A[k + 1] /\ b \in Text
    <3>1. k + 1 \in k..n /\ k + 1 \in 1..n /\ (s.argind + 1) + 1 = k + 1
      BY <1>1, <1>10, SMTT(30)
    <3>2. A[k + 1] \in Text
      BY <3>1, ContextTypes DEF n
    <3>3. b = s.argv[(s.argind + 1) + 1]
      BY <1>3 DEF Arg
    <3> QED BY <1>1, <3>1, <3>2, <3>3
  <2> HIDE DEF b
  <2>4. /\ DOMAIN r.g = Fields /\ r.g.argv = s.argv /\ r.g.optbase = s.optbase
        /\ r.g.optmark = s.optmark /\ r.g.argind = s.argind + 1 /\ r.g.optind = s.argind + 1 + 1
        /\ r.g.nextchar = <<>> /\ r.g.optarg = b
    BY <1>3, <2>2 DEF Fields
  <2>5. x = WithOption(o.val, b, m[k + 2])
    BY <1>5, <1>10, <2>3 DEF ByNext, n
  <2>6. Placed(A, r.g) /\ Skipped(r.g) = Skipped(s)
    <3>1. Skipped(r.g) = Skipped(s)
      BY <2>4 DEF Skipped
    <3>2. s.argind + 1 \in 0..n - 1 /\ s.argind + 1 + 1 \in 1..n
      BY <1>1, <1>10, SMTT(30)
    <3>3. s.optmark \in s.optbase..s.argind + 1
      BY <1>1
    <3>4. \A j \in (s.argind + 1) + 1..n : s.argv[j] = A[j]
      BY <1>1
    <3> QED BY <1>1, <2>4, <3>1, <3>2, <3>3, <3>4 DEF Placed, n
  <2>7. Owes(A, optstring, m, r.g, m[k + 2])
    <3>1. k + 2 = r.g.argind + 2 /\ r.g.optind = r.g.argind + 1
      BY <1>1, <2>4
    <3> QED BY <2>4, <2>6, <3>1 DEF Owes
  <2> QED BY <1>2, <1>10, <2>2, <2>3, <2>4, <2>5, <2>6, <2>7 DEF ReadsOption, Optarg, Returned, o
<1>11. CASE ~(a # NULL /\ o.has_arg = "no") /\ ~(a = NULL /\ o.has_arg = "required")
  <2>1. r.ret = o.val /\ r.g = done
    BY <1>3, <1>4, <1>11
  <2>2. x = WithOption(o.val, a, m[k + 1])
    BY <1>5, <1>11
  <2>3. Owes(A, optstring, m, done, m[k + 1])
    <3>1. k + 1 = done.argind + 2 /\ done.optind = done.argind + 1
      BY <1>1, <1>3
    <3> QED BY <1>3, <1>6, <3>1 DEF Owes
  <2> QED BY <1>2, <1>3, <1>6, <2>1, <2>2, <2>3 DEF ReadsOption, Returned, o
<1> QED BY <1>8, <1>9, <1>10, <1>11

LEMMA NotResolvedIs ==
  ASSUME NEW A, Len(A) \in Nat, NEW s, Placed(A, s), s.argind # 0, NEW r, r = NotResolved(s)
  PROVE  Fails(A, r)
<1>1. DOMAIN s = Fields
  BY DEF Placed
<1>2. r.ret = "?" /\ r.g = [s EXCEPT !.optopt = NULL, !.nextchar = <<>>, !.optind = s.argind + 1]
  BY DEF NotResolved
<1>3. /\ DOMAIN r.g = Fields /\ r.g.argv = s.argv /\ r.g.optbase = s.optbase
      /\ r.g.optmark = s.optmark /\ r.g.argind = s.argind /\ r.g.optind = s.argind + 1
  BY <1>1, <1>2 DEF Fields
<1>4. Bounded(A, r.g)
  BY <1>3, ShortFails
<1> QED BY <1>2, <1>4 DEF Fails

\* An argument that is looked up among the long options, and among the short
\* ones if it is none of those and has a single dash.
LEMMA LongOptionIs ==
  ASSUME NEW V, NEW A, NEW optstring, NEW longopts, NEW m, Context(V, A, optstring, longopts, m),
         NEW C, LongNames(longopts, C), longopts # <<>>,
         NEW s, Placed(A, s), s.argind # 0, NEW k, k = s.argind + 1,
         is_option(A[k]), A[k] # EndMarker,
         NEW mode, A[k][2] = "-" => mode = "long", A[k][2] # "-" => mode = "long_only",
         NEW text, A[k][2] = "-" => text = SubSeq(A[k], 3, Len(A[k])),
         A[k][2] # "-" => text = SubSeq(A[k], 2, Len(A[k])),
         NEW r, r = LongOption(s, mode, text, optstring, longopts)
  PROVE  \/ ReadsOption(V, A, optstring, m, s, m[k], r) /\ Returned(optstring, longopts, r.ret)
         \/ Fails(A, r)
<1> DEFINE exact == Exact(text, longopts)
           abbreviated == Abbreviated(text, longopts)
           decisive == Decisive(text, longopts)
           named == LongNamed(text, longopts)
           t == [s EXCEPT !.nextchar = text,
                          !.optarg = IF exact \cup abbreviated = {} THEN NULL ELSE Assigned(text)]
           short == mode = "long_only" /\ getoptW_verify(text, optstring)
<1>1. r = CASE decisive # {} /\ Least(decisive) \notin abbreviated ->
                 getoptW_resolved(t, longopts[Least(decisive)], optstring)
            [] decisive = {} /\ abbreviated # {} ->
                 getoptW_resolved(t, longopts[Least(abbreviated)], optstring)
            [] OTHER -> IF short THEN ShortOption(t, mode, optstring) ELSE NotResolved(t)
  BY DEF LongOption, Exact, Abbreviated, Decisive
<1>2. k \in 2..Len(A) /\ A[k] \in Text /\ Len(A[k]) \in Nat /\ Len(A) \in Nat /\ DOMAIN s = Fields
  <2>1. Len(A) \in Nat /\ \A i \in 1..Len(A) : A[i] \in Text /\ Len(A[i]) \in Nat
    BY ContextTypes
  <2>2. s.argind \in 0..Len(A) - 1 /\ DOMAIN s = Fields
    BY DEF Placed
  <2> QED BY <2>1, <2>2
<1>3. Len(A[k]) > 1
  BY DEF is_option
<1>4. text \in Text
  <2>1. SubSeq(A[k], 3, Len(A[k])) \in Text
    <3>1. 3 \in 1..Len(A[k]) + 1 /\ Len(A[k]) \in 3 - 1..Len(A[k])
      BY <1>2, <1>3
    <3> QED BY <1>2, <3>1, SubSeqIs DEF Text
  <2>2. SubSeq(A[k], 2, Len(A[k])) \in Text
    <3>1. 2 \in 1..Len(A[k]) + 1 /\ Len(A[k]) \in 2 - 1..Len(A[k])
      BY <1>2, <1>3
    <3> QED BY <1>2, <3>1, SubSeqIs DEF Text
  <2> QED BY <2>1, <2>2
<1>5. /\ decisive # {} /\ Least(decisive) \notin abbreviated =>
           named # {} /\ Least(named) = Least(decisive)
      /\ decisive = {} /\ abbreviated # {} => named # {} /\ Least(named) = Least(abbreviated)
      /\ (decisive # {} /\ Least(decisive) \in abbreviated)
           \/ (decisive = {} /\ abbreviated = {}) => named = {}
  BY <1>4, LongFound DEF Context
<1>6. decisive # {} => exact \cup abbreviated # {}
  BY DEF Decisive
<1>7. /\ DOMAIN t = Fields /\ t.argv = s.argv /\ t.optbase = s.optbase /\ t.optmark = s.optmark
      /\ t.argind = s.argind /\ t.optind = s.optind /\ t.nextchar = text
      /\ exact \cup abbreviated # {} => t.optarg = Assigned(text)
  <2> HIDE DEF exact, abbreviated
  <2> QED BY <1>2 DEF Fields
<1> HIDE DEF exact, abbreviated, decisive, named, t, short
<1>8. Placed(A, t) /\ Skipped(t) = Skipped(s)
  <2>1. t.optind \in 1..Len(A)
    BY <1>7 DEF Placed
  <2> QED BY <1>7, <2>1, PlacedStill
<1>9. ASSUME named # {}
      PROVE  m[k] = LongMeaning(longopts[Least(named)], text, A, k, m[k + 1], m[k + 2])
  BY <1>2, <1>9, LongMeans, SMTT(60) DEF named
<1>10. named # {} => Least(named) \in DOMAIN longopts
  BY LongNamedIs DEF Context, named
<1>11. ReadsOption(V, A, optstring, m, t, m[k], r) => ReadsOption(V, A, optstring, m, s, m[k], r)
  BY <1>8 DEF ReadsOption
<1>12. CASE named # {} /\ exact \cup abbreviated # {}
            /\ r = getoptW_resolved(t, longopts[Least(named)], optstring)
  <2>1. \/ ReadsOption(V, A, optstring, m, t, m[k], r) /\ Returned(optstring, longopts, r.ret)
        \/ Fails(A, r)
    BY <1>4, <1>7, <1>8, <1>9, <1>10, <1>12, ResolvedIs
  <2> QED BY <1>11, <2>1
<1>13. CASE named = {} /\ short /\ r = ShortOption(t, mode, optstring)
  <2>1. A[k][2] # "-" /\ text = SubSeq(A[k], 2, Len(A[k]))
    BY <1>13 DEF short
  <2>2. InGroup(A, t, 2)
    BY <1>2, <1>3, <1>7, <1>8, <2>1 DEF InGroup
  <2>3. m[k] = Group(A, optstring, m, t.argind + 1)[2]
    BY <1>2, <1>7, <1>13, <2>1, GroupMeans DEF named
  <2>4. \/ ReadsOption(V, A, optstring, m, t, m[k], r) /\ ShortRead(optstring, r)
        \/ Fails(A, r)
    BY <1>13, <2>2, <2>3, ShortOptionIs
  <2> QED BY <1>11, <2>4 DEF ShortRead, Returned
<1>14. CASE r = NotResolved(t)
  BY <1>2, <1>7, <1>8, <1>14, NotResolvedIs
<1>15. CASE decisive # {} /\ Least(decisive) \notin abbreviated
  <2>1. r = getoptW_resolved(t, longopts[Least(decisive)], optstring)
    BY <1>1, <1>15
  <2> QED BY <1>5, <1>6, <1>12, <1>15, <2>1
<1>16. CASE decisive = {} /\ abbreviated # {}
  <2>1. r = getoptW_resolved(t, longopts[Least(abbreviated)], optstring)
    BY <1>1, <1>16
  <2> QED BY <1>5, <1>12, <1>16, <2>1
<1>17. CASE ~(decisive # {} /\ Least(decisive) \notin abbreviated)
            /\ ~(decisive = {} /\ abbreviated # {})
  <2>1. r = IF short THEN ShortOption(t, mode, optstring) ELSE NotResolved(t)
    BY <1>1, <1>17
  <2>2. named = {}
    BY <1>5, <1>17
  <2> QED BY <1>13, <1>14, <2>1, <2>2
<1> QED BY <1>15, <1>16, <1>17

-----------------------------------------------------------------------------
(* Skipping operands *)

Joins(C, s, t, u) ==
  /\ u \in Seq(C) /\ Len(u) = Len(s) + Len(t)
  /\ \A i \in 1..Len(s) : u[i] = s[i]
  /\ \A i \in 1..Len(t) : u[Len(s) + i] = t[i]

LEMMA ConcatIs ==
  ASSUME NEW C, NEW s \in Seq(C), NEW t \in Seq(C)
  PROVE  Joins(C, s, t, s \o t)
BY DEF Joins

LEMMA SameElements ==
  ASSUME NEW C, NEW s \in Seq(C), NEW t \in Seq(C), Len(s) = Len(t),
         \A i \in 1..Len(s) : s[i] = t[i]
  PROVE  s = t
OBVIOUS

\* What is moved in front, what it is moved in front of, and the rest.
Rotated(C, args, base, from, to, t) ==
  /\ t \in Seq(C) /\ Len(t) = Len(args)
  /\ SubSeq(t, base + to - from + 2, to + 1) = SubSeq(args, base + 1, from)
  /\ \A i \in to + 2..Len(args) : t[i] = args[i]

LEMMA MovedIs ==
  ASSUME NEW C, NEW args \in Seq(C), NEW n \in Nat, n = Len(args),
         NEW base \in Nat, NEW from \in Nat, NEW to \in Nat,
         base < from, from <= to, to < n, NEW t, t = Moved(args, base, from, to)
  PROVE  Rotated(C, args, base, from, to, t)
<1> DEFINE a == SubSeq(args, 1, base)
           b == SubSeq(args, from + 1, to + 1)
           c == SubSeq(args, base + 1, from)
           d == SubSeq(args, to + 2, n)
<1>1. a \in Seq(C) /\ Len(a) = base
  OBVIOUS
<1>2. b \in Seq(C) /\ Len(b) = to - from + 1
  OBVIOUS
<1>3. c \in Seq(C) /\ Len(c) = from - base
  OBVIOUS
<1>4. /\ d \in Seq(C) /\ Len(d) = n - to - 1
      /\ \A i \in 1..n - to - 1 : d[i] = args[i + to + 1]
  OBVIOUS
<1>5. t = ((a \o b) \o c) \o d
  BY DEF Moved
<1> HIDE DEF a, b, c, d
<1>6. PICK ab : ab = a \o b
  OBVIOUS
<1>7. ab \in Seq(C) /\ Len(ab) = base + to - from + 1
  <2>1. Joins(C, a, b, ab)
    BY <1>1, <1>2, <1>6, ConcatIs
  <2> QED BY <1>1, <1>2, <2>1 DEF Joins
<1>8. PICK abc : abc = ab \o c
  OBVIOUS
<1>9. /\ abc \in Seq(C) /\ Len(abc) = to + 1 /\ t = abc \o d
      /\ \A i \in 1..from - base : abc[base + to - from + 1 + i] = c[i]
  <2>1. Joins(C, ab, c, abc)
    BY <1>3, <1>7, <1>8, ConcatIs
  <2>2. t = abc \o d
    BY <1>5, <1>6, <1>8
  <2> QED BY <1>3, <1>7, <2>1, <2>2 DEF Joins
<1>10. /\ t \in Seq(C) /\ Len(t) = n
       /\ \A i \in 1..to + 1 : t[i] = abc[i]
       /\ \A i \in 1..n - to - 1 : t[to + 1 + i] = d[i]
  <2>1. Joins(C, abc, d, t)
    BY <1>4, <1>9, ConcatIs
  <2>2. Len(d) = n - to - 1 /\ Len(abc) = to + 1
    BY <1>4, <1>9
  <2> QED BY <2>1, <2>2 DEF Joins
<1>11. \A i \in to + 2..n : t[i] = args[i]
  <2> TAKE i \in to + 2..n
  <2>1. i - (to + 1) \in 1..n - to - 1 /\ to + 1 + (i - (to + 1)) = i
    OBVIOUS
  <2>2. t[i] = d[i - (to + 1)]
    BY <1>10, <2>1
  <2>3. d[i - (to + 1)] = args[(i - (to + 1)) + to + 1]
    BY <1>4, <2>1
  <2> QED BY <2>1, <2>2, <2>3
<1>12. SubSeq(t, base + to - from + 2, to + 1) = c
  <2> DEFINE i == base + to - from + 2
             j == to + 1
             u == SubSeq(t, i, j)
  <2> HIDE DEF u
  <2>0. Len(t) = n
    BY <1>10
  <2>1. i \in 1..Len(t) + 1 /\ j \in i - 1..Len(t) /\ j - i + 1 = from - base
    BY <2>0
  <2>2. /\ u \in Seq(C) /\ Len(u) = j - i + 1
        /\ \A k \in 1..j - i + 1 : u[k] = t[i + k - 1]
    <3> HIDE DEF i, j
    <3> QED BY <1>10, <2>1, SubSeqIs DEF u
  <2>3. \A k \in 1..from - base : t[i + k - 1] = c[k]
    <3> TAKE k \in 1..from - base
    <3>1. i + k - 1 = base + to - from + 1 + k /\ i + k - 1 \in 1..to + 1
      OBVIOUS
    <3> HIDE DEF i
    <3> QED BY <1>9, <1>10, <3>1
  <2> HIDE DEF i, j
  <2>4. Len(u) = Len(c) /\ \A k \in 1..Len(u) : u[k] = c[k]
    BY <1>3, <2>1, <2>2, <2>3
  <2>5. u = c
    BY <1>3, <2>2, <2>4, SameElements
  <2> QED BY <2>5 DEF u, i, j
<1> QED BY <1>10, <1>11, <1>12 DEF c, Rotated

\* The state between the permutation and the scan.
Cleared(A, s, p) ==
  /\ DOMAIN p = Fields
  /\ p.argv \in Texts /\ Len(p.argv) = Len(A)
  /\ p.argind = s.argind /\ p.optind = s.optind
  /\ p.optbase \in 1..s.argind + 1 /\ p.optmark \in 0..s.argind
  /\ \A i \in s.argind + 2..Len(A) : p.argv[i] = A[i]
  /\ SubSeq(p.argv, p.optbase + 1, s.argind + 1) = Skipped(s)

LEMMA PermutedIs ==
  ASSUME NEW A, Len(A) \in Nat, NEW s, Placed(A, s), NEW p, p = Permuted(s)
  PROVE  Cleared(A, s, p)
<1> DEFINE n == Len(A)
<1>1. /\ n \in Nat /\ DOMAIN s = Fields /\ s.argv \in Seq(Text) /\ n = Len(s.argv)
      /\ s.optbase \in Nat /\ s.optmark \in Nat /\ s.argind \in Nat
      /\ s.optbase <= s.optmark /\ s.optmark <= s.argind /\ s.argind < n
      /\ s.optbase < s.optmark => s.optbase # 0
      /\ \A i \in s.argind + 1..n : s.argv[i] = A[i]
  BY DEF Placed, Texts
<1> HIDE DEF n
<1>2. CASE s.optmark > s.optbase
  <2> DEFINE t == Moved(s.argv, s.optbase, s.optmark, s.argind)
             base == s.optbase + s.argind - s.optmark + 1
  <2>1. p = [s EXCEPT !.argv = t, !.optbase = base, !.optmark = s.optbase - 1]
    BY <1>2 DEF Permuted
  <2>2. /\ t \in Seq(Text) /\ Len(t) = n
        /\ SubSeq(t, s.optbase + s.argind - s.optmark + 2, s.argind + 1)
             = SubSeq(s.argv, s.optbase + 1, s.optmark)
        /\ \A i \in s.argind + 2..n : t[i] = s.argv[i]
    <3>1. s.optbase < s.optmark
      BY <1>1, <1>2
    <3>2. Rotated(Text, s.argv, s.optbase, s.optmark, s.argind, t)
      BY <1>1, <3>1, MovedIs
    <3> HIDE DEF t
    <3> QED BY <1>1, <3>2 DEF Rotated
  <2> HIDE DEF t
  <2>3. base \in 1..s.argind + 1 /\ s.optbase - 1 \in 0..s.argind
        /\ base + 1 = s.optbase + s.argind - s.optmark + 2
    BY <1>1, <1>2
  <2> HIDE DEF base
  <2>4. /\ DOMAIN p = Fields /\ p.argv = t /\ p.argind = s.argind /\ p.optind = s.optind
        /\ p.optbase = base /\ p.optmark = s.optbase - 1
    BY <1>1, <2>1 DEF Fields
  <2>5. \A i \in s.argind + 2..n : t[i] = A[i]
    <3> TAKE i \in s.argind + 2..n
    <3>1. i \in s.argind + 1..n
      BY <1>1
    <3> QED BY <1>1, <2>2, <3>1
  <2>6. SubSeq(t, base + 1, s.argind + 1) = Skipped(s)
    BY <2>2, <2>3 DEF Skipped
  <2> QED BY <1>1, <2>2, <2>3, <2>4, <2>5, <2>6 DEF Cleared, Texts, n
<1>3. CASE ~(s.optmark > s.optbase)
  <2>1. p = [s EXCEPT !.optbase = s.argind + 1]
    BY <1>3 DEF Permuted
  <2>2. /\ DOMAIN p = Fields /\ p.argv = s.argv /\ p.argind = s.argind /\ p.optind = s.optind
        /\ p.optbase = s.argind + 1 /\ p.optmark = s.optmark
    BY <1>1, <2>1 DEF Fields
  <2>3. s.optmark = s.optbase
    BY <1>1, <1>3
  <2>4. Skipped(s) = <<>>
    BY <1>1, <2>3, SubSeqEmpty DEF Skipped
  <2>5. SubSeq(s.argv, (s.argind + 1) + 1, s.argind + 1) = <<>>
    BY <1>1, SubSeqEmpty
  <2>6. \A i \in s.argind + 2..n : s.argv[i] = A[i]
    BY <1>1
  <2> QED BY <1>1, <2>2, <2>4, <2>5, <2>6 DEF Cleared, Texts, n
<1> QED BY <1>2, <1>3

\* A call that finds the end of the options.
DoneReading(A, s, x, r) ==
  /\ r.ret = "done" /\ Bounded(A, r.g)
  /\ x.ok = TRUE /\ x.opts = <<>>
  /\ SubSeq(r.g.argv, r.g.optind + 1, Len(A)) = Skipped(s) \o x.operands

\* What follows an argument of s, in another order of the arguments before.
LEMMA StillFollows ==
  ASSUME NEW A \in Texts, NEW args \in Texts, Len(args) = Len(A),
         NEW i \in Nat, NEW j \in 0..i, i <= Len(A),
         \A k \in i + 1..Len(A) : args[k] = A[k]
  PROVE  SubSeq(args, j + 1, Len(A)) = SubSeq(args, j + 1, i) \o SubSeq(A, i + 1, Len(A))
<1>1. Len(A) \in Nat /\ A \in Seq(Text) /\ args \in Seq(Text)
  BY DEF Texts
<1>2. SubSeq(args, j + 1, Len(A)) = SubSeq(args, j + 1, i) \o SubSeq(args, i + 1, Len(A))
  <2>1. j + 1 \in 1..Len(args) + 1 /\ Len(A) \in (j + 1) - 1..Len(args)
        /\ i \in (j + 1) - 1..Len(A)
    BY <1>1
  <2> QED BY <1>1, <2>1, SubSeqCut
<1>3. SubSeq(args, i + 1, Len(A)) = SubSeq(A, i + 1, Len(A))
  <2>1. i + 1 \in 1..Len(args) + 1 /\ Len(A) \in (i + 1) - 1..Len(args)
    BY <1>1
  <2> QED BY <1>1, <2>1, SubSeqSame
<1> QED BY <1>2, <1>3

LEMMA EndOfOptionsIs ==
  ASSUME NEW V, NEW A, NEW optstring, NEW longopts, NEW m, Context(V, A, optstring, longopts, m),
         NEW s, Placed(A, s), s.argind # 0, s.optmark = s.argind, NEW k, k = s.argind + 1,
         A[k] = EndMarker, NEW r, r = EndOfOptions(s)
  PROVE  DoneReading(A, s, m[k], r)
<1> DEFINE n == Len(A)
<1>1. /\ n \in Nat /\ DOMAIN s = Fields /\ s.argv \in Texts /\ s.argv \in Seq(Text)
      /\ n = Len(s.argv) /\ s.optbase \in Nat /\ s.argind \in Nat /\ s.optbase # 0
      /\ s.optbase <= s.argind /\ s.argind < n
      /\ \A i \in s.argind + 1..n : s.argv[i] = A[i]
  BY ContextTypes DEF Placed, Texts
<1>2. m[k].ok = TRUE /\ m[k].opts = <<>> /\ m[k].operands = SubSeq(A, k + 1, n)
  <2>1. k \in 2..Len(A)
    BY <1>1
  <2>2. Ends(SubSeq(A, k + 1, Len(A)), m[k])
    BY <2>1, EndMarkerMeans
  <2> QED BY <2>2 DEF Ends
<1>3. s.argind + 2 = k + 1 /\ s.optbase \in 0..k /\ k <= n /\ k \in Nat
  BY <1>1
<1> HIDE DEF n
<1>4. CASE s.optmark > s.optbase
  <2> DEFINE t == Moved(s.argv, s.optbase, s.optmark, s.optmark)
  <2>1. r.ret = "done" /\ r.g = [s EXCEPT !.argv = t, !.optmark = s.optbase - 1,
                                          !.optbase = s.optbase + 1, !.optind = s.optbase + 1]
    BY <1>4 DEF EndOfOptions
  <2>2. Rotated(Text, s.argv, s.optbase, s.argind, s.argind, t)
    BY <1>1, <1>4, MovedIs
  <2> HIDE DEF t
  <2>3. /\ t \in Texts /\ Len(t) = n
        /\ SubSeq(t, (s.optbase + 1) + 1, k) = Skipped(s)
        /\ \A i \in k + 1..n : t[i] = A[i]
    <3>1. s.optbase + s.argind - s.argind + 2 = (s.optbase + 1) + 1
      BY <1>1
    <3>2. \A i \in k + 1..n : i \in s.argind + 1..n
      BY <1>1
    <3> QED BY <1>1, <1>3, <2>2, <3>1, <3>2 DEF Rotated, Skipped, Texts
  <2>4. /\ DOMAIN r.g = Fields /\ r.g.argv = t /\ r.g.argind = s.argind
        /\ r.g.optind = s.optbase + 1 /\ r.g.optbase = s.optbase + 1
        /\ r.g.optmark = s.optbase - 1
    BY <1>1, <2>1 DEF Fields
  <2>5. SubSeq(t, (s.optbase + 1) + 1, n)
          = SubSeq(t, (s.optbase + 1) + 1, k) \o SubSeq(A, k + 1, n)
    <3>1. s.optbase + 1 \in 0..k
      BY <1>1
    <3> QED BY <1>3, <2>3, <3>1, StillFollows, ContextTypes DEF n
  <2>6. Bounded(A, r.g)
    <3>1. /\ s.optbase + 1 \in 1..n /\ s.optbase - 1 \in 0..n /\ s.argind \in 0..n
          /\ s.optbase + 1 <= s.argind + 1
      BY <1>1
    <3> QED BY <2>3, <2>4, <3>1 DEF Bounded, n
  <2> QED BY <1>2, <2>1, <2>3, <2>4, <2>5, <2>6 DEF DoneReading, n
<1>5. CASE ~(s.optmark > s.optbase)
  <2>1. r.ret = "done"
        /\ r.g = [s EXCEPT !.argv = @, !.optmark = @, !.optbase = @ + 1, !.optind = s.optbase + 1]
    BY <1>5 DEF EndOfOptions
  <2>2. /\ DOMAIN r.g = Fields /\ r.g.argv = s.argv /\ r.g.argind = s.argind
        /\ r.g.optind = s.optbase + 1 /\ r.g.optbase = s.optbase + 1
        /\ r.g.optmark = s.optmark
    BY <1>1, <2>1 DEF Fields
  <2>3. s.optbase = s.argind
    BY <1>1, <1>5
  <2>4. Skipped(s) = <<>> /\ SubSeq(s.argv, (s.optbase + 1) + 1, k) = <<>>
    BY <1>1, <2>3, SubSeqEmpty DEF Skipped
  <2>5. SubSeq(s.argv, (s.optbase + 1) + 1, n)
          = SubSeq(s.argv, (s.optbase + 1) + 1, k) \o SubSeq(A, k + 1, n)
    <3>1. s.optbase + 1 \in 0..k /\ \A i \in k + 1..n : s.argv[i] = A[i]
      BY <1>1
    <3> QED BY <1>1, <1>3, <3>1, StillFollows, ContextTypes DEF n
  <2>6. Bounded(A, r.g)
    <3>1. /\ s.optbase + 1 \in 1..n /\ s.optmark \in 0..n /\ s.argind \in 0..n
          /\ s.optbase + 1 <= s.argind + 1
      BY <1>1
    <3> QED BY <1>1, <2>2, <3>1 DEF Bounded, n
  <2> QED BY <1>2, <2>1, <2>2, <2>4, <2>5, <2>6, ZenonT(60) DEF DoneReading, n
<1> QED BY <1>4, <1>5

-----------------------------------------------------------------------------
(* A call, from the state the last one left *)

\* The two ways the tools call getopt.
CalledAs(mode, longopts) ==
  \/ mode = "standard" /\ longopts = <<>>
  \/ mode = "long_only" /\ longopts # <<>> /\ \E C : LongNames(longopts, C)

\* What a call makes of x, the meaning of what there is left to read.
CandidateRead(V, A, optstring, longopts, m, mode, s, x, r) ==
  \/ /\ ReadsOption(V, A, optstring, m, s, x, r) /\ Returned(optstring, longopts, r.ret)
     /\ mode = "standard" => ShortRead(optstring, r)
  \/ DoneReading(A, s, x, r)
  \/ Fails(A, r) /\ (mode = "standard" => Rejected(x))

\* The dash is no option.
LEMMA NoDashOption ==
  ASSUME NEW optstring, OptString(optstring)
  PROVE  ~IsOption("-", optstring)
BY DEF OptString, IsOption

LEMMA CandidateIs ==
  ASSUME NEW V, NEW A, NEW optstring, NEW longopts, NEW m, Context(V, A, optstring, longopts, m),
         NEW mode, CalledAs(mode, longopts),
         NEW s, Placed(A, s), s.argind # 0, s.optmark = s.argind, NEW k, k = s.argind + 1,
         is_option(A[k]), NEW r, r = Candidate(s, mode, optstring, longopts)
  PROVE  CandidateRead(V, A, optstring, longopts, m, mode, s, m[k], r)
<1> DEFINE arg == Arg(s, s.argind)
           text == SubSeq(arg, 2, Len(arg))
           t == [s EXCEPT !.nextchar = text]
<1>1. /\ k \in 2..Len(A) /\ arg = A[k] /\ DOMAIN s = Fields /\ A[k] \in Text
      /\ Len(A[k]) \in Nat /\ Len(A[k]) > 1 /\ k \in 1..Len(A)
  <2>1. s.argind \in 0..Len(A) - 1 /\ DOMAIN s = Fields /\ Len(A) \in Nat
        /\ \A i \in s.argind + 1..Len(A) : s.argv[i] = A[i]
    BY ContextTypes DEF Placed
  <2>2. k \in 2..Len(A) /\ k \in 1..Len(A) /\ s.argind + 1 \in s.argind + 1..Len(A)
    BY <2>1
  <2>3. A[k] \in Text /\ Len(A[k]) \in Nat
    BY <2>2, ContextTypes
  <2> QED BY <2>1, <2>2, <2>3 DEF Arg, is_option
<1>2. /\ arg = EndMarker => r = EndOfOptions(s)
      /\ arg # EndMarker /\ arg[2] = "-" /\ mode # "standard" =>
           r = LongOption(s, "long", SubSeq(arg, 3, Len(arg)), optstring, longopts)
      /\ arg # EndMarker /\ arg[2] # "-" /\ mode = "long_only" =>
           r = LongOption(s, mode, text, optstring, longopts)
      /\ arg # EndMarker /\ mode = "standard" => r = ShortOption(t, "standard", optstring)
  <2>1. r = CASE arg = EndMarker -> EndOfOptions(s)
              [] arg # EndMarker /\ arg[2] = "-" /\ mode # "standard" ->
                   LongOption(s, "long", SubSeq(arg, 3, Len(arg)), optstring, longopts)
              [] arg[2] # "-" /\ mode = "long_only" ->
                   LongOption(s, mode, text, optstring, longopts)
              [] OTHER -> ShortOption(t, "standard", optstring)
    BY DEF Candidate, EndMarker
  <2>2. arg = EndMarker => arg[2] = "-"
    BY DEF EndMarker
  <2> HIDE DEF arg, text, t
  <2> QED BY <2>1, <2>2
<1>3. /\ DOMAIN t = Fields /\ t.argv = s.argv /\ t.optbase = s.optbase /\ t.optmark = s.optmark
      /\ t.argind = s.argind /\ t.optind = s.optind /\ t.nextchar = text
  <2> HIDE DEF text
  <2> QED BY <1>1 DEF Fields
<1> HIDE DEF arg, t
<1>4. Placed(A, t) /\ Skipped(t) = Skipped(s)
  <2>1. t.optind \in 1..Len(A)
    BY <1>3 DEF Placed
  <2> QED BY <1>3, <2>1, PlacedStill
<1>5. InGroup(A, t, 2)
  <2>1. 2 \in 2..Len(A[k])
    BY <1>1
  <2> QED BY <1>1, <1>3, <1>4, <2>1 DEF InGroup
<1>6. CASE arg = EndMarker
  <2>1. DoneReading(A, s, m[k], r)
    BY <1>1, <1>2, <1>6, EndOfOptionsIs
  <2> QED BY <2>1 DEF CandidateRead
<1>7. CASE arg # EndMarker /\ mode = "long_only"
  <2>1. longopts # <<>> /\ \E C : LongNames(longopts, C)
    BY <1>7 DEF CalledAs
  <2>2. PICK C : LongNames(longopts, C)
    BY <2>1
  <2>3. CASE arg[2] = "-"
    <3>1. r = LongOption(s, "long", SubSeq(A[k], 3, Len(A[k])), optstring, longopts)
      BY <1>1, <1>2, <1>7, <2>3
    <3>2. A[k] # EndMarker /\ A[k][2] = "-"
      BY <1>1, <1>7, <2>3
    <3>3. \/ ReadsOption(V, A, optstring, m, s, m[k], r) /\ Returned(optstring, longopts, r.ret)
          \/ Fails(A, r)
      BY <2>1, <2>2, <3>1, <3>2, LongOptionIs
    <3> QED BY <1>7, <3>3 DEF CandidateRead
  <2>4. CASE arg[2] # "-"
    <3>1. r = LongOption(s, "long_only", SubSeq(A[k], 2, Len(A[k])), optstring, longopts)
      BY <1>1, <1>2, <1>7, <2>4 DEF text
    <3>2. A[k] # EndMarker /\ A[k][2] # "-"
      BY <1>1, <1>7, <2>4
    <3>3. \/ ReadsOption(V, A, optstring, m, s, m[k], r) /\ Returned(optstring, longopts, r.ret)
          \/ Fails(A, r)
      BY <2>1, <2>2, <3>1, <3>2, LongOptionIs
    <3> QED BY <1>7, <3>3 DEF CandidateRead
  <2> QED BY <2>3, <2>4
<1>8. CASE arg # EndMarker /\ mode = "standard"
  <2>0. PICK x : x = Group(A, optstring, m, t.argind + 1)[2]
    OBVIOUS
  <2>1. longopts = <<>>
    BY <1>8 DEF CalledAs
  <2>2. r = ShortOption(t, "standard", optstring)
    BY <1>2, <1>8
  <2>3. \/ ReadsOption(V, A, optstring, m, t, x, r) /\ ShortRead(optstring, r)
        \/ Fails(A, r) /\ Rejected(x)
    BY <1>5, <2>0, <2>2, ShortOptionIs
  <2>4. A[k] # EndMarker
    BY <1>1, <1>8
  <2>5. ReadsOption(V, A, optstring, m, t, x, r) => ReadsOption(V, A, optstring, m, s, x, r)
    BY <1>4 DEF ReadsOption
  <2>6. CASE arg[2] # "-"
    <3>1. m[k] = x
      BY <1>1, <1>3, <2>0, <2>1, <2>4, <2>6, GroupMeans
    <3> QED BY <2>3, <2>5, <3>1 DEF CandidateRead, ShortRead, Returned
  <2>7. CASE arg[2] = "-"
    <3>1. Rejected(m[k])
      BY <1>1, <2>1, <2>4, <2>7, DoubleDashMeans
    <3>2. x = Wrong
      <4>1. /\ k + 1 \in 2..Len(A) + 2 /\ k + 2 \in 2..Len(A) + 2 /\ 2 \in 2..Len(A[k])
            /\ A \in Texts /\ Character \subseteq V /\ OptString(optstring)
        BY <1>1, ContextTypes DEF Context
      <4>2. m[k + 1] \in Meanings(V) /\ m[k + 2] \in Meanings(V)
        BY <4>1, ContextTypes
      <4> DEFINE group == Group(A, optstring, m, k)
      <4>3. group[2] = GroupStep(A, k, optstring, m[k + 1], m[k + 2], 2, group[2 + 1])
        <5>1. \A i \in 2..Len(A[k]) :
                group[i] = GroupStep(A, k, optstring, m[k + 1], m[k + 2], i, group[i + 1])
          BY <1>1, <4>1, <4>2, GroupUnfolds, SMTT(30) DEF Group
        <5> HIDE DEF group
        <5> QED BY <4>1, <5>1
      <4>4. ~IsOption(A[k][2], optstring)
        BY <1>1, <2>7, <4>1, NoDashOption
      <4> HIDE DEF group
      <4>5. group[2] = Wrong
        BY <4>3, <4>4, GroupStepIs
      <4> QED BY <1>3, <2>0, <4>5 DEF group
    <3>3. ~ReadsOption(V, A, optstring, m, t, x, r)
      <4>1. x.opts = <<>>
        BY <3>2 DEF Wrong
      <4>2. ASSUME NEW y \in Meanings(V), NEW c \in V, NEW a \in Optarg, x = WithOption(c, a, y)
            PROVE  FALSE
        <5>1. x.opts = <<<<c, a>>>> \o y.opts /\ y.opts \in Seq(V \X Optarg)
          <6>1. y.opts \in Seq(V \X Optarg)
            BY DEF Meanings
          <6>2. WithOption(c, a, y).opts = <<<<c, a>>>> \o y.opts
            BY WithOptionIs
          <6> QED BY <4>2, <6>1, <6>2
        <5>2. Len(<<<<c, a>>>> \o y.opts) = 1 + Len(y.opts) /\ Len(y.opts) \in Nat
          BY <5>1
        <5> QED BY <4>1, <5>1, <5>2
      <4> QED BY <4>2 DEF ReadsOption
    <3> QED BY <2>3, <3>1, <3>3 DEF CandidateRead
  <2> QED BY <2>6, <2>7
<1> QED BY <1>6, <1>7, <1>8 DEF CalledAs

\* Operands are skipped to the option that is read.
OptionRead(V, A, optstring, m, s, x, r) ==
  /\ r.ret \in V /\ r.g.optarg \in Optarg
  /\ \E y \in Meanings(V), operands \in Texts :
       /\ Owes(A, optstring, m, r.g, y)
       /\ Before(operands, x, WithOption(r.ret, r.g.optarg, y))
       /\ Skipped(r.g) = Skipped(s) \o operands

CallRead(V, A, optstring, longopts, m, mode, s, x, r) ==
  \/ /\ OptionRead(V, A, optstring, m, s, x, r) /\ Returned(optstring, longopts, r.ret)
     /\ mode = "standard" => ShortRead(optstring, r)
  \/ DoneReading(A, s, x, r)
  \/ Fails(A, r) /\ (mode = "standard" => Rejected(x))

LEMMA SkippedTexts ==
  ASSUME NEW A, Len(A) \in Nat, NEW s, Placed(A, s)
  PROVE  Skipped(s) \in Texts
<1>1. /\ s.argv \in Seq(Text) /\ s.optbase + 1 \in 1..Len(s.argv) + 1
      /\ s.optmark \in (s.optbase + 1) - 1..Len(s.argv)
  BY DEF Placed, Texts
<1> QED BY <1>1, SubSeqIs DEF Skipped, Texts

\* What a candidate is read as, with the operands skipped before it.
LEMMA AfterOperands ==
  ASSUME NEW V, NEW A, Len(A) \in Nat, NEW optstring, NEW longopts, NEW m, NEW mode,
         NEW s, Placed(A, s),
         NEW t, Placed(A, t), NEW operands \in Texts, Skipped(t) = Skipped(s) \o operands,
         NEW x, NEW y \in Meanings(V), Before(operands, x, y),
         NEW r, CandidateRead(V, A, optstring, longopts, m, mode, t, y, r)
  PROVE  CallRead(V, A, optstring, longopts, m, mode, s, x, r)
<1>1. CASE /\ ReadsOption(V, A, optstring, m, t, y, r) /\ Returned(optstring, longopts, r.ret)
           /\ mode = "standard" => ShortRead(optstring, r)
  <2>1. PICK z \in Meanings(V) : Owes(A, optstring, m, r.g, z)
                                 /\ y = WithOption(r.ret, r.g.optarg, z)
    BY <1>1 DEF ReadsOption
  <2>2. Skipped(r.g) = Skipped(s) \o operands /\ r.ret \in V /\ r.g.optarg \in Optarg
    BY <1>1 DEF ReadsOption
  <2>3. OptionRead(V, A, optstring, m, s, x, r)
    BY <2>1, <2>2 DEF OptionRead
  <2> QED BY <1>1, <2>3 DEF CallRead
<1>2. CASE DoneReading(A, t, y, r)
  <2>1. Skipped(s) \in Texts /\ y.operands \in Texts
    BY SkippedTexts DEF Meanings
  <2>2. Skipped(s) \o (operands \o y.operands) = (Skipped(s) \o operands) \o y.operands
    BY <2>1, TextsAssociate
  <2>3. DoneReading(A, s, x, r)
    BY <1>2, <2>2 DEF DoneReading, Before
  <2> QED BY <2>3 DEF CallRead
<1>3. CASE Fails(A, r) /\ (mode = "standard" => Rejected(y))
  BY <1>3 DEF CallRead, Rejected, Before
<1> QED BY <1>1, <1>2, <1>3 DEF CandidateRead

\* No option is left.
LEMMA NoneLeft ==
  ASSUME NEW V, NEW A, NEW optstring, NEW longopts, NEW m, Context(V, A, optstring, longopts, m),
         NEW s, Placed(A, s), NEW p, Cleared(A, s, p), NEW x, x = m[s.argind + 2],
         \A i \in s.argind + 2..Len(A) : ~is_option(A[i]),
         NEW r, r.ret = "done", DOMAIN r.g = Fields, r.g.argv = p.argv, r.g.argind = Len(A),
         r.g.optind = p.optbase, r.g.optbase = p.optbase, r.g.optmark \in 0..Len(A)
  PROVE  DoneReading(A, s, x, r)
<1> DEFINE n == Len(A)
           i == s.argind + 2
<1>1. /\ n \in Nat /\ A \in Texts /\ s.argind \in Nat /\ s.argind < n
      /\ p.argv \in Texts /\ Len(p.argv) = n /\ p.optbase \in 1..s.argind + 1
      /\ \A j \in s.argind + 2..n : p.argv[j] = A[j]
      /\ SubSeq(p.argv, p.optbase + 1, s.argind + 1) = Skipped(s)
  <2>1. n \in Nat /\ A \in Texts
    BY ContextTypes
  <2>2. s.argind \in Nat /\ s.argind < n
    BY <2>1 DEF Placed
  <2>3. /\ p.argv \in Texts /\ Len(p.argv) = n /\ p.optbase \in 1..s.argind + 1
        /\ \A j \in s.argind + 2..n : p.argv[j] = A[j]
        /\ SubSeq(p.argv, p.optbase + 1, s.argind + 1) = Skipped(s)
    BY DEF Cleared
  <2> QED BY <2>1, <2>2, <2>3
<1>2. x.ok = TRUE /\ x.opts = <<>> /\ x.operands = SubSeq(A, i, n)
  <2>1. /\ i \in 2..n + 1 /\ n + 1 \in i..n + 1 /\ (n + 1) - 1 = n
        /\ n + 1 \in n + 1..n + 2 /\ n + 1 >= 2
        /\ i \in 1..n + 1 /\ n \in i - 1..n
    BY <1>1
  <2>2. Before(SubSeq(A, i, (n + 1) - 1), m[i], m[n + 1])
    <3>1. \A k \in i..(n + 1) - 1 : ~is_option(A[k])
      BY <2>1
    <3> HIDE DEF i
    <3> QED BY <2>1, <3>1, OperandsMean
  <2>3. m[n + 1] = Nothing
    BY <2>1, ContextTypes
  <2>4. SubSeq(A, i, n) \in Texts
    <3> HIDE DEF i, n
    <3> QED BY <1>1, <2>1, SubSeqIs DEF Texts, n
  <2>5. SubSeq(A, i, n) \o <<>> = SubSeq(A, i, n)
    BY <2>4, ConcatEmptySeq DEF Texts
  <2>6. Nothing.ok = TRUE /\ Nothing.opts = <<>> /\ Nothing.operands = <<>>
    BY DEF Nothing
  <2> QED BY <2>1, <2>2, <2>3, <2>5, <2>6 DEF Before
<1>3. SubSeq(p.argv, p.optbase + 1, n) = Skipped(s) \o SubSeq(A, i, n)
  <2>1. /\ s.argind + 1 \in Nat /\ p.optbase \in 0..s.argind + 1 /\ s.argind + 1 <= Len(A)
        /\ (s.argind + 1) + 1 = i
    BY <1>1, SMTT(30)
  <2>2. \A k \in (s.argind + 1) + 1..Len(A) : p.argv[k] = A[k]
    BY <1>1, <2>1
  <2>3. SubSeq(p.argv, p.optbase + 1, Len(A))
          = SubSeq(p.argv, p.optbase + 1, s.argind + 1) \o SubSeq(A, (s.argind + 1) + 1, Len(A))
    BY <1>1, <2>1, <2>2, StillFollows
  <2> QED BY <1>1, <2>1, <2>3
<1> HIDE DEF n, i
<1>4. Bounded(A, r.g)
  <2>1. p.optbase \in 1..n /\ p.optbase \in 0..n /\ p.optbase <= n + 1 /\ n \in 0..n
    BY <1>1
  <2> QED BY <1>1, <2>1 DEF Bounded, n
<1> QED BY <1>2, <1>3, <1>4 DEF DoneReading, n

LEMMA ScanIs ==
  ASSUME NEW V, NEW A, NEW optstring, NEW longopts, NEW m, Context(V, A, optstring, longopts, m),
         NEW mode, CalledAs(mode, longopts),
         NEW s, Placed(A, s), NEW p, Cleared(A, s, p), NEW x, x = m[s.argind + 2],
         NEW r, r = Scan(p, mode, optstring, longopts)
  PROVE  CallRead(V, A, optstring, longopts, m, mode, s, x, r)
<1> DEFINE n == Len(A)
           found == {k \in p.argind + 1..argc(p) - 1 : is_option(Arg(p, k))}
           next == p.argind + 1
           Left(k) == IF Arg(p, k) = <<"-">> THEN <<>> ELSE Arg(p, k)
           At(k) == [p EXCEPT !.argind = k, !.optmark = k, !.nextchar = Left(k)]
           last == IF next < argc(p) THEN At(argc(p) - 1) ELSE p
<1>1. /\ n \in Nat /\ A \in Texts /\ s.argind \in Nat /\ s.argind < n /\ s.optind \in 1..n
      /\ DOMAIN p = Fields /\ p.argv \in Texts /\ Len(p.argv) = n /\ p.optbase \in 1..s.argind + 1
      /\ p.argind = s.argind /\ p.optind = s.optind /\ p.optmark \in 0..s.argind
      /\ \A j \in s.argind + 2..n : p.argv[j] = A[j]
      /\ SubSeq(p.argv, p.optbase + 1, s.argind + 1) = Skipped(s)
  BY ContextTypes DEF Placed, Cleared
<1>2. /\ found = {} => r = [g |-> [last EXCEPT !.argind = argc(p), !.optind = p.optbase],
                            ret |-> "done"]
      /\ found # {} => r = Candidate(At(Least(found)), mode, optstring, longopts)
  <2>1. ~(optstring # <<>> /\ optstring[1] \in {"+", "-"})
    BY DEF Context, OptString
  <2> HIDE DEF last, At
  <2> QED BY <2>1 DEF Scan, last, At
<1>3. argc(p) = n
  BY <1>1 DEF argc
<1>4. \A k \in s.argind + 1..n - 1 : k \in found <=> is_option(A[k + 1])
  <2> TAKE k \in s.argind + 1..n - 1
  <2>1. k + 1 \in s.argind + 2..n
    BY <1>1
  <2>2. Arg(p, k) = A[k + 1]
    BY <1>1, <2>1 DEF Arg
  <2> QED BY <1>1, <1>3, <2>2
<1>5. found \in SUBSET (s.argind + 1..n - 1)
  BY <1>1, <1>3
<1>6. \A k : /\ DOMAIN At(k) = Fields /\ At(k).argv = p.argv /\ At(k).optbase = p.optbase
             /\ At(k).optmark = k /\ At(k).argind = k /\ At(k).optind = p.optind
  <2> HIDE DEF Left
  <2> QED BY <1>1 DEF Fields
<1> HIDE DEF found, At, n
<1>7. CASE found = {}
  <2>1. r.ret = "done" /\ r.g = [last EXCEPT !.argind = Len(A), !.optind = p.optbase]
    BY <1>2, <1>3, <1>7 DEF n
  <2>2. /\ DOMAIN last = Fields /\ last.argv = p.argv /\ last.optbase = p.optbase
        /\ last.optmark \in 0..Len(A)
    <3>1. CASE next < argc(p)
      <4>1. last = At(n - 1) /\ n - 1 \in 0..n
        BY <1>1, <1>3, <3>1
      <4> QED BY <1>6, <4>1 DEF n
    <3>2. CASE ~(next < argc(p))
      <4>1. last = p /\ p.optmark \in 0..n
        BY <1>1, <3>2
      <4> QED BY <1>1, <4>1 DEF n
    <3> QED BY <3>1, <3>2
  <2> HIDE DEF last
  <2>3. /\ DOMAIN r.g = Fields /\ r.g.argv = p.argv /\ r.g.argind = Len(A)
        /\ r.g.optind = p.optbase /\ r.g.optbase = p.optbase /\ r.g.optmark \in 0..Len(A)
    BY <2>1, <2>2 DEF Fields
  <2>4. \A i \in s.argind + 2..Len(A) : ~is_option(A[i])
    <3> TAKE i \in s.argind + 2..Len(A)
    <3>1. i - 1 \in s.argind + 1..n - 1 /\ (i - 1) + 1 = i
      BY <1>1 DEF n
    <3> QED BY <1>4, <1>7, <3>1
  <2>5. DoneReading(A, s, x, r)
    BY <2>1, <2>3, <2>4, NoneLeft
  <2> QED BY <2>5 DEF CallRead
<1>8. CASE found # {}
  <2> DEFINE k == Least(found)
             t == At(k)
             i == s.argind + 2
  <2>1. k \in found /\ \A j \in found : k <= j
    <3>1. found \in SUBSET Nat
      BY <1>1, <1>5
    <3> QED BY <1>8, <3>1, LeastIs
  <2>2. k \in s.argind + 1..n - 1
    BY <1>5, <2>1
  <2> HIDE DEF k, t
  <2>3. is_option(A[k + 1])
    BY <1>4, <2>1, <2>2
  <2>4. \A j \in i..(k + 1) - 1 : ~is_option(A[j])
    <3> TAKE j \in i..(k + 1) - 1
    <3>1. j - 1 \in s.argind + 1..n - 1 /\ (j - 1) + 1 = j /\ ~(k <= j - 1)
      BY <1>1, <2>2
    <3> QED BY <1>4, <2>1, <3>1
  <2>5. /\ i \in 2..n + 1 /\ k + 1 \in i..n + 1 /\ (k + 1) - 1 = k /\ i \in 1..n + 1
        /\ k \in i - 1..n /\ k + 1 \in 2..n + 2 /\ k \in Nat /\ k < n /\ i = (s.argind + 1) + 1
    BY <1>1, <2>2, SMTT(30)
  <2>6. Before(SubSeq(A, i, k), x, m[k + 1])
    <3>1. Before(SubSeq(A, i, (k + 1) - 1), m[i], m[k + 1])
      <4> HIDE DEF i
      <4> QED BY <2>4, <2>5, OperandsMean DEF n
    <3> QED BY <2>5, <3>1
  <2>7. SubSeq(A, i, k) \in Texts /\ m[k + 1] \in Meanings(V)
    <3>1. SubSeq(A, i, k) \in Texts
      <4> HIDE DEF i
      <4> QED BY <1>1, <2>5, SubSeqIs DEF Texts, n
    <3> QED BY <2>5, <3>1, ContextTypes DEF n
  <2>8. /\ DOMAIN t = Fields /\ t.argv = p.argv /\ t.optbase = p.optbase
        /\ t.optmark = k /\ t.argind = k /\ t.optind = p.optind
    BY <1>6 DEF t
  <2>9. Placed(A, t) /\ t.argind # 0
    <3>1. /\ p.optbase \in Nat /\ k \in p.optbase..k /\ p.optbase # 0 /\ k \in 0..n - 1 /\ k # 0
      <4>1. s.argind \in Nat /\ n \in Nat /\ p.optbase \in 1..s.argind + 1
        BY <1>1
      <4> QED BY <2>2, <4>1
    <3>2. \A j \in k + 1..n : j \in s.argind + 2..n
      <4>1. s.argind \in Nat /\ n \in Nat
        BY <1>1
      <4> QED BY <2>2, <4>1
    <3> QED BY <1>1, <2>8, <3>1, <3>2 DEF Placed, n
  <2>10. Skipped(t) = Skipped(s) \o SubSeq(A, i, k)
    <3> DEFINE j == p.optbase + 1
               o == s.argind + 1
    <3>1. j \in 1..n + 1 /\ k \in j - 1..n /\ o \in j - 1..k /\ i = o + 1
      BY <1>1, <2>2, SMTT(30)
    <3>2. SubSeq(p.argv, j, k) = SubSeq(p.argv, j, o) \o SubSeq(p.argv, o + 1, k)
      <4> HIDE DEF j, o
      <4> QED BY <1>1, <3>1, SubSeqCut DEF Texts
    <3>3. SubSeq(p.argv, i, k) = SubSeq(A, i, k)
      <4>1. \A h \in i..k : p.argv[h] = A[h]
        BY <1>1, <2>2
      <4> HIDE DEF i
      <4> QED BY <1>1, <2>5, <4>1, SubSeqSame DEF Texts, n
    <3> QED BY <1>1, <2>8, <3>1, <3>2, <3>3 DEF Skipped
  <2>11. r = Candidate(t, mode, optstring, longopts)
    BY <1>2, <1>8 DEF t, k
  <2>12. CandidateRead(V, A, optstring, longopts, m, mode, t, m[k + 1], r)
    BY <2>3, <2>8, <2>9, <2>11, CandidateIs
  <2> QED BY <1>1, <2>6, <2>7, <2>9, <2>10, <2>12, AfterOperands DEF n
<1> QED BY <1>7, <1>8

LEMMA OwedMeans ==
  ASSUME NEW V, NEW A, NEW optstring, NEW longopts, NEW m, Context(V, A, optstring, longopts, m),
         NEW s, NEW x, Owes(A, optstring, m, s, x)
  PROVE  x \in Meanings(V)
<1>1. Placed(A, s)
  BY DEF Owes
<1>2. s.argind \in 0..Len(A) - 1 /\ Len(A) \in Nat
  BY <1>1, ContextTypes DEF Placed
<1>3. CASE x = m[s.argind + 2]
  <2>1. s.argind + 2 \in 2..Len(A) + 2
    BY <1>2
  <2> QED BY <1>3, <2>1, ContextTypes
<1>4. CASE \E j : InGroup(A, s, j) /\ x = Group(A, optstring, m, s.argind + 1)[j]
  <2> DEFINE k == s.argind + 1
  <2>1. PICK j : InGroup(A, s, j) /\ x = Group(A, optstring, m, k)[j]
    BY <1>4
  <2>2. j \in 2..Len(A[k])
    BY <2>1 DEF InGroup
  <2>3. /\ k \in 1..Len(A) /\ k + 1 \in 2..Len(A) + 2 /\ k + 2 \in 2..Len(A) + 2
        /\ A \in Texts /\ Character \subseteq V
    BY <1>2, ContextTypes DEF Context
  <2> HIDE DEF k
  <2>4. m[k + 1] \in Meanings(V) /\ m[k + 2] \in Meanings(V)
    BY <2>3, ContextTypes
  <2>5. \A i \in 2..Len(A[k]) : Group(A, optstring, m, k)[i] \in Meanings(V)
    BY <2>3, <2>4, GroupUnfolds DEF Group
  <2> QED BY <2>1, <2>2, <2>5
<1> QED BY <1>3, <1>4 DEF Owes

LEMMA CallIs ==
  ASSUME NEW V, NEW A, NEW optstring, NEW longopts, NEW m, Context(V, A, optstring, longopts, m),
         NEW mode, CalledAs(mode, longopts),
         NEW s, NEW x, Owes(A, optstring, m, s, x),
         NEW r, r = getoptW_parse(s, mode, optstring, longopts)
  PROVE  CallRead(V, A, optstring, longopts, m, mode, s, x, r)
<1>1. /\ Placed(A, s) /\ Len(A) \in Nat /\ s.argind \in Nat /\ s.optbase \in Nat
      /\ s.optmark \in s.optbase..s.argind /\ s.optind \in 1..Len(A) /\ s.argind < Len(A)
  BY ContextTypes DEF Owes, Placed
<1>2. \/ s.nextchar = <<>> /\ s.optind = s.argind + 1 /\ x = m[s.argind + 2]
      \/ /\ s.optind = s.argind
         /\ \E j : InGroup(A, s, j) /\ x = Group(A, optstring, m, s.argind + 1)[j]
  BY DEF Owes
<1>3. Resumed(s) = s
  <2>1. ~(s.optind < 1 \/ s.optind < s.optbase) /\ ~(s.optind > s.argind + 1)
    BY <1>1, <1>2
  <2> QED BY <2>1 DEF Resumed
<1>4. /\ s.nextchar # <<>> => r = ShortOption(s, mode, optstring)
      /\ s.nextchar = <<>> => r = Scan(Permuted(s), mode, optstring, longopts)
  BY <1>3 DEF getoptW_parse
<1>5. CASE \E j : InGroup(A, s, j) /\ x = Group(A, optstring, m, s.argind + 1)[j]
  <2>1. PICK j : InGroup(A, s, j) /\ x = Group(A, optstring, m, s.argind + 1)[j]
    BY <1>5
  <2>2. s.nextchar # <<>>
    <3> DEFINE arg == A[s.argind + 1]
    <3>1. arg \in Seq(Character) /\ j \in 1..Len(arg) /\ s.nextchar = SubSeq(arg, j, Len(arg))
      <4>1. s.argind + 1 \in 1..Len(A)
        BY <1>1
      <4> QED BY <2>1, <4>1, ContextTypes DEF InGroup, Text
    <3> HIDE DEF arg
    <3> QED BY <3>1, SuffixIs
  <2>3. \/ ReadsOption(V, A, optstring, m, s, x, r) /\ ShortRead(optstring, r)
        \/ Fails(A, r) /\ Rejected(x)
    BY <1>4, <2>1, <2>2, ShortOptionIs
  <2>4. CandidateRead(V, A, optstring, longopts, m, mode, s, x, r)
    BY <2>3 DEF CandidateRead, ShortRead, Returned
  <2>5. x \in Meanings(V)
    BY OwedMeans
  <2>6. Before(<<>>, x, x)
    BY <2>5, BeforeNothing
  <2>7. Skipped(s) = Skipped(s) \o <<>> /\ <<>> \in Texts
    BY <1>1, SkippedTexts, ConcatEmptySeq, EmptySeq DEF Texts
  <2> QED BY <1>1, <2>4, <2>5, <2>6, <2>7, AfterOperands
<1>6. CASE s.nextchar = <<>> /\ s.optind = s.argind + 1 /\ x = m[s.argind + 2]
  <2>1. PICK p : p = Permuted(s)
    OBVIOUS
  <2>2. Cleared(A, s, p)
    BY <1>1, <2>1, PermutedIs
  <2>3. r = Scan(p, mode, optstring, longopts)
    BY <1>4, <1>6, <2>1
  <2> QED BY <1>1, <1>6, <2>2, <2>3, ScanIs
<1> QED BY <1>2, <1>5, <1>6

-----------------------------------------------------------------------------
(* The options of the tools *)

LEMMA CatchSegvOptionsAre == OptString(CatchSegvOptions)
BY DEF CatchSegvOptions, OptString

LEMMA Addr2LineOptionsAre == OptString(Addr2LineOptions)
BY DEF Addr2LineOptions, OptString

LEMMA DrmingwOptionsAre == OptString(DrmingwOptions)
BY DEF DrmingwOptions, OptString

NameLetters == {"-", "a", "b", "c", "d", "e", "g", "h", "i", "k", "l", "n", "o", "p", "r", "s", "t", "u", "v"}

\* A long option by its name: the letters, how many they are, the first.
IsNamed(name, length, first) ==
  name \in Seq(NameLetters) /\ Len(name) = length /\ name[1] = first

LEMMA LongOptionsAre ==
  /\ DOMAIN DrmingwLongOptions = 1..10 /\ DrmingwLongOptions # <<>>
  /\ IsNamed(DrmingwLongOptions[1].name, 4, "h")
  /\ IsNamed(DrmingwLongOptions[2].name, 7, "v")
  /\ IsNamed(DrmingwLongOptions[3].name, 7, "i")
  /\ IsNamed(DrmingwLongOptions[4].name, 9, "u")
  /\ IsNamed(DrmingwLongOptions[5].name, 10, "p")
  /\ IsNamed(DrmingwLongOptions[6].name, 5, "e")
  /\ IsNamed(DrmingwLongOptions[7].name, 3, "t")
  /\ IsNamed(DrmingwLongOptions[8].name, 10, "b")
  /\ IsNamed(DrmingwLongOptions[9].name, 7, "v")
  /\ IsNamed(DrmingwLongOptions[10].name, 5, "d")
  /\ DrmingwLongOptions[2].name[4] = "s" /\ DrmingwLongOptions[9].name[4] = "b"
<1>1. DOMAIN DrmingwLongOptions = 1..10 /\ DrmingwLongOptions # <<>>
  BY DEF DrmingwLongOptions
<1>2. IsNamed(DrmingwLongOptions[1].name, 4, "h")
  <2>1. DrmingwLongOptions[1].name = <<"h", "e", "l", "p">>
    BY DEF DrmingwLongOptions
  <2>2. IsNamed(<<"h", "e", "l", "p">>, 4, "h")
    BY DEF IsNamed, NameLetters
  <2> QED BY <2>1, <2>2
<1>3. IsNamed(DrmingwLongOptions[2].name, 7, "v")
  <2>1. DrmingwLongOptions[2].name = <<"v", "e", "r", "s", "i", "o", "n">>
    BY DEF DrmingwLongOptions
  <2>2. IsNamed(<<"v", "e", "r", "s", "i", "o", "n">>, 7, "v")
    BY DEF IsNamed, NameLetters
  <2> QED BY <2>1, <2>2
<1>4. IsNamed(DrmingwLongOptions[3].name, 7, "i")
  <2>1. DrmingwLongOptions[3].name = <<"i", "n", "s", "t", "a", "l", "l">>
    BY DEF DrmingwLongOptions
  <2>2. IsNamed(<<"i", "n", "s", "t", "a", "l", "l">>, 7, "i")
    BY DEF IsNamed, NameLetters
  <2> QED BY <2>1, <2>2
<1>5. IsNamed(DrmingwLongOptions[4].name, 9, "u")
  <2>1. DrmingwLongOptions[4].name = <<"u", "n", "i", "n", "s", "t", "a", "l", "l">>
    BY DEF DrmingwLongOptions
  <2>2. IsNamed(<<"u", "n", "i", "n", "s", "t", "a", "l", "l">>, 9, "u")
    BY DEF IsNamed, NameLetters
  <2> QED BY <2>1, <2>2
<1>6. IsNamed(DrmingwLongOptions[5].name, 10, "p")
  <2>1. DrmingwLongOptions[5].name = <<"p", "r", "o", "c", "e", "s", "s", "-", "i", "d">>
    BY DEF DrmingwLongOptions
  <2>2. IsNamed(<<"p", "r", "o", "c", "e", "s", "s", "-", "i", "d">>, 10, "p")
    BY DEF IsNamed, NameLetters
  <2> QED BY <2>1, <2>2
<1>7. IsNamed(DrmingwLongOptions[6].name, 5, "e")
  <2>1. DrmingwLongOptions[6].name = <<"e", "v", "e", "n", "t">>
    BY DEF DrmingwLongOptions
  <2>2. IsNamed(<<"e", "v", "e", "n", "t">>, 5, "e")
    BY DEF IsNamed, NameLetters
  <2> QED BY <2>1, <2>2
<1>8. IsNamed(DrmingwLongOptions[7].name, 3, "t")
  <2>1. DrmingwLongOptions[7].name = <<"t", "i", "d">>
    BY DEF DrmingwLongOptions
  <2>2. IsNamed(<<"t", "i", "d">>, 3, "t")
    BY DEF IsNamed, NameLetters
  <2> QED BY <2>1, <2>2
<1>9. IsNamed(DrmingwLongOptions[8].name, 10, "b")
  <2>1. DrmingwLongOptions[8].name = <<"b", "r", "e", "a", "k", "p", "o", "i", "n", "t">>
    BY DEF DrmingwLongOptions
  <2>2. IsNamed(<<"b", "r", "e", "a", "k", "p", "o", "i", "n", "t">>, 10, "b")
    BY DEF IsNamed, NameLetters
  <2> QED BY <2>1, <2>2
<1>10. IsNamed(DrmingwLongOptions[9].name, 7, "v")
  <2>1. DrmingwLongOptions[9].name = <<"v", "e", "r", "b", "o", "s", "e">>
    BY DEF DrmingwLongOptions
  <2>2. IsNamed(<<"v", "e", "r", "b", "o", "s", "e">>, 7, "v")
    BY DEF IsNamed, NameLetters
  <2> QED BY <2>1, <2>2
<1>11. IsNamed(DrmingwLongOptions[10].name, 5, "d")
  <2>1. DrmingwLongOptions[10].name = <<"d", "e", "b", "u", "g">>
    BY DEF DrmingwLongOptions
  <2>2. IsNamed(<<"d", "e", "b", "u", "g">>, 5, "d")
    BY DEF IsNamed, NameLetters
  <2> QED BY <2>1, <2>2
<1>12. DrmingwLongOptions[2].name[4] = "s" /\ DrmingwLongOptions[9].name[4] = "b"
  BY DEF DrmingwLongOptions
<1> QED BY <1>1, <1>2, <1>3, <1>4, <1>5, <1>6, <1>7, <1>8, <1>9, <1>10, <1>11, <1>12

LEMMA BeginsAlike ==
  ASSUME NEW C, NEW stem \in Seq(C), NEW name \in Seq(C), Begins(stem, name), NEW i \in 1..Len(stem)
  PROVE  stem[i] = name[i]
<1>1. Len(stem) \in 1 - 1..Len(name) /\ 1 \in 1..Len(name) + 1 /\ i \in 1..Len(stem) - 1 + 1
  BY DEF Begins
<1>2. SubSeq(name, 1, Len(stem))[i] = name[1 + i - 1]
  BY <1>1, SubSeqIs
<1> QED BY <1>2 DEF Begins

LEMMA NoNameBegins == LongNames(DrmingwLongOptions, NameLetters)
<1> DEFINE name(i) == DrmingwLongOptions[i].name
<1>1. DOMAIN DrmingwLongOptions = 1..10
  BY LongOptionsAre
<1>2. /\ name(1) \in Seq(NameLetters)
      /\ name(2) \in Seq(NameLetters)
      /\ name(3) \in Seq(NameLetters)
      /\ name(4) \in Seq(NameLetters)
      /\ name(5) \in Seq(NameLetters)
      /\ name(6) \in Seq(NameLetters)
      /\ name(7) \in Seq(NameLetters)
      /\ name(8) \in Seq(NameLetters)
      /\ name(9) \in Seq(NameLetters)
      /\ name(10) \in Seq(NameLetters)
  BY LongOptionsAre DEF IsNamed
<1>3. /\ Len(name(1)) = 4 /\ name(1)[1] = "h"
      /\ Len(name(2)) = 7 /\ name(2)[1] = "v"
      /\ Len(name(3)) = 7 /\ name(3)[1] = "i"
      /\ Len(name(4)) = 9 /\ name(4)[1] = "u"
      /\ Len(name(5)) = 10 /\ name(5)[1] = "p"
      /\ Len(name(6)) = 5 /\ name(6)[1] = "e"
      /\ Len(name(7)) = 3 /\ name(7)[1] = "t"
      /\ Len(name(8)) = 10 /\ name(8)[1] = "b"
      /\ Len(name(9)) = 7 /\ name(9)[1] = "v"
      /\ Len(name(10)) = 5 /\ name(10)[1] = "d"
      /\ name(2)[4] = "s" /\ name(9)[4] = "b"
  BY LongOptionsAre DEF IsNamed
<1> HIDE DEF name
<1>4. ASSUME NEW i \in 1..10
      PROVE  /\ name(i) \in Seq(NameLetters)
             /\ Len(name(i)) \in {3, 4, 5, 7, 9, 10}
  <2>1. i \in {1, 2, 3, 4, 5, 6, 7, 8, 9, 10}
    OBVIOUS
  <2>2. name(i) \in Seq(NameLetters)
    BY <1>2, <2>1
  <2>3. Len(name(i)) \in {3, 4, 5, 7, 9, 10}
    BY <1>3, <2>1
  <2> QED BY <2>2, <2>3
<1>5. \A i, j \in 1..10 : name(i)[1] = name(j)[1] /\ i # j => {i, j} = {2, 9}
  BY <1>3
<1>6. ASSUME NEW i \in 1..10, NEW j \in 1..10, i # j PROVE ~Begins(name(i), name(j))
  <2>1. SUFFICES ASSUME Begins(name(i), name(j)) PROVE FALSE
    OBVIOUS
  <2>2. name(i) \in Seq(NameLetters) /\ name(j) \in Seq(NameLetters) /\ 1 \in 1..Len(name(i))
    <3>1. name(i) \in Seq(NameLetters) /\ name(j) \in Seq(NameLetters)
      BY <1>4
    <3>2. Len(name(i)) \in {3, 4, 5, 7, 9, 10}
      BY <1>4
    <3>3. 1 \in 1..Len(name(i))
      <4>1. \A n \in {3, 4, 5, 7, 9, 10} : 1 \in 1..n
        OBVIOUS
      <4> QED BY <3>2, <4>1, Zenon
    <3> QED BY <3>1, <3>3
  <2>3. name(i)[1] = name(j)[1]
    BY <2>1, <2>2, BeginsAlike
  <2>4. {i, j} = {2, 9}
    BY <1>5, <1>6, <2>3
  <2>5. 4 \in 1..Len(name(i)) /\ name(i)[4] # name(j)[4]
    <3>1. (i = 2 /\ j = 9) \/ (i = 9 /\ j = 2)
      BY <1>6, <2>4
    <3>2. Len(name(i)) = 7
      BY <1>3, <3>1
    <3>3. name(i)[4] # name(j)[4]
      BY <1>3, <3>1
    <3> QED BY <3>2, <3>3
  <2> QED BY <2>1, <2>2, <2>5, BeginsAlike
<1> QED BY <1>1, <1>4, <1>6 DEF LongNames, name

\* What the tools' options are called.
Named == Character \cup {DrmingwLongOptions[i].val : i \in DOMAIN DrmingwLongOptions}

LEMMA NoneIsDone ==
  /\ ~IsOption("done", CatchSegvOptions) /\ ~IsOption("done", Addr2LineOptions)
  /\ ~IsOption("done", DrmingwOptions)
  /\ \A i \in DOMAIN DrmingwLongOptions : DrmingwLongOptions[i].val # "done"
<1>1. ~IsOption("done", CatchSegvOptions)
  BY DEF IsOption, CatchSegvOptions
<1>2. ~IsOption("done", Addr2LineOptions)
  BY DEF IsOption, Addr2LineOptions
<1>3. ~IsOption("done", DrmingwOptions)
  BY DEF IsOption, DrmingwOptions
<1>4. \A i \in DOMAIN DrmingwLongOptions : DrmingwLongOptions[i].val # "done"
  BY DEF DrmingwLongOptions
<1> QED BY <1>1, <1>2, <1>3, <1>4

\* How each tool calls getopt, and what a command line means to it.
ToolNames == {"catchsegv", "addr2line", "drmingw"}
ModeOf(t) == IF t = "drmingw" THEN "long_only" ELSE "standard"
OptionsOf(t) == CASE t = "catchsegv" -> CatchSegvOptions
                  [] t = "addr2line" -> Addr2LineOptions
                  [] OTHER -> DrmingwOptions
LongOf(t) == IF t = "drmingw" THEN DrmingwLongOptions ELSE <<>>
Means(t, args) == MeaningFrom(args, OptionsOf(t), LongOf(t))

LEMMA ToolContext ==
  ASSUME NEW t \in ToolNames, NEW args \in Texts
  PROVE  /\ Context(Named, args, OptionsOf(t), LongOf(t), Means(t, args))
         /\ CalledAs(ModeOf(t), LongOf(t))
         /\ ~Returned(OptionsOf(t), LongOf(t), "done")
<1>1. OptString(OptionsOf(t)) /\ ~IsOption("done", OptionsOf(t))
  BY CatchSegvOptionsAre, Addr2LineOptionsAre, DrmingwOptionsAre, NoneIsDone DEF OptionsOf, ToolNames
<1>2. LongOptions(LongOf(t), Named)
  <2>1. LongOptions(DrmingwLongOptions, Named)
    BY LongOptionsAre DEF LongOptions, Named
  <2>2. LongOptions(<<>>, Named)
    BY DEF LongOptions
  <2> QED BY <2>1, <2>2 DEF LongOf
<1>3. CalledAs(ModeOf(t), LongOf(t))
  <2>1. CASE t = "drmingw"
    BY <2>1, NoNameBegins, LongOptionsAre DEF CalledAs, ModeOf, LongOf
  <2>2. CASE t # "drmingw"
    BY <2>2 DEF CalledAs, ModeOf, LongOf
  <2> QED BY <2>1, <2>2
<1>4. ~Returned(OptionsOf(t), LongOf(t), "done")
  BY <1>1, NoneIsDone DEF Returned, LongOf
<1>5. Character \subseteq Named
  BY DEF Named
<1> QED BY <1>1, <1>2, <1>3, <1>4, <1>5 DEF Context, Means

-----------------------------------------------------------------------------
(* The loops over the options *)

\* The operands and options had so far and x, the meaning of what is left,
\* are what the command line means.
Accounted(operands, opts, x, meant) ==
  meant.ok = x.ok /\ meant.opts = opts \o x.opts /\ meant.operands = operands \o x.operands

\* Between two calls of getopt in state s, when opts have been returned.
Understands(t, args, s, opts) ==
  /\ args \in Texts
  /\ \E x : /\ Owes(args, OptionsOf(t), Means(t, args), s, x)
            /\ Accounted(Skipped(s), opts, x, Means(t, args)[2])

\* After the last call.
Understood(t, args, s, opts) ==
  LET meant == Means(t, args)[2] IN
  /\ meant.ok = TRUE /\ opts = meant.opts
  /\ SubSeq(s.argv, s.optind + 1, Len(s.argv)) = meant.operands

LEMMA NothingRead ==
  ASSUME NEW t \in ToolNames, NEW args \in Texts, Len(args) >= 1, NEW s, s = Fresh(args)
  PROVE  Understands(t, args, s, <<>>)
<1> DEFINE m == Means(t, args)
<1>1. Context(Named, args, OptionsOf(t), LongOf(t), m) /\ Len(args) \in Nat
  BY ToolContext DEF Texts
<1>2. Placed(args, s)
  BY <1>1 DEF Fresh, Placed, Fields
<1>3. s.nextchar = <<>> /\ s.optind = s.argind + 1 /\ s.argind + 2 = 2
      /\ s.optbase = 0 /\ s.optmark = 0
  BY DEF Fresh
<1> HIDE DEF m
<1>4. Owes(args, OptionsOf(t), m, s, m[2])
  BY <1>2, <1>3 DEF Owes
<1>5. m[2] \in Meanings(Named)
  BY <1>1, <1>4, OwedMeans
<1>6. Skipped(s) = <<>>
  BY <1>3, SubSeqEmpty DEF Skipped
<1>7. <<>> \o m[2].opts = m[2].opts /\ <<>> \o m[2].operands = m[2].operands
  BY <1>5, ConcatEmptySeq DEF Meanings, Texts
<1> QED BY <1>4, <1>6, <1>7 DEF Understands, Accounted, m

\* w is m after the option c.
Adds(c, a, m, w) ==
  w.ok = m.ok /\ w.opts = <<<<c, a>>>> \o m.opts /\ w.operands = m.operands

LEMMA WithOptionAdds ==
  ASSUME NEW V, NEW c \in V, NEW a \in Optarg, NEW m \in Meanings(V)
  PROVE  Adds(c, a, m, WithOption(c, a, m))
BY WithOptionIs, SMTT(30) DEF Adds

\* A call that returns an option, one that finds the end, one that fails.
Read(t, args, opts, r) ==
  /\ r.ret \in Named /\ r.g.optarg \in Optarg /\ r.ret # "done"
  /\ Understands(t, args, r.g, Append(opts, <<r.ret, r.g.optarg>>))
  /\ ModeOf(t) = "standard" => ShortRead(OptionsOf(t), r)
ReadAll(t, args, opts, r) ==
  r.ret = "done" /\ Bounded(args, r.g) /\ Understood(t, args, r.g, opts)
Refuses(t, args, r) ==
  Fails(args, r) /\ (ModeOf(t) = "standard" => Rejected(Means(t, args)[2]))

LEMMA NextOption ==
  ASSUME NEW t \in ToolNames, NEW args, NEW s, NEW opts \in Seq(Named \X Optarg),
         Understands(t, args, s, opts),
         NEW r, r = getoptW_parse(s, ModeOf(t), OptionsOf(t), LongOf(t))
  PROVE  Read(t, args, opts, r) \/ ReadAll(t, args, opts, r) \/ Refuses(t, args, r)
<1> DEFINE m == Means(t, args)
           meant == m[2]
<1>1. /\ args \in Texts /\ Len(args) \in Nat
      /\ Context(Named, args, OptionsOf(t), LongOf(t), m) /\ CalledAs(ModeOf(t), LongOf(t))
      /\ ~Returned(OptionsOf(t), LongOf(t), "done")
  BY ToolContext DEF Understands, Texts
<1>2. PICK x : /\ Owes(args, OptionsOf(t), m, s, x) /\ Accounted(Skipped(s), opts, x, meant)
  BY DEF Understands
<1> HIDE DEF m, meant
<1>3. CallRead(Named, args, OptionsOf(t), LongOf(t), m, ModeOf(t), s, x, r)
  BY <1>1, <1>2, CallIs
<1>4. x \in Meanings(Named) /\ Skipped(s) \in Texts
  <2>1. Placed(args, s)
    BY <1>2 DEF Owes
  <2> QED BY <1>1, <1>2, <2>1, OwedMeans, SkippedTexts
<1>5. CASE /\ OptionRead(Named, args, OptionsOf(t), m, s, x, r)
           /\ Returned(OptionsOf(t), LongOf(t), r.ret)
           /\ ModeOf(t) = "standard" => ShortRead(OptionsOf(t), r)
  <2>1. r.ret \in Named /\ r.g.optarg \in Optarg
    BY <1>5 DEF OptionRead
  <2>2. PICK y \in Meanings(Named), operands \in Texts :
          /\ Owes(args, OptionsOf(t), m, r.g, y)
          /\ Before(operands, x, WithOption(r.ret, r.g.optarg, y))
          /\ Skipped(r.g) = Skipped(s) \o operands
    BY <1>5 DEF OptionRead
  <2> DEFINE o == <<r.ret, r.g.optarg>>
  <2>3. x.ok = y.ok /\ x.opts = <<o>> \o y.opts /\ x.operands = operands \o y.operands
    <3>1. Adds(r.ret, r.g.optarg, y, WithOption(r.ret, r.g.optarg, y))
      BY <2>1, WithOptionAdds
    <3> QED BY <2>2, <3>1 DEF Adds, Before
  <2>4. y.opts \in Seq(Named \X Optarg) /\ y.operands \in Texts /\ o \in Named \X Optarg
    BY <2>1 DEF Meanings
  <2> HIDE DEF o
  <2>5. opts \o (<<o>> \o y.opts) = Append(opts, o) \o y.opts
    <3>1. PICK one, more, C : one = <<o>> /\ more = y.opts /\ C = Named \X Optarg
      OBVIOUS
    <3>2. one \in Seq(C) /\ more \in Seq(C) /\ opts \in Seq(C)
      BY <2>4, <3>1
    <3>3. opts \o (one \o more) = (opts \o one) \o more
      BY <3>2, ConcatAssociates, SMTT(30)
    <3>4. Append(opts, o) = opts \o one
      BY <2>4, <3>1
    <3> QED BY <3>1, <3>3, <3>4
  <2>6. Skipped(s) \o (operands \o y.operands) = (Skipped(s) \o operands) \o y.operands
    BY <1>4, <2>4, TextsAssociate
  <2>7. Accounted(Skipped(r.g), Append(opts, o), y, meant)
    BY <1>2, <2>2, <2>3, <2>5, <2>6 DEF Accounted
  <2>8. Understands(t, args, r.g, Append(opts, o))
    BY <1>1, <2>2, <2>7 DEF Understands, m, meant
  <2>9. r.ret # "done"
    BY <1>1, <1>5
  <2> QED BY <1>5, <2>1, <2>8, <2>9 DEF Read, o
<1>6. CASE DoneReading(args, s, x, r)
  <2>1. r.ret = "done" /\ Bounded(args, r.g) /\ x.ok = TRUE /\ x.opts = <<>>
        /\ SubSeq(r.g.argv, r.g.optind + 1, Len(args)) = Skipped(s) \o x.operands
    BY <1>6 DEF DoneReading
  <2>2. meant.ok = TRUE /\ meant.operands = Skipped(s) \o x.operands /\ meant.opts = opts \o <<>>
    BY <1>2, <2>1 DEF Accounted
  <2>3. opts \o <<>> = opts
    BY ConcatEmptySeq
  <2>4. Len(r.g.argv) = Len(args)
    BY <2>1 DEF Bounded
  <2> QED BY <2>1, <2>2, <2>3, <2>4 DEF ReadAll, Understood, meant, m
<1>7. CASE Fails(args, r) /\ (ModeOf(t) = "standard" => Rejected(x))
  BY <1>2, <1>7 DEF Refuses, Rejected, Accounted, meant, m
<1> QED BY <1>3, <1>5, <1>6, <1>7 DEF CallRead

-----------------------------------------------------------------------------
(* The steps of the tools: reading options *)

Places(t) ==
  CASE t = "catchsegv" -> {"options", "usage", "failed", "launch", "timer", "debugging"}
    [] t = "addr2line" -> {"options", "usage", "failed", "load", "symbols", "addresses", "answered"}
    [] OTHER -> {"options", "usage", "failed", "conflict", "install", "uninstall", "attach",
                 "installed", "uninstalled"}

\* Where the options have been read, with nothing done yet.
Through == {"launch", "load", "symbols", "install", "uninstall", "attach"}

Running ==
  /\ tool \in ToolNames /\ pc \in Places(tool)
  /\ typed \in Texts /\ Len(typed) >= 1 /\ Bounded(typed, g)
StillReading ==
  pc = "options" => Understands(tool, typed, g, got) /\ got \in Seq(Named \X Optarg)
ReadThrough ==
  pc \in Through => \/ Understood(tool, typed, g, got)
                    \/ tool = "catchsegv" /\ Rejected(Means(tool, typed)[2])

LEMMA MeantIs ==
  ASSUME tool \in ToolNames
  PROVE  Meant = Means(tool, typed)[2]
BY DEF Meant, Means, Meaning, OptionsOf, LongOf, ToolNames

LEMMA ParsedIs ==
  ASSUME tool \in ToolNames
  PROVE  Parsed = getoptW_parse(g, ModeOf(tool), OptionsOf(tool), LongOf(tool))
BY DEF Parsed, getoptW, getoptW_long_only, ModeOf, OptionsOf, LongOf, ToolNames

LEMMA CallOf ==
  ASSUME Running, StillReading, pc = "options", NEW r \in {Parsed}
  PROVE  Read(tool, typed, got, r) \/ ReadAll(tool, typed, got, r) \/ Refuses(tool, typed, r)
<1>1. r = getoptW_parse(g, ModeOf(tool), OptionsOf(tool), LongOf(tool))
  BY ParsedIs DEF Running
<1> QED BY <1>1, NextOption DEF Running, StillReading

\* The options that r leaves, and where the tool is then.
Stepped(r, places) == \E next \in places : \E options : Options(r, options, next)

LEMMA SteppedWider ==
  ASSUME NEW r, NEW S, NEW T, S \subseteq T, Stepped(r, S)
  PROVE  Stepped(r, T)
BY DEF Stepped

LEMMA SteppedRead ==
  ASSUME Running, NEW r, Read(tool, typed, got, r), got \in Seq(Named \X Optarg),
         Stepped(r, Places(tool) \ Through)
  PROVE  Running' /\ StillReading' /\ ReadThrough'
<1>1. PICK next \in Places(tool) \ Through : \E options : Options(r, options, next)
  BY DEF Stepped
<1>2. /\ g' = r.g /\ pc' = next /\ tool' = tool /\ typed' = typed
      /\ got' = Append(got, <<r.ret, r.g.optarg>>)
  BY <1>1 DEF Options, Read
<1>3. got' \in Seq(Named \X Optarg) /\ Understands(tool, typed, r.g, got')
  BY <1>2 DEF Read
<1>4. Placed(typed, r.g) /\ Len(typed) \in Nat
  BY <1>3 DEF Understands, Owes, Texts
<1>5. Bounded(typed, r.g)
  BY <1>4, PlacedBounded
<1> QED BY <1>1, <1>2, <1>3, <1>5 DEF Running, StillReading, ReadThrough

LEMMA SteppedAll ==
  ASSUME Running, NEW r, ReadAll(tool, typed, got, r), Stepped(r, Places(tool) \ {"options"})
  PROVE  Running' /\ StillReading' /\ ReadThrough'
<1>1. PICK next \in Places(tool) \ {"options"} : \E options : Options(r, options, next)
  BY DEF Stepped
<1>2. g' = r.g /\ pc' = next /\ tool' = tool /\ typed' = typed /\ got' = got
  BY <1>1 DEF Options, ReadAll
<1> QED BY <1>1, <1>2 DEF ReadAll, Running, StillReading, ReadThrough

LEMMA SteppedRefused ==
  ASSUME Running, NEW r, Refuses(tool, typed, r),
         \/ Stepped(r, Places(tool) \ (Through \cup {"options"}))
         \/ tool = "catchsegv" /\ Stepped(r, {"launch"})
  PROVE  Running' /\ StillReading' /\ ReadThrough'
<1>1. PICK next \in Places(tool) \ {"options"} :
        (\E options : Options(r, options, next)) /\ (next \in Through => tool = "catchsegv")
  BY DEF Stepped, Places, Through
<1>2. g' = r.g /\ pc' = next /\ tool' = tool /\ typed' = typed
  BY <1>1 DEF Options
<1>3. tool = "catchsegv" => Rejected(Means(tool, typed)[2])
  BY DEF Refuses, ModeOf
<1> QED BY <1>1, <1>2, <1>3 DEF Refuses, Fails, Running, StillReading, ReadThrough

LEMMA CatchSegvOptionIs ==
  ASSUME CatchSegvOption, Running, StillReading
  PROVE  Running' /\ StillReading' /\ ReadThrough'
<1>1. tool = "catchsegv" /\ pc = "options"
  BY DEF CatchSegvOption
<1>2. PICK r \in {Parsed} :
        \/ (r.ret = "h" \/ (r.ret = "?" /\ r.g.optopt = "?")) /\ Options(r, opt, "usage")
        \/ r.ret \in {"v", "d", "1", "m", "t", "H", "z", "Z", "q"}
             /\ \E options : Options(r, options, "options")
        \/ /\ r.ret \notin {"h", "v", "d", "1", "m", "t", "H", "z", "Z", "q"}
           /\ r.ret = "?" => r.g.optopt # "?"
           /\ Options(r, opt, "launch")
  BY <1>1 DEF CatchSegvOption
<1>3. CASE Read(tool, typed, got, r)
  <2>1. ShortRead(CatchSegvOptions, r)
    BY <1>1, <1>3 DEF Read, ModeOf, OptionsOf
  <2>2. r.ret \in {"?", "1", "d", "h", "H", "m", "t", "z", "Z", "v", "q"}
        /\ r.g.optopt = r.ret
    BY <2>1 DEF ShortRead, IsOption, CatchSegvOptions
  <2>3. Stepped(r, {"options", "usage"})
    BY <1>2, <2>2 DEF Stepped
  <2>4. Stepped(r, Places(tool) \ Through)
    <3>1. {"options", "usage"} \subseteq Places(tool) \ Through
      BY <1>1 DEF Places, Through
    <3> QED BY <2>3, <3>1, SteppedWider
  <2> QED BY <1>1, <1>3, <2>4, SteppedRead DEF StillReading
<1>4. CASE ReadAll(tool, typed, got, r)
  <2>1. Stepped(r, {"launch"})
    BY <1>2, <1>4 DEF Stepped, ReadAll
  <2>2. Stepped(r, Places(tool) \ {"options"})
    <3>1. {"launch"} \subseteq Places(tool) \ {"options"}
      BY <1>1 DEF Places
    <3> QED BY <2>1, <3>1, SteppedWider
  <2> QED BY <1>4, <2>2, SteppedAll
<1>5. CASE Refuses(tool, typed, r)
  <2>1. r.ret \in {"?", ":"}
    BY <1>5 DEF Refuses, Fails
  <2>2. Stepped(r, {"usage"}) \/ Stepped(r, {"launch"})
    BY <1>2, <2>1 DEF Stepped
  <2>3. \/ Stepped(r, Places(tool) \ (Through \cup {"options"}))
        \/ tool = "catchsegv" /\ Stepped(r, {"launch"})
    <3>1. {"usage"} \subseteq Places(tool) \ (Through \cup {"options"})
      BY <1>1 DEF Places, Through
    <3> QED BY <1>1, <2>2, <3>1, SteppedWider
  <2> QED BY <1>5, <2>3, SteppedRefused
<1> QED BY <1>1, <1>3, <1>4, <1>5, CallOf

LEMMA Addr2LineOptionIs ==
  ASSUME Addr2LineOption, Running, StillReading
  PROVE  Running' /\ StillReading' /\ ReadThrough'
<1>1. tool = "addr2line" /\ pc = "options"
  BY DEF Addr2LineOption
<1>2. PICK r \in {Parsed} :
        \/ r.ret \in {"C", "D", "e", "f", "p"} /\ \E options : Options(r, options, "options")
        \/ r.ret \notin {"C", "D", "e", "f", "p", "done"}
             /\ \E next \in {"usage", "failed"} : Options(r, opt, next)
        \/ r.ret = "done" /\ \E next \in {"load", "failed"} : Options(r, opt, next)
  BY <1>1 DEF Addr2LineOption
<1>3. CASE Read(tool, typed, got, r)
  <2>1. r.ret # "done"
    BY <1>3 DEF Read
  <2>2. Stepped(r, {"options", "usage", "failed"})
    BY <1>2, <2>1 DEF Stepped
  <2>3. Stepped(r, Places(tool) \ Through)
    <3>1. {"options", "usage", "failed"} \subseteq Places(tool) \ Through
      BY <1>1 DEF Places, Through
    <3> QED BY <2>2, <3>1, SteppedWider
  <2> QED BY <1>1, <1>3, <2>3, SteppedRead DEF StillReading
<1>4. CASE ReadAll(tool, typed, got, r)
  <2>1. Stepped(r, {"load", "failed"})
    BY <1>2, <1>4 DEF Stepped, ReadAll
  <2>2. Stepped(r, Places(tool) \ {"options"})
    <3>1. {"load", "failed"} \subseteq Places(tool) \ {"options"}
      BY <1>1 DEF Places
    <3> QED BY <2>1, <3>1, SteppedWider
  <2> QED BY <1>4, <2>2, SteppedAll
<1>5. CASE Refuses(tool, typed, r)
  <2>1. r.ret \in {"?", ":"}
    BY <1>5 DEF Refuses, Fails
  <2>2. Stepped(r, {"usage", "failed"})
    BY <1>2, <2>1 DEF Stepped
  <2>3. Stepped(r, Places(tool) \ (Through \cup {"options"}))
    <3>1. {"usage", "failed"} \subseteq Places(tool) \ (Through \cup {"options"})
      BY <1>1 DEF Places, Through
    <3> QED BY <2>2, <3>1, SteppedWider
  <2> QED BY <1>5, <2>3, SteppedRefused
<1> QED BY <1>1, <1>3, <1>4, <1>5, CallOf

LEMMA DrmingwOptionIs ==
  ASSUME DrmingwOption, Running, StillReading
  PROVE  Running' /\ StillReading' /\ ReadThrough'
<1>1. tool = "drmingw" /\ pc = "options"
  BY DEF DrmingwOption
<1>2. PICK r \in {Parsed} :
        \/ r.ret \notin {"?", ":", "done"}
             /\ \E next \in {"options", "usage", "conflict", "failed"} :
                  \E options : Options(r, options, next)
        \/ r.ret \in {"?", ":"} /\ \E next \in {"usage", "failed"} : Options(r, opt, next)
        \/ r.ret = "done" /\ \E next \in {"install", "uninstall", "attach", "usage"} :
                               Options(r, opt, next)
  BY <1>1 DEF DrmingwOption
<1>3. CASE Read(tool, typed, got, r)
  <2>1. r.ret # "done"
    BY <1>3 DEF Read
  <2>2. Stepped(r, {"options", "usage", "conflict", "failed"})
    BY <1>2, <2>1 DEF Stepped
  <2>3. Stepped(r, Places(tool) \ Through)
    <3>1. {"options", "usage", "conflict", "failed"} \subseteq Places(tool) \ Through
      BY <1>1 DEF Places, Through
    <3> QED BY <2>2, <3>1, SteppedWider
  <2> QED BY <1>1, <1>3, <2>3, SteppedRead DEF StillReading
<1>4. CASE ReadAll(tool, typed, got, r)
  <2>1. Stepped(r, {"install", "uninstall", "attach", "usage"})
    BY <1>2, <1>4 DEF Stepped, ReadAll
  <2>2. Stepped(r, Places(tool) \ {"options"})
    <3>1. {"install", "uninstall", "attach", "usage"} \subseteq Places(tool) \ {"options"}
      BY <1>1 DEF Places
    <3> QED BY <2>1, <3>1, SteppedWider
  <2> QED BY <1>4, <2>2, SteppedAll
<1>5. CASE Refuses(tool, typed, r)
  <2>1. r.ret \in {"?", ":"}
    BY <1>5 DEF Refuses, Fails
  <2>2. Stepped(r, {"usage", "failed"})
    BY <1>2, <2>1 DEF Stepped
  <2>3. Stepped(r, Places(tool) \ (Through \cup {"options"}))
    <3>1. {"usage", "failed"} \subseteq Places(tool) \ (Through \cup {"options"})
      BY <1>1 DEF Places, Through
    <3> QED BY <2>2, <3>1, SteppedWider
  <2> QED BY <1>5, <2>3, SteppedRefused
<1> QED BY <1>1, <1>3, <1>4, <1>5, CallOf
-----------------------------------------------------------------------------
(* The command in the registry, and the command line the system makes of it *)

\* It starts with the quote of the path and has two numbers to fill in.
DebugCommand(d) ==
  /\ d \in Text /\ Len(d) >= 1 /\ d[1] = Quote
  /\ \E p, e \in 1..Len(d) : p # e /\ d[p] = "%ld" /\ d[e] = "%ld"

LEMMA QuoteIsNone == Quote # "%ld"
BY Zenon DEF Quote

LEMMA CommandGrows ==
  ASSUME NEW d, DebugCommand(d), NEW t \in Text
  PROVE  DebugCommand(d \o t)
<1>1. PICK u : u = d \o t
  OBVIOUS
<1>2. Joins(Character, d, t, u) /\ Len(d) \in Nat /\ Len(t) \in Nat
  BY <1>1, ConcatIs DEF DebugCommand, Text
<1>3. \A i \in 1..Len(d) : i \in 1..Len(u) /\ u[i] = d[i]
  BY <1>2 DEF Joins
<1>4. u \in Text /\ Len(u) >= 1 /\ u[1] = Quote
  BY <1>2, <1>3 DEF Joins, DebugCommand, Text
<1>5. \E p, e \in 1..Len(u) : p # e /\ u[p] = "%ld" /\ u[e] = "%ld"
  BY <1>3 DEF DebugCommand
<1> QED BY <1>1, <1>4, <1>5 DEF DebugCommand

\* The path, cut off if need be, is a text.
LEMMA szFileIs == szFile \in Text
<1>1. Self \in Text
  BY ToolsAssumption DEF ToolsAssumption
<1>2. CASE ~(Len(Self) < MAX_PATH)
  <2>1. Len(Self) \in Nat /\ Self \in Seq(Character)
    BY <1>1 DEF Text
  <2>2. MAX_PATH - 1 \in 1 - 1..Len(Self) /\ 1 \in 1..Len(Self) + 1
    BY <1>2, <2>1 DEF MAX_PATH
  <2>3. SubSeq(Self, 1, MAX_PATH - 1) \in Seq(Character)
    BY <2>1, <2>2, SubSeqIs
  <2> QED BY <1>2, <2>3 DEF szFile, Text
<1>3. CASE Len(Self) < MAX_PATH
  BY <1>1, <1>3 DEF szFile
<1> QED BY <1>2, <1>3

LEMMA CommandIs == DebugCommand(Command)
<1>1. PICK open, close : /\ open = <<Quote>>
                         /\ close = <<Quote, Space, "-", "p", Space, "%ld", Space, "-", "e", Space, "%ld">>
  OBVIOUS
<1>2. /\ open \in Text /\ Len(open) = 1 /\ open[1] = Quote
      /\ close \in Text /\ Len(close) = 11 /\ close[6] = "%ld" /\ close[11] = "%ld"
  BY <1>1, Letters DEF Text
<1>3. szFile \in Text
  BY szFileIs
<1>4. PICK path, first : path = open \o szFile /\ first = path \o close
  OBVIOUS
<1>5. Joins(Character, open, szFile, path)
  BY <1>2, <1>3, <1>4, ConcatIs DEF Text
<1>6. Joins(Character, path, close, first)
  <2>1. path \in Seq(Character) /\ close \in Seq(Character)
    BY <1>2, <1>5 DEF Text, Joins
  <2> QED BY <1>4, <2>1, ConcatIs
<1>7. Len(szFile) \in Nat
  BY <1>3 DEF Text
<1>8. Len(path) = Len(szFile) + 1 /\ Len(first) = Len(szFile) + 12
  BY <1>2, <1>5, <1>6, <1>7 DEF Joins
<1>9. first[Len(path) + 6] = "%ld" /\ first[Len(path) + 11] = "%ld"
  BY <1>2, <1>6 DEF Joins
<1>10. first[1] = Quote
  <2>1. path[1] = open[1] /\ first[1] = path[1]
    BY <1>2, <1>5, <1>6, <1>7, <1>8 DEF Joins
  <2> QED BY <1>2, <2>1
<1>11. DebugCommand(first)
  <2>1. first \in Text
    BY <1>6 DEF Joins, Text
  <2>2. Len(path) + 6 \in 1..Len(first) /\ Len(path) + 11 \in 1..Len(first)
        /\ Len(path) + 6 # Len(path) + 11 /\ Len(first) >= 1
    BY <1>7, <1>8
  <2> QED BY <1>9, <1>10, <2>1, <2>2 DEF DebugCommand
<1> DEFINE If(flag, letter) == IF flag THEN <<Space, "-", letter>> ELSE <<>>
<1>12. ASSUME NEW letter \in {"v", "b", "d"}, NEW flag
       PROVE  If(flag, letter) \in Text
  <2>1. letter \in Character /\ Space \in Character /\ "-" \in Character
    BY Letters
  <2>2. <<Space, "-", letter>> \in Seq(Character) /\ <<>> \in Seq(Character)
    BY <2>1
  <2> QED BY <2>2 DEF Text
<1>13. PICK v, b, d : /\ v = If(opt.verbose_flag, "v") /\ b = If(opt.breakpoint_flag, "b")
                      /\ d = If(opt.debug_flag, "d")
  OBVIOUS
<1>14. v \in Text /\ b \in Text /\ d \in Text
  BY <1>12, <1>13
<1>15. Command = first \o v \o b \o d
  BY <1>1, <1>4, <1>13 DEF Command
<1> HIDE DEF If
<1>16. DebugCommand(first \o v)
  BY <1>11, <1>14, CommandGrows
<1>17. DebugCommand(first \o v \o b)
  BY <1>14, <1>16, CommandGrows
<1>18. DebugCommand(first \o v \o b \o d)
  BY <1>14, <1>17, CommandGrows
<1> QED BY <1>15, <1>18

\* Of two numbers, the least is filled in first, and neither is in front.
LEMMA SubstitutedIs ==
  ASSUME NEW d, DebugCommand(d)
  PROVE  /\ Substituted(d) \in Text /\ Len(Substituted(d)) >= 1
         /\ Substituted(d)[1] = Quote
<1>1. PICK at : at = {i \in 1..Len(d) : d[i] = "%ld"}
  OBVIOUS
<1>2. PICK p, e : p = Least(at) /\ e = Least(at \ {p})
  OBVIOUS
<1>3. Len(d) \in Nat /\ at \in SUBSET Nat /\ at # {} /\ d \in Seq(Character)
  BY <1>1 DEF DebugCommand, Text
<1>4. p \in at
  BY <1>2, <1>3, LeastIs
<1>5. at \ {p} # {}
  BY <1>1 DEF DebugCommand
<1>6. e \in at \ {p}
  BY <1>2, <1>3, <1>5, LeastIs
<1>7. p < e
  <2>1. p <= e
    BY <1>2, <1>3, <1>6, LeastIs
  <2> QED BY <1>3, <1>4, <1>6, <2>1
<1>8. p \in 2..Len(d) /\ e \in 2..Len(d)
  <2>1. d[1] # "%ld"
    BY QuoteIsNone DEF DebugCommand
  <2> QED BY <1>1, <1>3, <1>4, <1>6, <2>1
<1>9. PICK front, middle, rest : /\ front = SubSeq(d, 1, p - 1)
                                 /\ middle = SubSeq(d, p + 1, e - 1)
                                 /\ rest = SubSeq(d, e + 1, Len(d))
  OBVIOUS
<1>10. front \in Seq(Character) /\ Len(front) = p - 1 /\ front[1] = d[1]
  BY <1>3, <1>8, <1>9
<1>11. middle \in Seq(Character) /\ rest \in Seq(Character)
  BY <1>3, <1>7, <1>8, <1>9
<1>12. ProcessId \in Seq(Character) /\ EventHandle \in Seq(Character)
  BY ToolsAssumption DEF ToolsAssumption, Text
<1>13. PICK one, two, three : /\ one = front \o ProcessId /\ two = one \o middle
                              /\ three = two \o EventHandle
  OBVIOUS
<1>14. Substituted(d) = three \o rest
  BY <1>1, <1>2, <1>9, <1>13 DEF Substituted
<1>15. Joins(Character, front, ProcessId, one)
  BY <1>10, <1>12, <1>13, ConcatIs
<1>16. Joins(Character, one, middle, two)
  <2>1. one \in Seq(Character)
    BY <1>15 DEF Joins
  <2> QED BY <1>11, <1>13, <2>1, ConcatIs
<1>17. Joins(Character, two, EventHandle, three)
  <2>1. two \in Seq(Character)
    BY <1>16 DEF Joins
  <2> QED BY <1>12, <1>13, <2>1, ConcatIs
<1>18. Joins(Character, three, rest, three \o rest)
  <2>1. three \in Seq(Character)
    BY <1>17 DEF Joins
  <2> QED BY <1>11, <2>1, ConcatIs
<1>19. ASSUME NEW s, NEW t, NEW u, Joins(Character, s, t, u), s \in Seq(Character),
              t \in Seq(Character), Len(s) >= 1, s[1] = Quote
       PROVE  u \in Seq(Character) /\ Len(u) >= 1 /\ u[1] = Quote
  <2>1. Len(s) \in Nat /\ Len(t) \in Nat /\ 1 \in 1..Len(s)
    BY <1>19
  <2> QED BY <1>19, <2>1 DEF Joins
<1>20. Len(front) >= 1 /\ front[1] = Quote
  BY <1>8, <1>10 DEF DebugCommand
<1>21. one \in Seq(Character) /\ Len(one) >= 1 /\ one[1] = Quote
  BY <1>10, <1>12, <1>15, <1>19, <1>20
<1>22. two \in Seq(Character) /\ Len(two) >= 1 /\ two[1] = Quote
  BY <1>11, <1>16, <1>19, <1>21
<1>23. three \in Seq(Character) /\ Len(three) >= 1 /\ three[1] = Quote
  BY <1>12, <1>17, <1>19, <1>22
<1>24. PICK whole : whole = three \o rest
  OBVIOUS
<1>25. whole \in Seq(Character) /\ Len(whole) >= 1 /\ whole[1] = Quote
  BY <1>11, <1>18, <1>19, <1>23, <1>24
<1> QED BY <1>14, <1>24, <1>25 DEF Text

\* A reader that has seen an argument begin has one in the end.
Begun(st) == st \in ReaderState /\ (st.inWord = TRUE \/ st.args # <<>>)

LEMMA QuoteBegins ==
  ASSUME NEW st \in ReaderState, st.slashes % 2 = 0
  PROVE  ReadChar(st, Quote).inWord = TRUE
<1>1. PICK word, next : word = st.word \o Backslashes(st.slashes \div 2) /\ next = ReadChar(st, Quote)
  OBVIOUS
<1>2. next = State(st.args, word, TRUE, ~st.quoted, 0)
  BY <1>1, ReadQuote
<1>3. next.inWord = TRUE
  BY <1>2 DEF State
<1> QED BY <1>1, <1>3

LEMMA StaysBegun ==
  ASSUME NEW st, Begun(st), NEW c \in Character
  PROVE  Begun(ReadChar(st, c))
<1>1. st \in ReaderState /\ ReadChar(st, c) \in ReaderState
  BY ReadCharTypes DEF Begun
<1>2. PICK next : next = ReadChar(st, c)
  OBVIOUS
<1>3. st.args \in Texts /\ st.inWord \in BOOLEAN
  BY <1>1, StateParts
<1>4. CASE c = Backslash
  BY <1>1, <1>2, <1>4, ReadBackslash DEF State, Begun
<1>5. CASE c = Quote /\ st.slashes % 2 = 1
  <2>1. PICK word : word = Append(st.word \o Backslashes(st.slashes \div 2), Quote)
    OBVIOUS
  <2>2. next = State(st.args, word, st.inWord, st.quoted, 0)
    BY <1>1, <1>2, <1>5, <2>1, ReadEscapedQuote
  <2>3. next.inWord = st.inWord /\ next.args = st.args
    BY <2>2 DEF State
  <2> QED BY <1>1, <1>2, <2>3 DEF Begun
<1>6. CASE c = Quote /\ st.slashes % 2 = 0
  <2>1. ReadChar(st, c).inWord = TRUE
    BY <1>1, <1>6, QuoteBegins
  <2> QED BY <1>1, <2>1 DEF Begun
<1>7. CASE c \in Blank /\ ~st.quoted /\ c \notin {Backslash, Quote}
  <2>1. CASE st.inWord
    <3>1. Append(st.args, Pending(st)) # <<>>
      <4>1. Pending(st) \in Text /\ st.args \in Seq(Text)
        BY <1>1, <1>3, PendingText DEF Texts
      <4>2. PICK more : more = Append(st.args, Pending(st))
        OBVIOUS
      <4>3. more \in Seq(Text) /\ Len(more) = Len(st.args) + 1 /\ Len(st.args) \in Nat
        BY <4>1, <4>2
      <4>4. more # <<>>
        BY <4>3, EmptySeq
      <4> QED BY <4>2, <4>4
    <3>2. next = State(Append(st.args, Pending(st)), <<>>, FALSE, FALSE, 0)
      BY <1>1, <1>2, <1>7, <2>1, ReadSeparator
    <3>3. next.args = Append(st.args, Pending(st))
      BY <3>2 DEF State
    <3> QED BY <1>1, <1>2, <3>1, <3>3 DEF Begun
  <2>2. CASE ~st.inWord
    <3>1. next = st
      BY <1>1, <1>2, <1>7, <2>2, ReadSeparator
    <3> QED BY <1>2, <3>1
  <2> QED BY <2>1, <2>2
<1>8. CASE c \notin {Backslash, Quote} /\ (c \in Blank => st.quoted)
  BY <1>1, <1>2, <1>8, ReadOther DEF State, Begun
<1>9. st.slashes % 2 = 0 \/ st.slashes % 2 = 1
  BY <1>1, StateParts
<1> QED BY <1>4, <1>5, <1>6, <1>7, <1>8, <1>9

LEMMA SomeArgument ==
  ASSUME NEW line \in Text, Len(line) >= 1, line[1] = Quote
  PROVE  ArgumentsOf(line) \in Texts /\ Len(ArgumentsOf(line)) >= 1
<1> DEFINE n == Len(line)
           T == {k \in 0..n : k = 0 \/ Begun(Reading(ReadStart, line)[k])}
<1>1. n \in Nat /\ n \in 1..n /\ \A i \in 1..n : line[i] \in Character
  BY DEF Text
<1>2. /\ Reading(ReadStart, line)[0] = ReadStart
      /\ \A i \in 1..n : /\ Reading(ReadStart, line)[i] \in ReaderState
                         /\ Reading(ReadStart, line)[i] = ReadChar(Reading(ReadStart, line)[i - 1], line[i])
  BY <1>1, ReadingSteps, ReadStartTypes
<1>3. 0 \in T
  BY <1>1
<1>4. ASSUME NEW k \in 0..n - 1, k \in T PROVE k + 1 \in T
  <2>1. k + 1 \in 1..n /\ k + 1 \in 0..n /\ (k + 1) - 1 = k
    BY <1>1
  <2>2. Reading(ReadStart, line)[k + 1] = ReadChar(Reading(ReadStart, line)[k], line[k + 1])
    BY <1>2, <2>1
  <2>3. CASE k = 0
    <3>1. ReadStart.slashes % 2 = 0
      BY DEF ReadStart
    <3>2. PICK st : st = Reading(ReadStart, line)[k + 1]
      OBVIOUS
    <3>3. st = ReadChar(ReadStart, Quote)
      BY <1>2, <2>2, <2>3, <3>2
    <3>4. st.inWord = TRUE
      BY <3>1, <3>3, ReadStartTypes, QuoteBegins
    <3>5. Begun(st)
      BY <1>2, <2>1, <3>2, <3>4 DEF Begun
    <3> QED BY <2>1, <3>2, <3>5
  <2>4. CASE k # 0
    <3>1. Begun(Reading(ReadStart, line)[k])
      BY <1>4, <2>4
    <3> QED BY <1>1, <2>1, <2>2, <3>1, StaysBegun
  <2> QED BY <2>3, <2>4
<1> HIDE DEF T
<1>5. \A k \in 0..n : k \in T
  BY <1>1, <1>3, <1>4, UpTo
<1>6. PICK end : end = ReadFrom(ReadStart, line)
  OBVIOUS
<1>7. Begun(end)
  BY <1>1, <1>5, <1>6 DEF T, ReadFrom
<1>8. end \in ReaderState /\ end.args \in Texts /\ end.inWord \in BOOLEAN
  BY <1>7, StateParts DEF Begun
<1>9. Flush(end).word = Pending(end)
  BY <1>8 DEF Flush, Pending, ReaderState
<1>10. Pending(end) \in Text
  BY <1>8, PendingText
<1>11. Append(end.args, Pending(end)) \in Texts /\ Len(Append(end.args, Pending(end))) >= 1
  BY <1>8, <1>10 DEF Texts
<1>12. ~end.inWord => Len(end.args) >= 1
  BY <1>7, <1>8 DEF Begun, Texts
<1>13. ArgumentsOf(line) = IF end.inWord THEN Append(end.args, Pending(end)) ELSE end.args
  BY <1>6, <1>9, ReadToTheEnd
<1> QED BY <1>8, <1>11, <1>12, <1>13

LEMMA StartedWith ==
  ASSUME NEW d, DebugCommand(d)
  PROVE  ArgumentsOf(Substituted(d)) \in Texts /\ Len(ArgumentsOf(Substituted(d))) >= 1
BY SubstitutedIs, SomeArgument

-----------------------------------------------------------------------------
(* The inductive invariant *)

\* The views of the registry; a command some install wrote is a command.
ViewSet == {Views[i] : i \in DOMAIN Views}
Keys ==
  /\ aeDebug \in [ViewSet -> [Debugger : Text, Auto : {"0", "1"}]]
  /\ DOMAIN asked = ViewSet
  /\ \A v \in ViewSet : asked[v] # NULL => DebugCommand(aeDebug[v].Debugger)

\* What the views are that install or uninstall is through with.
Viewed ==
  /\ view \in 0..Len(Views)
  /\ pc = "options" => view = 0
  /\ pc \in {"install", "uninstall"} => view < Len(Views)
  /\ pc = "install" =>
       \A i \in 1..view : aeDebug[Views[i]] = [Debugger |-> Command, Auto |-> "1"]
  /\ pc = "uninstall" => \A i \in 1..view : aeDebug[Views[i]].Debugger = <<>>
  /\ MessageTrue

\* A program runs for catchsegv only, with the operands, if the line means any.
Launched ==
  LET meant == Means(tool, typed)[2] IN
  child # NULL =>
    /\ tool = "catchsegv"
    /\ meant.ok = TRUE => child = ArgumentsOf(commandLine(meant.operands))

\* addr2line: the answers so far are for the first operands, and the others
\* are left.
Reply == [addr : {(Base + RelAddr(a)) % Word : a \in Text},
          function : {NULL, "??", "name", "demangled"}, line : {"??:?", "file:line"}]
FunctionsNoted ==
  /\ "functions" \in DOMAIN opt /\ opt.functions \in BOOLEAN
  /\ opt.functions = TRUE <=> \E j \in DOMAIN got : got[j] = <<"f", NULL>>
AnswersFor(operands) ==
  /\ operands \in Texts /\ out \in Seq(Reply) /\ Len(out) <= Len(operands)
  /\ \A i \in 1..Len(out) :
       /\ out[i].addr = (Base + RelAddr(operands[i])) % Word
       /\ out[i].function = NULL <=> opt.functions = FALSE
Answered ==
  tool = "addr2line" =>
    /\ pc \in {"options", "load", "symbols", "addresses", "answered"} => FunctionsNoted
    /\ pc \in {"options", "load", "symbols"} => out = <<>>
    /\ pc \in {"addresses", "answered"} =>
         \E operands : /\ operands = Means(tool, typed)[2].operands
                       /\ AnswersFor(operands)
                       /\ Rest = SubSeq(operands, Len(out) + 1, Len(operands))
                       /\ pc = "answered" => Len(out) = Len(operands)

ToolsInv ==
  Running /\ StillReading /\ ReadThrough /\ Keys /\ Viewed /\ Launched /\ Answered

LEMMA ViewsAre ==
  Len(Views) \in Nat /\ Len(Views) >= 1 /\ DOMAIN Views = 1..Len(Views)
BY ToolsAssumption, EmptySeq DEF ToolsAssumption

LEMMA ToolsInit ==
  ASSUME Init
  PROVE  ToolsInv
<1>1. tool \in ToolNames /\ typed \in Texts /\ Len(typed) >= 1
  BY ToolsAssumption DEF ToolsAssumption, Init, ToolNames
<1>2. Understands(tool, typed, g, <<>>)
  BY <1>1, NothingRead DEF Init
<1>3. Bounded(typed, g)
  <2>1. Placed(typed, g) /\ Len(typed) \in Nat
    BY <1>2 DEF Understands, Owes, Texts
  <2> QED BY <2>1, PlacedBounded
<1>4. Running
  BY <1>1, <1>3 DEF Running, Places, Init
<1>5. StillReading /\ ReadThrough
  BY <1>2 DEF StillReading, ReadThrough, Through, Init
<1>6. Keys
  <2>1. [Debugger |-> <<>>, Auto |-> "0"] \in [Debugger : Text, Auto : {"0", "1"}]
    BY DEF Text
  <2>2. /\ aeDebug = [v \in ViewSet |-> [Debugger |-> <<>>, Auto |-> "0"]]
        /\ asked = [v \in DOMAIN aeDebug |-> NULL]
    BY DEF Init, ViewSet
  <2>3. aeDebug \in [ViewSet -> [Debugger : Text, Auto : {"0", "1"}]]
    BY <2>1, <2>2
  <2>4. DOMAIN asked = ViewSet /\ \A v \in ViewSet : asked[v] = NULL
    BY <2>2
  <2> QED BY <2>3, <2>4 DEF Keys
<1>7. Viewed
  BY ViewsAre DEF Viewed, MessageTrue, Init
<1>8. Launched
  BY DEF Launched, Init
<1>9. Answered
  BY DEF Answered, FunctionsNoted, Init, NoOptions
<1> QED BY <1>4, <1>5, <1>6, <1>7, <1>8, <1>9 DEF ToolsInv

\* What a step that reads an option leaves alone, and where it can get to.
OptionStep == CatchSegvOption \/ Addr2LineOption \/ DrmingwOption

LEMMA OptionStepIs ==
  ASSUME OptionStep
  PROVE  /\ pc = "options" /\ pc' \in {"options", "usage", "failed", "conflict"} \cup Through
         /\ UNCHANGED <<tool, aeDebug, out, child, typed, view, asked, started>>
<1>1. pc = "options"
  BY DEF OptionStep, CatchSegvOption, Addr2LineOption, DrmingwOption
<1>2. CASE CatchSegvOption
  <2>1. \E r, options : \E next \in {"options", "usage", "launch"} : Options(r, options, next)
    BY <1>1, <1>2 DEF CatchSegvOption
  <2> QED BY <1>1, <2>1 DEF Options, Through
<1>3. CASE Addr2LineOption
  <2>1. \E r, options : \E next \in {"options", "usage", "failed", "load"} : Options(r, options, next)
    BY <1>1, <1>3 DEF Addr2LineOption
  <2> QED BY <1>1, <2>1 DEF Options, Through
<1>4. CASE DrmingwOption
  <2>1. \E r, options : \E next \in {"options", "usage", "failed", "conflict", "install",
                                     "uninstall", "attach"} : Options(r, options, next)
    BY <1>1, <1>4 DEF DrmingwOption
  <2> QED BY <1>1, <2>1 DEF Options, Through
<1> QED BY <1>2, <1>3, <1>4 DEF OptionStep

LEMMA AgainRuns ==
  ASSUME Running, NEW args \in Texts, Len(args) >= 1, tool = "drmingw", Run(args)
  PROVE  Running' /\ StillReading' /\ ReadThrough' /\ pc' = "options" /\ view' = 0
<1>1. /\ g' = Fresh(args) /\ got' = <<>> /\ typed' = args /\ pc' = "options" /\ view' = 0
      /\ tool' = tool
  BY DEF Run
<1>2. Understands(tool', typed', g', got')
  BY <1>1, NothingRead DEF ToolNames
<1>3. Placed(args, g') /\ Len(args) \in Nat
  BY <1>1, <1>2 DEF Understands, Owes, Texts
<1>4. Bounded(typed', g')
  BY <1>1, <1>3, PlacedBounded
<1> QED BY <1>1, <1>2, <1>4 DEF Running, StillReading, ReadThrough, Places, Through, ToolNames

LEMMA RunsAgain ==
  ASSUME Running, Keys, RunAgain \/ SystemStarts
  PROVE  Running' /\ StillReading' /\ ReadThrough' /\ pc' = "options" /\ view' = 0
<1>1. CASE RunAgain
  <2>1. PICK args \in Again : Run(args)
    BY <1>1 DEF RunAgain
  <2>2. args \in Texts /\ Len(args) >= 1 /\ tool = "drmingw"
    BY <1>1, ToolsAssumption DEF RunAgain, ToolsAssumption
  <2> QED BY <2>1, <2>2, AgainRuns
<1>2. CASE SystemStarts
  <2>1. PICK v \in ViewSet : /\ asked[v] # NULL
                             /\ Run(ArgumentsOf(Substituted(aeDebug[v].Debugger)))
    BY <1>2 DEF SystemStarts, Keys
  <2>2. PICK args : args = ArgumentsOf(Substituted(aeDebug[v].Debugger))
    OBVIOUS
  <2>3. DebugCommand(aeDebug[v].Debugger)
    BY <2>1 DEF Keys
  <2>4. args \in Texts /\ Len(args) >= 1
    BY <2>2, <2>3, StartedWith
  <2>5. tool = "drmingw" /\ Run(args)
    BY <1>2, <2>1, <2>2 DEF SystemStarts
  <2> QED BY <2>4, <2>5, AgainRuns
<1> QED BY <1>1, <1>2

LEMMA RunningStep ==
  ASSUME ToolsInv, [Next]_vars
  PROVE  Running' /\ StillReading' /\ ReadThrough'
<1> USE DEF ToolsInv
<1>1. CASE OptionStep
  BY <1>1, CatchSegvOptionIs, Addr2LineOptionIs, DrmingwOptionIs DEF OptionStep
<1>2. ASSUME UNCHANGED Parsing, pc' \in Places(tool) \ {"options"},
             pc' \in Through => pc \in Through
      PROVE  Running' /\ StillReading' /\ ReadThrough'
  BY <1>2 DEF Running, StillReading, ReadThrough, Parsing
<1>3. CASE Launch \/ StartTimer
  <2>1. UNCHANGED Parsing /\ pc' \in {"timer", "failed", "debugging"} /\ tool = "catchsegv"
    BY <1>3 DEF Launch, StartTimer, Goes
  <2> QED BY <1>2, <2>1 DEF Places, Through
<1>4. CASE LoadModule \/ InitSymbols \/ Cleanup
  <2>1. /\ UNCHANGED Parsing /\ pc' \in {"symbols", "addresses", "answered", "failed"}
        /\ tool = "addr2line" /\ (pc' = "symbols" => pc = "load")
    BY <1>4 DEF LoadModule, InitSymbols, Cleanup, Goes
  <2> QED BY <1>2, <2>1 DEF Places, Through
<1>5. CASE Install \/ Uninstall
  <2>1. /\ UNCHANGED Parsing /\ pc' \in {"install", "uninstall", "installed", "uninstalled", "failed"}
        /\ tool = "drmingw" /\ pc \in {"install", "uninstall"}
    BY <1>5 DEF Install, Uninstall, Goes, ViewDone
  <2> QED BY <1>2, <2>1 DEF Places, Through
<1>6. CASE Answer
  <2>1. /\ tool' = tool /\ pc' = pc /\ typed' = typed /\ got' = got
        /\ g' = [g EXCEPT !.optind = @ + 1] /\ g.optind < Len(g.argv) /\ pc = "addresses"
    BY <1>6 DEF Answer, argc
  <2>2. Bounded(typed, g')
    BY <2>1 DEF Running, Bounded, Fields, Texts
  <2> QED BY <2>1, <2>2 DEF Running, StillReading, ReadThrough, Through
<1>7. CASE RunAgain \/ SystemStarts
  BY <1>7, RunsAgain
<1>8. CASE UNCHANGED vars
  BY <1>8 DEF vars, Running, StillReading, ReadThrough
<1> QED BY <1>1, <1>3, <1>4, <1>5, <1>6, <1>7, <1>8 DEF Next, OptionStep, Ended

LEMMA KeysStep ==
  ASSUME ToolsInv, [Next]_vars
  PROVE  Keys'
<1> DEFINE Key == [Debugger : Text, Auto : {"0", "1"}]
           v == Views[view + 1]
<1>1. Keys
  BY DEF ToolsInv
<1>2. CASE UNCHANGED <<aeDebug, asked>>
  BY <1>1, <1>2 DEF Keys
<1>3. ASSUME NEW d \in Key, d.Debugger = Command \/ asked' = [asked EXCEPT ![v] = NULL],
             aeDebug' = [aeDebug EXCEPT ![v] = d],
             asked' = [asked EXCEPT ![v] = NULL] \/ asked' = [asked EXCEPT ![v] = Asked]
      PROVE  Keys'
  <2>1. aeDebug' \in [ViewSet -> Key] /\ DOMAIN asked' = ViewSet
    BY <1>1, <1>3 DEF Keys
  <2>2. ASSUME NEW w \in ViewSet, asked'[w] # NULL PROVE DebugCommand(aeDebug'[w].Debugger)
    <3>1. CASE w = v
      <4>1. d.Debugger = Command
        BY <1>1, <1>3, <2>2, <3>1 DEF Keys
      <4>2. aeDebug'[w] = d
        BY <1>1, <1>3, <3>1 DEF Keys
      <4> QED BY <4>1, <4>2, CommandIs
    <3>2. CASE w # v
      <4>1. asked'[w] = asked[w] /\ aeDebug'[w] = aeDebug[w]
        BY <1>1, <1>3, <3>2 DEF Keys
      <4> QED BY <1>1, <2>2, <4>1 DEF Keys
    <3> QED BY <3>1, <3>2
  <2> QED BY <2>1, <2>2 DEF Keys
<1>4. CASE Install
  <2>1. \/ UNCHANGED <<aeDebug, asked>>
        \/ /\ aeDebug' = [aeDebug EXCEPT ![v].Debugger = Command]
           /\ asked' = [asked EXCEPT ![v] = Asked]
        \/ /\ aeDebug' = [aeDebug EXCEPT ![v] = [Debugger |-> Command, Auto |-> "1"]]
           /\ asked' = [asked EXCEPT ![v] = Asked]
    BY <1>4 DEF Install
  <2>2. v \in ViewSet
    BY <1>4, ViewsAre DEF ToolsInv, Viewed, Install, ViewSet
  <2>3. Command \in Text
    BY CommandIs DEF DebugCommand
  <2>4. PICK d, e : d = [aeDebug[v] EXCEPT !.Debugger = Command]
                    /\ e = [Debugger |-> Command, Auto |-> "1"]
    OBVIOUS
  <2>5. d \in Key /\ d.Debugger = Command /\ e \in Key /\ e.Debugger = Command
    BY <1>1, <2>2, <2>3, <2>4 DEF Keys
  <2>6. CASE aeDebug' = [aeDebug EXCEPT ![v].Debugger = Command] /\ asked' = [asked EXCEPT ![v] = Asked]
    <3>1. aeDebug' = [aeDebug EXCEPT ![v] = d]
      BY <2>4, <2>6
    <3> QED BY <1>3, <2>5, <2>6, <3>1
  <2>7. CASE /\ aeDebug' = [aeDebug EXCEPT ![v] = [Debugger |-> Command, Auto |-> "1"]]
             /\ asked' = [asked EXCEPT ![v] = Asked]
    <3>1. aeDebug' = [aeDebug EXCEPT ![v] = e]
      BY <2>4, <2>7
    <3> QED BY <1>3, <2>5, <2>7, <3>1
  <2> QED BY <1>2, <2>1, <2>6, <2>7
<1>5. CASE Uninstall
  <2>1. \/ UNCHANGED <<aeDebug, asked>>
        \/ /\ aeDebug' = [aeDebug EXCEPT ![v].Debugger = <<>>]
           /\ asked' = [asked EXCEPT ![v] = NULL]
    BY <1>5 DEF Uninstall
  <2>2. v \in ViewSet
    BY <1>5, ViewsAre DEF ToolsInv, Viewed, Uninstall, ViewSet
  <2>3. PICK d : d = [aeDebug[v] EXCEPT !.Debugger = <<>>]
    OBVIOUS
  <2>4. d \in Key
    <3>1. <<>> \in Text
      BY DEF Text
    <3> QED BY <1>1, <2>2, <2>3, <3>1 DEF Keys
  <2>5. CASE aeDebug' = [aeDebug EXCEPT ![v].Debugger = <<>>] /\ asked' = [asked EXCEPT ![v] = NULL]
    <3>1. aeDebug' = [aeDebug EXCEPT ![v] = d]
      BY <2>3, <2>5
    <3> QED BY <1>3, <2>4, <2>5, <3>1
  <2> QED BY <1>2, <2>1, <2>5
<1>6. CASE OptionStep
  BY <1>2, <1>6, OptionStepIs
<1>7. CASE Launch \/ StartTimer \/ LoadModule \/ InitSymbols \/ Answer \/ Cleanup
  BY <1>2, <1>7 DEF Launch, StartTimer, LoadModule, InitSymbols, Answer, Cleanup
<1>8. CASE RunAgain \/ SystemStarts
  BY <1>2, <1>8 DEF RunAgain, SystemStarts, Run
<1>9. CASE UNCHANGED vars
  BY <1>2, <1>9 DEF vars
<1> QED BY <1>4, <1>5, <1>6, <1>7, <1>8, <1>9 DEF Next, OptionStep, Ended

LEMMA ViewedStep ==
  ASSUME ToolsInv, [Next]_vars
  PROVE  Viewed'
<1> DEFINE v == Views[view + 1]
<1>1. Keys /\ Viewed
  BY DEF ToolsInv
<1>2. view \in Nat /\ Len(Views) \in Nat /\ Len(Views) >= 1 /\ DOMAIN Views = 1..Len(Views)
  BY <1>1, ViewsAre DEF Viewed
<1>3. ASSUME view' = view, pc' \notin {"install", "uninstall", "installed", "uninstalled"},
             pc' = "options" => pc = "options"
      PROVE  Viewed'
  BY <1>1, <1>3 DEF Viewed, MessageTrue
<1>4. CASE UNCHANGED <<view, pc, aeDebug, opt>>
  <2>1. Command' = Command
    BY <1>4 DEF Command
  <2> QED BY <1>1, <1>4, <2>1 DEF Viewed, MessageTrue
<1>5. CASE Install
  <2>1. view < Len(Views) /\ view + 1 \in 1..Len(Views) /\ v \in ViewSet /\ v \in DOMAIN aeDebug
    BY <1>1, <1>2, <1>5 DEF Viewed, Install, ViewSet, Keys
  <2>2. CASE view' = view /\ pc' = "failed"
    BY <1>3, <2>2
  <2>3. CASE /\ ViewDone("installed") /\ opt' = opt
             /\ aeDebug' = [aeDebug EXCEPT ![v] = [Debugger |-> Command, Auto |-> "1"]]
    <3>1. Command' = Command
      BY <2>3 DEF Command
    <3>2. PICK d : d = [Debugger |-> Command, Auto |-> "1"]
      OBVIOUS
    <3>3. \A i \in 1..view : aeDebug[Views[i]] = d
      BY <1>1, <1>5, <3>2 DEF Viewed, Install
    <3>4. aeDebug' = [aeDebug EXCEPT ![v] = d]
      BY <2>3, <3>2
    <3>5. \A i \in 1..view + 1 : aeDebug'[Views[i]] = d
      <4> TAKE i \in 1..view + 1
      <4>1. Views[i] \in DOMAIN aeDebug
        BY <1>1, <1>2, <2>1 DEF Keys, ViewSet
      <4>2. CASE i = view + 1
        BY <2>1, <3>4, <4>2
      <4>3. CASE i # view + 1
        <5>1. i \in 1..view
          BY <1>2, <4>3
        <5> QED BY <3>3, <3>4, <4>1, <5>1
      <4> QED BY <4>2, <4>3
    <3>6. CASE view + 1 = Len(Views)
      <4>1. pc' = "installed" /\ view' = Len(Views)
        BY <2>3, <3>6 DEF ViewDone
      <4>2. ASSUME NEW w \in DOMAIN aeDebug' PROVE aeDebug'[w] = d
        <5>1. PICK i \in 1..Len(Views) : w = Views[i]
          BY <1>1, <1>2, <3>4, <4>2 DEF Keys, ViewSet
        <5> QED BY <3>5, <3>6, <5>1
      <4>3. MessageTrue'
        BY <3>1, <3>2, <4>1, <4>2 DEF MessageTrue
      <4> QED BY <1>2, <4>1, <4>3 DEF Viewed
    <3>7. CASE view + 1 # Len(Views)
      <4>1. pc' = "install" /\ view' = view + 1 /\ view + 1 \in 0..Len(Views) /\ view + 1 < Len(Views)
        BY <1>2, <1>5, <2>1, <2>3, <3>7 DEF ViewDone, Install
      <4>2. \A i \in 1..view' : aeDebug'[Views[i]] = [Debugger |-> Command', Auto |-> "1"]
        BY <3>1, <3>2, <3>5, <4>1
      <4>3. MessageTrue'
        BY <4>1 DEF MessageTrue
      <4> QED BY <4>1, <4>2, <4>3 DEF Viewed
    <3> QED BY <3>6, <3>7
  <2> QED BY <1>5, <2>2, <2>3 DEF Install, Goes, Parsing
<1>6. CASE Uninstall
  <2>1. view < Len(Views) /\ view + 1 \in 1..Len(Views) /\ v \in ViewSet /\ v \in DOMAIN aeDebug
    BY <1>1, <1>2, <1>6 DEF Viewed, Uninstall, ViewSet, Keys
  <2>2. CASE view' = view /\ pc' = "failed"
    BY <1>3, <2>2
  <2>3. CASE ViewDone("uninstalled") /\ aeDebug' = [aeDebug EXCEPT ![v].Debugger = <<>>]
    <3>1. aeDebug[v] \in [Debugger : Text, Auto : {"0", "1"}]
      BY <1>1, <2>1 DEF Keys
    <3>2. PICK d : d = [aeDebug[v] EXCEPT !.Debugger = <<>>]
      OBVIOUS
    <3>3. d.Debugger = <<>>
      BY <3>1, <3>2
    <3>4. aeDebug' = [aeDebug EXCEPT ![v] = d]
      BY <2>3, <3>2
    <3>5. \A i \in 1..view + 1 : aeDebug'[Views[i]].Debugger = <<>>
      <4> TAKE i \in 1..view + 1
      <4>1. Views[i] \in DOMAIN aeDebug
        BY <1>1, <1>2, <2>1 DEF Keys, ViewSet
      <4>2. CASE Views[i] = v
        BY <2>1, <3>3, <3>4, <4>2
      <4>3. CASE Views[i] # v
        <5>1. i \in 1..view
          BY <1>2, <4>3
        <5>2. aeDebug[Views[i]].Debugger = <<>>
          BY <1>1, <1>6, <5>1 DEF Viewed, Uninstall
        <5> QED BY <3>4, <4>1, <4>3, <5>2
      <4> QED BY <4>2, <4>3
    <3>6. CASE view + 1 = Len(Views)
      <4>1. pc' = "uninstalled" /\ view' = Len(Views)
        BY <2>3, <3>6 DEF ViewDone
      <4>2. ASSUME NEW w \in DOMAIN aeDebug' PROVE aeDebug'[w].Debugger = <<>>
        <5>1. PICK i \in 1..Len(Views) : w = Views[i]
          BY <1>1, <1>2, <3>4, <4>2 DEF Keys, ViewSet
        <5> QED BY <3>5, <3>6, <5>1
      <4>3. MessageTrue'
        BY <4>1, <4>2 DEF MessageTrue
      <4> QED BY <1>2, <4>1, <4>3 DEF Viewed
    <3>7. CASE view + 1 # Len(Views)
      <4>1. pc' = "uninstall" /\ view' = view + 1 /\ view + 1 \in 0..Len(Views) /\ view + 1 < Len(Views)
        BY <1>2, <1>6, <2>1, <2>3, <3>7 DEF ViewDone, Uninstall
      <4>2. MessageTrue'
        BY <4>1 DEF MessageTrue
      <4> QED BY <3>5, <4>1, <4>2 DEF Viewed
    <3> QED BY <3>6, <3>7
  <2> QED BY <1>6, <2>2, <2>3 DEF Uninstall, Goes
<1>7. CASE OptionStep
  <2>1. /\ pc = "options" /\ view' = view /\ view = 0 /\ aeDebug' = aeDebug
        /\ pc' \notin {"installed", "uninstalled"}
    BY <1>1, <1>7, OptionStepIs DEF Viewed, Through
  <2>2. 1..view' = {} /\ view' \in 0..Len(Views) /\ view' < Len(Views)
    BY <1>2, <2>1
  <2>3. MessageTrue'
    BY <2>1 DEF MessageTrue
  <2> QED BY <2>1, <2>2, <2>3 DEF Viewed
<1>8. CASE Launch \/ StartTimer \/ LoadModule \/ InitSymbols \/ Cleanup
  <2>1. view' = view /\ pc' \in {"timer", "failed", "debugging", "symbols", "addresses", "answered"}
    BY <1>8 DEF Launch, StartTimer, LoadModule, InitSymbols, Cleanup, Goes
  <2> QED BY <1>3, <2>1
<1>9. CASE Answer
  BY <1>4, <1>9 DEF Answer
<1>10. CASE RunAgain \/ SystemStarts
  <2>1. pc' = "options" /\ view' = 0
    BY <1>10, RunsAgain DEF ToolsInv
  <2> QED BY <1>2, <2>1 DEF Viewed, MessageTrue
<1>11. CASE UNCHANGED vars
  BY <1>4, <1>11 DEF vars
<1> QED BY <1>5, <1>6, <1>7, <1>8, <1>9, <1>10, <1>11 DEF Next, OptionStep, Ended

LEMMA MeansTypes ==
  ASSUME Running
  PROVE  Means(tool, typed)[2] \in Meanings(Named)
<1>1. Context(Named, typed, OptionsOf(tool), LongOf(tool), Means(tool, typed)) /\ Len(typed) \in Nat
  BY ToolContext DEF Running, Texts
<1>2. PICK s : s = Fresh(typed)
  OBVIOUS
<1>3. PICK m : m = Means(tool, typed)
  OBVIOUS
<1>4. Placed(typed, s) /\ s.nextchar = <<>> /\ s.optind = s.argind + 1 /\ s.argind + 2 = 2
  BY <1>1, <1>2 DEF Fresh, Placed, Fields, Running
<1>5. Owes(typed, OptionsOf(tool), m, s, m[2])
  BY <1>4 DEF Owes
<1> QED BY <1>1, <1>3, <1>5, OwedMeans

LEMMA LaunchedStep ==
  ASSUME ToolsInv, [Next]_vars
  PROVE  Launched'
<1>1. Running /\ ReadThrough /\ Launched
  BY DEF ToolsInv
<1>2. CASE UNCHANGED <<tool, typed, child>>
  BY <1>1, <1>2 DEF Launched
<1>3. CASE Launch
  <2>1. CASE child' = child
    BY <1>2, <1>3, <2>1 DEF Launch, Parsing
  <2>2. CASE child' = ArgumentsOf(commandLine(Rest))
    <3>1. PICK meant : meant = Means(tool, typed)[2]
      OBVIOUS
    <3>2. tool = "catchsegv" /\ pc = "launch" /\ tool' = tool /\ typed' = typed
      BY <1>3 DEF Launch, Parsing
    <3>3. Understood(tool, typed, g, got) \/ Rejected(meant)
      BY <1>1, <3>1, <3>2 DEF ReadThrough, Through
    <3>4. meant.ok = TRUE => Rest = meant.operands
      BY <3>1, <3>3 DEF Understood, Rejected, Rest
    <3> QED BY <2>2, <3>1, <3>2, <3>4 DEF Launched
  <2> QED BY <1>3, <2>1, <2>2 DEF Launch
<1>4. CASE OptionStep
  BY <1>2, <1>4, OptionStepIs
<1>5. CASE StartTimer \/ LoadModule \/ InitSymbols \/ Answer \/ Cleanup \/ Install \/ Uninstall
  BY <1>2, <1>5 DEF StartTimer, LoadModule, InitSymbols, Answer, Cleanup, Install, Uninstall, Parsing
<1>6. CASE RunAgain \/ SystemStarts
  <2>1. tool = "drmingw" /\ child' = child
    BY <1>6 DEF RunAgain, SystemStarts, Run
  <2> QED BY <1>1, <2>1 DEF Launched
<1>7. CASE UNCHANGED vars
  BY <1>2, <1>7 DEF vars
<1> QED BY <1>3, <1>4, <1>5, <1>6, <1>7 DEF Next, OptionStep, Ended

LEMMA NotedStep ==
  ASSUME Running, StillReading, FunctionsNoted, Addr2LineOption, pc' \notin {"usage", "failed"}
  PROVE  FunctionsNoted'
<1>1. tool = "addr2line" /\ pc = "options" /\ got \in Seq(Named \X Optarg)
  BY DEF Addr2LineOption, StillReading
<1>2. PICK r \in {Parsed} :
        \/ r.ret = "f" /\ Options(r, [opt EXCEPT !.functions = TRUE], pc)
        \/ r.ret = "C" /\ Options(r, [opt EXCEPT !.demangle = TRUE], pc)
        \/ r.ret = "D" /\ Options(r, [opt EXCEPT !.debug = TRUE], pc)
        \/ r.ret = "e" /\ Options(r, [opt EXCEPT !.szModule = r.g.optarg], pc)
        \/ r.ret = "p" /\ Options(r, [opt EXCEPT !.pretty = TRUE], pc)
        \/ r.ret = "done" /\ \E next \in {"load", "failed"} : Options(r, opt, next)
        \/ \E next \in {"usage", "failed"} : Options(r, opt, next)
  BY <1>1 DEF Addr2LineOption
<1>3. ASSUME NEW options, NEW next, Options(r, options, next),
             next \in {"usage", "failed"}
      PROVE  FALSE
  BY <1>3 DEF Options
<1>4. CASE Read(tool, typed, got, r) /\ r.ret \in {"f", "C", "D", "e", "p"}
  <2>1. ShortRead(Addr2LineOptions, r)
    BY <1>1, <1>4 DEF Read, ModeOf, OptionsOf
  <2>2. ~Takes("f", Addr2LineOptions)
    BY DEF Takes, Addr2LineOptions
  <2>3. r.ret = "f" => r.g.optarg = NULL
    BY <2>1, <2>2 DEF ShortRead
  <2>4. r.ret # "done" /\ <<r.ret, r.g.optarg>> \in Named \X Optarg
    BY <1>4 DEF Read
  <2>5. PICK o : o = <<r.ret, r.g.optarg>>
    OBVIOUS
  <2>6. o = <<"f", NULL>> <=> r.ret = "f"
    BY <2>3, <2>5
  <2>7. got' = Append(got, o)
    BY <1>2, <2>4, <2>5 DEF Options
  <2>8. (\E j \in DOMAIN got' : got'[j] = <<"f", NULL>>)
          <=> (r.ret = "f" \/ \E j \in DOMAIN got : got[j] = <<"f", NULL>>)
    <3>1. PICK f : f = <<"f", NULL>>
      OBVIOUS
    <3>2. DOMAIN got' = 1..Len(got) + 1 /\ DOMAIN got = 1..Len(got) /\ got'[Len(got) + 1] = o
          /\ Len(got) \in Nat /\ \A j \in 1..Len(got) : got'[j] = got[j]
      BY <1>1, <2>4, <2>5, <2>7
    <3>3. (\E j \in 1..Len(got) + 1 : got'[j] = f) <=> (o = f \/ \E j \in 1..Len(got) : got[j] = f)
      BY <3>2
    <3> QED BY <2>6, <3>1, <3>2, <3>3
  <2>9. /\ "functions" \in DOMAIN opt' /\ opt'.functions \in BOOLEAN
        /\ opt'.functions = TRUE <=> r.ret = "f" \/ opt.functions = TRUE
    BY <1>2, <1>3, <1>4 DEF Options, FunctionsNoted
  <2> QED BY <2>8, <2>9 DEF FunctionsNoted
<1>5. CASE r.ret = "done"
  <2>1. opt' = opt /\ got' = got
    BY <1>2, <1>3, <1>5 DEF Options
  <2> QED BY <2>1 DEF FunctionsNoted
<1>6. CASE Refuses(tool, typed, r)
  <2>1. r.ret \in {"?", ":"}
    BY <1>6 DEF Refuses, Fails
  <2> QED BY <1>2, <1>3, <2>1
<1>7. r.ret \in {"f", "C", "D", "e", "p", "done"}
  BY <1>2, <1>3
<1> QED BY <1>1, <1>4, <1>5, <1>6, <1>7, CallOf DEF ReadAll

\* The first of the operands that are left.
LEMMA NextOperand ==
  ASSUME NEW operands \in Texts, NEW argv \in Texts, NEW n \in 0..Len(operands),
         NEW k \in 0..Len(argv) - 1,
         SubSeq(argv, k + 1, Len(argv)) = SubSeq(operands, n + 1, Len(operands))
  PROVE  /\ n + 1 <= Len(operands) /\ argv[k + 1] = operands[n + 1]
         /\ SubSeq(argv, k + 2, Len(argv)) = SubSeq(operands, n + 2, Len(operands))
<1>1. /\ Len(argv) \in Nat /\ Len(operands) \in Nat /\ k + 1 \in 1..Len(argv)
      /\ argv \in Seq(Text) /\ operands \in Seq(Text)
  BY DEF Texts
<1>2. PICK a, o : a = SubSeq(argv, k + 1, Len(argv)) /\ o = SubSeq(operands, n + 1, Len(operands))
  OBVIOUS
<1>3. Len(a) = Len(argv) - k /\ Len(o) = Len(operands) - n
  BY <1>1, <1>2
<1>4. n + 1 \in 1..Len(operands)
  BY <1>1, <1>2, <1>3
<1>5. Head(a) = argv[k + 1] /\ Tail(a) = SubSeq(argv, (k + 1) + 1, Len(argv))
  BY <1>1, <1>2, SuffixIs
<1>6. Head(o) = operands[n + 1] /\ Tail(o) = SubSeq(operands, (n + 1) + 1, Len(operands))
  BY <1>1, <1>2, <1>4, SuffixIs
<1>7. (k + 1) + 1 = k + 2 /\ (n + 1) + 1 = n + 2
  BY <1>1
<1> QED BY <1>2, <1>4, <1>5, <1>6, <1>7

LEMMA RelAddrOf ==
  ASSUME NEW a \in Text
  PROVE  (Base + RelAddr(a)) % Word \in {(Base + RelAddr(b)) % Word : b \in Text}
OBVIOUS

LEMMA AnsweredStep ==
  ASSUME ToolsInv, [Next]_vars
  PROVE  Answered'
<1>1. Running /\ StillReading /\ ReadThrough /\ Answered
  BY DEF ToolsInv
<1>2. CASE UNCHANGED <<tool, pc, g, opt, typed, got, out>>
  BY <1>1, <1>2 DEF Answered, FunctionsNoted, AnswersFor, Rest
<1>3. CASE tool' # "addr2line"
  BY <1>3 DEF Answered
<1>4. CASE OptionStep
  <2>1. CASE tool = "addr2line"
    <3>1. Addr2LineOption
      BY <1>4, <2>1 DEF OptionStep, CatchSegvOption, DrmingwOption
    <3>2. /\ pc = "options" /\ pc' \in {"options", "usage", "failed", "conflict"} \cup Through
          /\ out' = out
      BY <1>4, OptionStepIs
    <3>3. FunctionsNoted /\ out' = <<>>
      BY <1>1, <2>1, <3>2 DEF Answered
    <3>4. pc' \notin {"usage", "failed"} => FunctionsNoted'
      BY <1>1, <3>1, <3>3, NotedStep
    <3> QED BY <3>2, <3>3, <3>4 DEF Answered, Through
  <2>2. CASE tool # "addr2line"
    BY <1>3, <1>4, <2>2, OptionStepIs
  <2> QED BY <2>1, <2>2
<1>5. CASE Launch \/ StartTimer
  BY <1>3, <1>5 DEF Launch, StartTimer, Parsing
<1>6. CASE LoadModule
  BY <1>1, <1>6 DEF LoadModule, Parsing, Goes, Answered, FunctionsNoted
<1>7. CASE InitSymbols
  <2>1. /\ tool = "addr2line" /\ pc = "symbols" /\ pc' \in {"addresses", "failed"}
        /\ UNCHANGED <<tool, g, opt, typed, got, out>>
    BY <1>7 DEF InitSymbols, Goes, Parsing
  <2>2. FunctionsNoted /\ out = <<>>
    BY <1>1, <2>1 DEF Answered
  <2>3. FunctionsNoted'
    BY <2>1, <2>2 DEF FunctionsNoted
  <2>4. PICK operands : operands = Means(tool, typed)[2].operands
    OBVIOUS
  <2>5. operands \in Texts
    BY <1>1, <2>4, MeansTypes DEF Meanings
  <2>6. Rest = operands
    BY <1>1, <2>1, <2>4 DEF ReadThrough, Through, Understood, Rest
  <2>7. Len(out) = 0 /\ 0 <= Len(operands) /\ Len(out) + 1 = 1 /\ out \in Seq(Reply)
    BY <2>2, <2>5 DEF Texts
  <2>8. SubSeq(operands, 1, Len(operands)) = operands
    BY <2>5, SubSeqFull DEF Texts
  <2>9. AnswersFor(operands)
    BY <2>5, <2>7 DEF AnswersFor
  <2>10. AnswersFor(operands)' /\ Rest' = Rest
    BY <2>1, <2>9 DEF AnswersFor, Rest
  <2>11. Rest' = SubSeq(operands, Len(out') + 1, Len(operands))
    BY <2>1, <2>6, <2>7, <2>8, <2>10
  <2>12. operands = Means(tool', typed')[2].operands
    BY <2>1, <2>4
  <2> QED BY <2>1, <2>3, <2>10, <2>11, <2>12 DEF Answered
<1>8. CASE Answer
  <2>1. /\ tool = "addr2line" /\ pc = "addresses" /\ UNCHANGED <<tool, pc, opt, typed, got>>
        /\ g' = [g EXCEPT !.optind = @ + 1] /\ g.optind < Len(g.argv)
    BY <1>8 DEF Answer, argc
  <2>2. FunctionsNoted
    BY <1>1, <2>1 DEF Answered
  <2>3. FunctionsNoted'
    BY <2>1, <2>2 DEF FunctionsNoted
  <2>4. PICK operands : /\ operands = Means(tool, typed)[2].operands /\ AnswersFor(operands)
                        /\ Rest = SubSeq(operands, Len(out) + 1, Len(operands))
    BY <1>1, <2>1 DEF Answered
  <2>5. PICK n, k, argv : n = Len(out) /\ k = g.optind /\ argv = g.argv
    OBVIOUS
  <2>6. /\ operands \in Texts /\ argv \in Texts /\ n \in 0..Len(operands) /\ k \in 0..Len(argv) - 1
        /\ n \in Nat /\ k \in Nat
    BY <1>1, <2>1, <2>4, <2>5 DEF AnswersFor, Running, Bounded, Texts
  <2>7. SubSeq(argv, k + 1, Len(argv)) = SubSeq(operands, n + 1, Len(operands))
    BY <2>4, <2>5 DEF Rest
  <2>8. /\ n + 1 <= Len(operands) /\ argv[k + 1] = operands[n + 1]
        /\ SubSeq(argv, k + 2, Len(argv)) = SubSeq(operands, n + 2, Len(operands))
    BY <2>6, <2>7, NextOperand
  <2>9. PICK function \in Functions, line \in {"??:?", "file:line"} :
          out' = Append(out, [addr |-> (Base + RelAddr(Arg(g, g.optind))) % Word,
                              function |-> function, line |-> line])
    BY <1>8 DEF Answer
  <2>10. PICK reply : reply = [addr |-> (Base + RelAddr(Arg(g, g.optind))) % Word,
                               function |-> function, line |-> line]
    OBVIOUS
  <2>11. function = NULL <=> opt.functions = FALSE
    BY <2>2, ToolsAssumption DEF Functions, FunctionsNoted, ToolsAssumption
  <2>12. function \in {NULL, "??", "name", "demangled"}
    BY DEF Functions
  <2>13. operands[n + 1] \in Text
    BY <2>6, <2>8 DEF Texts
  <2>14. PICK addr : addr = (Base + RelAddr(operands[n + 1])) % Word
    OBVIOUS
  <2>15. Arg(g, g.optind) = operands[n + 1]
    BY <2>5, <2>8 DEF Arg
  <2>16. reply = [addr |-> addr, function |-> function, line |-> line]
    BY <2>10, <2>14, <2>15
  <2>17. addr \in {(Base + RelAddr(a)) % Word : a \in Text}
    BY <2>13, <2>14, RelAddrOf
  <2>18. reply \in Reply /\ reply.addr = addr /\ reply.function = function
    BY <2>12, <2>16, <2>17 DEF Reply
  <2>19. out \in Seq(Reply) /\ out' = Append(out, reply)
    BY <2>4, <2>9, <2>10 DEF AnswersFor
  <2>20. /\ out' \in Seq(Reply) /\ Len(out') = n + 1 /\ out'[n + 1] = reply
         /\ \A i \in 1..n : out'[i] = out[i]
    BY <2>5, <2>18, <2>19
  <2>21. ASSUME NEW i \in 1..Len(out')
         PROVE  /\ out'[i].addr = (Base + RelAddr(operands[i])) % Word
                /\ out'[i].function = NULL <=> opt'.functions = FALSE
    <3>1. CASE i = n + 1
      BY <2>1, <2>11, <2>14, <2>18, <2>20, <3>1
    <3>2. CASE i # n + 1
      <4>1. i \in 1..Len(out) /\ out'[i] = out[i]
        BY <2>5, <2>6, <2>20, <3>2
      <4> QED BY <2>1, <2>4, <4>1 DEF AnswersFor
    <3> QED BY <3>1, <3>2
  <2>22. AnswersFor(operands)'
    BY <2>6, <2>8, <2>20, <2>21 DEF AnswersFor
  <2>23. Rest' = SubSeq(operands, Len(out') + 1, Len(operands))
    <3>1. g'.argv = argv /\ g'.optind = k + 1
      BY <1>1, <2>1, <2>5 DEF Running, Bounded, Fields
    <3>2. (k + 1) + 1 = k + 2 /\ Len(out') + 1 = n + 2
      BY <2>6, <2>20
    <3>3. Rest' = SubSeq(argv, k + 2, Len(argv))
      BY <3>1, <3>2 DEF Rest
    <3> QED BY <2>8, <3>2, <3>3
  <2>24. operands = Means(tool', typed')[2].operands
    BY <2>1, <2>4
  <2> QED BY <2>1, <2>3, <2>22, <2>23, <2>24 DEF Answered
<1>9. CASE Cleanup
  <2>1. /\ tool = "addr2line" /\ pc = "addresses" /\ pc' = "answered"
        /\ UNCHANGED <<tool, g, opt, typed, got, out>> /\ g.optind >= Len(g.argv)
    BY <1>9 DEF Cleanup, Goes, Parsing, argc
  <2>2. FunctionsNoted'
    BY <1>1, <2>1 DEF Answered, FunctionsNoted
  <2>3. PICK operands : /\ operands = Means(tool, typed)[2].operands /\ AnswersFor(operands)
                        /\ Rest = SubSeq(operands, Len(out) + 1, Len(operands))
    BY <1>1, <2>1 DEF Answered
  <2>4. /\ operands \in Seq(Text) /\ Len(operands) \in Nat /\ Len(out) \in Nat
        /\ Len(out) <= Len(operands)
    BY <2>3 DEF AnswersFor, Texts
  <2>5. Rest = <<>>
    <3>1. g.argv \in Seq(Text) /\ Len(g.argv) \in Nat /\ g.optind \in Nat
      BY <1>1 DEF Running, Bounded, Texts
    <3> QED BY <2>1, <3>1, SubSeqEmpty DEF Rest
  <2>6. Len(out) = Len(operands)
    <3>1. PICK left : left = SubSeq(operands, Len(out) + 1, Len(operands))
      OBVIOUS
    <3>2. Len(left) = Len(operands) - Len(out)
      BY <2>4, <3>1
    <3>3. left = <<>>
      BY <2>3, <2>5, <3>1
    <3>4. Len(left) = 0
      BY <3>3
    <3> QED BY <2>4, <3>2, <3>4
  <2>7. AnswersFor(operands)' /\ Rest' = Rest
    BY <2>1, <2>3 DEF AnswersFor, Rest
  <2>8. operands = Means(tool', typed')[2].operands /\ Len(out') = Len(operands)
        /\ Rest' = SubSeq(operands, Len(out') + 1, Len(operands))
    BY <2>1, <2>3, <2>6, <2>7
  <2> QED BY <2>1, <2>2, <2>7, <2>8 DEF Answered
<1>10. CASE Install \/ Uninstall
  BY <1>3, <1>10 DEF Install, Uninstall, Parsing
<1>11. CASE RunAgain \/ SystemStarts
  BY <1>3, <1>11 DEF RunAgain, SystemStarts, Run
<1>12. CASE UNCHANGED vars
  BY <1>2, <1>12 DEF vars
<1> QED BY <1>4, <1>5, <1>6, <1>7, <1>8, <1>9, <1>10, <1>11, <1>12 DEF Next, OptionStep, Ended

-----------------------------------------------------------------------------
(* The theorems *)

LEMMA ToolsStep ==
  ASSUME ToolsInv, [Next]_vars
  PROVE  ToolsInv'
BY RunningStep, KeysStep, ViewedStep, LaunchedStep, AnsweredStep DEF ToolsInv

LEMMA ToolsInvariant == Spec => []ToolsInv
<1>1. Init => ToolsInv
  BY ToolsInit
<1>2. ToolsInv /\ [Next]_vars => ToolsInv'
  BY ToolsStep
<1> QED BY <1>1, <1>2, PTL DEF Spec

(* getopt's indices stay within argv, whatever the command line, so that    *)
(* the elements getoptW_parse() reads and moves exist; and install and      *)
(* uninstall are called for no view that is not there.                      *)
THEOREM TypesOfTools == Spec => []ToolsTypeOK
<1>1. ToolsInv => ToolsTypeOK
  <2>1. SUFFICES ASSUME ToolsInv PROVE ToolsTypeOK
    OBVIOUS
  <2>2. Running /\ Viewed
    BY <2>1 DEF ToolsInv
  <2>3. Len(typed) = argc(g) /\ Bounded(typed, g)
    BY <2>2 DEF Running, Bounded, argc
  <2>4. pc \in Final \cup {"options", "launch", "timer", "load", "symbols", "addresses",
                           "install", "uninstall"}
    BY <2>2 DEF Running, ToolNames, Places, Final
  <2> QED BY <2>2, <2>3, <2>4 DEF ToolsTypeOK, Viewed, Bounded
<1> QED BY <1>1, ToolsInvariant, PTL

(* The options the main functions act on and the operands they find in the  *)
(* permuted argv are those the command line means, for every command line   *)
(* (the calls of getoptW and getoptW_long_only in the wmain loops).         *)
THEOREM ReadAsMeant == Spec => []ArgumentsMeant
<1>1. ToolsInv => ArgumentsMeant
  <2>1. SUFFICES ASSUME ToolsInv, pc \in {"launch", "load", "install", "uninstall", "attach"}
                 PROVE  \/ Meant.ok /\ got = Meant.opts /\ Rest = Meant.operands
                        \/ ~Meant.ok /\ tool = "catchsegv"
    BY DEF ArgumentsMeant
  <2>2. Meant = Means(tool, typed)[2]
    BY <2>1, MeantIs DEF ToolsInv, Running
  <2>3. Understood(tool, typed, g, got) \/ (tool = "catchsegv" /\ Rejected(Means(tool, typed)[2]))
    BY <2>1 DEF ToolsInv, ReadThrough, Through
  <2> QED BY <2>2, <2>3 DEF Understood, Rejected, Rest
<1> QED BY <1>1, ToolsInvariant, PTL

(* The program catchsegv launches reads the operands it was given, however  *)
(* they had to be quoted (needsQuote, quoteArg, the loop of wmain that      *)
(* builds the command line), but for those Carried excepts.                 *)
THEOREM ArgumentsCarried == Spec => []ProgramGetsItsArguments
<1>1. ToolsInv => ProgramGetsItsArguments
  <2>1. SUFFICES ASSUME ToolsInv, child # NULL, Meant.ok,
                        \A i \in DOMAIN Meant.operands : Carried(Meant.operands[i])
                 PROVE  child = Meant.operands
    BY DEF ProgramGetsItsArguments
  <2>2. Running /\ Launched
    BY <2>1 DEF ToolsInv
  <2>3. PICK meant : meant = Means(tool, typed)[2]
    OBVIOUS
  <2>4. Meant = meant /\ meant \in Meanings(Named)
    BY <2>2, <2>3, MeantIs, MeansTypes DEF Running
  <2>5. meant.operands \in Texts /\ meant.ok = TRUE
    BY <2>1, <2>4 DEF Meanings
  <2>6. child = ArgumentsOf(commandLine(meant.operands))
    BY <2>1, <2>2, <2>3, <2>5 DEF Launched
  <2>7. \A i \in 1..Len(meant.operands) : Carried(meant.operands[i])
    BY <2>1, <2>4, <2>5 DEF Texts
  <2> QED BY <2>4, <2>5, <2>6, <2>7, ArgumentsReadBack
<1> QED BY <1>1, ToolsInvariant, PTL

(* addr2line has answered for exactly the addresses of its command line, in *)
(* their order, and says the function if -f was among the options (the loop *)
(* over optind of wmain).                                                   *)
THEOREM AddressesAnswered == Spec => []OneAnswerPerAddress
<1>1. ToolsInv => OneAnswerPerAddress
  <2>1. SUFFICES ASSUME ToolsInv, pc = "answered"
                 PROVE  /\ Len(out) = Len(Meant.operands)
                        /\ \A i \in DOMAIN out :
                             /\ out[i].addr = (Base + RelAddr(Meant.operands[i])) % Word
                             /\ (out[i].function = NULL)
                                  = (<<"f", NULL>> \notin {got[j] : j \in DOMAIN got})
    BY DEF OneAnswerPerAddress
  <2>2. tool = "addr2line"
    BY <2>1 DEF ToolsInv, Running, ToolNames, Places
  <2>3. Meant = Means(tool, typed)[2]
    BY <2>1, MeantIs DEF ToolsInv, Running
  <2>4. PICK operands : operands = Meant.operands /\ AnswersFor(operands) /\ Len(out) = Len(operands)
    BY <2>1, <2>2, <2>3 DEF ToolsInv, Answered
  <2>5. FunctionsNoted
    BY <2>1, <2>2 DEF ToolsInv, Answered
  <2>6. DOMAIN out = 1..Len(out)
    BY <2>4 DEF AnswersFor
  <2>7. opt.functions = FALSE <=> <<"f", NULL>> \notin {got[j] : j \in DOMAIN got}
    BY <2>5 DEF FunctionsNoted
  <2>8. ASSUME NEW i \in DOMAIN out
        PROVE  /\ out[i].addr = (Base + RelAddr(operands[i])) % Word
               /\ (out[i].function = NULL) <=> (<<"f", NULL>> \notin {got[j] : j \in DOMAIN got})
    BY <2>4, <2>6, <2>7 DEF AnswersFor
  <2> QED BY <2>4, <2>8
<1> QED BY <1>1, ToolsInvariant, PTL

(* When drmingw says that it has been installed, or uninstalled, every view *)
(* of the registry is so, also after runs that failed half way (wmain,      *)
(* install, uninstall).                                                     *)
THEOREM SaidIsSo == Spec => []MessageTrue
<1>1. ToolsInv => MessageTrue
  BY DEF ToolsInv, Viewed
<1> QED BY <1>1, ToolsInvariant, PTL

-----------------------------------------------------------------------------
(* The command in the registry, read back *)

\* What install writes for those flags, and what the drmingw started with it
\* finds in argv.
FlagText(flag, letter) == IF flag THEN <<Space, "-", letter>> ELSE <<>>
CommandWith(v, b, d) ==
  <<Quote>> \o szFile
    \o <<Quote, Space, "-", "p", Space, "%ld", Space, "-", "e", Space, "%ld">>
    \o v \o b \o d
CommandFor(f) ==
  CommandWith(FlagText(f.verbose_flag, "v"), FlagText(f.breakpoint_flag, "b"),
              FlagText(f.debug_flag, "d"))

FlagArg(flag, letter) == IF flag THEN <<<<"-", letter>>>> ELSE <<>>
LineFor(f) ==
  <<Self, <<"-", "p">>, ProcessId, <<"-", "e">>, EventHandle>>
    \o FlagArg(f.verbose_flag, "v") \o FlagArg(f.breakpoint_flag, "b")
    \o FlagArg(f.debug_flag, "d")

\* A text the reader takes as it is, and one the system leaves alone.
Plain(text) == \A i \in 1..Len(text) : text[i] \notin Blank \cup {Quote}
NoNumber(text) == \A i \in 1..Len(text) : text[i] # "%ld"

\* A number needs no quotes.
LEMMA DecimalIsPlain ==
  ASSUME NEW text \in Text, text \in Seq(Decimal)
  PROVE  Plain(text) /\ NoNumber(text)
<1>1. \A c \in Decimal : c \notin Blank /\ c # Quote /\ c # "%ld"
  BY Zenon DEF Decimal, Blank, Quote, Space
<1>2. \A i \in 1..Len(text) : text[i] \in Decimal
  OBVIOUS
<1> QED BY <1>1, <1>2 DEF Plain, NoNumber

\* Nor does an option.
LEMMA OptionIsPlain ==
  ASSUME NEW c \in {"p", "e", "v", "b", "d"}
  PROVE  <<"-", c>> \in Text /\ <<"-", c>> # <<>> /\ Plain(<<"-", c>>) /\ NoNumber(<<"-", c>>)
<1>1. c \in Character /\ "-" \in Character
  BY Letters
<1>2. \A l \in {"-", "p", "e", "v", "b", "d"} : l \notin Blank /\ l # Quote /\ l # "%ld"
  BY Zenon DEF Blank, Quote, Space
<1>3. PICK t : t = <<"-", c>>
  OBVIOUS
<1>4. t \in Seq(Character) /\ Len(t) = 2 /\ t[1] = "-" /\ t[2] = c
  BY <1>1, <1>3
<1>5. \A i \in 1..Len(t) : t[i] \in {"-", "p", "e", "v", "b", "d"}
  BY <1>4
<1>6. t # <<>>
  BY <1>4
<1> QED BY <1>2, <1>3, <1>4, <1>5, <1>6 DEF Plain, NoNumber, Text

\* A reader that has read these arguments, and may go on with the last.
Reads(st, args) ==
  \E before \in Texts, part \in Text :
    HasRead(st, before, part, FALSE) /\ args = Append(before, part)

\* What has been read at the end of the line are the arguments.
LEMMA ReadsAll ==
  ASSUME NEW line \in Text, NEW args, Reads(ReadFrom(Between(<<>>), line), args)
  PROVE  ArgumentsOf(line) = args
<1>1. PICK end : end = ReadFrom(Between(<<>>), line)
  OBVIOUS
<1>2. PICK before \in Texts, part \in Text :
        HasRead(end, before, part, FALSE) /\ args = Append(before, part)
  BY <1>1 DEF Reads
<1>3. Between(<<>>) = ReadStart
  BY DEF Between, State, ReadStart
<1>4. end \in ReaderState /\ end.inWord = TRUE /\ end.args = before /\ Pending(end) = part
  BY <1>2 DEF HasRead
<1>5. Flush(end).word = Pending(end)
  BY <1>4 DEF Flush, Pending, ReaderState
<1>6. ArgumentsOf(line) = Append(end.args, Flush(end).word)
  BY <1>1, <1>3, <1>4, ReadToTheEnd
<1> QED BY <1>2, <1>4, <1>5, <1>6

\* The next argument, after a blank.
LEMMA ReadsNext ==
  ASSUME NEW st, NEW args, Reads(st, args),
         NEW arg \in Text, arg # <<>>, Plain(arg)
  PROVE  Reads(ReadFrom(st, <<Space>> \o arg), Append(args, arg))
<1>1. PICK before \in Texts, part \in Text :
        HasRead(st, before, part, FALSE) /\ args = Append(before, part)
  BY DEF Reads
<1>2. /\ st \in ReaderState /\ st.args = before /\ st.inWord = TRUE /\ st.quoted = FALSE
      /\ Pending(st) = part
  BY <1>1 DEF HasRead
<1>3. args \in Texts
  BY <1>1 DEF Texts
<1>4. Space \in Character /\ Space \in Blank /\ <<>> \in Text
  BY Letters, Distinct, TextConcat
<1>5. PICK blank : blank = <<Space>>
  OBVIOUS
<1>6. blank = Append(<<>>, Space) /\ blank \in Text
  BY <1>4, <1>5, TextConcat DEF Text
<1>7. ReadFrom(st, blank) = Between(args)
  <2>1. ReadFrom(st, blank) = ReadChar(st, Space)
    BY <1>2, <1>4, <1>6, ReadAppend, ReadNothing
  <2>2. ReadChar(st, Space) = State(Append(before, part), <<>>, FALSE, FALSE, 0)
    BY <1>2, <1>4, ReadSeparator
  <2> QED BY <1>1, <2>1, <2>2 DEF Between
<1>8. ReadFrom(st, blank \o arg) = ReadFrom(Between(args), arg)
  BY <1>2, <1>6, <1>7, ReadConcat
<1>9. HasRead(ReadFrom(Between(args), arg), args, arg, FALSE)
  BY <1>3, ReadUnquoted DEF Plain
<1> QED BY <1>3, <1>5, <1>8, <1>9 DEF Reads

\* A flag is an argument more, or none.
LEMMA ReadsFlag ==
  ASSUME NEW st, NEW args \in Texts, Reads(st, args), NEW flag \in BOOLEAN,
         NEW c \in {"v", "b", "d"}
  PROVE  /\ Reads(ReadFrom(st, FlagText(flag, c)), args \o FlagArg(flag, c))
         /\ args \o FlagArg(flag, c) \in Texts
         /\ FlagText(flag, c) \in Text /\ NoNumber(FlagText(flag, c))
<1>1. PICK option : option = <<"-", c>>
  OBVIOUS
<1>2. option \in Text /\ option # <<>> /\ Plain(option) /\ NoNumber(option)
  BY <1>1, OptionIsPlain
<1>3. CASE flag = TRUE
  <2>1. FlagText(flag, c) = <<Space>> \o option
    BY <1>1, <1>3 DEF FlagText
  <2>2. FlagArg(flag, c) = <<option>> /\ args \o <<option>> = Append(args, option)
        /\ Append(args, option) \in Texts
    BY <1>1, <1>2, <1>3 DEF FlagArg, Texts
  <2>3. FlagText(flag, c) \in Text
    <3>1. <<Space>> \in Text
      BY Letters, TextConcat
    <3> QED BY <1>2, <2>1, <3>1, TextConcat
  <2>4. NoNumber(FlagText(flag, c))
    <3>1. Space # "%ld"
      BY Zenon DEF Space
    <3>2. PICK t : t = <<Space, "-", c>>
      OBVIOUS
    <3>3. Len(t) = 3 /\ t[1] = Space /\ t[2] = "-" /\ t[3] = c
      BY <3>2
    <3> QED BY <1>3, <3>1, <3>2, <3>3 DEF NoNumber, FlagText
  <2> QED BY <1>2, <2>1, <2>2, <2>3, <2>4, ReadsNext
<1>4. CASE flag = FALSE
  <2>1. FlagText(flag, c) = <<>> /\ FlagArg(flag, c) = <<>>
    BY <1>4 DEF FlagText, FlagArg
  <2>2. args \o <<>> = args
    BY ConcatEmptySeq DEF Texts
  <2>3. ReadFrom(st, <<>>) = st
    BY ReadNothing DEF Reads, HasRead
  <2>4. <<>> \in Text /\ NoNumber(<<>>)
    BY TextConcat DEF NoNumber
  <2> QED BY <2>1, <2>2, <2>3, <2>4
<1> QED BY <1>3, <1>4

\* A path without quotes is only enclosed in them.
LEMMA QuotedPath ==
  ASSUME NEW arg \in Text, \A i \in 1..Len(arg) : arg[i] # Quote
  PROVE  quoteArg(arg) = (<<Quote>> \o arg) \o <<Quote>>
<1>1. PICK n, q, open : n = Len(arg) /\ q = Quoted(arg) /\ open = <<Quote>>
  OBVIOUS
<1>2. n \in Nat /\ \A k \in 1..n : arg[k] \in Character /\ arg[k] # Quote
  BY <1>1 DEF Text
<1>3. /\ quoteArg(arg) = Append(q[n], Quote) /\ q[0] = open
      /\ \A k \in 0..n : q[k] \in Text
      /\ \A k \in 1..n : q[k] = QuotedStep(arg, q[k - 1], k)
  BY <1>1, QuoteUnfolds
<1> DEFINE upto(k) == SubSeq(arg, 1, k)
           T == {k \in 0..n : q[k] = open \o upto(k)}
<1>4. \A k \in 0..n : upto(k) \in Text
  BY <1>1, PrefixTypes DEF Text
<1>5. \A k \in 1..n : upto(k) = Append(upto(k - 1), arg[k])
  BY <1>1, PrefixGrows DEF Text
<1>6. upto(0) = <<>> /\ upto(n) = arg
  BY <1>1, WholePrefix DEF Text
<1> HIDE DEF upto
<1>7. open \in Text /\ Quote \in Character
  BY <1>1, Letters, TextConcat
<1>8. 0 \in T
  <2>1. open \o <<>> = open
    BY <1>7, TextConcat
  <2>2. q[0] = open \o upto(0)
    BY <1>3, <1>6, <2>1
  <2>3. 0 \in 0..n
    BY <1>2
  <2> QED BY <2>2, <2>3
<1>9. ASSUME NEW k \in 0..n - 1, k \in T PROVE k + 1 \in T
  <2>1. k + 1 \in 1..n /\ k + 1 \in 0..n /\ (k + 1) - 1 = k /\ k \in 0..n
    BY <1>2
  <2>2. PICK c, part : c = arg[k + 1] /\ part = upto(k)
    OBVIOUS
  <2>3. c \in Character /\ c # Quote /\ part \in Text /\ q[k] \in Text
    BY <1>2, <1>3, <1>4, <2>1, <2>2
  <2>4. q[k + 1] = QuotedStep(arg, q[k], k + 1)
    BY <1>3, <2>1
  <2>5. q[k + 1] = Append(q[k], c)
    BY <2>2, <2>3, <2>4 DEF QuotedStep
  <2>6. upto(k + 1) = Append(part, c)
    BY <1>5, <2>1, <2>2
  <2>7. open \o Append(part, c) = Append(open \o part, c)
    BY <1>7, <2>3, TextConcat
  <2>8. q[k] = open \o part
    BY <1>9, <2>2
  <2> QED BY <2>1, <2>5, <2>6, <2>7, <2>8
<1> HIDE DEF T
<1>10. n \in T
  <2>1. \A k \in 0..n : k \in T
    BY <1>2, <1>8, <1>9, UpTo
  <2> QED BY <1>2, <2>1
<1>11. q[n] = open \o arg
  BY <1>6, <1>10 DEF T
<1>12. PICK body : body = open \o arg
  OBVIOUS
<1>13. body \in Text
  BY <1>7, <1>12, TextConcat
<1>14. body \o <<Quote>> = Append(body, Quote)
  BY <1>7, <1>13, TextConcat
<1> QED BY <1>1, <1>3, <1>11, <1>12, <1>14

\* The positions of a character in texts around it.
Around(C, c, one, two, three, d, p, e) ==
  /\ one \in Seq(C) /\ two \in Seq(C) /\ three \in Seq(C) /\ c \in C
  /\ \A i \in 1..Len(one) : one[i] # c
  /\ \A i \in 1..Len(two) : two[i] # c
  /\ \A i \in 1..Len(three) : three[i] # c
  /\ d = one \o (<<c>> \o (two \o (<<c>> \o three)))
  /\ p = Len(one) + 1 /\ e = p + Len(two) + 1

LEMMA FoundTwice ==
  ASSUME NEW C, NEW c, NEW one, NEW two, NEW three, NEW d, NEW p, NEW e,
         Around(C, c, one, two, three, d, p, e)
  PROVE  /\ {i \in 1..Len(d) : d[i] = c} = {p, e} /\ p < e /\ p \in Nat /\ e \in Nat
         /\ SubSeq(d, 1, p - 1) = one /\ SubSeq(d, p + 1, e - 1) = two
         /\ SubSeq(d, e + 1, Len(d)) = three
<1>0. /\ one \in Seq(C) /\ two \in Seq(C) /\ three \in Seq(C) /\ c \in C
      /\ d = one \o (<<c>> \o (two \o (<<c>> \o three)))
  BY DEF Around
<1>7. PICK l1, l2, l3 : l1 = Len(one) /\ l2 = Len(two) /\ l3 = Len(three)
  OBVIOUS
<1>8. l1 \in Nat /\ l2 \in Nat /\ l3 \in Nat /\ p = l1 + 1 /\ e = l1 + l2 + 2
  <2>1. l1 \in Nat /\ l2 \in Nat /\ l3 \in Nat
    BY <1>0, <1>7
  <2> QED BY <1>7, <2>1 DEF Around
<1>1. PICK t1, t2, t3, h : /\ h = <<c>> /\ t1 = h \o three /\ t2 = two \o t1 /\ t3 = h \o t2
  OBVIOUS
<1>2. h \in Seq(C) /\ Len(h) = 1 /\ h[1] = c
  BY <1>0, <1>1
<1>3. Joins(C, h, three, t1)
  BY <1>0, <1>1, <1>2, ConcatIs
<1>4. Joins(C, two, t1, t2)
  <2>1. t1 \in Seq(C)
    BY <1>3 DEF Joins
  <2> QED BY <1>0, <1>1, <2>1, ConcatIs
<1>5. Joins(C, h, t2, t3)
  <2>1. t2 \in Seq(C)
    BY <1>4 DEF Joins
  <2> QED BY <1>0, <1>1, <1>2, <2>1, ConcatIs
<1>6. Joins(C, one, t3, d)
  <2>1. t3 \in Seq(C)
    BY <1>5 DEF Joins
  <2> QED BY <1>0, <1>1, <2>1, ConcatIs
<1>9. /\ Len(t1) = l3 + 1 /\ Len(t2) = l2 + l3 + 1 /\ Len(t3) = l2 + l3 + 2
      /\ Len(d) = l1 + l2 + l3 + 2 /\ d \in Seq(C)
  BY <1>2, <1>3, <1>4, <1>5, <1>6, <1>7, <1>8 DEF Joins
<1>10. \A i \in 1..l1 : d[i] = one[i]
  BY <1>6, <1>7, <1>8 DEF Joins
<1>11. \A i \in 1..l2 + l3 + 2 : d[l1 + i] = t3[i]
  BY <1>6, <1>7, <1>8, <1>9 DEF Joins
<1>12. t3[1] = c /\ \A i \in 1..l2 + l3 + 1 : t3[i + 1] = t2[i]
  <2>1. t3[1] = h[1]
    BY <1>2, <1>5 DEF Joins
  <2>2. \A i \in 1..Len(t2) : t3[1 + i] = t2[i]
    BY <1>2, <1>5 DEF Joins
  <2>3. \A i \in 1..l2 + l3 + 1 : i + 1 = 1 + i
    BY <1>8
  <2> QED BY <1>2, <1>9, <2>1, <2>2, <2>3
<1>13. (\A i \in 1..l2 : t2[i] = two[i]) /\ \A i \in 1..l3 + 1 : t2[l2 + i] = t1[i]
  BY <1>4, <1>7, <1>8, <1>9 DEF Joins
<1>14. t1[1] = c /\ \A i \in 1..l3 : t1[i + 1] = three[i]
  <2>1. t1[1] = h[1]
    BY <1>2, <1>3 DEF Joins
  <2>2. \A i \in 1..Len(three) : t1[1 + i] = three[i]
    BY <1>2, <1>3 DEF Joins
  <2>3. \A i \in 1..l3 : i + 1 = 1 + i
    BY <1>8
  <2> QED BY <1>2, <1>7, <2>1, <2>2, <2>3
<1>15. d[p] = c
  <2>1. 1 \in 1..l2 + l3 + 2
    BY <1>8
  <2> QED BY <1>8, <1>11, <1>12, <2>1
<1>16. \A i \in 1..l2 : d[p + i] = two[i]
  <2> TAKE i \in 1..l2
  <2>1. i + 1 \in 1..l2 + l3 + 2 /\ i \in 1..l2 + l3 + 1 /\ p + i = l1 + (i + 1)
    BY <1>8
  <2> QED BY <1>11, <1>12, <1>13, <2>1
<1>17. d[e] = c
  <2>1. /\ (l2 + 1) + 1 \in 1..l2 + l3 + 2 /\ l2 + 1 \in 1..l2 + l3 + 1
        /\ e = l1 + ((l2 + 1) + 1) /\ 1 \in 1..l3 + 1
    BY <1>8
  <2> QED BY <1>11, <1>12, <1>13, <1>14, <2>1
<1>18. \A i \in 1..l3 : d[e + i] = three[i]
  <2> TAKE i \in 1..l3
  <2>1. /\ (l2 + (i + 1)) + 1 \in 1..l2 + l3 + 2 /\ l2 + (i + 1) \in 1..l2 + l3 + 1
        /\ e + i = l1 + ((l2 + (i + 1)) + 1) /\ i + 1 \in 1..l3 + 1
    BY <1>8
  <2> QED BY <1>11, <1>12, <1>13, <1>14, <2>1
<1>19. {i \in 1..Len(d) : d[i] = c} = {p, e}
  <2>1. ASSUME NEW i \in 1..Len(d), i # p, i # e PROVE d[i] # c
    <3>1. CASE i <= l1
      BY <1>7, <1>8, <1>10, <2>1, <3>1 DEF Around
    <3>2. CASE i > p /\ i < e
      <4>1. i - p \in 1..l2 /\ p + (i - p) = i
        BY <1>8, <3>2
      <4> QED BY <1>7, <1>16, <4>1 DEF Around
    <3>3. CASE i > e
      <4>1. i - e \in 1..l3 /\ e + (i - e) = i
        BY <1>8, <1>9, <3>3
      <4> QED BY <1>7, <1>18, <4>1 DEF Around
    <3> QED BY <1>8, <1>9, <2>1, <3>1, <3>2, <3>3
  <2>2. p \in 1..Len(d) /\ e \in 1..Len(d)
    BY <1>8, <1>9
  <2> QED BY <1>15, <1>17, <2>1, <2>2
<1>20. SubSeq(d, 1, p - 1) = one
  <2>1. PICK s : s = SubSeq(d, 1, p - 1)
    OBVIOUS
  <2>2. /\ s \in Seq(C) /\ Len(s) = l1 /\ \A i \in 1..l1 : s[i] = d[i]
    BY <1>8, <1>9, <2>1
  <2> QED BY <1>7, <1>10, <2>1, <2>2, <1>0, SameElements
<1>21. SubSeq(d, p + 1, e - 1) = two
  <2>1. PICK s : s = SubSeq(d, p + 1, e - 1)
    OBVIOUS
  <2>2. /\ s \in Seq(C) /\ Len(s) = l2 /\ \A i \in 1..l2 : s[i] = d[p + i]
    BY <1>8, <1>9, <2>1
  <2> QED BY <1>7, <1>16, <2>1, <2>2, <1>0, SameElements
<1>22. SubSeq(d, e + 1, Len(d)) = three
  <2>1. PICK s : s = SubSeq(d, e + 1, Len(d))
    OBVIOUS
  <2>2. /\ s \in Seq(C) /\ Len(s) = l3 /\ \A i \in 1..l3 : s[i] = d[e + i]
    BY <1>8, <1>9, <2>1
  <2> QED BY <1>7, <1>18, <2>1, <2>2, <1>0, SameElements
<1>23. p < e /\ p \in Nat /\ e \in Nat
  BY <1>8
<1> QED BY <1>19, <1>20, <1>21, <1>22, <1>23

\* The numbers filled in.
LEMMA FilledIn ==
  ASSUME NEW one, NEW two, NEW three, NEW d, NEW p, NEW e,
         Around(Character, "%ld", one, two, three, d, p, e)
  PROVE  Substituted(d) = one \o ProcessId \o two \o EventHandle \o three
<1>1. PICK at : at = {i \in 1..Len(d) : d[i] = "%ld"}
  OBVIOUS
<1>2. /\ at = {p, e} /\ p < e /\ p \in Nat /\ e \in Nat
      /\ SubSeq(d, 1, p - 1) = one /\ SubSeq(d, p + 1, e - 1) = two
      /\ SubSeq(d, e + 1, Len(d)) = three
  BY <1>1, FoundTwice
<1>3. Least(at) = p
  <2>1. Least(at) \in at /\ \A i \in at : Least(at) <= i
    BY <1>2, LeastIs
  <2> QED BY <1>2, <2>1
<1>4. Least(at \ {p}) = e
  <2>1. at \ {p} = {e}
    BY <1>2
  <2>2. Least({e}) \in {e}
    BY <1>2, LeastIs
  <2> QED BY <2>1, <2>2
<1> QED BY <1>1, <1>2, <1>3, <1>4 DEF Substituted

LEMMA JoinedIs ==
  ASSUME NEW C, NEW s \in Seq(C), NEW t \in Seq(C), NEW u, Joins(C, s, t, u)
  PROVE  s \o t = u
<1>1. PICK w : w = s \o t
  OBVIOUS
<1>2. Joins(C, s, t, w)
  BY <1>1, ConcatIs
<1>3. PICK m, n : m = Len(s) /\ n = Len(t)
  OBVIOUS
<1>4. m \in Nat /\ n \in Nat
  BY <1>3
<1>5. w \in Seq(C) /\ u \in Seq(C) /\ Len(w) = m + n /\ Len(u) = m + n
  BY <1>2, <1>3 DEF Joins
<1>6. ASSUME NEW i \in 1..m + n PROVE w[i] = u[i]
  <2>1. CASE i <= m
    <3>1. i \in 1..m
      BY <1>4, <2>1
    <3> QED BY <1>2, <1>3, <3>1 DEF Joins
  <2>2. CASE i > m
    <3>1. i - m \in 1..n /\ m + (i - m) = i
      BY <1>4, <2>2
    <3> QED BY <1>2, <1>3, <3>1 DEF Joins
  <2> QED BY <1>4, <2>1, <2>2
<1> QED BY <1>1, <1>5, <1>6, SameElements

\* The texts around the numbers, letter by letter.
Six(C, q, s, h, l, p, e) ==
  q \in C /\ s \in C /\ h \in C /\ l \in C /\ p \in C /\ e \in C
LEMMA Spelled ==
  ASSUME NEW C, NEW q, NEW s, NEW h, NEW l, NEW p, NEW e, Six(C, q, s, h, l, p, e)
  PROVE  (<<q>> \o ((<<s>> \o <<h, p>>) \o <<s>>))
           \o (<<l>> \o (((<<s>> \o <<h, e>>) \o <<s>>) \o <<l>>))
         = <<q, s, h, p, s, l, s, h, e, s, l>>
<1>1. PICK q1, s1, l1, hp, shp, shps, qshps, he, she, shes, shesl, lshesl, all :
        /\ q1 = <<q>> /\ s1 = <<s>> /\ l1 = <<l>> /\ hp = <<h, p>> /\ shp = <<s, h, p>>
        /\ shps = <<s, h, p, s>> /\ qshps = <<q, s, h, p, s>> /\ he = <<h, e>>
        /\ she = <<s, h, e>> /\ shes = <<s, h, e, s>>
        /\ shesl = <<s, h, e, s, l>> /\ lshesl = <<l, s, h, e, s, l>>
        /\ all = <<q, s, h, p, s, l, s, h, e, s, l>>
  OBVIOUS
<1>2. /\ q1 \in Seq(C) /\ s1 \in Seq(C) /\ l1 \in Seq(C) /\ hp \in Seq(C) /\ shp \in Seq(C)
      /\ shps \in Seq(C) /\ qshps \in Seq(C) /\ shes \in Seq(C) /\ shesl \in Seq(C)
  BY <1>1 DEF Six
<1>3. lshesl \in Seq(C) /\ all \in Seq(C) /\ he \in Seq(C) /\ she \in Seq(C)
  BY <1>1 DEF Six
<1>4. /\ Len(q1) = 1 /\ q1[1] = q /\ Len(s1) = 1 /\ s1[1] = s /\ Len(l1) = 1 /\ l1[1] = l
      /\ Len(hp) = 2 /\ hp[1] = h /\ hp[2] = p
      /\ Len(shp) = 3 /\ shp[1] = s /\ shp[2] = h /\ shp[3] = p
      /\ Len(shps) = 4 /\ shps[1] = s /\ shps[2] = h /\ shps[3] = p /\ shps[4] = s
  BY <1>1
<1>5. /\ Len(qshps) = 5 /\ qshps[1] = q /\ qshps[2] = s /\ qshps[3] = h /\ qshps[4] = p
      /\ qshps[5] = s
      /\ Len(he) = 2 /\ he[1] = h /\ he[2] = e
      /\ Len(she) = 3 /\ she[1] = s /\ she[2] = h /\ she[3] = e
  BY <1>1
<1>6. /\ Len(shes) = 4 /\ shes[1] = s /\ shes[2] = h /\ shes[3] = e /\ shes[4] = s
      /\ Len(shesl) = 5 /\ shesl[1] = s /\ shesl[2] = h /\ shesl[3] = e /\ shesl[4] = s
      /\ shesl[5] = l
      /\ Len(lshesl) = 6 /\ lshesl[1] = l /\ lshesl[2] = s /\ lshesl[3] = h /\ lshesl[4] = e
      /\ lshesl[5] = s /\ lshesl[6] = l
  BY <1>1
<1>7. /\ Len(all) = 11 /\ all[1] = q /\ all[2] = s /\ all[3] = h /\ all[4] = p /\ all[5] = s
      /\ all[6] = l /\ all[7] = s /\ all[8] = h /\ all[9] = e /\ all[10] = s /\ all[11] = l
  BY <1>1
<1>8. Joins(C, s1, hp, shp)
  BY <1>2, <1>4 DEF Joins
<1>9. Joins(C, shp, s1, shps)
  BY <1>2, <1>4 DEF Joins
<1>10. Joins(C, q1, shps, qshps)
  BY <1>2, <1>4, <1>5 DEF Joins
<1>11. Joins(C, s1, he, she)
  BY <1>2, <1>3, <1>4, <1>5 DEF Joins
<1>12. Joins(C, she, s1, shes)
  BY <1>2, <1>3, <1>4, <1>5, <1>6 DEF Joins
<1>13. Joins(C, shes, l1, shesl)
  BY <1>2, <1>4, <1>6 DEF Joins
<1>14. Joins(C, l1, shesl, lshesl)
  BY <1>2, <1>3, <1>4, <1>6 DEF Joins
<1>15. Joins(C, qshps, lshesl, all)
  BY <1>2, <1>3, <1>5, <1>6, <1>7 DEF Joins
<1>16. /\ s1 \o hp = shp /\ shp \o s1 = shps /\ q1 \o shps = qshps /\ s1 \o he = she
       /\ she \o s1 = shes /\ shes \o l1 = shesl /\ l1 \o shesl = lshesl
       /\ qshps \o lshesl = all
  BY <1>2, <1>3, <1>8, <1>9, <1>10, <1>11, <1>12, <1>13, <1>14, <1>15, JoinedIs
<1>17. (q1 \o ((s1 \o hp) \o s1)) \o (l1 \o (((s1 \o he) \o s1) \o l1)) = all
  BY <1>16
<1> QED BY <1>1, <1>17

\* Concatenation is associative, and an instance of it for three given texts.
Three(s, t, u) == s \in Text /\ t \in Text /\ u \in Text
Five(s, t, u, v, w) == Three(s, t, u) /\ v \in Text /\ w \in Text
LEMMA Regroup == \A s, t, u : Three(s, t, u) => (s \o t) \o u = s \o (t \o u)
<1> TAKE s, t, u
<1> QED BY ConcatAssociates DEF Text, Three

TailApart(p, c, v, b, d) ==
  (((p \o c) \o v) \o b) \o d = p \o (c \o ((v \o b) \o d))
LEMMA RegroupTail ==
  ASSUME NEW p, NEW c, NEW v, NEW b, NEW d, Five(p, c, v, b, d)
  PROVE  TailApart(p, c, v, b, d)
<1>0. p \in Text /\ c \in Text /\ v \in Text /\ b \in Text /\ d \in Text
  BY DEF Five, Three
<1>1. p \o c \in Text /\ v \o b \in Text
  BY <1>0, TextConcat
<1>2. (v \o b) \o d \in Text
  BY <1>0, <1>1, TextConcat
<1>3. /\ Three(p \o c, v, b) /\ Three(p \o c, v \o b, d) /\ Three(p, c, (v \o b) \o d)
  BY <1>0, <1>1, <1>2 DEF Three
<1>4. ((p \o c) \o v) \o b = (p \o c) \o (v \o b)
  BY <1>3, Regroup
<1>5. ((p \o c) \o (v \o b)) \o d = (p \o c) \o ((v \o b) \o d)
  BY <1>3, Regroup
<1>6. (p \o c) \o ((v \o b) \o d) = p \o (c \o ((v \o b) \o d))
  BY <1>3, Regroup
<1> QED BY <1>4, <1>5, <1>6 DEF TailApart

NumbersApart(o, bp, n, be, t) ==
  ((o \o bp) \o (n \o (be \o n))) \o t = o \o (bp \o (n \o (be \o (n \o t))))
LEMMA RegroupNumbers ==
  ASSUME NEW o, NEW bp, NEW n, NEW be, NEW t, Five(o, bp, n, be, t)
  PROVE  NumbersApart(o, bp, n, be, t)
<1>0. o \in Text /\ bp \in Text /\ n \in Text /\ be \in Text /\ t \in Text
  BY DEF Five, Three
<1>1. be \o n \in Text /\ n \o t \in Text /\ o \o bp \in Text
  BY <1>0, TextConcat
<1>2. n \o (be \o n) \in Text /\ be \o (n \o t) \in Text
  BY <1>0, <1>1, TextConcat
<1>3. n \o (be \o (n \o t)) \in Text
  BY <1>0, <1>2, TextConcat
<1>4. /\ Three(o \o bp, n \o (be \o n), t) /\ Three(n, be \o n, t) /\ Three(be, n, t)
      /\ Three(o, bp, n \o (be \o (n \o t)))
  BY <1>0, <1>1, <1>2, <1>3 DEF Three
<1>5. ((o \o bp) \o (n \o (be \o n))) \o t = (o \o bp) \o ((n \o (be \o n)) \o t)
  BY <1>4, Regroup
<1>6. (n \o (be \o n)) \o t = n \o ((be \o n) \o t)
  BY <1>4, Regroup
<1>7. (be \o n) \o t = be \o (n \o t)
  BY <1>4, Regroup
<1>8. (o \o bp) \o (n \o (be \o (n \o t))) = o \o (bp \o (n \o (be \o (n \o t))))
  BY <1>4, Regroup
<1> QED BY <1>5, <1>6, <1>7, <1>8 DEF NumbersApart

PathApart(p, o, s, a, r) ==
  p \o (o \o (((s \o a) \o s) \o r)) = (((p \o o) \o (s \o a)) \o s) \o r
LEMMA RegroupPath ==
  ASSUME NEW p, NEW o, NEW s, NEW a, NEW r, Five(p, o, s, a, r)
  PROVE  PathApart(p, o, s, a, r)
<1>0. p \in Text /\ o \in Text /\ s \in Text /\ a \in Text /\ r \in Text
  BY DEF Five, Three
<1>1. s \o a \in Text /\ p \o o \in Text
  BY <1>0, TextConcat
<1>2. (s \o a) \o s \in Text
  BY <1>0, <1>1, TextConcat
<1>3. ((s \o a) \o s) \o r \in Text
  BY <1>0, <1>2, TextConcat
<1>4. /\ Three(p, o, ((s \o a) \o s) \o r) /\ Three(p \o o, (s \o a) \o s, r)
      /\ Three(p \o o, s \o a, s)
  BY <1>0, <1>1, <1>2, <1>3 DEF Three
<1>5. (p \o o) \o (((s \o a) \o s) \o r) = p \o (o \o (((s \o a) \o s) \o r))
  BY <1>4, Regroup
<1>6. ((p \o o) \o ((s \o a) \o s)) \o r = (p \o o) \o (((s \o a) \o s) \o r)
  BY <1>4, Regroup
<1>7. ((p \o o) \o (s \o a)) \o s = (p \o o) \o ((s \o a) \o s)
  BY <1>4, Regroup
<1> QED BY <1>5, <1>6, <1>7 DEF PathApart

\* The command is the path in quotes and then the options, each after a
\* blank, with the numbers to be filled in.
Option(c) == <<Space>> \o <<"-", c>>
BeforeProcess == (quoteArg(Self) \o Option("p")) \o <<Space>>
BeforeEvent == Option("e") \o <<Space>>

\* The command is the quoted path, the two options with a number for each, and
\* the flags.
LEMMA CommandParts ==
  ASSUME OrdinaryInstallation, NEW v \in Text, NEW b \in Text, NEW d \in Text
  PROVE  CommandWith(v, b, d)
         = BeforeProcess \o (<<"%ld">> \o (BeforeEvent \o (<<"%ld">> \o (v \o b \o d))))
<1>1. PICK open, blank, pp, ee, number, close :
        /\ open = <<Quote>> /\ blank = <<Space>> /\ pp = <<"-", "p">> /\ ee = <<"-", "e">>
        /\ number = <<"%ld">>
        /\ close = <<Quote, Space, "-", "p", Space, "%ld", Space, "-", "e", Space, "%ld">>
  OBVIOUS
<1>2. open \in Text /\ blank \in Text /\ pp \in Text /\ ee \in Text /\ number \in Text
  <2>1. pp \in Text /\ ee \in Text
    BY <1>1, OptionIsPlain
  <2> QED BY <1>1, <2>1, Letters, TextConcat
<1>3. Self \in Text /\ quoteArg(Self) = (open \o Self) \o open
  <2>1. \A i \in 1..Len(Self) : Self[i] # Quote
    BY DEF OrdinaryInstallation
  <2>2. Self \in Text
    BY ToolsAssumption DEF ToolsAssumption
  <2> QED BY <1>1, <2>1, <2>2, QuotedPath
<1>4. PICK bp, be, tail, path :
        /\ bp = (blank \o pp) \o blank /\ be = (blank \o ee) \o blank
        /\ tail = (v \o b) \o d /\ path = open \o Self
  OBVIOUS
<1>5. blank \o pp \in Text /\ blank \o ee \in Text /\ v \o b \in Text
  BY <1>2, TextConcat
<1>6. bp \in Text /\ be \in Text /\ tail \in Text /\ path \in Text
  BY <1>2, <1>3, <1>4, <1>5, TextConcat
<1>7. close = (open \o bp) \o (number \o (be \o number))
  <2>1. Quote \in Character /\ Space \in Character /\ "-" \in Character
        /\ "%ld" \in Character /\ "p" \in Character /\ "e" \in Character
    BY Letters
  <2>2. PICK q, s : q = Quote /\ s = Space
    OBVIOUS
  <2>3. Six(Character, q, s, "-", "%ld", "p", "e")
    BY <2>1, <2>2 DEF Six
  <2>4. (<<q>> \o ((<<s>> \o <<"-", "p">>) \o <<s>>))
           \o (<<"%ld">> \o (((<<s>> \o <<"-", "e">>) \o <<s>>) \o <<"%ld">>))
         = <<q, s, "-", "p", s, "%ld", s, "-", "e", s, "%ld">>
    BY <2>3, Spelled
  <2> QED BY <1>1, <1>4, <2>2, <2>4
<1>8. PICK rest : rest = number \o (be \o (number \o tail))
  OBVIOUS
<1>9. rest \in Text /\ close \in Text
  <2>1. number \o tail \in Text /\ be \o number \in Text /\ open \o bp \in Text
    BY <1>2, <1>6, TextConcat
  <2>2. be \o (number \o tail) \in Text /\ number \o (be \o number) \in Text
    BY <1>2, <1>6, <2>1, TextConcat
  <2> QED BY <1>2, <1>7, <1>8, <2>1, <2>2, TextConcat
<1>10. /\ Five(path, close, v, b, d) /\ Five(open, bp, number, be, tail)
       /\ Five(path, open, blank, pp, rest)
  BY <1>2, <1>6, <1>9 DEF Five, Three
<1>11. /\ TailApart(path, close, v, b, d) /\ NumbersApart(open, bp, number, be, tail)
       /\ PathApart(path, open, blank, pp, rest)
  BY <1>10, RegroupTail, RegroupNumbers, RegroupPath
<1>12. (((path \o close) \o v) \o b) \o d = path \o (close \o tail)
  BY <1>4, <1>11 DEF TailApart
<1>13. close \o tail = open \o (bp \o rest)
  BY <1>7, <1>8, <1>11 DEF NumbersApart
<1>14. path \o (open \o (bp \o rest)) = (((path \o open) \o (blank \o pp)) \o blank) \o rest
  BY <1>4, <1>11 DEF PathApart
<1>15. /\ BeforeProcess = ((path \o open) \o (blank \o pp)) \o blank
       /\ BeforeEvent = be
  BY <1>1, <1>3, <1>4 DEF BeforeProcess, BeforeEvent, Option
<1>16. (((path \o close) \o v) \o b) \o d = BeforeProcess \o rest
  BY <1>12, <1>13, <1>14, <1>15
<1>17. szFile = Self
  BY DEF OrdinaryInstallation, szFile
<1> QED BY <1>1, <1>4, <1>8, <1>15, <1>16, <1>17 DEF CommandWith

LEMMA NoNumberJoined ==
  ASSUME NEW s \in Text, NEW t \in Text, NoNumber(s), NoNumber(t)
  PROVE  s \o t \in Text /\ NoNumber(s \o t)
<1>1. PICK w, m, n : w = s \o t /\ m = Len(s) /\ n = Len(t)
  OBVIOUS
<1>2. Joins(Character, s, t, w)
  BY <1>1, ConcatIs DEF Text
<1>3. m \in Nat /\ n \in Nat
  BY <1>1 DEF Text
<1>4. w \in Text /\ Len(w) = m + n
  BY <1>1, <1>2 DEF Joins, Text
<1>5. ASSUME NEW i \in 1..m + n PROVE w[i] # "%ld"
  <2>1. CASE i <= m
    <3>1. i \in 1..m
      BY <1>3, <2>1
    <3> QED BY <1>1, <1>2, <3>1 DEF Joins, NoNumber
  <2>2. CASE i > m
    <3>1. i - m \in 1..n /\ m + (i - m) = i
      BY <1>3, <2>2
    <3> QED BY <1>1, <1>2, <3>1 DEF Joins, NoNumber
  <2> QED BY <1>3, <2>1, <2>2
<1> QED BY <1>1, <1>4, <1>5 DEF NoNumber

\* The texts between the numbers have none.
LEMMA BetweenNumbers ==
  ASSUME OrdinaryInstallation
  PROVE  /\ quoteArg(Self) \in Text /\ Option("p") \in Text /\ Option("e") \in Text
         /\ <<Space>> \in Text
         /\ BeforeProcess \in Text /\ NoNumber(BeforeProcess)
         /\ BeforeEvent \in Text /\ NoNumber(BeforeEvent)
<1>1. Self \in Text /\ <<Quote>> \in Text /\ <<Space>> \in Text
  BY Letters, TextConcat, ToolsAssumption DEF ToolsAssumption
<1>2. NoNumber(Self) /\ quoteArg(Self) = (<<Quote>> \o Self) \o <<Quote>>
  <2>1. \A i \in 1..Len(Self) : Self[i] # Quote /\ Self[i] # "%ld"
    BY DEF OrdinaryInstallation
  <2> QED BY <1>1, <2>1, QuotedPath DEF NoNumber
<1>3. NoNumber(<<Quote>>) /\ NoNumber(<<Space>>)
  <2>1. Space # "%ld"
    BY Zenon DEF Space
  <2>2. ASSUME NEW c, c # "%ld" PROVE NoNumber(<<c>>)
    BY <2>2 DEF NoNumber
  <2> QED BY <2>1, <2>2, QuoteIsNone
<1>4. quoteArg(Self) \in Text /\ NoNumber(quoteArg(Self))
  <2>1. <<Quote>> \o Self \in Text /\ NoNumber(<<Quote>> \o Self)
    BY <1>1, <1>2, <1>3, NoNumberJoined
  <2> QED BY <1>1, <1>2, <1>3, <2>1, NoNumberJoined
<1>5. ASSUME NEW c \in {"p", "e"} PROVE Option(c) \in Text /\ NoNumber(Option(c))
  BY <1>1, <1>3, OptionIsPlain, NoNumberJoined DEF Option
<1>6. quoteArg(Self) \o Option("p") \in Text /\ NoNumber(quoteArg(Self) \o Option("p"))
  BY <1>4, <1>5, NoNumberJoined
<1> QED BY <1>1, <1>3, <1>4, <1>5, <1>6, NoNumberJoined DEF BeforeProcess, BeforeEvent

\* A text from which the reader takes these arguments.
LineReads(text, args) ==
  text \in Text /\ args \in Texts /\ Reads(ReadFrom(Between(<<>>), text), args)

\* The command line goes on with an argument that needs no quotes.
LEMMA LineNext ==
  ASSUME NEW text, NEW args, LineReads(text, args),
         NEW arg \in Text, arg # <<>>, Plain(arg)
  PROVE  /\ LineReads(text \o (<<Space>> \o arg), Append(args, arg))
         /\ LineReads((text \o <<Space>>) \o arg, Append(args, arg))
<1>1. PICK blank : blank = <<Space>>
  OBVIOUS
<1>2. blank \in Text /\ text \in Text /\ args \in Texts
  BY <1>1, Letters, TextConcat DEF LineReads
<1>3. blank \o arg \in Text
  BY <1>2, TextConcat
<1>4. text \o (blank \o arg) \in Text
  BY <1>2, <1>3, TextConcat
<1>5. Append(args, arg) \in Texts
  BY <1>2 DEF Texts
<1>6. Between(<<>>) \in ReaderState
  BY ReadStartTypes DEF Between, State, ReadStart
<1>7. ReadFrom(Between(<<>>), text \o (blank \o arg))
      = ReadFrom(ReadFrom(Between(<<>>), text), blank \o arg)
  BY <1>2, <1>3, <1>6, ReadConcat
<1>8. Reads(ReadFrom(ReadFrom(Between(<<>>), text), blank \o arg), Append(args, arg))
  BY <1>1, ReadsNext DEF LineReads
<1>9. LineReads(text \o (blank \o arg), Append(args, arg))
  BY <1>4, <1>5, <1>7, <1>8 DEF LineReads
<1>10. (text \o blank) \o arg = text \o (blank \o arg)
  <2>1. Three(text, blank, arg)
    BY <1>2 DEF Three
  <2> QED BY <2>1, Regroup
<1> QED BY <1>1, <1>9, <1>10

\* The command line goes on with a flag.
LEMMA LineFlag ==
  ASSUME NEW text, NEW args, LineReads(text, args), NEW flag \in BOOLEAN,
         NEW c \in {"v", "b", "d"}
  PROVE  LineReads(text \o FlagText(flag, c), args \o FlagArg(flag, c))
<1>1. /\ Reads(ReadFrom(ReadFrom(Between(<<>>), text), FlagText(flag, c)),
               args \o FlagArg(flag, c))
      /\ args \o FlagArg(flag, c) \in Texts /\ FlagText(flag, c) \in Text
  BY ReadsFlag DEF LineReads
<1>2. Between(<<>>) \in ReaderState
  BY ReadStartTypes DEF Between, State, ReadStart
<1>3. ReadFrom(Between(<<>>), text \o FlagText(flag, c))
      = ReadFrom(ReadFrom(Between(<<>>), text), FlagText(flag, c))
  BY <1>1, <1>2, ReadConcat DEF LineReads
<1>4. text \o FlagText(flag, c) \in Text
  BY <1>1, TextConcat DEF LineReads
<1> QED BY <1>1, <1>3, <1>4 DEF LineReads

LEMMA FiveArguments ==
  ASSUME NEW a \in Text, NEW b \in Text, NEW c \in Text, NEW d \in Text, NEW e \in Text
  PROVE  Append(Append(Append(Append(Append(<<>>, a), b), c), d), e) = <<a, b, c, d, e>>
<1>1. PICK one, two, three, four, five :
        /\ one = Append(<<>>, a) /\ two = Append(one, b) /\ three = Append(two, c)
        /\ four = Append(three, d) /\ five = Append(four, e)
  OBVIOUS
<1>2. one \in Seq(Text) /\ Len(one) = 1 /\ one[1] = a
  BY <1>1
<1>3. two \in Seq(Text) /\ Len(two) = 2 /\ two[1] = a /\ two[2] = b
  BY <1>1, <1>2
<1>4. three \in Seq(Text) /\ Len(three) = 3 /\ three[1] = a /\ three[2] = b /\ three[3] = c
  BY <1>1, <1>3
<1>5. /\ four \in Seq(Text) /\ Len(four) = 4
      /\ four[1] = a /\ four[2] = b /\ four[3] = c /\ four[4] = d
  BY <1>1, <1>4
<1>6. /\ five \in Seq(Text) /\ Len(five) = 5
      /\ five[1] = a /\ five[2] = b /\ five[3] = c /\ five[4] = d /\ five[5] = e
  BY <1>1, <1>5
<1>7. PICK all : all = <<a, b, c, d, e>>
  OBVIOUS
<1>8. /\ all \in Seq(Text) /\ Len(all) = 5
      /\ all[1] = a /\ all[2] = b /\ all[3] = c /\ all[4] = d /\ all[5] = e
  BY <1>7
<1>9. \A i \in 1..5 : five[i] = all[i]
  BY <1>6, <1>8
<1>10. five = all
  BY <1>6, <1>8, <1>9, SameElements
<1> QED BY <1>1, <1>7, <1>10

AskedFlags == [verbose_flag : BOOLEAN, breakpoint_flag : BOOLEAN, debug_flag : BOOLEAN]

\* The five first arguments, from the command with the numbers filled in.
LEMMA FirstFiveRead ==
  ASSUME OrdinaryInstallation
  PROVE  LineReads(((BeforeProcess \o ProcessId) \o BeforeEvent) \o EventHandle,
                   <<Self, <<"-", "p">>, ProcessId, <<"-", "e">>, EventHandle>>)
<1>1. /\ Self \in Text /\ ProcessId \in Text /\ EventHandle \in Text
      /\ Self # <<>> /\ ProcessId # <<>> /\ EventHandle # <<>>
      /\ Self[Len(Self)] # Backslash /\ Plain(ProcessId) /\ Plain(EventHandle)
  <2>1. Self \in Text /\ ProcessId \in Text /\ EventHandle \in Text
    BY ToolsAssumption DEF ToolsAssumption
  <2>2. /\ Self # <<>> /\ Self[Len(Self)] # Backslash /\ ProcessId # <<>> /\ EventHandle # <<>>
        /\ ProcessId \in Seq(Decimal) /\ EventHandle \in Seq(Decimal)
    BY DEF OrdinaryInstallation
  <2> QED BY <2>1, <2>2, DecimalIsPlain
<1>2. PICK P, E : P = <<"-", "p">> /\ E = <<"-", "e">>
  OBVIOUS
<1>3. P \in Text /\ P # <<>> /\ Plain(P) /\ E \in Text /\ E # <<>> /\ Plain(E)
  BY <1>2, OptionIsPlain
<1>4. PICK a1, a2, a3, a4, a5 :
        /\ a1 = Append(<<>>, Self) /\ a2 = Append(a1, P) /\ a3 = Append(a2, ProcessId)
        /\ a4 = Append(a3, E) /\ a5 = Append(a4, EventHandle)
  OBVIOUS
<1>5. LineReads(quoteArg(Self), a1)
  <2>1. <<>> \in Texts
    BY DEF Texts
  <2>2. HasRead(ReadFrom(Between(<<>>), quoteArg(Self)), <<>>, Self, FALSE)
    BY <1>1, <2>1, ReadQuoted
  <2>3. a1 \in Texts
    BY <1>1, <1>4, <2>1 DEF Texts
  <2> QED BY <1>1, <1>4, <2>1, <2>2, <2>3, BetweenNumbers DEF LineReads, Reads
<1>6. LineReads(quoteArg(Self) \o Option("p"), a2)
  BY <1>2, <1>3, <1>4, <1>5, LineNext DEF Option
<1>7. LineReads(BeforeProcess \o ProcessId, a3)
  BY <1>1, <1>4, <1>6, LineNext DEF BeforeProcess
<1>8. PICK t3 : t3 = BeforeProcess \o ProcessId
  OBVIOUS
<1>9. LineReads(t3 \o Option("e"), a4)
  BY <1>2, <1>3, <1>4, <1>7, <1>8, LineNext DEF Option
<1>10. LineReads((t3 \o Option("e")) \o <<Space>> \o EventHandle, a5)
  BY <1>1, <1>4, <1>9, LineNext
<1>11. (t3 \o Option("e")) \o <<Space>> = t3 \o BeforeEvent
  <2>1. PICK blank, oe : blank = <<Space>> /\ oe = Option("e")
    OBVIOUS
  <2>2. Three(t3, oe, blank)
    BY <1>7, <1>8, <2>1, BetweenNumbers DEF LineReads, Three
  <2>3. (t3 \o oe) \o blank = t3 \o (oe \o blank)
    BY <2>2, Regroup
  <2> QED BY <2>1, <2>3 DEF BeforeEvent
<1>12. a5 = <<Self, P, ProcessId, E, EventHandle>>
  BY <1>1, <1>3, <1>4, FiveArguments
<1> QED BY <1>2, <1>8, <1>10, <1>11, <1>12

\* The command that install writes for the flags f becomes, with the numbers
\* filled in and split into arguments, the line for f.
LEMMA CommandReadBack ==
  ASSUME OrdinaryInstallation, NEW f \in AskedFlags
  PROVE  /\ ArgumentsOf(Substituted(CommandFor(f))) = LineFor(f)
         /\ LineFor(f) \in Texts
<1>1. PICK v, b, d : /\ v = FlagText(f.verbose_flag, "v")
                     /\ b = FlagText(f.breakpoint_flag, "b")
                     /\ d = FlagText(f.debug_flag, "d")
  OBVIOUS
<1>2. f.verbose_flag \in BOOLEAN /\ f.breakpoint_flag \in BOOLEAN /\ f.debug_flag \in BOOLEAN
  BY DEF AskedFlags
<1>3. PICK line5, text5 :
        /\ line5 = <<Self, <<"-", "p">>, ProcessId, <<"-", "e">>, EventHandle>>
        /\ text5 = ((BeforeProcess \o ProcessId) \o BeforeEvent) \o EventHandle
  OBVIOUS
<1>4. LineReads(text5, line5)
  BY <1>3, FirstFiveRead
<1>5. LineReads(text5 \o v, line5 \o FlagArg(f.verbose_flag, "v"))
  BY <1>1, <1>2, <1>4, LineFlag
<1>6. LineReads((text5 \o v) \o b,
                (line5 \o FlagArg(f.verbose_flag, "v")) \o FlagArg(f.breakpoint_flag, "b"))
  BY <1>1, <1>2, <1>5, LineFlag
<1>7. LineReads(((text5 \o v) \o b) \o d, LineFor(f))
  <2>1. LineReads(((text5 \o v) \o b) \o d,
                  ((line5 \o FlagArg(f.verbose_flag, "v")) \o FlagArg(f.breakpoint_flag, "b"))
                     \o FlagArg(f.debug_flag, "d"))
    BY <1>1, <1>2, <1>6, LineFlag
  <2> QED BY <1>3, <2>1 DEF LineFor
<1>8. v \in Text /\ b \in Text /\ d \in Text /\ NoNumber(v) /\ NoNumber(b) /\ NoNumber(d)
  BY <1>1, <1>2, <1>4, ReadsFlag DEF LineReads
<1>9. PICK tail : tail = (v \o b) \o d
  OBVIOUS
<1>10. tail \in Text /\ NoNumber(tail)
  BY <1>8, <1>9, NoNumberJoined
<1>11. PICK p, e : p = Len(BeforeProcess) + 1 /\ e = p + Len(BeforeEvent) + 1
  OBVIOUS
<1>12. CommandFor(f) = BeforeProcess \o (<<"%ld">> \o (BeforeEvent \o (<<"%ld">> \o tail)))
  <2>1. CommandWith(v, b, d) = BeforeProcess \o (<<"%ld">> \o (BeforeEvent \o (<<"%ld">> \o (v \o b \o d))))
    BY <1>8, CommandParts
  <2>2. CommandFor(f) = CommandWith(v, b, d)
    BY <1>1 DEF CommandFor
  <2> QED BY <1>9, <2>1, <2>2
<1>13. Around(Character, "%ld", BeforeProcess, BeforeEvent, tail, CommandFor(f), p, e)
  <2>1. "%ld" \in Character
    BY Letters
  <2> QED BY <1>10, <1>11, <1>12, <2>1, BetweenNumbers DEF Around, NoNumber, Text
<1>14. Substituted(CommandFor(f)) = text5 \o tail
  BY <1>3, <1>13, FilledIn
<1>15. text5 \o tail = ((text5 \o v) \o b) \o d
  <2>1. v \o b \in Text /\ text5 \in Text
    BY <1>4, <1>8, TextConcat DEF LineReads
  <2>2. Three(text5, v, b) /\ Three(text5, v \o b, d)
    BY <1>8, <2>1 DEF Three
  <2>3. (text5 \o v) \o b = text5 \o (v \o b)
    BY <2>2, Regroup
  <2>4. (text5 \o (v \o b)) \o d = text5 \o ((v \o b) \o d)
    BY <2>2, Regroup
  <2> QED BY <1>9, <2>3, <2>4
<1>16. ArgumentsOf(((text5 \o v) \o b) \o d) = LineFor(f)
  BY <1>7, ReadsAll DEF LineReads
<1> QED BY <1>7, <1>14, <1>15, <1>16 DEF LineReads

-----------------------------------------------------------------------------
(* The calls of getopt for that command line *)

\* The letters of the command's options.
Letters5 == {"p", "e", "v", "b", "d"}

\* A long option by its first letter.
LEMMA ByLetter ==
  ASSUME NEW c \in Letters5, NEW text, text = <<c>>
  PROVE  /\ text \in Text /\ Assigned(text) = NULL
         /\ Exact(text, DrmingwLongOptions) = {}
         /\ Abbreviated(text, DrmingwLongOptions)
              = {i \in 1..10 : DrmingwLongOptions[i].name[1] = c}
<1>1. text \in Text /\ Len(text) = 1 /\ text[1] = c
  BY Letters DEF Text, Letters5
<1>2. c # "="
  BY Zenon DEF Letters5
<1>3. Assign(text) = {}
  BY <1>1, <1>2 DEF Assign
<1>4. Stem(text) = text /\ Assigned(text) = NULL
  BY <1>3 DEF Stem, Assigned
<1> DEFINE name(i) == DrmingwLongOptions[i].name
<1>5. DOMAIN DrmingwLongOptions = 1..10
  BY LongOptionsAre
<1>6. ASSUME NEW i \in 1..10 PROVE name(i) \in Seq(NameLetters) /\ Len(name(i)) >= 3 /\ Len(name(i)) \in Nat
  <2>1. i \in {1, 2, 3, 4, 5, 6, 7, 8, 9, 10}
    OBVIOUS
  <2>2. name(i) \in Seq(NameLetters)
    BY <1>5, NoNameBegins DEF LongNames
  <2>3. Len(name(i)) \in {3, 4, 5, 7, 9, 10}
    BY <2>1, LongOptionsAre DEF IsNamed
  <2>4. \A n \in {3, 4, 5, 7, 9, 10} : n >= 3 /\ n \in Nat
    OBVIOUS
  <2> QED BY <2>2, <2>3, <2>4, Zenon
<1> HIDE DEF name
<1>7. ASSUME NEW i \in 1..10
      PROVE  /\ name(i) # text
             /\ Begins(text, name(i)) <=> name(i)[1] = c
  <2>1. name(i) \in Seq(NameLetters) /\ Len(name(i)) >= 3 /\ Len(name(i)) \in Nat
    BY <1>6
  <2>2. PICK first : first = SubSeq(name(i), 1, 1)
    OBVIOUS
  <2>3. first \in Seq(NameLetters) /\ Len(first) = 1 /\ first[1] = name(i)[1]
    BY <2>1, <2>2
  <2>4. first = text <=> first[1] = c
    <3>1. first = <<first[1]>>
      BY <2>3
    <3> QED BY <1>1, <3>1
  <2>5. Begins(text, name(i)) <=> first = text
    BY <1>1, <2>1, <2>2 DEF Begins
  <2>6. name(i) # text
    <3>1. PICK m : m = Len(name(i))
      OBVIOUS
    <3>2. m >= 3 /\ m \in Nat
      BY <2>1, <3>1, Zenon
    <3>3. m # 1
      BY <3>2
    <3> QED BY <1>1, <3>1, <3>3, Zenon
  <2> QED BY <2>3, <2>4, <2>5, <2>6
<1>8. ASSUME NEW i \in 1..10
      PROVE  /\ getoptW_match_long(text, name(i)) # "exact"
             /\ getoptW_match_long(text, name(i)) = "abbreviated" <=> name(i)[1] = c
  <2>1. name(i) \in Seq(NameLetters)
    BY <1>6
  <2>2. /\ getoptW_match_long(text, name(i)) = "exact" <=> name(i) = Stem(text)
        /\ getoptW_match_long(text, name(i)) = "abbreviated"
             <=> name(i) # Stem(text) /\ Begins(Stem(text), name(i))
    BY <1>1, <2>1, MatchLongIs
  <2> QED BY <1>4, <1>7, <2>2
<1>9. /\ Exact(text, DrmingwLongOptions) = {}
      /\ Abbreviated(text, DrmingwLongOptions) = {i \in 1..10 : name(i)[1] = c}
  BY <1>5, <1>8 DEF Exact, Abbreviated, name
<1> QED BY <1>1, <1>4, <1>9 DEF name

LEMMA FirstLetters ==
  ASSUME NEW c \in Letters5, NEW text, text = <<c>>
  PROVE  LET some == Abbreviated(text, DrmingwLongOptions) IN
         /\ c = "p" => some = {5}
         /\ c = "e" => some = {6}
         /\ c = "b" => some = {8}
         /\ c = "d" => some = {10}
         /\ c = "v" => some = {2, 9}
<1> DEFINE first(i) == DrmingwLongOptions[i].name[1]
<1>1. /\ first(1) = "h" /\ first(2) = "v" /\ first(3) = "i" /\ first(4) = "u"
      /\ first(5) = "p" /\ first(6) = "e" /\ first(7) = "t" /\ first(8) = "b"
      /\ first(9) = "v" /\ first(10) = "d"
  BY LongOptionsAre DEF IsNamed
<1>2. Abbreviated(text, DrmingwLongOptions) = {i \in 1..10 : first(i) = c}
  BY ByLetter
<1> HIDE DEF first
<1>3. \A i \in 1..10 : i \in {1, 2, 3, 4, 5, 6, 7, 8, 9, 10}
  OBVIOUS
<1>4. {i \in 1..10 : first(i) = "p"} = {5}
  BY <1>1, <1>3
<1>5. {i \in 1..10 : first(i) = "e"} = {6}
  BY <1>1, <1>3
<1>6. {i \in 1..10 : first(i) = "b"} = {8}
  BY <1>1, <1>3
<1>7. {i \in 1..10 : first(i) = "d"} = {10}
  BY <1>1, <1>3
<1>8. {i \in 1..10 : first(i) = "v"} = {2, 9}
  BY <1>1, <1>3
<1> QED BY <1>2, <1>4, <1>5, <1>6, <1>7, <1>8

LEMMA LeastOfOne ==
  ASSUME NEW i \in Nat
  PROVE  Least({i}) = i
<1>1. Least({i}) \in {i}
  BY LeastIs
<1> QED BY <1>1

\* The long options that -p, -e, -b and -d abbreviate.
LEMMA OptionRows ==
  /\ DrmingwLongOptions[5].has_arg = "required" /\ DrmingwLongOptions[5].val = "p"
  /\ DrmingwLongOptions[6].has_arg = "required" /\ DrmingwLongOptions[6].val = "e"
  /\ DrmingwLongOptions[8].has_arg = "no" /\ DrmingwLongOptions[8].val = "b"
  /\ DrmingwLongOptions[10].has_arg = "no" /\ DrmingwLongOptions[10].val = "d"
<1>1. DrmingwLongOptions[5].has_arg = "required" /\ DrmingwLongOptions[5].val = "p"
  BY DEF DrmingwLongOptions
<1>2. DrmingwLongOptions[6].has_arg = "required" /\ DrmingwLongOptions[6].val = "e"
  BY DEF DrmingwLongOptions
<1>3. DrmingwLongOptions[8].has_arg = "no" /\ DrmingwLongOptions[8].val = "b"
  BY DEF DrmingwLongOptions
<1>4. DrmingwLongOptions[10].has_arg = "no" /\ DrmingwLongOptions[10].val = "d"
  BY DEF DrmingwLongOptions
<1> QED BY <1>1, <1>2, <1>3, <1>4

\* -v begins two names; as a short option it takes no argument.
LEMMA VerboseIsShort ==
  /\ getoptW_match("v", DrmingwOptions) # 0
  /\ ~takes_argument(getoptW_match("v", DrmingwOptions), DrmingwOptions)
<1>1. PICK at : at = getoptW_match("v", DrmingwOptions)
  OBVIOUS
<1>2. Len(DrmingwOptions) = 14 /\ DrmingwOptions[12] = "v"
  BY DEF DrmingwOptions
<1>3. at \in 1..14 /\ DrmingwOptions[at] = "v"
  <2>1. /\ at = 0 \/ (at \in 1..Len(DrmingwOptions) /\ DrmingwOptions[at] = "v")
        /\ at = 0 <=> \A i \in 1..Len(DrmingwOptions) : DrmingwOptions[i] # "v"
    BY <1>1, DrmingwOptionsAre, MatchIs
  <2>2. 12 \in 1..14
    OBVIOUS
  <2> QED BY <1>2, <2>1, <2>2
<1>4. at = 12
  <2>1. 12 \in 1..Len(DrmingwOptions) /\ at \in 1..Len(DrmingwOptions)
    BY <1>2, <1>3
  <2> QED BY <1>2, <1>3, <2>1, DrmingwOptionsAre DEF OptString
<1>5. DrmingwOptions[13] # ":"
  BY DEF DrmingwOptions
<1> QED BY <1>1, <1>2, <1>4, <1>5 DEF takes_argument

\* Where getopt is between two calls, in a line without operands.
StandsAt(st, line, a) ==
  /\ DOMAIN st = Fields /\ st.argv = line /\ st.nextchar = <<>>
  /\ st.argind = a /\ st.optind = a + 1
  /\ st.optmark = st.optbase /\ st.optbase \in 0..a

\* One of the options of the command, looked up.
LEMMA LetterFound ==
  ASSUME NEW line \in Texts, NEW a \in Nat, a < Len(line),
         NEW s, DOMAIN s = Fields, s.argv = line, s.argind = a,
         s.optmark = s.optbase, s.optbase \in 0..a,
         NEW c \in Letters5, NEW text, text = <<c>>,
         NEW r, r = LongOption(s, "long_only", text, DrmingwOptions, DrmingwLongOptions)
  PROVE  /\ r.ret = c \/ (c \in {"p", "e"} /\ a + 1 >= Len(line))
         /\ c \in {"v", "b", "d"} => StandsAt(r.g, line, a)
         /\ c \in {"p", "e"} /\ a + 1 < Len(line) =>
              StandsAt(r.g, line, a + 1) /\ r.g.optarg = line[a + 2]
<1> DEFINE exact == Exact(text, DrmingwLongOptions)
           abbreviated == Abbreviated(text, DrmingwLongOptions)
           decisive == Decisive(text, DrmingwLongOptions)
           t == [s EXCEPT !.nextchar = text,
                          !.optarg = IF exact \cup abbreviated = {} THEN NULL ELSE Assigned(text)]
           short == getoptW_verify(text, DrmingwOptions)
<1>1. r = CASE decisive # {} /\ Least(decisive) \notin abbreviated ->
                 getoptW_resolved(t, DrmingwLongOptions[Least(decisive)], DrmingwOptions)
            [] decisive = {} /\ abbreviated # {} ->
                 getoptW_resolved(t, DrmingwLongOptions[Least(abbreviated)], DrmingwOptions)
            [] OTHER -> IF short THEN ShortOption(t, "long_only", DrmingwOptions)
                        ELSE NotResolved(t)
  BY DEF LongOption, Exact, Abbreviated, Decisive
<1>2. /\ exact = {} /\ Assigned(text) = NULL
      /\ decisive = {i \in abbreviated : \E j \in abbreviated : j < i}
  BY ByLetter DEF Decisive
<1>3. /\ DOMAIN t = Fields /\ t.argv = line /\ t.argind = a /\ t.optmark = t.optbase
      /\ t.optbase \in 0..a /\ t.nextchar = text /\ t.optarg = NULL
  <2> HIDE DEF exact, abbreviated
  <2> QED BY <1>2 DEF Fields
<1>4. /\ c = "p" => abbreviated = {5}
      /\ c = "e" => abbreviated = {6}
      /\ c = "b" => abbreviated = {8}
      /\ c = "d" => abbreviated = {10}
      /\ c = "v" => abbreviated = {2, 9}
  BY FirstLetters
<1>5. Len(line) \in Nat /\ Len(text) = 1 /\ text[1] = c
  BY DEF Texts
<1> HIDE DEF exact, abbreviated, decisive, t, short
<1>6. ASSUME NEW i \in Nat, abbreviated = {i}
      PROVE  r = getoptW_resolved(t, DrmingwLongOptions[i], DrmingwOptions)
  <2>1. decisive = {}
    BY <1>2, <1>6
  <2>2. abbreviated # {} /\ Least(abbreviated) = i
    BY <1>6, LeastOfOne
  <2> QED BY <1>1, <2>1, <2>2
<1>7. ASSUME NEW o, o.has_arg = "no", r = getoptW_resolved(t, o, DrmingwOptions)
      PROVE  r.ret = o.val /\ StandsAt(r.g, line, a)
  <2>1. PICK done : done = [t EXCEPT !.optind = t.argind + 1, !.nextchar = <<>>]
    OBVIOUS
  <2>2. /\ DOMAIN done = Fields /\ done.argv = line /\ done.argind = a
        /\ done.optmark = done.optbase /\ done.optbase \in 0..a /\ done.nextchar = <<>>
        /\ done.optarg = NULL /\ done.optind = a + 1
    BY <1>3, <2>1 DEF Fields
  <2>3. r = [g |-> done, ret |-> o.val]
    BY <1>7, <2>1, <2>2 DEF getoptW_resolved
  <2> QED BY <2>2, <2>3 DEF StandsAt
<1>8. ASSUME NEW o, o.has_arg = "required", a + 1 < Len(line),
             r = getoptW_resolved(t, o, DrmingwOptions)
      PROVE  r.ret = o.val /\ StandsAt(r.g, line, a + 1) /\ r.g.optarg = line[a + 2]
  <2>1. PICK done : done = [t EXCEPT !.optind = t.argind + 1, !.nextchar = <<>>]
    OBVIOUS
  <2>2. /\ DOMAIN done = Fields /\ done.argv = line /\ done.argind = a
        /\ done.optmark = done.optbase /\ done.optbase \in 0..a /\ done.nextchar = <<>>
        /\ done.optarg = NULL /\ done.optind = a + 1
    BY <1>3, <2>1 DEF Fields
  <2>3. done.optind < argc(done)
    BY <1>8, <2>2 DEF argc
  <2> DEFINE b == Arg(done, done.optind)
             k == done.optind
  <2>4. r.ret = o.val /\ r.g = [done EXCEPT !.optarg = b, !.argind = k, !.optind = k + 1]
    BY <1>8, <2>1, <2>2, <2>3 DEF getoptW_resolved
  <2>5. b = line[a + 2] /\ k = a + 1
    <3>1. (a + 1) + 1 = a + 2
      OBVIOUS
    <3> QED BY <2>2, <3>1 DEF Arg
  <2> HIDE DEF b, k
  <2>6. /\ DOMAIN r.g = Fields /\ r.g.argv = line /\ r.g.argind = a + 1 /\ r.g.nextchar = <<>>
        /\ r.g.optmark = r.g.optbase /\ r.g.optbase \in 0..a /\ r.g.optind = (a + 1) + 1
        /\ r.g.optarg = line[a + 2] /\ r.ret = o.val
    BY <2>2, <2>4, <2>5 DEF Fields
  <2>7. r.g.optbase \in 0..a + 1
    BY <2>6
  <2> QED BY <2>6, <2>7 DEF StandsAt
<1>9. CASE c = "b"
  <2>1. r = getoptW_resolved(t, DrmingwLongOptions[8], DrmingwOptions)
    BY <1>4, <1>6, <1>9
  <2> QED BY <1>7, <1>9, <2>1, OptionRows
<1>10. CASE c = "d"
  <2>1. r = getoptW_resolved(t, DrmingwLongOptions[10], DrmingwOptions)
    BY <1>4, <1>6, <1>10
  <2> QED BY <1>7, <1>10, <2>1, OptionRows
<1>11. CASE c = "p" /\ a + 1 < Len(line)
  <2>1. r = getoptW_resolved(t, DrmingwLongOptions[5], DrmingwOptions)
    BY <1>4, <1>6, <1>11
  <2> QED BY <1>8, <1>11, <2>1, OptionRows
<1>12. CASE c = "e" /\ a + 1 < Len(line)
  <2>1. r = getoptW_resolved(t, DrmingwLongOptions[6], DrmingwOptions)
    BY <1>4, <1>6, <1>12
  <2> QED BY <1>8, <1>12, <2>1, OptionRows
<1>13. CASE c = "v"
  <2>1. decisive = {9} /\ abbreviated = {2, 9}
    <3>1. {i \in {2, 9} : \E j \in {2, 9} : j < i} = {9}
      OBVIOUS
    <3> QED BY <1>2, <1>4, <1>13, <3>1
  <2>2. Least(decisive) = 9
    BY <2>1, LeastOfOne
  <2>3. PICK at : at = getoptW_match("v", DrmingwOptions)
    OBVIOUS
  <2>4. at # 0 /\ ~takes_argument(at, DrmingwOptions)
    BY <2>3, VerboseIsShort
  <2>5. short
    <3>1. \A j \in 1..1 : getoptW_match(text[j], DrmingwOptions) # 0
      BY <1>5, <1>13, <2>3, <2>4
    <3> QED BY <1>5, <3>1 DEF short, getoptW_verify
  <2>6. r = ShortOption(t, "long_only", DrmingwOptions)
    BY <1>1, <2>1, <2>2, <2>5
  <2>7. Head(t.nextchar) = "v" /\ Tail(t.nextchar) = <<>>
    BY <1>3, <1>13
  <2>8. PICK read : read = [t EXCEPT !.nextchar = <<>>, !.optopt = "v"]
    OBVIOUS
  <2>9. DOMAIN read = Fields /\ read.argv = line /\ read.argind = a /\ read.nextchar = <<>>
         /\ read.optmark = read.optbase /\ read.optbase \in 0..a
    BY <1>3, <2>8 DEF Fields
  <2>10. r.ret = "v" /\ r.g = [read EXCEPT !.optarg = NULL, !.optind = t.argind + 1]
    <3> DEFINE next == IF Tail(t.nextchar) # <<>> THEN t.argind ELSE t.argind + 1
               found == getoptW_match(Head(t.nextchar), DrmingwOptions)
               first == [t EXCEPT !.nextchar = Tail(t.nextchar), !.optopt = Head(t.nextchar)]
    <3>1. found # 0 /\ ~takes_argument(found, DrmingwOptions)
            => ShortOption(t, "long_only", DrmingwOptions)
               = [g |-> [first EXCEPT !.optarg = NULL, !.optind = next], ret |-> Head(t.nextchar)]
      BY DEF ShortOption
    <3>2. next = t.argind + 1 /\ found = at /\ first = read
      BY <2>3, <2>7, <2>8
    <3> HIDE DEF next, found, first
    <3> QED BY <2>4, <2>6, <2>7, <3>1, <3>2
  <2>11. /\ DOMAIN r.g = Fields /\ r.g.argv = line /\ r.g.argind = a /\ r.g.nextchar = <<>>
         /\ r.g.optmark = r.g.optbase /\ r.g.optbase \in 0..a /\ r.g.optind = a + 1
         /\ r.ret = "v"
    <3>1. t.argind = a
      BY <1>3
    <3>2. PICK k : k = t.argind + 1
      OBVIOUS
    <3>3. r.g = [read EXCEPT !.optarg = NULL, !.optind = k]
      BY <2>10, <3>2
    <3> QED BY <2>10, <2>9, <3>1, <3>2, <3>3 DEF Fields
  <2> QED BY <1>13, <2>11 DEF StandsAt
<1> QED BY <1>5, <1>9, <1>10, <1>11, <1>12, <1>13 DEF Letters5

\* What getopt finds there: the next argument is an option, or none is left.
ScannedTo(line, a, r) ==
  \E s : /\ DOMAIN s = Fields /\ s.argv = line /\ s.optbase = a + 1
         /\ s.argind = a + 1 /\ s.optmark = a + 1
         /\ r = Candidate(s, "long_only", DrmingwOptions, DrmingwLongOptions)

\* The next argument of a line of options only, or its end.
LEMMA ScansOn ==
  ASSUME NEW line \in Texts, NEW a \in Nat, a < Len(line), NEW st, StandsAt(st, line, a),
         NEW r, r = getoptW_parse(st, "long_only", DrmingwOptions, DrmingwLongOptions)
  PROVE  /\ a + 1 < Len(line) /\ is_option(line[a + 2]) => ScannedTo(line, a, r)
         /\ a + 1 = Len(line) => r.g.argv = line /\ r.ret = "done"
<1>1. /\ DOMAIN st = Fields /\ st.argv = line /\ st.nextchar = <<>> /\ st.argind = a
      /\ st.optind = a + 1 /\ st.optmark = st.optbase /\ st.optbase \in 0..a
  BY DEF StandsAt
<1>2. Len(line) \in Nat
  BY DEF Texts
<1>3. Resumed(st) = st
  <2>1. ~(st.optind < 1 \/ st.optind < st.optbase) /\ ~(st.optind > st.argind + 1)
    BY <1>1
  <2> QED BY <2>1 DEF Resumed
<1>4. PICK p : p = [st EXCEPT !.optbase = st.argind + 1]
  OBVIOUS
<1>5. /\ DOMAIN p = Fields /\ p.argv = line /\ p.nextchar = <<>> /\ p.argind = a
      /\ p.optind = a + 1 /\ p.optbase = a + 1
  BY <1>1, <1>4 DEF Fields
<1>6. r = Scan(p, "long_only", DrmingwOptions, DrmingwLongOptions)
  <2>1. Permuted(st) = p
    BY <1>1, <1>4 DEF Permuted
  <2> QED BY <1>1, <1>3, <2>1 DEF getoptW_parse
<1> DEFINE found == {k \in p.argind + 1 .. argc(p) - 1 : is_option(Arg(p, k))}
           next == p.argind + 1
           stop == DrmingwOptions # <<>> /\ DrmingwOptions[1] \in {"+", "-"}
                     /\ next < argc(p) /\ next \notin found
           Left(k) == IF Arg(p, k) = <<"-">> THEN <<>> ELSE Arg(p, k)
           At(k) == [p EXCEPT !.argind = k, !.optmark = k, !.nextchar = Left(k)]
           last == IF next < argc(p) THEN At(argc(p) - 1) ELSE p
<1>7. /\ ~stop /\ found = {} =>
           r = [g |-> [last EXCEPT !.argind = argc(p), !.optind = p.optbase], ret |-> "done"]
      /\ ~stop /\ found # {} =>
           r = Candidate(At(Least(found)), "long_only", DrmingwOptions, DrmingwLongOptions)
  BY <1>6 DEF Scan
<1>8. ~stop
  BY DrmingwOptionsAre DEF OptString
<1>9. argc(p) = Len(line) /\ next = a + 1
  BY <1>5 DEF argc
<1>10. CASE a + 1 < Len(line) /\ is_option(line[a + 2])
  <2>1. Arg(p, a + 1) = line[a + 2]
    <3>1. (a + 1) + 1 = a + 2
      OBVIOUS
    <3> QED BY <1>5, <3>1 DEF Arg
  <2>2. a + 1 \in found /\ found \in SUBSET Nat /\ \A k \in found : k >= a + 1
    BY <1>2, <1>5, <1>9, <1>10, <2>1
  <2> HIDE DEF found
  <2>3. Least(found) \in found /\ \A k \in found : Least(found) <= k
    BY <2>2, LeastIs
  <2>4. Least(found) = a + 1
    <3>1. PICK l : l = Least(found)
      OBVIOUS
    <3>2. l \in Nat /\ l >= a + 1 /\ l <= a + 1
      BY <2>2, <2>3, <3>1
    <3> QED BY <3>1, <3>2
  <2>5. r = Candidate(At(a + 1), "long_only", DrmingwOptions, DrmingwLongOptions)
    BY <1>7, <1>8, <2>2, <2>4
  <2> DEFINE left == Left(a + 1)
  <2>6. At(a + 1) = [p EXCEPT !.argind = a + 1, !.optmark = a + 1, !.nextchar = left]
    OBVIOUS
  <2> HIDE DEF left, At
  <2>7. /\ DOMAIN At(a + 1) = Fields /\ At(a + 1).argv = line /\ At(a + 1).optbase = a + 1
        /\ At(a + 1).argind = a + 1 /\ At(a + 1).optmark = a + 1
    BY <1>5, <2>6 DEF Fields
  <2>8. a + 1 # Len(line)
    BY <1>2, <1>10
  <2> QED BY <2>5, <2>7, <2>8 DEF ScannedTo
<1>11. CASE a + 1 = Len(line)
  <2>1. found = {}
    BY <1>5, <1>9, <1>11
  <2>2. last = p
    BY <1>9, <1>11
  <2>3. r = [g |-> [p EXCEPT !.argind = argc(p), !.optind = p.optbase], ret |-> "done"]
    BY <1>7, <1>8, <2>1, <2>2
  <2>4. r.g.argv = line /\ r.ret = "done"
    <3>1. PICK k, m : k = argc(p) /\ m = p.optbase
      OBVIOUS
    <3>2. r.g = [p EXCEPT !.argind = k, !.optind = m] /\ r.ret = "done"
      BY <2>3, <3>1
    <3> QED BY <1>5, <3>2 DEF Fields
  <2>5. ~(a + 1 < Len(line))
    BY <1>2, <1>11
  <2> QED BY <1>5, <2>4, <2>5
<1>12. CASE ~(a + 1 < Len(line) /\ is_option(line[a + 2])) /\ a + 1 # Len(line)
  BY <1>12
<1> QED BY <1>10, <1>11, <1>12

\* The next call, where an option of the command is.
LEMMA ReadsLetter ==
  ASSUME NEW line \in Texts, NEW a \in Nat, a + 1 < Len(line), NEW st, StandsAt(st, line, a),
         NEW c \in Letters5, line[a + 2] = <<"-", c>>, c \in {"p", "e"} => a + 2 < Len(line),
         NEW r, r = getoptW_parse(st, "long_only", DrmingwOptions, DrmingwLongOptions)
  PROVE  /\ r.ret = c
         /\ c \in {"v", "b", "d"} => StandsAt(r.g, line, a + 1)
         /\ c \in {"p", "e"} => StandsAt(r.g, line, a + 2) /\ r.g.optarg = line[a + 3]
<1>1. PICK arg : arg = <<"-", c>>
  OBVIOUS
<1>2. PICK text : text = <<c>>
  OBVIOUS
<1>3. /\ Len(arg) = 2 /\ arg[1] = "-" /\ arg[2] = c /\ c # "-"
      /\ SubSeq(arg, 2, Len(arg)) = text
  <2>1. Len(arg) = 2 /\ arg[1] = "-" /\ arg[2] = c
    BY <1>1
  <2>2. c # "-"
    BY Zenon DEF Letters5
  <2>3. SubSeq(arg, 2, 2) = text
    <3>1. PICK part : part = SubSeq(arg, 2, 2)
      OBVIOUS
    <3>2. arg \in Seq(Character)
      BY <1>1, OptionIsPlain DEF Text, Letters5
    <3>3. part \in Seq(Character) /\ Len(part) = 1 /\ part[1] = c
      BY <2>1, <3>1, <3>2
    <3>4. part = <<part[1]>>
      BY <3>3
    <3> QED BY <1>2, <3>1, <3>3, <3>4
  <2> QED BY <2>1, <2>2, <2>3
<1>4. is_option(arg) /\ arg # <<"-", "-">>
  <2>1. PICK dashes : dashes = <<"-", "-">>
    OBVIOUS
  <2>2. dashes[2] = "-"
    BY <2>1
  <2> QED BY <1>3, <2>1, <2>2 DEF is_option
<1>5. Len(line) \in Nat /\ a < Len(line) /\ a + 1 \in Nat
  BY DEF Texts
<1>6. PICK s : /\ DOMAIN s = Fields /\ s.argv = line /\ s.optbase = a + 1
               /\ s.argind = a + 1 /\ s.optmark = a + 1
               /\ r = Candidate(s, "long_only", DrmingwOptions, DrmingwLongOptions)
  <2>1. a + 1 < Len(line) /\ is_option(line[a + 2])
    BY <1>1, <1>4
  <2>2. ScannedTo(line, a, r)
    BY <1>5, <2>1, ScansOn
  <2> QED BY <2>2 DEF ScannedTo
<1>7. r = LongOption(s, "long_only", text, DrmingwOptions, DrmingwLongOptions)
  <2>1. Arg(s, s.argind) = arg
    <3>1. (a + 1) + 1 = a + 2
      OBVIOUS
    <3> QED BY <1>1, <1>6, <3>1 DEF Arg
  <2> QED BY <1>3, <1>4, <1>6, <2>1 DEF Candidate
<1>8. s.optmark = s.optbase /\ s.optbase \in 0..a + 1
  BY <1>6
<1>9. /\ r.ret = c \/ (c \in {"p", "e"} /\ (a + 1) + 1 >= Len(line))
      /\ c \in {"v", "b", "d"} => StandsAt(r.g, line, a + 1)
      /\ c \in {"p", "e"} /\ (a + 1) + 1 < Len(line) =>
           StandsAt(r.g, line, (a + 1) + 1) /\ r.g.optarg = line[(a + 1) + 2]
  BY <1>2, <1>5, <1>6, <1>7, <1>8, LetterFound
<1>10. (a + 1) + 1 = a + 2 /\ (a + 1) + 2 = a + 3
  OBVIOUS
<1>11. c \in {"p", "e"} => ~((a + 1) + 1 >= Len(line)) /\ (a + 1) + 1 < Len(line)
  BY <1>5
<1> QED BY <1>9, <1>10, <1>11

\* The flags getopt has come by, up to argv[a].
Shown(line, a, c) == \E k \in 6..a + 1 : line[k] = <<"-", c>>

\* The command line of the drmingw started for flags f.
DebugLine(line, f) ==
  /\ line \in Texts /\ Len(line) \in Nat /\ Len(line) >= 5
  /\ line[1] = Self /\ line[2] = <<"-", "p">> /\ line[3] = ProcessId
  /\ line[4] = <<"-", "e">> /\ line[5] = EventHandle
  /\ \A k \in 6..Len(line) : \E c \in {"v", "b", "d"} : line[k] = <<"-", c>>
  /\ f.verbose_flag = TRUE <=> Shown(line, Len(line) - 1, "v")
  /\ f.breakpoint_flag = TRUE <=> Shown(line, Len(line) - 1, "b")
  /\ f.debug_flag = TRUE <=> Shown(line, Len(line) - 1, "d")

LEMMA LettersDiffer ==
  ASSUME NEW c, NEW d, <<"-", c>> = <<"-", d>>
  PROVE  c = d
OBVIOUS

\* A flag more is an argument more.
Added(line, flag, c, more) ==
  /\ more \in Texts /\ Len(line) \in Nat
  /\ Len(more) = Len(line) + (IF flag THEN 1 ELSE 0)
  /\ \A k \in 1..Len(line) : more[k] = line[k]
  /\ flag = TRUE => more[Len(line) + 1] = <<"-", c>>

LEMMA FlagAdded ==
  ASSUME NEW line \in Texts, NEW flag \in BOOLEAN, NEW c \in {"v", "b", "d"},
         NEW more, more = line \o FlagArg(flag, c)
  PROVE  Added(line, flag, c, more)
<1>1. PICK option : option = <<"-", c>>
  OBVIOUS
<1>2. option \in Text
  BY <1>1, OptionIsPlain
<1>3. Len(line) \in Nat
  BY DEF Texts
<1>4. CASE flag = TRUE
  <2>1. more = Append(line, option)
    <3>1. PICK one : one = <<option>>
      OBVIOUS
    <3>2. more = line \o one
      BY <1>1, <1>4, <3>1 DEF FlagArg
    <3>3. line \o <<option>> = Append(line, option)
      BY <1>2 DEF Texts
    <3> QED BY <3>1, <3>2, <3>3
  <2>2. PICK n : n = Len(line)
    OBVIOUS
  <2>3. /\ more \in Seq(Text) /\ Len(more) = n + 1 /\ more[n + 1] = option
        /\ \A k \in 1..n : more[k] = line[k]
    BY <1>2, <2>1, <2>2 DEF Texts
  <2> QED BY <1>1, <1>3, <1>4, <2>2, <2>3 DEF Added, Texts
<1>5. CASE flag = FALSE
  <2>1. more = line
    BY <1>5, ConcatEmptySeq DEF FlagArg, Texts
  <2> QED BY <1>3, <1>5, <2>1 DEF Added
<1> QED BY <1>4, <1>5

\* The line for f has the options of f.
LEMMA LineIs ==
  ASSUME NEW f \in AskedFlags
  PROVE  DebugLine(LineFor(f), f)
<1>1. PICK line5 : line5 = <<Self, <<"-", "p">>, ProcessId, <<"-", "e">>, EventHandle>>
  OBVIOUS
<1>2. /\ line5 \in Texts /\ Len(line5) = 5
      /\ line5[1] = Self /\ line5[2] = <<"-", "p">> /\ line5[3] = ProcessId
      /\ line5[4] = <<"-", "e">> /\ line5[5] = EventHandle
  <2>1. Self \in Text /\ ProcessId \in Text /\ EventHandle \in Text
    BY ToolsAssumption DEF ToolsAssumption
  <2>2. PICK P, E : P = <<"-", "p">> /\ E = <<"-", "e">>
    OBVIOUS
  <2>3. P \in Text /\ E \in Text
    BY <2>2, OptionIsPlain
  <2>4. line5 = <<Self, P, ProcessId, E, EventHandle>>
    BY <1>1, <2>2
  <2>5. /\ line5 \in Seq(Text) /\ Len(line5) = 5
        /\ line5[1] = Self /\ line5[2] = P /\ line5[3] = ProcessId
        /\ line5[4] = E /\ line5[5] = EventHandle
    BY <2>1, <2>3, <2>4
  <2> QED BY <2>2, <2>5 DEF Texts
<1>3. PICK x, y, z : x = f.verbose_flag /\ y = f.breakpoint_flag /\ z = f.debug_flag
  OBVIOUS
<1>4. x \in BOOLEAN /\ y \in BOOLEAN /\ z \in BOOLEAN
  BY <1>3 DEF AskedFlags
<1>5. PICK l1, l2, l3 : /\ l1 = line5 \o FlagArg(x, "v") /\ l2 = l1 \o FlagArg(y, "b")
                        /\ l3 = l2 \o FlagArg(z, "d")
  OBVIOUS
<1>6. LineFor(f) = l3
  BY <1>1, <1>3, <1>5 DEF LineFor
<1>7. /\ l1 \in Texts /\ Len(l1) = 5 + (IF x THEN 1 ELSE 0)
      /\ \A k \in 1..5 : l1[k] = line5[k]
      /\ x = TRUE => l1[6] = <<"-", "v">>
  <2>1. Added(line5, x, "v", l1)
    BY <1>2, <1>4, <1>5, FlagAdded
  <2> QED BY <1>2, <2>1 DEF Added
<1>8. /\ l2 \in Texts /\ Len(l2) = Len(l1) + (IF y THEN 1 ELSE 0)
      /\ \A k \in 1..Len(l1) : l2[k] = l1[k]
      /\ y = TRUE => l2[Len(l1) + 1] = <<"-", "b">>
  <2>1. Added(l1, y, "b", l2)
    BY <1>4, <1>5, <1>7, FlagAdded
  <2> QED BY <2>1 DEF Added
<1>9. /\ l3 \in Texts /\ Len(l3) = Len(l2) + (IF z THEN 1 ELSE 0)
      /\ \A k \in 1..Len(l2) : l3[k] = l2[k]
      /\ z = TRUE => l3[Len(l2) + 1] = <<"-", "d">>
  <2>1. Added(l2, z, "d", l3)
    BY <1>4, <1>5, <1>8, FlagAdded
  <2> QED BY <2>1 DEF Added
<1>10. PICK n1, n2, n3 : n1 = Len(l1) /\ n2 = Len(l2) /\ n3 = Len(l3)
  OBVIOUS
<1>11. /\ n1 \in Nat /\ n2 \in Nat /\ n3 \in Nat
       /\ n1 = 5 + (IF x THEN 1 ELSE 0) /\ n2 = n1 + (IF y THEN 1 ELSE 0)
       /\ n3 = n2 + (IF z THEN 1 ELSE 0)
  BY <1>7, <1>8, <1>9, <1>10
<1>12. \A k \in 1..5 : l3[k] = line5[k]
  <2> TAKE k \in 1..5
  <2>1. k \in 1..n1 /\ k \in 1..n2
    BY <1>11
  <2> QED BY <1>7, <1>8, <1>9, <1>10, <2>1
<1>13. x = TRUE => n1 = 6 /\ l3[6] = <<"-", "v">>
  <2>1. SUFFICES ASSUME x = TRUE PROVE n1 = 6 /\ l3[6] = <<"-", "v">>
    OBVIOUS
  <2>2. n1 = 6 /\ 6 \in 1..n1 /\ 6 \in 1..n2
    BY <1>11, <2>1
  <2> QED BY <1>7, <1>8, <1>9, <1>10, <2>1, <2>2
<1>14. y = TRUE => n2 = n1 + 1 /\ l3[n2] = <<"-", "b">>
  <2>1. SUFFICES ASSUME y = TRUE PROVE n2 = n1 + 1 /\ l3[n2] = <<"-", "b">>
    OBVIOUS
  <2>2. n2 = n1 + 1 /\ n2 \in 1..n2
    BY <1>11, <2>1
  <2> QED BY <1>8, <1>9, <1>10, <2>1, <2>2
<1>15. z = TRUE => n3 = n2 + 1 /\ l3[n3] = <<"-", "d">>
  <2>1. SUFFICES ASSUME z = TRUE PROVE n3 = n2 + 1 /\ l3[n3] = <<"-", "d">>
    OBVIOUS
  <2>2. n3 = n2 + 1
    BY <1>11, <2>1
  <2> QED BY <1>9, <1>10, <2>1, <2>2
<1>16. ASSUME NEW k \in 6..n3
       PROVE  \/ x = TRUE /\ k = 6 /\ l3[k] = <<"-", "v">>
              \/ y = TRUE /\ k = n2 /\ l3[k] = <<"-", "b">>
              \/ z = TRUE /\ k = n3 /\ l3[k] = <<"-", "d">>
  <2>1. (x = TRUE /\ k = 6) \/ (y = TRUE /\ k = n2) \/ (z = TRUE /\ k = n3)
    BY <1>4, <1>11
  <2> QED BY <1>13, <1>14, <1>15, <2>1
<1>17. /\ x = TRUE <=> Shown(l3, n3 - 1, "v")
       /\ y = TRUE <=> Shown(l3, n3 - 1, "b")
       /\ z = TRUE <=> Shown(l3, n3 - 1, "d")
  <2>1. (n3 - 1) + 1 = n3
    BY <1>11
  <2>2. /\ x = TRUE => 6 \in 6..n3
        /\ y = TRUE => n2 \in 6..n3
        /\ z = TRUE => n3 \in 6..n3
    BY <1>4, <1>11
  <2>3. ASSUME NEW c \in {"v", "b", "d"}, Shown(l3, n3 - 1, c)
        PROVE  (c = "v" => x = TRUE) /\ (c = "b" => y = TRUE) /\ (c = "d" => z = TRUE)
    <3>1. PICK k \in 6..n3 : l3[k] = <<"-", c>>
      BY <2>1, <2>3 DEF Shown
    <3> QED BY <1>16, <3>1, LettersDiffer
  <2>4. x = TRUE => Shown(l3, n3 - 1, "v")
    BY <1>13, <2>1, <2>2 DEF Shown
  <2>5. y = TRUE => Shown(l3, n3 - 1, "b")
    BY <1>14, <2>1, <2>2 DEF Shown
  <2>6. z = TRUE => Shown(l3, n3 - 1, "d")
    BY <1>15, <2>1, <2>2 DEF Shown
  <2>7. Shown(l3, n3 - 1, "v") => x = TRUE
    BY <2>3
  <2>8. Shown(l3, n3 - 1, "b") => y = TRUE
    BY <2>3
  <2>9. Shown(l3, n3 - 1, "d") => z = TRUE
    BY <2>3
  <2> QED BY <2>4, <2>5, <2>6, <2>7, <2>8, <2>9
<1>18. n3 \in Nat /\ n3 >= 5
  BY <1>11
<1>19. \A k \in 6..n3 : \E c \in {"v", "b", "d"} : l3[k] = <<"-", c>>
  BY <1>16
<1>20. /\ l3[1] = Self /\ l3[2] = <<"-", "p">> /\ l3[3] = ProcessId
       /\ l3[4] = <<"-", "e">> /\ l3[5] = EventHandle
  BY <1>2, <1>12
<1> QED BY <1>3, <1>6, <1>9, <1>10, <1>17, <1>18, <1>19, <1>20 DEF DebugLine

-----------------------------------------------------------------------------
(* A drmingw started with that command *)

\* What the options are in a drmingw that has read up to argv[a] of its line.
Took(o, line, a) ==
  /\ o.install_given = FALSE /\ o.uninstall_given = FALSE
  /\ a < 2 => o.process_id_given = FALSE
  /\ a >= 2 => o.process_id_given = TRUE /\ o.dwProcessId = Digits(ProcessId, 10)
  /\ a < 4 => o.hEvent = 0
  /\ a >= 4 => o.hEvent = Digits(EventHandle, 10)
  /\ o.verbose_flag = TRUE <=> Shown(line, a, "v")
  /\ o.breakpoint_flag = TRUE <=> Shown(line, a, "b")
  /\ o.debug_flag = TRUE <=> Shown(line, a, "d")

\* The inductive invariant: the options stay what they are, a command in the
\* registry is the one for its flags, and the drmingw the system has started
\* with it goes through its line argument by argument.
OptionsKept(o) ==
  /\ DOMAIN o = DOMAIN NoOptions
  /\ o.verbose_flag \in BOOLEAN /\ o.breakpoint_flag \in BOOLEAN /\ o.debug_flag \in BOOLEAN
CommandsKept ==
  \A v \in ViewSet : asked[v] # NULL =>
    asked[v] \in AskedFlags /\ aeDebug[v].Debugger = CommandFor(asked[v])
Stops(line) == {0, 2} \cup 4..Len(line) - 1
ReadsItsLine(line) ==
  \/ pc = "options" /\ \E a \in Stops(line) : StandsAt(g, line, a) /\ Took(opt, line, a)
  \/ pc = "attach" /\ g.argv = line /\ Took(opt, line, Len(line) - 1)
StartedReads ==
  started # NULL =>
    /\ tool = "drmingw" /\ started \in ViewSet /\ asked[started] \in AskedFlags
    /\ ReadsItsLine(LineFor(asked[started]))
StartedInv == OptionsKept(opt) /\ CommandsKept /\ StartedReads

OptionNames ==
  {"verbose_flag", "debug_flag", "first_chance", "breakpoint_flag", "minidump", "minidumpDir",
   "no_debug_string", "hEvent", "dwThreadId", "g_TimeOut", "g_ModalDialogIgnore", "debugHeap",
   "szModule", "functions", "demangle", "debug", "pretty", "process_id_given", "install_given",
   "uninstall_given", "dwProcessId"}

\* The names of the options.
LEMMA NoOptionsAre == DOMAIN NoOptions = OptionNames
BY DEF NoOptions, OptionNames

\* An option set.
OneSet(o, n, x, s) ==
  /\ OptionsKept(s)
  /\ \A m \in OptionNames : s[m] = IF m = n THEN x ELSE o[m]

LEMMA OneOptionSet ==
  ASSUME NEW o, OptionsKept(o), NEW x, NEW n \in OptionNames,
         n \in {"verbose_flag", "breakpoint_flag", "debug_flag"} => x \in BOOLEAN,
         NEW s, s = [o EXCEPT ![n] = x]
  PROVE  OneSet(o, n, x, s)
<1>1. DOMAIN s = DOMAIN NoOptions
  BY DEF OptionsKept
<1>2. \A m \in OptionNames : s[m] = IF m = n THEN x ELSE o[m]
  BY NoOptionsAre DEF OptionsKept
<1>3. {"verbose_flag", "breakpoint_flag", "debug_flag"} \subseteq OptionNames
  BY DEF OptionNames
<1>4. s.verbose_flag \in BOOLEAN /\ s.breakpoint_flag \in BOOLEAN /\ s.debug_flag \in BOOLEAN
  BY <1>2, <1>3 DEF OptionsKept
<1> QED BY <1>1, <1>2, <1>4 DEF OptionsKept, OneSet

\* What -p sets.
ProcessSet(a, s) ==
  /\ OptionsKept(s)
  /\ s.process_id_given = TRUE
  /\ a # <<>> /\ IsDigit(a[1], 10) =>
       /\ s.dwProcessId = wcstoul(a)
       /\ \A m \in OptionNames \ {"process_id_given", "dwProcessId"} : s[m] = opt[m]

LEMMA ProcessGivenIs ==
  ASSUME OptionsKept(opt), NEW a
  PROVE  ProcessSet(a, ProcessGiven(a))
<1>1. PICK number : number = (a # <<>> /\ IsDigit(a[1], 10))
  OBVIOUS
<1>2. PICK id : id = IF number THEN wcstoul(a) ELSE getProcessIdByName(a)
  OBVIOUS
<1>3. PICK p : p = [opt EXCEPT !["process_id_given"] = TRUE]
  OBVIOUS
<1>4. /\ "process_id_given" \in OptionNames /\ "breakpoint_flag" \in OptionNames
      /\ "dwProcessId" \in OptionNames
  BY DEF OptionNames
<1>5. OneSet(opt, "process_id_given", TRUE, p)
  BY <1>3, <1>4, OneOptionSet
<1>6. PICK flag : flag = (p.breakpoint_flag \/ ~number)
  OBVIOUS
<1>7. flag \in BOOLEAN
  BY <1>6
<1>8. PICK b : b = [p EXCEPT !["breakpoint_flag"] = flag]
  OBVIOUS
<1>9. OneSet(p, "breakpoint_flag", flag, b)
  <2>1. OptionsKept(p)
    BY <1>5 DEF OneSet
  <2> QED BY <1>4, <1>7, <1>8, <2>1, OneOptionSet
<1>10. PICK s : s = [b EXCEPT !["dwProcessId"] = id]
  OBVIOUS
<1>11. OneSet(b, "dwProcessId", id, s)
  <2>1. OptionsKept(b)
    BY <1>9 DEF OneSet
  <2>2. "dwProcessId" \notin {"verbose_flag", "breakpoint_flag", "debug_flag"}
    OBVIOUS
  <2> QED BY <1>4, <1>10, <2>1, <2>2, OneOptionSet
<1>12. ProcessGiven(a) = s
  BY <1>1, <1>2, <1>3, <1>6, <1>8, <1>10 DEF ProcessGiven
<1>13. \A m \in OptionNames : s[m] = IF m = "dwProcessId" THEN id ELSE b[m]
  BY <1>11 DEF OneSet
<1>14. \A m \in OptionNames : b[m] = IF m = "breakpoint_flag" THEN flag ELSE p[m]
  BY <1>9 DEF OneSet
<1>15. \A m \in OptionNames : p[m] = IF m = "process_id_given" THEN TRUE ELSE opt[m]
  BY <1>5 DEF OneSet
<1>16. s.process_id_given = TRUE /\ s.dwProcessId = id
  BY <1>4, <1>13, <1>14, <1>15
<1>17. ASSUME number = TRUE
       PROVE  \A m \in OptionNames \ {"process_id_given", "dwProcessId"} : s[m] = opt[m]
  <2>1. flag = p.breakpoint_flag
    <3>1. p.breakpoint_flag \in BOOLEAN
      BY <1>5 DEF OneSet, OptionsKept
    <3> QED BY <1>6, <1>17, <3>1
  <2> QED BY <1>13, <1>14, <1>15, <2>1
<1>18. number \in BOOLEAN
  BY <1>1
<1> QED BY <1>1, <1>2, <1>11, <1>12, <1>16, <1>17, <1>18 DEF OneSet, ProcessSet

\* The options a step may set to anything, and the flags of the command.
FlagNames == {"verbose_flag", "breakpoint_flag", "debug_flag"}
OneChanged(o, s) ==
  \E n \in OptionNames : \E x : (n \in FlagNames => x = TRUE) /\ s = [o EXCEPT ![n] = x]

LEMMA OneChangedKept ==
  ASSUME NEW o, NEW s, OptionsKept(o), OneChanged(o, s)
  PROVE  OptionsKept(s)
<1>1. PICK n \in OptionNames : \E x : (n \in FlagNames => x = TRUE) /\ s = [o EXCEPT ![n] = x]
  BY DEF OneChanged
<1>2. PICK x : (n \in FlagNames => x = TRUE) /\ s = [o EXCEPT ![n] = x]
  BY <1>1
<1>3. n \in {"verbose_flag", "breakpoint_flag", "debug_flag"} => x \in BOOLEAN
  BY <1>2 DEF FlagNames
<1>4. s = [o EXCEPT ![n] = x]
  BY <1>2
<1>5. OneSet(o, n, x, s)
  BY <1>3, <1>4, OneOptionSet
<1> QED BY <1>5 DEF OneSet

LEMMA SetsOne ==
  ASSUME NEW o, NEW n \in OptionNames, NEW x, n \in FlagNames => x = TRUE
  PROVE  OneChanged(o, [o EXCEPT ![n] = x])
BY DEF OneChanged

\* The options each tool sets.
LEMMA CatchSegvOptionKept ==
  ASSUME OptionsKept(opt), CatchSegvOption
  PROVE  OptionsKept(opt')
<1>1. PICK r \in {Parsed} :
        \/ opt' = opt
        \/ opt' = [opt EXCEPT !.verbose_flag = TRUE]
        \/ opt' = [opt EXCEPT !.debug_flag = TRUE]
        \/ opt' = [opt EXCEPT !.first_chance = TRUE]
        \/ opt' = [opt EXCEPT !.g_ModalDialogIgnore = TRUE]
        \/ opt' = [opt EXCEPT !.g_TimeOut = wcstoul(r.g.optarg)]
        \/ opt' = [opt EXCEPT !.debugHeap = TRUE]
        \/ opt' = [opt EXCEPT !.minidump = TRUE]
        \/ opt' = [opt EXCEPT !.minidump = TRUE, !.minidumpDir = r.g.optarg]
        \/ opt' = [opt EXCEPT !.no_debug_string = TRUE]
  <2>1. pc = "options"
    BY DEF CatchSegvOption
  <2> QED BY DEF CatchSegvOption, Options
<1>2. PICK timeout, dir : timeout = wcstoul(r.g.optarg) /\ dir = r.g.optarg
  OBVIOUS
<1>3. PICK dump : dump = [opt EXCEPT !.minidump = TRUE]
  OBVIOUS
<1>4. /\ {"verbose_flag", "debug_flag", "first_chance", "g_ModalDialogIgnore", "g_TimeOut",
          "debugHeap", "minidump", "minidumpDir", "no_debug_string"} \subseteq OptionNames
      /\ "g_TimeOut" \notin FlagNames /\ "minidumpDir" \notin FlagNames
  BY DEF OptionNames, FlagNames
<1>5. \/ opt' = opt \/ OneChanged(opt, opt')
      \/ OneChanged(opt, dump) /\ OneChanged(dump, opt')
  <2>1. CASE opt' = [opt EXCEPT !.minidump = TRUE, !.minidumpDir = r.g.optarg]
    <3>1. opt' = [dump EXCEPT !["minidumpDir"] = dir] /\ dump = [opt EXCEPT !["minidump"] = TRUE]
      BY <1>2, <1>3, <2>1
    <3> QED BY <1>4, <3>1, SetsOne
  <2>2. CASE opt' = [opt EXCEPT !["g_TimeOut"] = timeout]
    BY <1>4, <2>2, SetsOne
  <2>3. ASSUME NEW n \in OptionNames, opt' = [opt EXCEPT ![n] = TRUE]
        PROVE  OneChanged(opt, opt')
    BY <2>3, SetsOne
  <2> QED BY <1>1, <1>2, <1>4, <2>1, <2>2, <2>3
<1> QED BY <1>5, OneChangedKept

LEMMA Addr2LineOptionKept ==
  ASSUME OptionsKept(opt), Addr2LineOption
  PROVE  OptionsKept(opt')
<1>1. PICK r \in {Parsed} :
        \/ opt' = opt
        \/ opt' = [opt EXCEPT !.demangle = TRUE]
        \/ opt' = [opt EXCEPT !.debug = TRUE]
        \/ opt' = [opt EXCEPT !.szModule = r.g.optarg]
        \/ opt' = [opt EXCEPT !.functions = TRUE]
        \/ opt' = [opt EXCEPT !.pretty = TRUE]
  BY DEF Addr2LineOption, Options
<1>2. PICK name : name = r.g.optarg
  OBVIOUS
<1>3. /\ {"demangle", "debug", "szModule", "functions", "pretty"} \subseteq OptionNames
      /\ "szModule" \notin FlagNames
  BY DEF OptionNames, FlagNames
<1>4. opt' = opt \/ OneChanged(opt, opt')
  <2>1. CASE opt' = [opt EXCEPT !["szModule"] = name]
    BY <1>3, <2>1, SetsOne
  <2>2. ASSUME NEW n \in OptionNames, opt' = [opt EXCEPT ![n] = TRUE]
        PROVE  OneChanged(opt, opt')
    BY <2>2, SetsOne
  <2> QED BY <1>1, <1>2, <1>3, <2>1, <2>2
<1> QED BY <1>4, OneChangedKept

LEMMA DrmingwOptionKept ==
  ASSUME OptionsKept(opt), DrmingwOption
  PROVE  OptionsKept(opt')
<1>1. PICK r \in {Parsed} :
        \/ opt' = opt
        \/ opt' = [opt EXCEPT !.install_given = TRUE]
        \/ opt' = [opt EXCEPT !.uninstall_given = TRUE]
        \/ opt' = ProcessGiven(r.g.optarg)
        \/ opt' = [opt EXCEPT !.hEvent = wcstol(r.g.optarg)]
        \/ opt' = [opt EXCEPT !.dwThreadId = wcstoul(r.g.optarg)]
        \/ opt' = [opt EXCEPT !.breakpoint_flag = TRUE]
        \/ opt' = [opt EXCEPT !.verbose_flag = TRUE]
        \/ opt' = [opt EXCEPT !.debug_flag = TRUE]
  BY DEF DrmingwOption, Options
<1>2. PICK arg, event, thread : /\ arg = r.g.optarg /\ event = wcstol(r.g.optarg)
                                 /\ thread = wcstoul(r.g.optarg)
  OBVIOUS
<1>3. /\ {"install_given", "uninstall_given", "hEvent", "dwThreadId", "breakpoint_flag",
          "verbose_flag", "debug_flag"} \subseteq OptionNames
      /\ "hEvent" \notin FlagNames /\ "dwThreadId" \notin FlagNames
  BY DEF OptionNames, FlagNames
<1>4. opt' = opt \/ OneChanged(opt, opt') \/ opt' = ProcessGiven(arg)
  <2>1. ASSUME NEW n \in {"hEvent", "dwThreadId"}, NEW number,
               opt' = [opt EXCEPT ![n] = number]
        PROVE  OneChanged(opt, opt')
    BY <1>3, <2>1, SetsOne
  <2>2. ASSUME NEW n \in OptionNames, opt' = [opt EXCEPT ![n] = TRUE]
        PROVE  OneChanged(opt, opt')
    BY <2>2, SetsOne
  <2> QED BY <1>1, <1>2, <1>3, <2>1, <2>2
<1>5. opt' = ProcessGiven(arg) => OptionsKept(opt')
  <2>1. ProcessSet(arg, ProcessGiven(arg))
    BY ProcessGivenIs
  <2> QED BY <2>1 DEF ProcessSet
<1> QED BY <1>4, <1>5, OneChangedKept

\* The options a tool starts with.
LEMMA FirstOptions ==
  ASSUME NEW x
  PROVE  /\ OptionsKept([NoOptions EXCEPT !.first_chance = x])
         /\ \A n \in OptionNames \ {"first_chance"} :
              [NoOptions EXCEPT !.first_chance = x][n] = NoOptions[n]
<1>1. OptionsKept(NoOptions)
  BY DEF OptionsKept, NoOptions
<1>2. PICK s : s = [NoOptions EXCEPT !["first_chance"] = x]
  OBVIOUS
<1>3. "first_chance" \in OptionNames
      /\ "first_chance" \notin {"verbose_flag", "breakpoint_flag", "debug_flag"}
  BY DEF OptionNames
<1>4. OneSet(NoOptions, "first_chance", x, s)
  BY <1>1, <1>2, <1>3, OneOptionSet
<1> QED BY <1>2, <1>4 DEF OneSet

\* No step takes an option away or makes a flag anything but a flag.
LEMMA OptionsStep ==
  ASSUME OptionsKept(opt), [Next]_vars
  PROVE  OptionsKept(opt')
<1>1. CASE OptionStep
  BY <1>1, CatchSegvOptionKept, Addr2LineOptionKept, DrmingwOptionKept DEF OptionStep
<1>2. CASE RunAgain \/ SystemStarts
  <2>1. opt' = [NoOptions EXCEPT !.first_chance = TRUE]
    BY <1>2 DEF RunAgain, SystemStarts, Run
  <2> QED BY <2>1, FirstOptions
<1>3. CASE \/ Launch \/ StartTimer \/ LoadModule \/ InitSymbols \/ Answer \/ Cleanup
           \/ Install \/ Uninstall \/ UNCHANGED vars
  <2>1. opt' = opt
    BY <1>3 DEF Launch, StartTimer, LoadModule, InitSymbols, Answer, Cleanup, Install, Uninstall,
      Parsing, vars
  <2> QED BY <2>1
<1> QED BY <1>1, <1>2, <1>3 DEF Next, OptionStep, Ended

\* What install writes is the command for the options it is given.
LEMMA CommandAsked ==
  ASSUME OptionsKept(opt)
  PROVE  Asked \in AskedFlags /\ Command = CommandFor(Asked)
<1>1. Asked \in AskedFlags
  BY DEF OptionsKept, Asked, AskedFlags
<1>2. /\ Asked.verbose_flag = opt.verbose_flag /\ Asked.breakpoint_flag = opt.breakpoint_flag
      /\ Asked.debug_flag = opt.debug_flag
  BY DEF Asked
<1>3. CommandFor(Asked) = CommandWith(FlagText(opt.verbose_flag, "v"),
                                      FlagText(opt.breakpoint_flag, "b"),
                                      FlagText(opt.debug_flag, "d"))
  BY <1>2 DEF CommandFor
<1>4. Command = CommandWith(FlagText(opt.verbose_flag, "v"),
                            FlagText(opt.breakpoint_flag, "b"),
                            FlagText(opt.debug_flag, "d"))
  BY DEF Command, CommandWith, FlagText
<1> QED BY <1>1, <1>3, <1>4

\* A command written or removed in one view.
LEMMA CommandInView ==
  ASSUME Keys, CommandsKept, NEW v \in ViewSet,
         NEW d, NEW e, aeDebug' = [aeDebug EXCEPT ![v] = d], asked' = [asked EXCEPT ![v] = e],
         e # NULL => e \in AskedFlags /\ d.Debugger = CommandFor(e)
  PROVE  CommandsKept'
<1>1. SUFFICES ASSUME NEW w \in ViewSet, asked'[w] # NULL
               PROVE  asked'[w] \in AskedFlags /\ aeDebug'[w].Debugger = CommandFor(asked'[w])
  BY DEF CommandsKept
<1>2. CASE w = v
  <2>1. asked'[w] = e /\ aeDebug'[w] = d
    BY <1>2 DEF Keys
  <2> QED BY <1>1, <2>1
<1>3. CASE w # v
  <2>1. asked'[w] = asked[w] /\ aeDebug'[w] = aeDebug[w]
    BY <1>3 DEF Keys
  <2> QED BY <1>1, <2>1 DEF CommandsKept
<1> QED BY <1>2, <1>3

\* A command in the registry stays the one for the flags noted for its view.
LEMMA CommandsStep ==
  ASSUME ToolsInv, OptionsKept(opt), CommandsKept, [Next]_vars
  PROVE  CommandsKept'
<1> DEFINE v == Views[view + 1]
<1>1. Keys
  BY DEF ToolsInv
<1>2. CASE UNCHANGED <<aeDebug, asked>>
  BY <1>2 DEF CommandsKept
<1>3. CASE Install
  <2>1. \/ UNCHANGED <<aeDebug, asked>>
        \/ /\ aeDebug' = [aeDebug EXCEPT ![v].Debugger = Command]
           /\ asked' = [asked EXCEPT ![v] = Asked]
        \/ /\ aeDebug' = [aeDebug EXCEPT ![v] = [Debugger |-> Command, Auto |-> "1"]]
           /\ asked' = [asked EXCEPT ![v] = Asked]
    BY <1>3 DEF Install
  <2>2. v \in ViewSet
    BY <1>3, ViewsAre DEF ToolsInv, Viewed, Install, ViewSet
  <2>3. PICK command, flags : command = Command /\ flags = Asked
    OBVIOUS
  <2>4. flags \in AskedFlags /\ command = CommandFor(flags)
    BY <2>3, CommandAsked
  <2>5. PICK d, e : d = [aeDebug[v] EXCEPT !.Debugger = command]
                    /\ e = [Debugger |-> command, Auto |-> "1"]
    OBVIOUS
  <2>6. d.Debugger = command /\ e.Debugger = command
    BY <1>1, <2>2, <2>5 DEF Keys
  <2>7. \/ UNCHANGED <<aeDebug, asked>>
        \/ \E k \in {d, e} : aeDebug' = [aeDebug EXCEPT ![v] = k] /\ asked' = [asked EXCEPT ![v] = flags]
    BY <2>1, <2>3, <2>5
  <2>8. ASSUME NEW k \in {d, e}, aeDebug' = [aeDebug EXCEPT ![v] = k],
               asked' = [asked EXCEPT ![v] = flags]
        PROVE  CommandsKept'
    <3>1. k.Debugger = CommandFor(flags)
      BY <2>4, <2>6, <2>8
    <3> QED BY <1>1, <2>2, <2>4, <2>8, <3>1, CommandInView
  <2> QED BY <1>2, <2>7, <2>8
<1>4. CASE Uninstall
  <2>1. \/ UNCHANGED <<aeDebug, asked>>
        \/ /\ aeDebug' = [aeDebug EXCEPT ![v].Debugger = <<>>]
           /\ asked' = [asked EXCEPT ![v] = NULL]
    BY <1>4 DEF Uninstall
  <2>2. v \in ViewSet
    BY <1>4, ViewsAre DEF ToolsInv, Viewed, Uninstall, ViewSet
  <2>3. PICK d : d = [aeDebug[v] EXCEPT !.Debugger = <<>>]
    OBVIOUS
  <2>4. CASE /\ aeDebug' = [aeDebug EXCEPT ![v].Debugger = <<>>]
             /\ asked' = [asked EXCEPT ![v] = NULL]
    <3>1. aeDebug' = [aeDebug EXCEPT ![v] = d]
      BY <2>3, <2>4
    <3> QED BY <1>1, <2>2, <2>4, <3>1, CommandInView
  <2> QED BY <1>2, <2>1, <2>4
<1>5. CASE OptionStep
  BY <1>2, <1>5, OptionStepIs
<1>6. CASE Launch \/ StartTimer \/ LoadModule \/ InitSymbols \/ Answer \/ Cleanup
  BY <1>2, <1>6 DEF Launch, StartTimer, LoadModule, InitSymbols, Answer, Cleanup
<1>7. CASE RunAgain \/ SystemStarts
  BY <1>2, <1>7 DEF RunAgain, SystemStarts, Run
<1>8. CASE UNCHANGED vars
  BY <1>2, <1>8 DEF vars
<1> QED BY <1>3, <1>4, <1>5, <1>6, <1>7, <1>8 DEF Next, OptionStep, Ended

\* The branch of the loop for each option of the command.
LEMMA ProcessBranch ==
  ASSUME DrmingwOption, NEW r, r = Parsed, r.ret = "p", opt.process_id_given = FALSE
  PROVE  Options(r, ProcessGiven(r.g.optarg),
                 IF ProcessGiven(r.g.optarg).dwProcessId = 0 THEN "failed" ELSE pc)
BY DEF DrmingwOption

LEMMA EventBranch ==
  ASSUME DrmingwOption, NEW r, r = Parsed, r.ret = "e", opt.hEvent = 0
  PROVE  Options(r, [opt EXCEPT !.hEvent = wcstol(r.g.optarg)], pc)
BY DEF DrmingwOption

FlagOf(c) == CASE c = "v" -> "verbose_flag" [] c = "b" -> "breakpoint_flag" [] OTHER -> "debug_flag"

LEMMA FlagBranch ==
  ASSUME DrmingwOption, NEW r, r = Parsed, r.ret \in {"v", "b", "d"}
  PROVE  Options(r, [opt EXCEPT ![FlagOf(r.ret)] = TRUE], pc)
<1>1. CASE r.ret = "v"
  BY <1>1 DEF DrmingwOption, FlagOf
<1>2. CASE r.ret = "b"
  BY <1>2 DEF DrmingwOption, FlagOf
<1>3. CASE r.ret = "d"
  BY <1>3 DEF DrmingwOption, FlagOf
<1> QED BY <1>1, <1>2, <1>3

LEMMA DoneBranch ==
  ASSUME DrmingwOption, NEW r, r = Parsed, r.ret = "done",
         opt.install_given = FALSE, opt.uninstall_given = FALSE, opt.process_id_given = TRUE
  PROVE  Options(r, opt, "attach")
BY DEF DrmingwOption

\* No flag is among the first five arguments, and each later argument is one.
LEMMA NoneShown ==
  ASSUME NEW line, NEW c, NEW a \in {0, 2, 4}
  PROVE  ~Shown(line, a, c)
BY DEF Shown

LEMMA OneMoreShown ==
  ASSUME NEW line, NEW c, NEW d, NEW a \in Nat, a >= 4, line[a + 2] = <<"-", d>>
  PROVE  Shown(line, a + 1, c) <=> Shown(line, a, c) \/ c = d
<1>1. (a + 1) + 1 = a + 2 /\ a + 2 \in 6..a + 2 /\ (6..a + 2) = (6..a + 1) \cup {a + 2}
  OBVIOUS
<1>2. Shown(line, a + 1, c) <=> Shown(line, a, c) \/ line[a + 2] = <<"-", c>>
  BY <1>1 DEF Shown
<1>3. line[a + 2] = <<"-", c>> <=> c = d
  BY LettersDiffer
<1> QED BY <1>2, <1>3

\* A decimal text has no blank, no sign and no prefix, and the number it denotes
\* fits: it is read as that number.
LEMMA DecimalRead ==
  ASSUME NEW text \in Seq(Decimal), text # <<>>, text[1] # "0",
         Digits(text, 10) \in 1..(ULONG \div 2 - 1)
  PROVE  wcstoul(text) = Digits(text, 10) /\ wcstol(text) = Digits(text, 10)
<1>1. Len(text) \in Nat /\ Len(text) >= 1 /\ text[1] \in Decimal
  BY EmptySeq
<1>2. text[1] \notin Blank /\ text[1] \notin {"-", "+"} /\ ~Hex(text)
  <2>1. text[1] \notin {Space, "TAB", "-", "+", "0"}
    BY <1>1 DEF Decimal, Space
  <2>2. ASSUME Hex(text) PROVE FALSE
    <3>1. Len(text) >= 2 /\ SubSeq(text, 1, 2) = <<"0", "x">>
      BY <2>2 DEF Hex
    <3>2. SubSeq(text, 1, 2)[1] = text[1]
      BY <1>1, <3>1
    <3>3. <<"0", "x">>[1] = "0"
      OBVIOUS
    <3>4. text[1] = "0"
      BY <3>1, <3>2, <3>3
    <3> QED BY <3>4
  <2> QED BY <2>1, <2>2 DEF Blank
<1>3. Unblanked(text) = text
  <2> DEFINE some == {i \in 1..Len(text) : text[i] \notin Blank}
  <2>1. some \in SUBSET Nat /\ 1 \in some
    BY <1>1, <1>2
  <2>2. Unblanked(text) = IF some = {} THEN <<>> ELSE SubSeq(text, Least(some), Len(text))
    BY DEF Unblanked
  <2> HIDE DEF some
  <2>3. Least(some) \in Nat /\ Least(some) <= 1 /\ Least(some) \in some
    BY <2>1, LeastIs
  <2>4. Least(some) # 0
    BY <2>3 DEF some
  <2>5. Least(some) = 1
    BY <2>3, <2>4
  <2>6. SubSeq(text, 1, Len(text)) = text
    OBVIOUS
  <2> QED BY <2>1, <2>2, <2>5, <2>6
<1>4. ~Negative(text) /\ Unsigned(text) = text
  BY <1>2, <1>3 DEF Negative, Unsigned
<1>5. Magnitude(text, 0) = Digits(text, 10)
  BY <1>2, <1>4 DEF Magnitude
<1>6. ULONG \in Nat /\ ULONG \div 2 <= ULONG
  BY ToolsAssumption DEF ToolsAssumption
<1>7. PICK n : n = Digits(text, 10)
  OBVIOUS
<1>8. n \in Nat /\ n < ULONG \div 2 /\ n < ULONG
  BY <1>6, <1>7
<1>9. wcstoul(text) = n
  BY <1>4, <1>5, <1>6, <1>7, <1>8 DEF wcstoul, UnsignedValue
<1>10. wcstol(text) = n
  BY <1>4, <1>5, <1>6, <1>7, <1>8 DEF wcstol
<1> QED BY <1>7, <1>9, <1>10

\* So are the two numbers the system fills in.
LEMMA NumbersRead ==
  ASSUME OrdinaryInstallation
  PROVE  /\ wcstoul(ProcessId) = Digits(ProcessId, 10)
         /\ wcstol(EventHandle) = Digits(EventHandle, 10)
         /\ Digits(ProcessId, 10) # 0
<1>1. ASSUME NEW number \in {ProcessId, EventHandle}
      PROVE  /\ number \in Seq(Decimal) /\ number # <<>> /\ number[1] # "0"
             /\ Digits(number, 10) \in 1..(ULONG \div 2 - 1)
  BY DEF OrdinaryInstallation
<1>2. ASSUME NEW number \in {ProcessId, EventHandle}
      PROVE  wcstoul(number) = Digits(number, 10) /\ wcstol(number) = Digits(number, 10)
  BY <1>1, DecimalRead
<1>3. Digits(ProcessId, 10) \in 1..(ULONG \div 2 - 1)
  BY <1>1
<1> QED BY <1>2, <1>3

\* The process identifier is a number for -p.
LEMMA ProcessIsNumber ==
  ASSUME OrdinaryInstallation
  PROVE  ProcessId # <<>> /\ IsDigit(ProcessId[1], 10)
<1>1. ProcessId \in Seq(Decimal) /\ ProcessId # <<>>
  BY DEF OrdinaryInstallation
<1>2. ProcessId[1] \in Decimal
  BY <1>1, EmptySeq
<1>3. \A c \in Decimal : IsDigit(c, 10)
  BY DEF IsDigit, DigitOf, Decimal
<1> QED BY <1>1, <1>2, <1>3

\* -p, the first option of the line.
LEMMA TakesProcess ==
  ASSUME OrdinaryInstallation, DrmingwOption, OptionsKept(opt), NEW line, NEW f, DebugLine(line, f),
         tool = "drmingw", pc = "options", StandsAt(g, line, 0), Took(opt, line, 0)
  PROVE  ReadsItsLine(line)'
<1>1. PICK r : r = Parsed
  OBVIOUS
<1>2. r = getoptW_parse(g, "long_only", DrmingwOptions, DrmingwLongOptions)
  BY <1>1 DEF Parsed, getoptW_long_only
<1>3. line \in Texts /\ Len(line) >= 5 /\ line[0 + 2] = <<"-", "p">> /\ line[0 + 3] = ProcessId
      /\ Len(line) \in Nat
  BY DEF DebugLine
<1>4. r.ret = "p" /\ StandsAt(r.g, line, 2) /\ r.g.optarg = ProcessId
  <2>1. 0 \in Nat /\ 0 + 1 < Len(line) /\ 0 + 2 < Len(line) /\ "p" \in Letters5 /\ 0 + 2 = 2
    BY <1>3 DEF Letters5
  <2>2. /\ r.ret = "p"
        /\ "p" \in {"p", "e"} => StandsAt(r.g, line, 0 + 2) /\ r.g.optarg = line[0 + 3]
    BY <1>2, <1>3, <2>1, ReadsLetter
  <2> QED BY <1>3, <2>1, <2>2
<1>5. PICK s : s = ProcessGiven(ProcessId)
  OBVIOUS
<1>6. /\ s.process_id_given = TRUE /\ s.dwProcessId = Digits(ProcessId, 10)
      /\ \A m \in OptionNames \ {"process_id_given", "dwProcessId"} : s[m] = opt[m]
  <2>1. ProcessSet(ProcessId, s)
    BY <1>5, ProcessGivenIs
  <2> QED BY <2>1, ProcessIsNumber, NumbersRead DEF ProcessSet
<1>7. opt' = s /\ g' = r.g /\ pc' = "options"
  <2>1. Options(r, s, IF s.dwProcessId = 0 THEN "failed" ELSE pc)
    <3>1. opt.process_id_given = FALSE
      BY DEF Took
    <3>2. s = ProcessGiven(r.g.optarg)
      BY <1>4, <1>5
    <3> QED BY <1>1, <1>4, <3>1, <3>2, ProcessBranch
  <2>2. s.dwProcessId # 0
    BY <1>6, NumbersRead
  <2> QED BY <2>1, <2>2 DEF Options
<1>8. Took(s, line, 2)
  <2>1. /\ s.install_given = opt.install_given /\ s.uninstall_given = opt.uninstall_given
        /\ s.hEvent = opt.hEvent /\ s.verbose_flag = opt.verbose_flag
        /\ s.breakpoint_flag = opt.breakpoint_flag /\ s.debug_flag = opt.debug_flag
    BY <1>6 DEF OptionNames
  <2>2. \A c : ~Shown(line, 0, c) /\ ~Shown(line, 2, c)
    BY NoneShown
  <2> QED BY <1>6, <2>1, <2>2 DEF Took
<1>9. 2 \in Stops(line)
  BY DEF Stops
<1> QED BY <1>4, <1>7, <1>8, <1>9 DEF ReadsItsLine

\* -e, the second.
LEMMA TakesEvent ==
  ASSUME OrdinaryInstallation, DrmingwOption, OptionsKept(opt), NEW line, NEW f, DebugLine(line, f),
         tool = "drmingw", pc = "options", StandsAt(g, line, 2), Took(opt, line, 2)
  PROVE  ReadsItsLine(line)'
<1>1. PICK r : r = Parsed
  OBVIOUS
<1>2. r = getoptW_parse(g, "long_only", DrmingwOptions, DrmingwLongOptions)
  BY <1>1 DEF Parsed, getoptW_long_only
<1>3. line \in Texts /\ Len(line) >= 5 /\ line[2 + 2] = <<"-", "e">> /\ line[2 + 3] = EventHandle
      /\ Len(line) \in Nat
  BY DEF DebugLine
<1>4. r.ret = "e" /\ StandsAt(r.g, line, 4) /\ r.g.optarg = EventHandle
  <2>1. 2 \in Nat /\ 2 + 1 < Len(line) /\ 2 + 2 < Len(line) /\ "e" \in Letters5 /\ 2 + 2 = 4
    BY <1>3 DEF Letters5
  <2>2. /\ r.ret = "e"
        /\ "e" \in {"p", "e"} => StandsAt(r.g, line, 2 + 2) /\ r.g.optarg = line[2 + 3]
    BY <1>2, <1>3, <2>1, ReadsLetter
  <2> QED BY <1>3, <2>1, <2>2
<1>5. PICK event : event = wcstol(EventHandle) /\ event = Digits(EventHandle, 10)
  BY NumbersRead
<1>6. PICK s : s = [opt EXCEPT !["hEvent"] = event]
  OBVIOUS
<1>7. s.hEvent = event /\ \A m \in OptionNames \ {"hEvent"} : s[m] = opt[m]
  <2>1. "hEvent" \in OptionNames /\ "hEvent" \notin {"verbose_flag", "breakpoint_flag", "debug_flag"}
    BY DEF OptionNames
  <2>2. OneSet(opt, "hEvent", event, s)
    BY <1>6, <2>1, OneOptionSet
  <2> QED BY <2>1, <2>2 DEF OneSet
<1>8. opt' = s /\ g' = r.g /\ pc' = "options"
  <2>1. Options(r, s, pc)
    <3>1. opt.hEvent = 0
      BY DEF Took
    <3>2. s = [opt EXCEPT !.hEvent = wcstol(r.g.optarg)]
      BY <1>4, <1>5, <1>6
    <3> QED BY <1>1, <1>4, <3>1, <3>2, EventBranch
  <2> QED BY <2>1 DEF Options
<1>9. Took(s, line, 4)
  <2>1. /\ s.install_given = opt.install_given /\ s.uninstall_given = opt.uninstall_given
        /\ s.process_id_given = opt.process_id_given /\ s.dwProcessId = opt.dwProcessId
        /\ s.verbose_flag = opt.verbose_flag
        /\ s.breakpoint_flag = opt.breakpoint_flag /\ s.debug_flag = opt.debug_flag
    BY <1>7 DEF OptionNames
  <2>2. \A c : ~Shown(line, 2, c) /\ ~Shown(line, 4, c)
    BY NoneShown
  <2> QED BY <1>5, <1>7, <2>1, <2>2 DEF Took
<1>10. 4 \in Stops(line)
  BY DEF Stops, DebugLine
<1> QED BY <1>4, <1>8, <1>9, <1>10 DEF ReadsItsLine

\* One of the flags.
LEMMA TakesFlag ==
  ASSUME DrmingwOption, OptionsKept(opt), NEW line, NEW f, DebugLine(line, f),
         tool = "drmingw", pc = "options", NEW a \in 4..Len(line) - 2,
         StandsAt(g, line, a), Took(opt, line, a)
  PROVE  ReadsItsLine(line)'
<1>1. PICK r : r = Parsed
  OBVIOUS
<1>2. r = getoptW_parse(g, "long_only", DrmingwOptions, DrmingwLongOptions)
  BY <1>1 DEF Parsed, getoptW_long_only
<1>3. line \in Texts /\ Len(line) \in Nat /\ a \in Nat /\ a >= 4 /\ a + 1 < Len(line)
  BY DEF DebugLine
<1>4. PICK c \in {"v", "b", "d"} : line[a + 2] = <<"-", c>>
  <2>1. a + 2 \in 6..Len(line)
    BY <1>3
  <2> QED BY <2>1 DEF DebugLine
<1>5. r.ret = c /\ StandsAt(r.g, line, a + 1)
  <2>1. c \in Letters5 /\ c \notin {"p", "e"}
    BY <1>4 DEF Letters5
  <2> QED BY <1>2, <1>3, <1>4, <2>1, ReadsLetter
<1>6. PICK n : n = FlagOf(c)
  OBVIOUS
<1>7. /\ n \in OptionNames
      /\ n = "verbose_flag" <=> "v" = c
      /\ n = "breakpoint_flag" <=> "b" = c
      /\ n = "debug_flag" <=> "d" = c
      /\ n \in {"verbose_flag", "breakpoint_flag", "debug_flag"}
  BY <1>4, <1>6 DEF FlagOf, OptionNames
<1>8. PICK s : s = [opt EXCEPT ![n] = TRUE]
  OBVIOUS
<1>9. \A m \in OptionNames : s[m] = IF m = n THEN TRUE ELSE opt[m]
  <2>1. OneSet(opt, n, TRUE, s)
    BY <1>7, <1>8, OneOptionSet
  <2> QED BY <2>1 DEF OneSet
<1>10. opt' = s /\ g' = r.g /\ pc' = "options"
  <2>1. Options(r, s, pc)
    BY <1>1, <1>4, <1>5, <1>6, <1>8, FlagBranch
  <2> QED BY <2>1 DEF Options
<1>11. Took(s, line, a + 1)
  <2>1. /\ s.install_given = opt.install_given /\ s.uninstall_given = opt.uninstall_given
        /\ s.process_id_given = opt.process_id_given /\ s.dwProcessId = opt.dwProcessId
        /\ s.hEvent = opt.hEvent
    BY <1>7, <1>9 DEF OptionNames
  <2>2. /\ s.verbose_flag = IF "v" = c THEN TRUE ELSE opt.verbose_flag
        /\ s.breakpoint_flag = IF "b" = c THEN TRUE ELSE opt.breakpoint_flag
        /\ s.debug_flag = IF "d" = c THEN TRUE ELSE opt.debug_flag
    BY <1>7, <1>9 DEF OptionNames
  <2>3. \A d : Shown(line, a + 1, d) <=> Shown(line, a, d) \/ d = c
    <3> TAKE d
    <3>1. a \in Nat /\ a >= 4 /\ line[a + 2] = <<"-", c>>
      BY <1>3, <1>4
    <3> QED BY ONLY <3>1, OneMoreShown
  <2>4. /\ ~(a < 2) /\ a >= 2 /\ ~(a < 4)
        /\ ~(a + 1 < 2) /\ a + 1 >= 2 /\ ~(a + 1 < 4) /\ a + 1 >= 4
    BY <1>3
  <2>5. /\ s.verbose_flag = TRUE <=> Shown(line, a + 1, "v")
        /\ s.breakpoint_flag = TRUE <=> Shown(line, a + 1, "b")
        /\ s.debug_flag = TRUE <=> Shown(line, a + 1, "d")
    BY <2>2, <2>3 DEF Took
  <2> QED BY <1>3, <2>1, <2>4, <2>5 DEF Took
<1>12. a + 1 \in Stops(line)
  BY <1>3 DEF Stops
<1> QED BY <1>5, <1>10, <1>11, <1>12 DEF ReadsItsLine

\* The end of the line.
LEMMA TakesNoMore ==
  ASSUME DrmingwOption, OptionsKept(opt), NEW line, NEW f, DebugLine(line, f),
         tool = "drmingw", pc = "options", NEW a, a = Len(line) - 1,
         StandsAt(g, line, a), Took(opt, line, a)
  PROVE  ReadsItsLine(line)'
<1>1. PICK r : r = Parsed
  OBVIOUS
<1>2. r = getoptW_parse(g, "long_only", DrmingwOptions, DrmingwLongOptions)
  BY <1>1 DEF Parsed, getoptW_long_only
<1>3. line \in Texts /\ a \in Nat /\ a >= 4 /\ a < Len(line) /\ a + 1 = Len(line)
  BY DEF DebugLine
<1>4. r.ret = "done" /\ r.g.argv = line
  BY <1>2, <1>3, ScansOn
<1>5. opt.install_given = FALSE /\ opt.uninstall_given = FALSE /\ opt.process_id_given = TRUE
  BY <1>3 DEF Took
<1>6. opt' = opt /\ g' = r.g /\ pc' = "attach"
  <2>1. Options(r, opt, "attach")
    BY <1>1, <1>4, <1>5, DoneBranch
  <2> QED BY <2>1 DEF Options
<1> QED BY <1>4, <1>6 DEF ReadsItsLine

\* Each call of getopt takes the started drmingw further along its line.
LEMMA LineRead ==
  ASSUME OrdinaryInstallation, DrmingwOption, OptionsKept(opt), NEW line, NEW f, DebugLine(line, f),
         ReadsItsLine(line)
  PROVE  ReadsItsLine(line)'
<1>1. tool = "drmingw" /\ pc = "options"
  BY DEF DrmingwOption
<1>2. PICK a \in Stops(line) : StandsAt(g, line, a) /\ Took(opt, line, a)
  BY <1>1 DEF ReadsItsLine
<1>3. a = 0 \/ a = 2 \/ a \in 4..Len(line) - 2 \/ a = Len(line) - 1
  BY <1>2 DEF Stops, DebugLine
<1> QED BY <1>1, <1>2, <1>3, TakesProcess, TakesEvent, TakesFlag, TakesNoMore

\* A line just begun.
LEMMA FreshStands ==
  ASSUME NEW line
  PROVE  StandsAt(Fresh(line), line, 0)
BY DEF StandsAt, Fresh, Fields

\* And nothing taken from it.
LEMMA NothingTaken ==
  ASSUME NEW o, NEW line, \A n \in OptionNames \ {"first_chance"} : o[n] = NoOptions[n]
  PROVE  Took(o, line, 0)
<1>1. /\ o.install_given = FALSE /\ o.uninstall_given = FALSE /\ o.process_id_given = FALSE
      /\ o.hEvent = 0 /\ o.verbose_flag = FALSE /\ o.breakpoint_flag = FALSE
      /\ o.debug_flag = FALSE
  BY DEF OptionNames, NoOptions
<1>2. \A c : ~Shown(line, 0, c)
  BY NoneShown
<1> QED BY <1>1, <1>2 DEF Took

\* The system starts the command of some view.
LEMMA StartBegins ==
  ASSUME OrdinaryInstallation, ToolsInv, CommandsKept, SystemStarts
  PROVE  StartedReads'
<1>1. PICK v \in ViewSet : /\ asked[v] # NULL /\ started' = v
                           /\ Run(ArgumentsOf(Substituted(aeDebug[v].Debugger)))
  BY DEF SystemStarts, ToolsInv, Keys
<1>2. PICK f, line : f = asked[v] /\ line = LineFor(f)
  OBVIOUS
<1>3. f \in AskedFlags /\ aeDebug[v].Debugger = CommandFor(f)
  BY <1>1, <1>2 DEF CommandsKept
<1>4. ArgumentsOf(Substituted(aeDebug[v].Debugger)) = line
  BY <1>2, <1>3, CommandReadBack
<1>5. /\ tool = "drmingw" /\ tool' = tool /\ asked' = asked /\ pc' = "options"
      /\ g' = Fresh(line) /\ opt' = [NoOptions EXCEPT !.first_chance = TRUE]
  BY <1>1, <1>4 DEF SystemStarts, Run
<1>6. StandsAt(g', line, 0) /\ Took(opt', line, 0)
  BY <1>5, FreshStands, FirstOptions, NothingTaken
<1>7. ReadsItsLine(line)'
  <2>1. 0 \in Stops(line)
    BY DEF Stops
  <2> QED BY <1>5, <1>6, <2>1 DEF ReadsItsLine
<1>8. asked'[started'] = f /\ LineFor(asked'[started']) = line
  BY <1>1, <1>2, <1>5
<1> QED BY <1>1, <1>3, <1>5, <1>7, <1>8 DEF StartedReads, ViewSet

\* Once the system has started one, only its options are read.
LEMMA ReadsStep ==
  ASSUME OrdinaryInstallation, ToolsInv, StartedInv, [Next]_vars
  PROVE  StartedReads'
<1>1. CASE started = NULL
  <2>1. CASE SystemStarts
    BY <2>1, StartBegins DEF StartedInv
  <2>2. CASE ~SystemStarts
    <3>1. started' = started
      BY <2>2, OptionStepIs DEF Next, vars, Ended, OptionStep, Launch, StartTimer, LoadModule, InitSymbols,
        Answer, Cleanup, Install, Uninstall, RunAgain, Parsing
    <3> QED BY <1>1, <3>1 DEF StartedReads
  <2> QED BY <2>1, <2>2
<1>2. CASE started # NULL
  <2>1. PICK f, line : f = asked[started] /\ line = LineFor(f)
    OBVIOUS
  <2>2. /\ tool = "drmingw" /\ started \in ViewSet /\ f \in AskedFlags /\ ReadsItsLine(line)
    BY <1>2, <2>1 DEF StartedInv, StartedReads
  <2>3. pc \in {"options", "attach"}
    BY <2>2 DEF ReadsItsLine
  <2>4. DrmingwOption \/ UNCHANGED vars
    BY <1>2, <2>2, <2>3 DEF Next, Ended, CatchSegvOption, Addr2LineOption, Launch, StartTimer,
      LoadModule, InitSymbols, Answer, Cleanup, Install, Uninstall, RunAgain, SystemStarts
  <2>5. UNCHANGED <<tool, started, asked>>
    BY <2>4, OptionStepIs DEF OptionStep, vars
  <2>6. ReadsItsLine(line)'
    <3>1. CASE DrmingwOption
      <4>1. DebugLine(line, f)
        BY <2>1, <2>2, LineIs
      <4> QED BY <2>2, <3>1, <4>1, LineRead DEF StartedInv
    <3>2. CASE UNCHANGED vars
      BY <2>2, <3>2 DEF ReadsItsLine, vars
    <3> QED BY <2>4, <3>1, <3>2
  <2>7. asked'[started'] = f /\ LineFor(asked'[started']) = line
    BY <2>1, <2>5
  <2> QED BY <2>2, <2>5, <2>6, <2>7 DEF StartedReads, ViewSet
<1> QED BY <1>1, <1>2

LEMMA StartedInit ==
  ASSUME Init
  PROVE  StartedInv
<1>1. OptionsKept(opt)
  BY FirstOptions DEF Init
<1>2. CommandsKept
  <2>1. asked = [v \in ViewSet |-> NULL]
    BY DEF Init, ViewSet
  <2> QED BY <2>1 DEF CommandsKept
<1>3. StartedReads
  BY DEF Init, StartedReads
<1> QED BY <1>1, <1>2, <1>3 DEF StartedInv

\* At the end of its line it has every option of the command.
LEMMA StartedHas ==
  ASSUME StartedInv
  PROVE  StartedAsInstalled
<1>1. SUFFICES ASSUME started # NULL, pc # "options"
               PROVE  /\ pc = "attach" /\ Len(g.argv) > 0 /\ g.argv[1] = Self
                      /\ Asked = asked[started]
                      /\ opt.dwProcessId = Digits(ProcessId, 10)
                      /\ opt.hEvent = Digits(EventHandle, 10)
  BY DEF StartedAsInstalled
<1>2. PICK f, line : f = asked[started] /\ line = LineFor(f)
  OBVIOUS
<1>3. f \in AskedFlags /\ pc = "attach" /\ g.argv = line /\ Took(opt, line, Len(line) - 1)
  BY <1>1, <1>2 DEF StartedInv, StartedReads, ReadsItsLine
<1>4. DebugLine(line, f)
  BY <1>2, <1>3, LineIs
<1>5. Len(line) \in Nat /\ Len(line) >= 5 /\ line[1] = Self
  BY <1>4 DEF DebugLine
<1>6. opt.dwProcessId = Digits(ProcessId, 10) /\ opt.hEvent = Digits(EventHandle, 10)
  BY <1>3, <1>5 DEF Took
<1>7. /\ opt.verbose_flag = TRUE <=> f.verbose_flag = TRUE
      /\ opt.breakpoint_flag = TRUE <=> f.breakpoint_flag = TRUE
      /\ opt.debug_flag = TRUE <=> f.debug_flag = TRUE
  BY <1>3, <1>4 DEF Took, DebugLine
<1>8. Asked = f
  <2>1. Asked \in AskedFlags
    BY CommandAsked DEF StartedInv
  <2>2. Asked.verbose_flag = opt.verbose_flag /\ Asked.breakpoint_flag = opt.breakpoint_flag
        /\ Asked.debug_flag = opt.debug_flag
    BY DEF Asked
  <2>3. /\ Asked.verbose_flag = f.verbose_flag /\ Asked.breakpoint_flag = f.breakpoint_flag
        /\ Asked.debug_flag = f.debug_flag
    BY <1>3, <1>7, <2>1, <2>2 DEF AskedFlags
  <2> QED BY <1>3, <2>1, <2>3 DEF AskedFlags
<1> QED BY <1>2, <1>3, <1>5, <1>6, <1>8

\* The command drmingw has written to the registry means to the drmingw the
\* system starts with it what the user asked for when installing: the path, when
\* it is shorter than MAX_PATH, the flags, and the numbers the system has filled
\* in, when they are those of a signed long (install, getoptW_long_only, wmain).
THEOREM StartsAsInstalled ==
  ASSUME OrdinaryInstallation
  PROVE  Spec => []StartedAsInstalled
<1>1. Init => StartedInv
  BY StartedInit
<1>2. ToolsInv /\ StartedInv /\ [Next]_vars => StartedInv'
  <2>1. SUFFICES ASSUME ToolsInv, StartedInv, [Next]_vars PROVE StartedInv'
    OBVIOUS
  <2>2. OptionsKept(opt') /\ CommandsKept' /\ StartedReads'
    BY <2>1, OptionsStep, CommandsStep, ReadsStep DEF StartedInv
  <2> QED BY <2>2 DEF StartedInv
<1>3. StartedInv => StartedAsInstalled
  BY StartedHas
<1> QED BY <1>1, <1>2, <1>3, ToolsInvariant, PTL DEF Spec
=============================================================================
