---------------------------- MODULE CmdLineProofs -----------------------------
(***************************************************************************)
(* Proofs about CmdLine: the program catchsegv launches reads the arguments *)
(* catchsegv has written for it, unless Carried excepts one.  The reader is *)
(* followed through an argument in step with the writer, one character at a *)
(* time, and then from one argument to the next.                            *)
(***************************************************************************)
EXTENDS CmdLine, Counting, SequenceTheorems

-----------------------------------------------------------------------------
(* Sequences *)

\* The characters that matter to quoting differ.
LEMMA Distinct ==
  /\ Quote # Backslash /\ Quote \notin Blank /\ Backslash \notin Blank
  /\ Space \in Blank /\ Space # Quote /\ Space # Backslash
BY Zenon DEF Quote, Backslash, Space, Blank

LEMMA Letters ==
  \A c \in {Space, Backslash, Quote, "-", "p", "e", "v", "b", "d", "%ld"} : c \in Character
BY DEF Character

LEMMA ConcatTypes ==
  ASSUME NEW C, NEW s \in Seq(C), NEW t \in Seq(C)
  PROVE  s \o t \in Seq(C)
OBVIOUS

LEMMA ConcatOne ==
  ASSUME NEW C, NEW s \in Seq(C), NEW c \in C
  PROVE  s \o <<c>> = Append(s, c) /\ Append(s, c) \in Seq(C) /\ <<c>> \in Seq(C)
OBVIOUS

LEMMA AppendConcat ==
  ASSUME NEW C, NEW s \in Seq(C), NEW t \in Seq(C), NEW c \in C
  PROVE  s \o Append(t, c) = Append(s \o t, c)
OBVIOUS

LEMMA ConcatAssociates ==
  ASSUME NEW C, NEW s \in Seq(C), NEW t \in Seq(C), NEW u \in Seq(C)
  PROVE  s \o (t \o u) = (s \o t) \o u
OBVIOUS

LEMMA PrefixGrows ==
  ASSUME NEW C, NEW s \in Seq(C), NEW i \in 1..Len(s)
  PROVE  SubSeq(s, 1, i) = Append(SubSeq(s, 1, i - 1), s[i])
OBVIOUS

LEMMA PrefixTypes ==
  ASSUME NEW C, NEW s \in Seq(C), NEW i \in 0..Len(s)
  PROVE  SubSeq(s, 1, i) \in Seq(C) /\ Len(SubSeq(s, 1, i)) = i
OBVIOUS

LEMMA WholePrefix ==
  ASSUME NEW C, NEW s \in Seq(C)
  PROVE  SubSeq(s, 1, Len(s)) = s /\ SubSeq(s, 1, 0) = <<>>
OBVIOUS

LEMMA TextConcat ==
  /\ \A s, t \in Text : s \o t \in Text
  /\ \A s \in Text : s \o <<>> = s /\ <<>> \o s = s
  /\ \A s \in Text, c \in Character :
       s \o <<c>> = Append(s, c) /\ Append(s, c) \in Text /\ <<c>> \in Text
  /\ \A s, t \in Text, c \in Character : s \o Append(t, c) = Append(s \o t, c)
  /\ \A s, t, u \in Text : s \o (t \o u) = (s \o t) \o u
  /\ <<>> \in Text
BY ConcatTypes, ConcatOne, AppendConcat, ConcatAssociates, SMTT(30) DEF Text

LEMMA AppendBackslash == \A s, t \in Text : s \o Append(t, Backslash) = Append(s \o t, Backslash)
BY Letters, AppendConcat DEF Text

LEMMA AppendQuote == \A s, t \in Text : s \o Append(t, Quote) = Append(s \o t, Quote)
BY Letters, AppendConcat DEF Text

LEMMA BackslashesGrow ==
  ASSUME NEW n \in Nat
  PROVE  /\ Backslashes(n) \in Text
         /\ Len(Backslashes(n)) = n
         /\ Backslashes(0) = <<>>
         /\ Backslashes(n + 1) = Append(Backslashes(n), Backslash)
BY DEF Backslashes, Text, Character

-----------------------------------------------------------------------------
(* The reader of a command line, character by character *)

ReaderState ==
  [args : Texts, word : Text, inWord : BOOLEAN, quoted : BOOLEAN, slashes : Nat]

\* The argument being read, with the backslashes that are not in it yet.
Pending(st) == st.word \o Backslashes(st.slashes)

LEMMA ReadStartTypes == ReadStart \in ReaderState
BY DEF ReadStart, ReaderState, Texts, Text

LEMMA PendingText ==
  ASSUME NEW st \in ReaderState
  PROVE  Pending(st) \in Text
<1>1. st.word \in Text /\ Backslashes(st.slashes) \in Text
  BY BackslashesGrow DEF ReaderState
<1> QED BY <1>1 DEF Pending, Text

\* A reader's state, part by part.
State(args, word, inWord, quoted, slashes) ==
  [args |-> args, word |-> word, inWord |-> inWord, quoted |-> quoted, slashes |-> slashes]

LEMMA StateTypes ==
  ASSUME NEW args \in Texts, NEW word \in Text, NEW inWord \in BOOLEAN,
         NEW quoted \in BOOLEAN, NEW slashes \in Nat
  PROVE  State(args, word, inWord, quoted, slashes) \in ReaderState
BY DEF State, ReaderState

LEMMA StateParts ==
  ASSUME NEW st \in ReaderState
  PROVE  /\ st = State(st.args, st.word, st.inWord, st.quoted, st.slashes)
         /\ st.args \in Texts /\ st.word \in Text /\ st.inWord \in BOOLEAN
         /\ st.quoted \in BOOLEAN /\ st.slashes \in Nat
BY DEF State, ReaderState

\* What a character does to a reader.
LEMMA ReadBackslash ==
  ASSUME NEW st \in ReaderState
  PROVE  ReadChar(st, Backslash) = State(st.args, st.word, TRUE, st.quoted, st.slashes + 1)
BY Distinct DEF ReadChar, State, ReaderState

LEMMA ReadEscapedQuote ==
  ASSUME NEW st \in ReaderState, st.slashes % 2 = 1
  PROVE  ReadChar(st, Quote) = State(st.args, Append(st.word \o Backslashes(st.slashes \div 2), Quote),
                                    st.inWord, st.quoted, 0)
<1> DEFINE word == st.word \o Backslashes(st.slashes \div 2)
<1>1. ReadChar(st, Quote) = [st EXCEPT !.word = @ \o Backslashes(st.slashes \div 2) \o <<Quote>>,
                                      !.slashes = 0]
  BY Distinct DEF ReadChar
<1>2. st.slashes \div 2 \in Nat /\ st.word \in Text
  BY DEF ReaderState
<1>3. word \in Text
  BY <1>2, BackslashesGrow, ConcatTypes DEF Text
<1>4. Quote \in Character
  BY Letters
<1>5. word \o <<Quote>> = Append(word, Quote)
  BY <1>3, <1>4, ConcatOne DEF Text
<1> HIDE DEF word
<1> QED BY <1>1, <1>5 DEF State, ReaderState, word

LEMMA ReadQuote ==
  ASSUME NEW st \in ReaderState, st.slashes % 2 = 0
  PROVE  ReadChar(st, Quote) = State(st.args, st.word \o Backslashes(st.slashes \div 2),
                                    TRUE, ~st.quoted, 0)
<1>1. st.slashes % 2 # 1
  BY DEF ReaderState
<1>2. ReadChar(st, Quote) = [st EXCEPT !.word = @ \o Backslashes(st.slashes \div 2),
                                      !.slashes = 0, !.inWord = TRUE, !.quoted = ~@]
  BY <1>1, Distinct DEF ReadChar
<1> QED BY <1>2 DEF State, ReaderState

LEMMA ReadSeparator ==
  ASSUME NEW st \in ReaderState, NEW c \in Blank, ~st.quoted
  PROVE  ReadChar(st, c) = IF st.inWord
                           THEN State(Append(st.args, Pending(st)), <<>>, FALSE, FALSE, 0)
                           ELSE st
<1>1. ReadChar(st, c) = IF st.inWord
                        THEN [ReadStart EXCEPT !.args = Append(st.args, Flush(st).word)]
                        ELSE st
  BY Distinct DEF ReadChar
<1>2. Flush(st).word = Pending(st)
  BY DEF Flush, Pending, ReaderState
<1> QED BY <1>1, <1>2 DEF State, ReadStart

LEMMA ReadOther ==
  ASSUME NEW st \in ReaderState, NEW c, c \notin {Backslash, Quote}, c \in Blank => st.quoted
  PROVE  ReadChar(st, c) = State(st.args, Append(Pending(st), c), TRUE, st.quoted, 0)
<1>1. ReadChar(st, c) = [Flush(st) EXCEPT !.word = Append(@, c), !.inWord = TRUE]
  BY Distinct DEF ReadChar
<1> QED BY <1>1 DEF Flush, Pending, State, ReaderState

LEMMA ReadCharTypes ==
  ASSUME NEW st \in ReaderState, NEW c \in Character
  PROVE  ReadChar(st, c) \in ReaderState
<1>1. Pending(st) \in Text /\ Append(Pending(st), c) \in Text
  BY PendingText DEF Text
<1>2. /\ st.args \in Texts /\ st.word \in Text /\ st.inWord \in BOOLEAN
      /\ st.quoted \in BOOLEAN /\ st.slashes \in Nat
  BY StateParts
<1>3. CASE c = Backslash
  <2>1. st.slashes + 1 \in Nat
    BY <1>2
  <2> QED BY <1>2, <1>3, <2>1, ReadBackslash, StateTypes, ZenonT(60)
<1>4. CASE c = Quote
  <2>1. st.slashes \div 2 \in Nat /\ (st.slashes % 2 = 1 \/ st.slashes % 2 = 0)
    BY <1>2
  <2>2. Backslashes(st.slashes \div 2) \in Text
    BY <2>1, BackslashesGrow
  <2>4. st.word \o Backslashes(st.slashes \div 2) \in Text
    BY <1>2, <2>2, ConcatTypes DEF Text
  <2>5. Append(st.word \o Backslashes(st.slashes \div 2), Quote) \in Text
    BY <1>4, <2>4, ConcatOne DEF Text
  <2>6. CASE st.slashes % 2 = 1
    <3>1. ReadChar(st, c)
            = State(st.args, Append(st.word \o Backslashes(st.slashes \div 2), Quote),
                    st.inWord, st.quoted, 0)
      BY <1>4, <2>6, ReadEscapedQuote
    <3> QED BY <1>2, <2>5, <3>1, StateTypes
  <2>7. CASE st.slashes % 2 = 0
    BY <1>2, <1>4, <2>4, <2>7, ReadQuote, StateTypes
  <2> QED BY <2>1, <2>6, <2>7
<1>5. CASE c \in Blank /\ ~st.quoted
  <2>1. Append(st.args, Pending(st)) \in Texts /\ <<>> \in Text
    BY <1>1, <1>2 DEF Texts, Text
  <2> QED BY <1>5, <2>1, ReadSeparator, StateTypes
<1>6. CASE c \notin {Backslash, Quote} /\ (c \in Blank => st.quoted)
  <2>1. ReadChar(st, c) = State(st.args, Append(Pending(st), c), TRUE, st.quoted, 0)
    BY <1>6, ReadOther
  <2> QED BY <1>1, <1>2, <2>1, StateTypes
<1> QED BY <1>2, <1>3, <1>4, <1>5, <1>6

\* A text read from a state on: the states in between.
Reading(st, text) ==
  CHOOSE s : s = [i \in 0..Len(text) |-> IF i = 0 THEN st ELSE ReadChar(s[i - 1], text[i])]

ReadFrom(st, text) == Reading(st, text)[Len(text)]

LEMMA ReadingSteps ==
  ASSUME NEW st \in ReaderState, NEW text \in Text
  PROVE  /\ Reading(st, text) \in [0..Len(text) -> ReaderState]
         /\ Reading(st, text)[0] = st
         /\ \A i \in 1..Len(text) :
              Reading(st, text)[i] = ReadChar(Reading(st, text)[i - 1], text[i])
<1> DEFINE n == Len(text)
           Next_(i) == [x \in ReaderState |-> ReadChar(x, text[i])]
           F == [i \in 1..n |-> Next_(i)]
<1>1. n \in Nat /\ \A i \in 1..n : text[i] \in Character
  BY DEF Text
<1>2. \A i \in 1..n : Next_(i) \in [ReaderState -> ReaderState]
  BY <1>1, ReadCharTypes
<1>3. F \in Steps(n, ReaderState)
  BY <1>2 DEF Steps
<1>4. \A i \in 1..n : \A x \in ReaderState : F[i][x] = ReadChar(x, text[i])
  OBVIOUS
<1> HIDE DEF F, n
<1>5. PICK s : Follows(n, ReaderState, st, F, s)
  BY <1>1, <1>3, Forwards
<1>6. \A i \in 1..n : s[i] = ReadChar(s[i - 1], text[i])
  <2> TAKE i \in 1..n
  <2>1. i - 1 \in 0..n
    BY <1>1
  <2> QED BY <1>4, <1>5, <2>1 DEF Follows
<1>7. s = [i \in 0..n |-> IF i = 0 THEN st ELSE ReadChar(s[i - 1], text[i])]
  BY <1>1, <1>5, <1>6 DEF Follows
<1>8. Reading(st, text)
        = [i \in 0..n |-> IF i = 0 THEN st ELSE ReadChar(Reading(st, text)[i - 1], text[i])]
  BY <1>7 DEF Reading, n
<1> DEFINE r == Reading(st, text)
<1>9. r[0] = st /\ \A i \in 1..n : r[i] = ReadChar(r[i - 1], text[i])
  BY <1>1, <1>8
<1> HIDE DEF r
<1> DEFINE T == {k \in 0..n : r[k] \in ReaderState}
<1>10. 0 \in T /\ \A k \in 0..n - 1 : k \in T => k + 1 \in T
  <2>1. 0 \in T
    BY <1>1, <1>9
  <2>2. ASSUME NEW k \in 0..n - 1, r[k] \in ReaderState PROVE r[k + 1] \in ReaderState
    <3>1. k + 1 \in 1..n /\ (k + 1) - 1 = k
      BY <1>1
    <3> QED BY <1>1, <1>9, <2>2, <3>1, ReadCharTypes
  <2> QED BY <1>1, <2>1, <2>2
<1> HIDE DEF T
<1>11. \A k \in 0..n : k \in T
  BY <1>1, <1>10, UpTo
<1>12. \A k \in 0..n : r[k] \in ReaderState
  BY <1>11 DEF T
<1>13. r \in [0..n -> ReaderState]
  BY <1>8, <1>12 DEF r
<1> QED BY <1>9, <1>13 DEF r, n

LEMMA ReadNothing ==
  ASSUME NEW st \in ReaderState
  PROVE  ReadFrom(st, <<>>) = st
<1>1. <<>> \in Text /\ Len(<<>>) = 0
  BY DEF Text
<1> QED BY <1>1, ReadingSteps DEF ReadFrom

LEMMA ReadFromTypes ==
  ASSUME NEW st \in ReaderState, NEW text \in Text
  PROVE  ReadFrom(st, text) \in ReaderState
<1>1. Len(text) \in 0..Len(text)
  BY DEF Text
<1> QED BY <1>1, ReadingSteps DEF ReadFrom

LEMMA ReadAppend ==
  ASSUME NEW st \in ReaderState, NEW text \in Text, NEW c \in Character
  PROVE  ReadFrom(st, Append(text, c)) = ReadChar(ReadFrom(st, text), c)
<1> DEFINE n == Len(text)
           more == Append(text, c)
           T == {k \in 0..n : Reading(st, more)[k] = Reading(st, text)[k]}
<1>1. n \in Nat /\ more \in Text /\ Len(more) = n + 1 /\ more[n + 1] = c
      /\ \A i \in 1..n : more[i] = text[i]
  BY DEF Text
<1> HIDE DEF more
<1>2. /\ Reading(st, more)[0] = st
      /\ \A i \in 1..n + 1 : Reading(st, more)[i] = ReadChar(Reading(st, more)[i - 1], more[i])
  BY <1>1, ReadingSteps
<1>3. /\ Reading(st, text)[0] = st
      /\ \A i \in 1..n : Reading(st, text)[i] = ReadChar(Reading(st, text)[i - 1], text[i])
  BY ReadingSteps
<1>4. 0 \in T
  BY <1>1, <1>2, <1>3
<1>5. ASSUME NEW k \in 0..n - 1, k \in T PROVE k + 1 \in T
  <2>1. k + 1 \in 1..n /\ k + 1 \in 1..n + 1 /\ k + 1 \in 0..n /\ (k + 1) - 1 = k
    BY <1>1
  <2>2. Reading(st, more)[k] = Reading(st, text)[k]
    BY <1>5
  <2>3. Reading(st, more)[k + 1] = Reading(st, text)[k + 1]
    BY <1>1, <1>2, <1>3, <2>1, <2>2
  <2> QED BY <2>1, <2>3
<1> HIDE DEF T
<1>6. \A k \in 0..n : k \in T
  BY <1>1, <1>4, <1>5, UpTo
<1>7. Reading(st, more)[n] = Reading(st, text)[n]
  BY <1>1, <1>6 DEF T
<1>8. n + 1 \in 1..n + 1 /\ (n + 1) - 1 = n
  BY <1>1
<1>9. Reading(st, more)[n + 1] = ReadChar(Reading(st, text)[n], c)
  BY <1>1, <1>2, <1>7, <1>8
<1> QED BY <1>1, <1>9 DEF ReadFrom, more

LEMMA ReadConcat ==
  ASSUME NEW st \in ReaderState, NEW text \in Text, NEW next \in Text
  PROVE  ReadFrom(st, text \o next) = ReadFrom(ReadFrom(st, text), next)
<1> DEFINE n == Len(next)
           upto(k) == SubSeq(next, 1, k)
           T == {k \in 0..n : ReadFrom(st, text \o upto(k)) = ReadFrom(ReadFrom(st, text), upto(k))}
<1>1. n \in Nat /\ \A k \in 1..n : next[k] \in Character
  BY DEF Text
<1>2. \A k \in 0..n : upto(k) \in Text
  BY PrefixTypes DEF Text
<1>3. \A k \in 1..n : upto(k) = Append(upto(k - 1), next[k])
  BY PrefixGrows DEF Text
<1>4. upto(0) = <<>> /\ upto(n) = next
  BY WholePrefix DEF Text
<1>5. /\ \A u \in Text : text \o u \in Text
      /\ \A u \in Text, c \in Character : text \o Append(u, c) = Append(text \o u, c)
  BY AppendConcat DEF Text
<1>6. text \o <<>> = text
  BY DEF Text
<1>7. \A x \in ReaderState, u \in Text, c \in Character :
        ReadFrom(x, Append(u, c)) = ReadChar(ReadFrom(x, u), c)
  BY ReadAppend
<1>8. ReadFrom(st, text) \in ReaderState
  BY ReadFromTypes
<1> HIDE DEF upto
<1>9. 0 \in T
  <2>1. text \o upto(0) = text
    BY <1>4, <1>6
  <2>2. ReadFrom(ReadFrom(st, text), upto(0)) = ReadFrom(st, text)
    BY <1>4, <1>8, ReadNothing
  <2>3. 0 \in 0..n
    BY <1>1
  <2> QED BY <2>1, <2>2, <2>3
<1>10. ASSUME NEW k \in 0..n - 1, k \in T PROVE k + 1 \in T
  <2>1. k + 1 \in 1..n /\ k \in 0..n /\ k + 1 \in 0..n /\ (k + 1) - 1 = k
    BY <1>1
  <2>2. upto(k + 1) = Append(upto(k), next[k + 1]) /\ upto(k) \in Text /\ next[k + 1] \in Character
    BY <1>1, <1>2, <1>3, <2>1
  <2>3. ReadFrom(st, text \o upto(k + 1)) = ReadChar(ReadFrom(st, text \o upto(k)), next[k + 1])
    <3>1. text \o upto(k + 1) = Append(text \o upto(k), next[k + 1]) /\ text \o upto(k) \in Text
      BY <1>5, <2>2
    <3> QED BY <1>7, <2>2, <3>1
  <2>4. ReadFrom(ReadFrom(st, text), upto(k + 1))
          = ReadChar(ReadFrom(ReadFrom(st, text), upto(k)), next[k + 1])
    BY <1>7, <1>8, <2>2, ZenonT(60)
  <2> QED BY <1>10, <2>1, <2>3, <2>4
<1> HIDE DEF T
<1>11. \A k \in 0..n : k \in T
  BY <1>1, <1>9, <1>10, UpTo
<1>12. n \in T
  BY <1>1, <1>11
<1> QED BY <1>4, <1>12 DEF T

-----------------------------------------------------------------------------
(* What needsQuote leaves unquoted has neither blanks nor quotes. *)

\* What the scan passes over is right after a backslash it looks at.
LEMMA PassedOver ==
  ASSUME NEW arg \in Text, NEW i \in 1..Len(arg)
  PROVE  i \in LookedAt(arg) \/ (i > 1 /\ i - 1 \in LookedAt(arg) /\ arg[i - 1] = Backslash)
<1> DEFINE n == Len(arg)
           Skipping(k, set) == k - 1 \in set /\ arg[k - 1] = Backslash
           Next_(k) == [set \in SUBSET Nat |-> IF Skipping(k, set) THEN set ELSE set \cup {k}]
           F == [k \in 1..n |-> Next_(k)]
           c == CHOOSE at : at = [k \in 0..n |->
                  CASE k = 0 -> {}
                    [] k > 0 /\ k - 1 \in at[k - 1] /\ arg[k - 1] = Backslash -> at[k - 1]
                    [] OTHER -> at[k - 1] \cup {k}]
<1>1. n \in Nat
  BY DEF Text
<1>2. F \in Steps(n, SUBSET Nat)
  <2>1. \A k \in 1..n : Next_(k) \in [SUBSET Nat -> SUBSET Nat]
    OBVIOUS
  <2> QED BY <2>1 DEF Steps
<1>3. \A k \in 1..n : \A set \in SUBSET Nat :
        F[k][set] = IF Skipping(k, set) THEN set ELSE set \cup {k}
  OBVIOUS
<1> HIDE DEF F
<1>4. PICK at : Follows(n, SUBSET Nat, {}, F, at)
  <2> DEFINE X == SUBSET Nat
  <2>1. {} \in X /\ F \in Steps(n, X)
    BY <1>2
  <2> HIDE DEF n, X
  <2>2. \E at : Follows(n, X, {}, F, at)
    BY <1>1, <2>1, Forwards
  <2> QED BY <2>2 DEF X
<1>5. \A k \in 1..n : at[k] = IF Skipping(k, at[k - 1]) THEN at[k - 1] ELSE at[k - 1] \cup {k}
  <2> TAKE k \in 1..n
  <2>1. at[k - 1] \in SUBSET Nat
    BY <1>1, <1>4 DEF Follows
  <2> QED BY <1>3, <1>4, <2>1 DEF Follows
<1>6. at = [k \in 0..n |->
             CASE k = 0 -> {}
               [] k > 0 /\ k - 1 \in at[k - 1] /\ arg[k - 1] = Backslash -> at[k - 1]
               [] OTHER -> at[k - 1] \cup {k}]
  BY <1>1, <1>4, <1>5 DEF Follows
<1>7. /\ c[0] = {}
      /\ \A k \in 1..n : c[k] = IF Skipping(k, c[k - 1]) THEN c[k - 1] ELSE c[k - 1] \cup {k}
  <2>1. c = [k \in 0..n |->
              CASE k = 0 -> {}
                [] k > 0 /\ k - 1 \in c[k - 1] /\ arg[k - 1] = Backslash -> c[k - 1]
                [] OTHER -> c[k - 1] \cup {k}]
    BY <1>6
  <2> HIDE DEF c
  <2>2. 0 \in 0..n /\ \A k \in 1..n : k \in 0..n /\ k # 0
    BY <1>1
  <2>3. c[0] = {}
    BY <2>1, <2>2
  <2>4. ASSUME NEW k \in 1..n
        PROVE  c[k] = IF Skipping(k, c[k - 1]) THEN c[k - 1] ELSE c[k - 1] \cup {k}
    <3>1. c[k] = CASE k = 0 -> {}
                   [] k > 0 /\ k - 1 \in c[k - 1] /\ arg[k - 1] = Backslash -> c[k - 1]
                   [] OTHER -> c[k - 1] \cup {k}
      BY <2>1, <2>2
    <3> QED BY <3>1
  <2> QED BY <2>3, <2>4
<1>8. LookedAt(arg) = c[n]
  BY DEF LookedAt
<1> HIDE DEF c
<1> DEFINE Fine(k, j) == j \in c[k] \/ (j > 1 /\ Skipping(j, c[k]))
           T == {k \in 0..n : \A j \in 1..k : Fine(k, j)}
<1>9. 0 \in T
  BY <1>1
<1>10. ASSUME NEW k \in 0..n - 1, k \in T PROVE k + 1 \in T
  <2>1. k + 1 \in 1..n /\ (k + 1) - 1 = k
    BY <1>1
  <2>2. c[k + 1] = IF Skipping(k + 1, c[k]) THEN c[k] ELSE c[k] \cup {k + 1}
    BY <1>7, <2>1
  <2>3. ASSUME NEW j \in 1..k + 1 PROVE Fine(k + 1, j)
    <3>1. CASE j \in 1..k
      <4>1. Fine(k, j)
        BY <1>10, <3>1
      <4> QED BY <2>2, <4>1
    <3>2. CASE j = k + 1
      <4>1. CASE ~Skipping(k + 1, c[k])
        BY <2>2, <3>2, <4>1
      <4>2. CASE Skipping(k + 1, c[k])
        <5>1. c[k + 1] = c[k] /\ k \in c[k]
          BY <2>1, <2>2, <4>2
        <5>2. k # 0
          BY <1>7, <5>1
        <5> QED BY <2>1, <3>2, <4>2, <5>1, <5>2
      <4> QED BY <4>1, <4>2
    <3> QED BY <3>1, <3>2
  <2>4. k + 1 \in 0..n
    BY <1>1
  <2> QED BY <2>3, <2>4
<1> HIDE DEF T
<1>11. \A k \in 0..n : k \in T
  BY <1>1, <1>9, <1>10, UpTo
<1>12. Fine(n, i)
  BY <1>1, <1>11 DEF T
<1> QED BY <1>8, <1>12

LEMMA UnquotedIsPlain ==
  ASSUME NEW arg \in Text, Carried(arg), ~needsQuote(arg)
  PROVE  \A i \in 1..Len(arg) : arg[i] \notin Blank \cup {Quote}
<1> TAKE i \in 1..Len(arg)
<1>1. SUFFICES ASSUME arg[i] \in Blank \cup {Quote} PROVE FALSE
  OBVIOUS
<1>2. i \notin LookedAt(arg)
  BY <1>1 DEF needsQuote
<1>3. i > 1 /\ i - 1 \in LookedAt(arg) /\ arg[i - 1] = Backslash
  BY <1>2, PassedOver
<1>4. Len(arg) \in Nat /\ i - 1 < Len(arg) /\ (i - 1) + 1 = i
  BY DEF Text
<1>5. arg[i] # Quote
  BY <1>3, <1>4 DEF needsQuote
<1>6. i \in 2..Len(arg)
  BY <1>3, <1>4
<1>7. arg[i] \in Blank
  BY <1>1, <1>5
<1> QED BY <1>3, <1>6, <1>7 DEF Carried, Skips

-----------------------------------------------------------------------------
(* Reading an argument back *)

Between(args) == State(args, <<>>, FALSE, FALSE, 0)

\* A reader that has read a part of an argument so far.
HasRead(st, args, part, quoted) ==
  /\ st \in ReaderState
  /\ st.args = args /\ st.inWord = TRUE /\ st.quoted = quoted
  /\ Pending(st) = part

LEMMA BetweenTypes ==
  ASSUME NEW args \in Texts
  PROVE  /\ Between(args) \in ReaderState
         /\ Between(args).args = args /\ Between(args).quoted = FALSE
         /\ Between(args).inWord = FALSE /\ Between(args).slashes = 0
         /\ Pending(Between(args)) = <<>>
<1>1. <<>> \in Text /\ 0 \in Nat
  BY DEF Text
<1>2. Between(args) \in ReaderState
  BY <1>1, StateTypes DEF Between
<1>3. Pending(Between(args)) = <<>> \o Backslashes(0)
  BY DEF Pending, Between, State
<1>4. <<>> \o <<>> = <<>>
  OBVIOUS
<1>5. Pending(Between(args)) = <<>>
  BY <1>3, <1>4, BackslashesGrow
<1> QED BY <1>2, <1>5 DEF Between, State

LEMMA PendingNone ==
  ASSUME NEW st \in ReaderState, st.slashes = 0
  PROVE  Pending(st) = st.word
<1>1. st.word \in Text /\ Backslashes(0) = <<>>
  BY BackslashesGrow DEF ReaderState
<1> QED BY <1>1 DEF Pending, Text

\* A character that stands for itself.
LEMMA ReadPlainChar ==
  ASSUME NEW st \in ReaderState, NEW c \in Character, c # Quote, c \in Blank => st.quoted = TRUE
  PROVE  /\ HasRead(ReadChar(st, c), st.args, Append(Pending(st), c), st.quoted)
         /\ ReadChar(st, c).slashes = IF c = Backslash THEN st.slashes + 1 ELSE 0
<1>1. ReadChar(st, c) \in ReaderState
  BY ReadCharTypes
<1>2. st.word \in Text /\ st.slashes \in Nat
  BY StateParts
<1>3. CASE c = Backslash
  <2>1. ReadChar(st, c) = State(st.args, st.word, TRUE, st.quoted, st.slashes + 1)
    BY <1>3, ReadBackslash
  <2>2. /\ Backslashes(st.slashes + 1) = Append(Backslashes(st.slashes), Backslash)
        /\ Backslashes(st.slashes) \in Text /\ Backslash \in Character
    BY <1>2, BackslashesGrow, Letters
  <2>3. /\ ReadChar(st, c).slashes = st.slashes + 1 /\ ReadChar(st, c).word = st.word
        /\ ReadChar(st, c).args = st.args /\ ReadChar(st, c).inWord = TRUE
        /\ ReadChar(st, c).quoted = st.quoted
    BY <2>1 DEF State
  <2>4. Pending(ReadChar(st, c)) = st.word \o Backslashes(st.slashes + 1)
    BY <2>3 DEF Pending
  <2>5. st.word \o Append(Backslashes(st.slashes), Backslash)
          = Append(st.word \o Backslashes(st.slashes), Backslash)
    <3>1. \A s, t \in Text : s \o Append(t, Backslash) = Append(s \o t, Backslash)
      BY <2>2, TextConcat
    <3> QED BY <1>2, <2>2, <3>1
  <2>6. Pending(ReadChar(st, c)) = Append(Pending(st), c)
    BY <1>3, <2>2, <2>4, <2>5 DEF Pending
  <2> QED BY <1>1, <1>3, <2>3, <2>6 DEF HasRead
<1>4. CASE c # Backslash
  <2>1. ReadChar(st, c) = State(st.args, Append(Pending(st), c), TRUE, st.quoted, 0)
    BY <1>4, ReadOther
  <2>2. /\ ReadChar(st, c).slashes = 0 /\ ReadChar(st, c).word = Append(Pending(st), c)
        /\ ReadChar(st, c).args = st.args /\ ReadChar(st, c).inWord = TRUE
        /\ ReadChar(st, c).quoted = st.quoted
    BY <2>1 DEF State
  <2>3. Pending(ReadChar(st, c)) = Append(Pending(st), c)
    BY <1>1, <2>2, PendingNone
  <2> QED BY <1>1, <1>4, <2>2, <2>3 DEF HasRead
<1> QED BY <1>3, <1>4

\* An argument that is written as it is.
LEMMA ReadUnquoted ==
  ASSUME NEW args \in Texts, NEW arg \in Text, arg # <<>>,
         \A i \in 1..Len(arg) : arg[i] \notin Blank \cup {Quote}
  PROVE  HasRead(ReadFrom(Between(args), arg), args, arg, FALSE)
<1> DEFINE n == Len(arg)
           upto(k) == SubSeq(arg, 1, k)
           at(k) == ReadFrom(Between(args), upto(k))
           T == {k \in 0..n : k = 0 \/ HasRead(at(k), args, upto(k), FALSE)}
<1>1. n \in Nat /\ n > 0
  BY DEF Text
<1>2. \A k \in 0..n : upto(k) \in Text
  BY PrefixTypes DEF Text
<1>3. \A k \in 1..n : upto(k) = Append(upto(k - 1), arg[k]) /\ arg[k] \in Character
  BY PrefixGrows DEF Text
<1>4. upto(0) = <<>> /\ upto(n) = arg
  BY WholePrefix DEF Text
<1>5. \A u \in Text, c \in Character :
        ReadFrom(Between(args), Append(u, c)) = ReadChar(ReadFrom(Between(args), u), c)
  BY BetweenTypes, ReadAppend
<1>6. \A k \in 1..n : arg[k] # Quote /\ arg[k] \notin Blank
  OBVIOUS
<1> HIDE DEF upto, n
<1>7. at(0) = Between(args) /\ at(n) = ReadFrom(Between(args), arg)
  BY <1>4, BetweenTypes, ReadNothing
<1>8. \A k \in 1..n : at(k) = ReadChar(at(k - 1), arg[k])
  <2> TAKE k \in 1..n
  <2>1. k - 1 \in 0..n
    BY <1>1
  <2> QED BY <1>2, <1>3, <1>5, <2>1
<1> HIDE DEF at
<1>9. 0 \in T
  BY <1>1
<1>10. ASSUME NEW k \in 0..n - 1, k \in T PROVE k + 1 \in T
  <2>1. k + 1 \in 1..n /\ k + 1 \in 0..n /\ (k + 1) - 1 = k
    BY <1>1
  <2>2. at(k + 1) = ReadChar(at(k), arg[k + 1]) /\ upto(k + 1) = Append(upto(k), arg[k + 1])
    BY <1>3, <1>8, <2>1
  <2>3. /\ at(k) \in ReaderState /\ at(k).args = args /\ at(k).quoted = FALSE
        /\ Pending(at(k)) = upto(k)
    <3>1. CASE k = 0
      BY <1>4, <1>7, <3>1, BetweenTypes
    <3>2. CASE k # 0
      BY <1>10, <3>2 DEF HasRead
    <3> QED BY <3>1, <3>2
  <2>4. HasRead(at(k + 1), args, upto(k + 1), FALSE)
    <3>1. arg[k + 1] \in Character /\ arg[k + 1] # Quote /\ arg[k + 1] \notin Blank
      BY <1>3, <1>6, <2>1
    <3>2. HasRead(ReadChar(at(k), arg[k + 1]), at(k).args, Append(Pending(at(k)), arg[k + 1]),
                  at(k).quoted)
      BY <2>3, <3>1, ReadPlainChar
    <3> QED BY <2>2, <2>3, <3>2
  <2> QED BY <2>1, <2>4
<1> HIDE DEF T
<1>11. n \in T
  <2>1. \A k \in 0..n : k \in T
    BY <1>1, <1>9, <1>10, UpTo
  <2> QED BY <1>1, <2>1
<1>12. HasRead(at(n), args, upto(n), FALSE)
  <2>1. n # 0
    BY <1>1
  <2> QED BY <1>11, <2>1 DEF T
<1> QED BY <1>4, <1>7, <1>12

-----------------------------------------------------------------------------
(* Reading back an argument that is quoted *)

LEMMA RunUnfolds ==
  ASSUME NEW arg \in Text
  PROVE  /\ RunTo(arg) \in [0..Len(arg) -> Nat]
         /\ RunTo(arg)[0] = 0
         /\ \A i \in 1..Len(arg) :
              RunTo(arg)[i] = IF arg[i] = Backslash THEN RunTo(arg)[i - 1] + 1 ELSE 0
<1> DEFINE n == Len(arg)
           Next_(k) == [m \in Nat |-> IF arg[k] = Backslash THEN m + 1 ELSE 0]
           F == [k \in 1..n |-> Next_(k)]
           c == CHOOSE r : r = [i \in 0..n |-> IF i > 0 /\ arg[i] = Backslash THEN r[i - 1] + 1 ELSE 0]
<1>1. n \in Nat
  BY DEF Text
<1>2. F \in Steps(n, Nat)
  <2>1. \A k \in 1..n : Next_(k) \in [Nat -> Nat]
    OBVIOUS
  <2> QED BY <2>1 DEF Steps
<1>3. \A k \in 1..n : \A m \in Nat : F[k][m] = IF arg[k] = Backslash THEN m + 1 ELSE 0
  OBVIOUS
<1> HIDE DEF F
<1>4. PICK r : Follows(n, Nat, 0, F, r)
  <2>1. 0 \in Nat
    OBVIOUS
  <2> HIDE DEF n
  <2> QED BY <1>1, <1>2, <2>1, Forwards
<1>5. \A k \in 1..n : r[k] = IF arg[k] = Backslash THEN r[k - 1] + 1 ELSE 0
  <2> TAKE k \in 1..n
  <2>1. r[k - 1] \in Nat
    BY <1>1, <1>4, SMTT(30) DEF Follows
  <2> QED BY <1>3, <1>4, <2>1 DEF Follows
<1>6. r = [i \in 0..n |-> IF i > 0 /\ arg[i] = Backslash THEN r[i - 1] + 1 ELSE 0]
  BY <1>1, <1>4, <1>5 DEF Follows
<1>7. c = [i \in 0..n |-> IF i > 0 /\ arg[i] = Backslash THEN c[i - 1] + 1 ELSE 0]
  BY <1>6
<1>8. RunTo(arg) = c
  BY DEF RunTo
<1> HIDE DEF c
<1>9. c[0] = 0 /\ \A k \in 1..n : c[k] = IF arg[k] = Backslash THEN c[k - 1] + 1 ELSE 0
  BY <1>1, <1>7
<1> DEFINE T == {k \in 0..n : c[k] \in Nat}
<1>10. 0 \in T
  BY <1>1, <1>9
<1>11. ASSUME NEW k \in 0..n - 1, k \in T PROVE k + 1 \in T
  <2>1. k + 1 \in 1..n /\ k + 1 \in 0..n /\ (k + 1) - 1 = k
    BY <1>1
  <2> QED BY <1>9, <1>11, <2>1
<1> HIDE DEF T
<1>12. \A k \in 0..n : k \in T
  BY <1>1, <1>10, <1>11, UpTo
<1>13. \A k \in 0..n : c[k] \in Nat
  BY <1>12 DEF T
<1> QED BY <1>7, <1>8, <1>9, <1>13

\* The quoted text up to and with the i-th character.
Quoted(arg) ==
  CHOOSE q : q = [i \in 0..Len(arg) |->
    CASE i = 0 -> <<Quote>>
      [] i > 0 /\ arg[i] = Quote ->
           q[i - 1] \o Backslashes(RunTo(arg)[i - 1]) \o <<Backslash, Quote>>
      [] OTHER -> Append(q[i - 1], arg[i])]

QuotedStep(arg, q, i) ==
  IF arg[i] = Quote
  THEN Append(Append(q \o Backslashes(RunTo(arg)[i - 1]), Backslash), Quote)
  ELSE Append(q, arg[i])

LEMMA QuoteAppended ==
  ASSUME NEW q \in Text
  PROVE  /\ q \o <<Backslash, Quote>> = Append(Append(q, Backslash), Quote)
         /\ Append(Append(q, Backslash), Quote) \in Text
<1>1. Backslash \in Character /\ Quote \in Character
  BY Letters
<1> HIDE DEF Backslash, Quote
<1> QED BY <1>1 DEF Text

LEMMA QuotedStepTypes ==
  ASSUME NEW arg \in Text, NEW i \in 1..Len(arg), NEW q \in Text
  PROVE  /\ QuotedStep(arg, q, i) \in Text
         /\ QuotedStep(arg, q, i) =
              IF arg[i] = Quote
              THEN q \o Backslashes(RunTo(arg)[i - 1]) \o <<Backslash, Quote>>
              ELSE Append(q, arg[i])
<1>1. RunTo(arg)[i - 1] \in Nat /\ arg[i] \in Character
  <2>1. i - 1 \in 0..Len(arg)
    BY DEF Text
  <2> QED BY <2>1, RunUnfolds DEF Text
<1>2. q \o Backslashes(RunTo(arg)[i - 1]) \in Text
  BY <1>1, BackslashesGrow, TextConcat
<1>3. Append(q, arg[i]) \in Text
  BY <1>1, TextConcat
<1> QED BY <1>2, <1>3, QuoteAppended DEF QuotedStep

LEMMA QuoteUnfolds ==
  ASSUME NEW arg \in Text
  PROVE  /\ quoteArg(arg) = Append(Quoted(arg)[Len(arg)], Quote)
         /\ Quoted(arg) \in [0..Len(arg) -> Text]
         /\ Quoted(arg)[0] = <<Quote>>
         /\ \A i \in 1..Len(arg) : Quoted(arg)[i] = QuotedStep(arg, Quoted(arg)[i - 1], i)
<1> DEFINE n == Len(arg)
           Next_(k) == [q \in Text |-> QuotedStep(arg, q, k)]
           F == [k \in 1..n |-> Next_(k)]
           Body(q, i) == CASE i = 0 -> <<Quote>>
                           [] i > 0 /\ arg[i] = Quote ->
                                q[i - 1] \o Backslashes(RunTo(arg)[i - 1]) \o <<Backslash, Quote>>
                           [] OTHER -> Append(q[i - 1], arg[i])
           c == Quoted(arg)
<1>1. n \in Nat /\ <<Quote>> \in Text
  BY Letters, TextConcat DEF Text
<1>2. F \in Steps(n, Text)
  <2>1. \A k \in 1..n : Next_(k) \in [Text -> Text]
    BY QuotedStepTypes
  <2> QED BY <2>1 DEF Steps
<1>3. \A k \in 1..n : \A q \in Text : F[k][q] = QuotedStep(arg, q, k)
  OBVIOUS
<1> HIDE DEF F
<1>4. PICK q : Follows(n, Text, <<Quote>>, F, q)
  <2> DEFINE first == <<Quote>>
  <2>1. first \in Text
    BY <1>1
  <2> HIDE DEF n, first
  <2>2. \E q : Follows(n, Text, first, F, q)
    BY <1>1, <1>2, <2>1, Forwards
  <2> QED BY <2>2 DEF first
<1>5. \A k \in 1..n : q[k] = QuotedStep(arg, q[k - 1], k) /\ q[k] = Body(q, k)
  <2> TAKE k \in 1..n
  <2>1. q[k - 1] \in Text
    BY <1>1, <1>4 DEF Follows
  <2>2. q[k] = QuotedStep(arg, q[k - 1], k)
    BY <1>3, <1>4, <2>1 DEF Follows
  <2>3. QuotedStep(arg, q[k - 1], k)
          = IF arg[k] = Quote
            THEN q[k - 1] \o Backslashes(RunTo(arg)[k - 1]) \o <<Backslash, Quote>>
            ELSE Append(q[k - 1], arg[k])
    BY <2>1, QuotedStepTypes
  <2>4. k > 0 /\ k # 0
    OBVIOUS
  <2> QED BY <2>2, <2>3, <2>4
<1>6. q = [i \in 0..n |-> Body(q, i)]
  <2>1. q[0] = Body(q, 0)
    BY <1>4 DEF Follows
  <2>2. DOMAIN q = 0..n /\ q = [i \in 0..n |-> q[i]]
    BY <1>4 DEF Follows
  <2> HIDE DEF Body
  <2>3. \A i \in 0..n : i = 0 \/ i \in 1..n
    BY <1>1
  <2> QED BY <1>5, <2>1, <2>2, <2>3
<1>7. c = [i \in 0..n |-> Body(c, i)]
  BY <1>6 DEF Quoted
<1>8. quoteArg(arg) = Append(c[n], Quote)
  BY DEF quoteArg, Quoted
<1> HIDE DEF c
<1>9. c[0] = <<Quote>>
  BY <1>1, <1>7
<1>10. ASSUME NEW k \in 1..n, c[k - 1] \in Text
       PROVE  c[k] = QuotedStep(arg, c[k - 1], k) /\ c[k] \in Text
  <2>1. k \in 0..n /\ k > 0 /\ k # 0
    BY <1>1
  <2>2. c[k] = Body(c, k)
    BY <1>7, <2>1
  <2>3. c[k] = IF arg[k] = Quote
               THEN c[k - 1] \o Backslashes(RunTo(arg)[k - 1]) \o <<Backslash, Quote>>
               ELSE Append(c[k - 1], arg[k])
    BY <2>1, <2>2
  <2>4. /\ QuotedStep(arg, c[k - 1], k) \in Text
        /\ QuotedStep(arg, c[k - 1], k)
             = IF arg[k] = Quote
               THEN c[k - 1] \o Backslashes(RunTo(arg)[k - 1]) \o <<Backslash, Quote>>
               ELSE Append(c[k - 1], arg[k])
    BY <1>10, QuotedStepTypes
  <2> HIDE DEF Body
  <2> QED BY <2>3, <2>4
<1> DEFINE T == {k \in 0..n : c[k] \in Text}
<1> HIDE DEF Body
<1>11. 0 \in T
  BY <1>1, <1>9
<1>12. ASSUME NEW k \in 0..n - 1, k \in T PROVE k + 1 \in T
  <2>1. k + 1 \in 1..n /\ k + 1 \in 0..n /\ (k + 1) - 1 = k
    BY <1>1
  <2> QED BY <1>10, <1>12, <2>1
<1> HIDE DEF T
<1>13. \A k \in 0..n : k \in T
  BY <1>1, <1>11, <1>12, UpTo
<1>14. \A k \in 0..n : c[k] \in Text
  BY <1>13 DEF T
<1>15. \A k \in 1..n : c[k] = QuotedStep(arg, c[k - 1], k)
  <2> TAKE k \in 1..n
  <2>1. k - 1 \in 0..n
    BY <1>1
  <2> QED BY <1>10, <1>14, <2>1
<1> QED BY <1>7, <1>8, <1>9, <1>14, <1>15 DEF c

LEMMA RunGrows ==
  ASSUME NEW st \in ReaderState, st.inWord = TRUE, NEW m \in Nat
  PROVE  ReadFrom(st, Backslashes(m))
           = State(st.args, st.word, TRUE, st.quoted, st.slashes + m)
<1> DEFINE Reached(k) == State(st.args, st.word, TRUE, st.quoted, st.slashes + k)
           T == {k \in 0..m : ReadFrom(st, Backslashes(k)) = Reached(k)}
<1>1. /\ st = State(st.args, st.word, TRUE, st.quoted, st.slashes)
      /\ st.args \in Texts /\ st.word \in Text /\ st.quoted \in BOOLEAN /\ st.slashes \in Nat
  BY StateParts
<1>2. 0 \in T
  <2>1. ReadFrom(st, Backslashes(0)) = st
    BY BackslashesGrow, ReadNothing
  <2>2. st.slashes + 0 = st.slashes
    BY <1>1
  <2>3. Reached(0) = st
    BY <1>1, <2>2
  <2>4. 0 \in 0..m
    OBVIOUS
  <2> HIDE DEF Reached
  <2> QED BY <2>1, <2>3, <2>4
<1>3. ASSUME NEW k \in 0..m - 1, k \in T PROVE k + 1 \in T
  <2>1. k \in Nat /\ k + 1 \in 0..m
    OBVIOUS
  <2>2. ReadFrom(st, Backslashes(k + 1)) = ReadChar(ReadFrom(st, Backslashes(k)), Backslash)
    <3>1. /\ Backslashes(k) \in Text /\ Backslash \in Character
          /\ Backslashes(k + 1) = Append(Backslashes(k), Backslash)
      BY <2>1, BackslashesGrow, Letters
    <3> QED BY <3>1, ReadAppend
  <2>3. ReadFrom(st, Backslashes(k)) = Reached(k)
    BY <1>3
  <2>4. Reached(k) \in ReaderState
    <3>1. st.slashes + k \in Nat
      BY <1>1, <2>1
    <3> QED BY <1>1, <3>1, StateTypes
  <2>5. ReadChar(Reached(k), Backslash)
          = State(Reached(k).args, Reached(k).word, TRUE, Reached(k).quoted, Reached(k).slashes + 1)
    BY <2>4, ReadBackslash
  <2>6. /\ Reached(k).args = st.args /\ Reached(k).word = st.word
        /\ Reached(k).quoted = st.quoted /\ Reached(k).slashes = st.slashes + k
    BY DEF State
  <2>7. (st.slashes + k) + 1 = st.slashes + (k + 1)
    BY <1>1, <2>1
  <2>8. ReadFrom(st, Backslashes(k + 1)) = Reached(k + 1)
    BY <2>2, <2>3, <2>5, <2>6, <2>7
  <2> QED BY <2>1, <2>8
<1> HIDE DEF T
<1>4. m \in T
  <2>1. \A k \in 0..m : k \in T
    BY <1>2, <1>3, UpTo
  <2> QED BY <2>1
<1> QED BY <1>4 DEF T

\* A quote the writer has escaped, behind as many backslashes as there were.
LEMMA ReadEscaped ==
  ASSUME NEW st \in ReaderState, st.inWord = TRUE
  PROVE  LET end == ReadFrom(st, Append(Append(Backslashes(st.slashes), Backslash), Quote))
         IN  HasRead(end, st.args, Append(Pending(st), Quote), st.quoted) /\ end.slashes = 0
<1> DEFINE r == st.slashes
           Reached(k) == State(st.args, st.word, TRUE, st.quoted, k)
           end == ReadFrom(st, Append(Append(Backslashes(r), Backslash), Quote))
<1>1. /\ st.args \in Texts /\ st.word \in Text /\ st.quoted \in BOOLEAN /\ r \in Nat
  BY StateParts
<1>2. /\ Backslashes(r) \in Text /\ Append(Backslashes(r), Backslash) \in Text
      /\ Backslash \in Character /\ Quote \in Character
  BY <1>1, BackslashesGrow, Letters, TextConcat
<1>3. ReadFrom(st, Backslashes(r)) = Reached(r + r)
  BY <1>1, RunGrows
<1>4. Reached(r + r) \in ReaderState /\ Reached(r + r + 1) \in ReaderState
  <2>1. r + r \in Nat /\ r + r + 1 \in Nat
    BY <1>1
  <2> QED BY <1>1, <2>1, StateTypes
<1>5. ReadFrom(st, Append(Backslashes(r), Backslash)) = Reached(r + r + 1)
  <2>1. ReadFrom(st, Append(Backslashes(r), Backslash)) = ReadChar(Reached(r + r), Backslash)
    BY <1>2, <1>3, ReadAppend
  <2>2. ReadChar(Reached(r + r), Backslash)
          = State(Reached(r + r).args, Reached(r + r).word, TRUE, Reached(r + r).quoted,
                  Reached(r + r).slashes + 1)
    BY <1>4, ReadBackslash
  <2>3. /\ Reached(r + r).args = st.args /\ Reached(r + r).word = st.word
        /\ Reached(r + r).quoted = st.quoted /\ Reached(r + r).slashes = r + r
    BY DEF State
  <2> QED BY <2>1, <2>2, <2>3
<1>6. end = ReadChar(Reached(r + r + 1), Quote)
  BY <1>2, <1>5, ReadAppend
<1>7. (r + r + 1) % 2 = 1 /\ (r + r + 1) \div 2 = r
  BY <1>1
<1>8. /\ Reached(r + r + 1).args = st.args /\ Reached(r + r + 1).word = st.word
      /\ Reached(r + r + 1).quoted = st.quoted /\ Reached(r + r + 1).slashes = r + r + 1
      /\ Reached(r + r + 1).inWord = TRUE
  BY DEF State
<1> HIDE DEF Reached
<1>9. end = State(st.args, Append(st.word \o Backslashes(r), Quote), TRUE, st.quoted, 0)
  BY <1>4, <1>6, <1>7, <1>8, ReadEscapedQuote
<1>10. Append(Pending(st), Quote) \in Text /\ 0 \in Nat /\ TRUE \in BOOLEAN
  BY <1>2, PendingText, TextConcat
<1>11. end = State(st.args, Append(Pending(st), Quote), TRUE, st.quoted, 0)
  BY <1>9 DEF Pending
<1> HIDE DEF end, r
<1>12. end \in ReaderState
  BY <1>1, <1>10, <1>11, StateTypes
<1>13. /\ end.slashes = 0 /\ end.word = Append(Pending(st), Quote) /\ end.args = st.args
       /\ end.quoted = st.quoted /\ end.inWord = TRUE
  BY <1>11 DEF State
<1>14. Pending(end) = Append(Pending(st), Quote)
  BY <1>12, <1>13, PendingNone
<1> QED BY <1>12, <1>13, <1>14 DEF HasRead, end, r

\* An argument that is written between quotes.
LEMMA ReadQuoted ==
  ASSUME NEW args \in Texts, NEW arg \in Text, arg # <<>>, arg[Len(arg)] # Backslash
  PROVE  HasRead(ReadFrom(Between(args), quoteArg(arg)), args, arg, FALSE)
<1> DEFINE n == Len(arg)
           upto(k) == SubSeq(arg, 1, k)
           q == Quoted(arg)
           run == RunTo(arg)
           at(k) == ReadFrom(Between(args), q[k])
           Good(k) == HasRead(at(k), args, upto(k), TRUE) /\ at(k).slashes = run[k]
           T == {k \in 0..n : Good(k)}
<1>1. n \in Nat /\ n > 0
  BY DEF Text
<1>2. \A k \in 1..n : upto(k) = Append(upto(k - 1), arg[k]) /\ arg[k] \in Character
  BY PrefixGrows DEF Text
<1>3. upto(0) = <<>> /\ upto(n) = arg
  BY WholePrefix DEF Text
<1>4. /\ run[0] = 0
      /\ \A k \in 1..n : run[k] = IF arg[k] = Backslash THEN run[k - 1] + 1 ELSE 0
      /\ \A k \in 0..n : run[k] \in Nat
  BY RunUnfolds
<1>5. /\ quoteArg(arg) = Append(q[n], Quote)
      /\ q[0] = <<Quote>>
      /\ \A k \in 0..n : q[k] \in Text
      /\ \A k \in 1..n : q[k] = QuotedStep(arg, q[k - 1], k)
  BY QuoteUnfolds
<1>6. Quote \in Character /\ Backslash \in Character /\ Quote # Backslash
  BY Letters, Distinct
<1>7. Between(args) \in ReaderState
  BY BetweenTypes
<1>8. arg[n] # Backslash
  OBVIOUS
<1> HIDE DEF upto, n, q, run
<1>9. \A k \in 0..n : at(k) \in ReaderState
  BY <1>5, <1>7, ReadFromTypes
<1>10. at(0) = ReadChar(Between(args), Quote)
  <2>1. q[0] = Append(<<>>, Quote)
    BY <1>5
  <2>2. <<>> \in Text
    BY TextConcat
  <2> QED BY <1>6, <1>7, <2>1, <2>2, ReadAppend, ReadNothing
<1>11. \A u \in Text, c \in Character :
         ReadFrom(Between(args), Append(u, c)) = ReadChar(ReadFrom(Between(args), u), c)
  BY <1>7, ReadAppend
<1>12. ASSUME NEW k \in 1..n, arg[k] = Quote
       PROVE  at(k) = ReadFrom(at(k - 1), Append(Append(Backslashes(run[k - 1]), Backslash), Quote))
  <2> DEFINE b == Backslashes(run[k - 1])
  <2>1. k - 1 \in 0..n
    BY <1>1
  <2>2. q[k - 1] \in Text /\ b \in Text
    BY <1>4, <1>5, <2>1, BackslashesGrow
  <2>3. q[k] = Append(Append(q[k - 1] \o b, Backslash), Quote)
    BY <1>5, <1>12 DEF QuotedStep, run
  <2>4. Append(b, Backslash) \in Text /\ Append(Append(b, Backslash), Quote) \in Text
    BY <1>6, <2>2, TextConcat
  <2>5. q[k] = q[k - 1] \o Append(Append(b, Backslash), Quote)
    <3>1. q[k - 1] \o Append(b, Backslash) = Append(q[k - 1] \o b, Backslash)
      BY <2>2, AppendBackslash
    <3>2. q[k - 1] \o Append(Append(b, Backslash), Quote)
            = Append(q[k - 1] \o Append(b, Backslash), Quote)
      BY <2>2, <2>4, AppendQuote
    <3> QED BY <2>3, <3>1, <3>2
  <2> QED BY <1>7, <2>2, <2>4, <2>5, ReadConcat
<1>13. ASSUME NEW k \in 1..n, arg[k] # Quote PROVE at(k) = ReadChar(at(k - 1), arg[k])
  <2>1. k - 1 \in 0..n
    BY <1>1
  <2>2. q[k] = Append(q[k - 1], arg[k])
    BY <1>5, <1>13 DEF QuotedStep
  <2> QED BY <1>2, <1>5, <1>11, <2>1, <2>2
<1> HIDE DEF at
<1>14. 0 \in T
  <2>1. /\ Between(args).args = args /\ Between(args).quoted = FALSE
        /\ Between(args).slashes = 0 /\ Between(args).word = <<>>
    BY DEF Between, State
  <2>2. 0 % 2 = 0 /\ 0 \div 2 = 0
    OBVIOUS
  <2>3. at(0) = State(args, <<>> \o Backslashes(0), TRUE, ~FALSE, 0)
    BY <1>7, <1>10, <2>1, <2>2, ReadQuote
  <2>4. <<>> \o Backslashes(0) = <<>>
    BY BackslashesGrow, TextConcat
  <2>5. at(0) = State(args, <<>>, TRUE, TRUE, 0)
    BY <2>3, <2>4
  <2>6. /\ at(0).args = args /\ at(0).word = <<>> /\ at(0).inWord = TRUE
        /\ at(0).quoted = TRUE /\ at(0).slashes = 0
    BY <2>5 DEF State
  <2>7. at(0) \in ReaderState /\ 0 \in 0..n
    BY <1>1, <1>9
  <2>8. Pending(at(0)) = <<>>
    BY <2>6, <2>7, PendingNone
  <2>9. Good(0)
    BY <1>3, <1>4, <2>6, <2>7, <2>8 DEF HasRead
  <2> QED BY <2>7, <2>9
<1>15. ASSUME NEW k \in 0..n - 1, k \in T PROVE k + 1 \in T
  <2>1. k + 1 \in 1..n /\ k + 1 \in 0..n /\ k \in 0..n /\ (k + 1) - 1 = k
    BY <1>1
  <2>2. Good(k)
    BY <1>15
  <2>3. /\ at(k) \in ReaderState /\ at(k).args = args /\ at(k).inWord = TRUE
        /\ at(k).quoted = TRUE /\ Pending(at(k)) = upto(k) /\ at(k).slashes = run[k]
    BY <2>2 DEF HasRead
  <2>4. upto(k + 1) = Append(upto(k), arg[k + 1]) /\ arg[k + 1] \in Character
    BY <1>2, <2>1
  <2>5. run[k + 1] = IF arg[k + 1] = Backslash THEN run[k] + 1 ELSE 0
    BY <1>4, <2>1
  <2>6. CASE arg[k + 1] = Quote
    <3>1. at(k + 1) = ReadFrom(at(k), Append(Append(Backslashes(run[k]), Backslash), Quote))
      BY <1>12, <2>1, <2>6
    <3>2. /\ HasRead(at(k + 1), at(k).args, Append(Pending(at(k)), Quote), at(k).quoted)
          /\ at(k + 1).slashes = 0
      BY <2>3, <3>1, ReadEscaped
    <3>3. Good(k + 1)
      BY <1>6, <2>3, <2>4, <2>5, <2>6, <3>2
    <3> QED BY <2>1, <3>3
  <2>7. CASE arg[k + 1] # Quote
    <3>1. at(k + 1) = ReadChar(at(k), arg[k + 1])
      BY <1>13, <2>1, <2>7
    <3>2. /\ HasRead(at(k + 1), at(k).args, Append(Pending(at(k)), arg[k + 1]), at(k).quoted)
          /\ at(k + 1).slashes = IF arg[k + 1] = Backslash THEN at(k).slashes + 1 ELSE 0
      BY <2>3, <2>4, <2>7, <3>1, ReadPlainChar, ZenonT(60)
    <3>3. Good(k + 1)
      BY <2>3, <2>4, <2>5, <3>2
    <3> QED BY <2>1, <3>3
  <2> QED BY <2>6, <2>7
<1> HIDE DEF T
<1>16. n \in T
  <2>1. \A k \in 0..n : k \in T
    BY <1>1, <1>14, <1>15, UpTo
  <2> QED BY <1>1, <2>1
<1>17. Good(n)
  BY <1>16 DEF T
<1>18. /\ at(n) \in ReaderState /\ at(n).args = args /\ at(n).inWord = TRUE
       /\ at(n).quoted = TRUE /\ Pending(at(n)) = arg /\ at(n).slashes = 0
  <2>1. n \in 1..n
    BY <1>1
  <2>2. run[n] = 0
    BY <1>4, <1>8, <2>1
  <2> QED BY <1>3, <1>17, <2>2 DEF HasRead
<1> DEFINE end == ReadFrom(Between(args), quoteArg(arg))
<1>19. end = ReadChar(at(n), Quote)
  <2>1. n \in 0..n
    BY <1>1
  <2> QED BY <1>5, <1>6, <1>11, <2>1 DEF at
<1> HIDE DEF end
<1>20. at(n).word = arg
  BY <1>18, PendingNone
<1>21. end = State(args, arg \o Backslashes(0), TRUE, ~TRUE, 0)
  <2>1. 0 % 2 = 0 /\ 0 \div 2 = 0
    OBVIOUS
  <2> QED BY <1>18, <1>19, <1>20, <2>1, ReadQuote
<1>22. arg \o Backslashes(0) = arg
  BY BackslashesGrow, TextConcat
<1>23. end = State(args, arg, TRUE, FALSE, 0)
  BY <1>21, <1>22
<1>24. /\ end.args = args /\ end.word = arg /\ end.inWord = TRUE
       /\ end.quoted = FALSE /\ end.slashes = 0
  BY <1>23 DEF State
<1>25. end \in ReaderState
  BY <1>23, StateTypes
<1>26. Pending(end) = arg
  BY <1>24, <1>25, PendingNone
<1> QED BY <1>24, <1>25, <1>26 DEF HasRead, end

-----------------------------------------------------------------------------
(* The command line *)

LEMMA WrittenText ==
  ASSUME NEW arg \in Text
  PROVE  Written(arg) \in Text
<1>1. Len(arg) \in 0..Len(arg)
  BY DEF Text
<1>2. quoteArg(arg) \in Text
  <2>1. \A s \in Text : Append(s, Quote) \in Text
    BY Letters, TextConcat
  <2>2. PICK q : q \in [0..Len(arg) -> Text] /\ quoteArg(arg) = Append(q[Len(arg)], Quote)
    BY QuoteUnfolds
  <2> QED BY <1>1, <2>1, <2>2
<1> QED BY <1>2 DEF Written

\* What is written for an argument reads as that argument.
LEMMA ReadWritten ==
  ASSUME NEW args \in Texts, NEW arg \in Text, Carried(arg)
  PROVE  HasRead(ReadFrom(Between(args), Written(arg)), args, arg, FALSE)
<1>1. arg # <<>>
  BY DEF Carried
<1>2. CASE needsQuote(arg)
  <2>1. arg[Len(arg)] # Backslash
    BY <1>2 DEF Carried
  <2> QED BY <1>1, <1>2, <2>1, ReadQuoted DEF Written
<1>3. CASE ~needsQuote(arg)
  BY <1>1, <1>3, UnquotedIsPlain, ReadUnquoted DEF Written
<1> QED BY <1>2, <1>3

LineStep(args, line, i) ==
  IF i = 1 THEN Written(args[1]) ELSE Append(line, Space) \o Written(args[i])

Lines(args) ==
  CHOOSE c : c = [i \in 0..Len(args) |->
    CASE i = 0 -> <<>>
      [] i = 1 -> Written(args[1])
      [] OTHER -> c[i - 1] \o <<Space>> \o Written(args[i])]

LEMMA LineUnfolds ==
  ASSUME NEW args \in Texts
  PROVE  /\ commandLine(args) = Lines(args)[Len(args)]
         /\ Lines(args) \in [0..Len(args) -> Text]
         /\ Lines(args)[0] = <<>>
         /\ \A i \in 1..Len(args) : Lines(args)[i] = LineStep(args, Lines(args)[i - 1], i)
<1> DEFINE n == Len(args)
           Next_(k) == [line \in Text |-> LineStep(args, line, k)]
           F == [k \in 1..n |-> Next_(k)]
           Body(c, i) == CASE i = 0 -> <<>>
                           [] i = 1 -> Written(args[1])
                           [] OTHER -> c[i - 1] \o <<Space>> \o Written(args[i])
           c == Lines(args)
<1>1. n \in Nat /\ \A i \in 1..n : args[i] \in Text
  BY DEF Texts
<1>2. \A i \in 1..n : Written(args[i]) \in Text
  BY <1>1, WrittenText
<1>3. Space \in Character /\ <<>> \in Text
  BY Letters, TextConcat
<1>4. \A k \in 1..n : \A line \in Text : LineStep(args, line, k) \in Text
  <2> TAKE k \in 1..n
  <2> TAKE line \in Text
  <2>1. Append(line, Space) \in Text /\ Written(args[k]) \in Text
    BY <1>2, <1>3, TextConcat
  <2>2. Append(line, Space) \o Written(args[k]) \in Text
    BY <2>1, TextConcat
  <2> QED BY <2>1, <2>2 DEF LineStep
<1>5. \A line \in Text : line \o <<Space>> = Append(line, Space)
  BY <1>3, TextConcat
<1>6. F \in Steps(n, Text)
  <2>1. \A k \in 1..n : Next_(k) \in [Text -> Text]
    BY <1>4
  <2> QED BY <2>1 DEF Steps
<1>7. \A k \in 1..n : \A line \in Text : F[k][line] = LineStep(args, line, k)
  OBVIOUS
<1> HIDE DEF F
<1>8. PICK s : Follows(n, Text, <<>>, F, s)
  <2> HIDE DEF n
  <2> QED BY <1>1, <1>3, <1>6, Forwards
<1>9. \A k \in 1..n : s[k] = LineStep(args, s[k - 1], k) /\ s[k] = Body(s, k)
  <2> TAKE k \in 1..n
  <2>1. s[k - 1] \in Text
    BY <1>1, <1>8 DEF Follows
  <2>2. s[k] = LineStep(args, s[k - 1], k)
    BY <1>7, <1>8, <2>1 DEF Follows
  <2>3. s[k - 1] \o <<Space>> = Append(s[k - 1], Space)
    BY <1>5, <2>1
  <2>4. LineStep(args, s[k - 1], k)
          = IF k = 1 THEN Written(args[1]) ELSE s[k - 1] \o <<Space>> \o Written(args[k])
    BY <2>3 DEF LineStep
  <2>5. k # 0
    OBVIOUS
  <2> QED BY <2>2, <2>4, <2>5
<1>10. s = [i \in 0..n |-> Body(s, i)]
  <2>1. s[0] = Body(s, 0)
    BY <1>8 DEF Follows
  <2>2. DOMAIN s = 0..n /\ s = [i \in 0..n |-> s[i]]
    BY <1>8 DEF Follows
  <2> HIDE DEF Body
  <2>3. \A i \in 0..n : i = 0 \/ i \in 1..n
    BY <1>1
  <2> QED BY <1>9, <2>1, <2>2, <2>3
<1>11. c = [i \in 0..n |-> Body(c, i)]
  BY <1>10 DEF Lines
<1>12. commandLine(args) = c[n]
  BY DEF commandLine, Lines
<1> HIDE DEF c
<1>13. c[0] = <<>>
  BY <1>1, <1>11
<1>14. ASSUME NEW k \in 1..n, c[k - 1] \in Text
       PROVE  c[k] = LineStep(args, c[k - 1], k) /\ c[k] \in Text
  <2>1. k \in 0..n /\ k # 0
    BY <1>1
  <2>2. c[k] = Body(c, k)
    BY <1>11, <2>1
  <2>3. c[k] = IF k = 1 THEN Written(args[1]) ELSE c[k - 1] \o <<Space>> \o Written(args[k])
    BY <2>1, <2>2
  <2>4. c[k - 1] \o <<Space>> = Append(c[k - 1], Space)
    BY <1>5, <1>14
  <2>5. LineStep(args, c[k - 1], k) \in Text
    BY <1>4, <1>14
  <2> HIDE DEF Body
  <2> QED BY <2>3, <2>4, <2>5 DEF LineStep
<1> DEFINE T == {k \in 0..n : c[k] \in Text}
<1> HIDE DEF Body
<1>15. 0 \in T
  BY <1>1, <1>3, <1>13
<1>16. ASSUME NEW k \in 0..n - 1, k \in T PROVE k + 1 \in T
  <2>1. k + 1 \in 1..n /\ k + 1 \in 0..n /\ (k + 1) - 1 = k
    BY <1>1
  <2> QED BY <1>14, <1>16, <2>1
<1> HIDE DEF T
<1>17. \A k \in 0..n : k \in T
  BY <1>1, <1>15, <1>16, UpTo
<1>18. \A k \in 0..n : c[k] \in Text
  BY <1>17 DEF T
<1>19. \A k \in 1..n : c[k] = LineStep(args, c[k - 1], k)
  <2> TAKE k \in 1..n
  <2>1. k - 1 \in 0..n
    BY <1>1
  <2> QED BY <1>14, <1>18, <2>1
<1> QED BY <1>11, <1>12, <1>13, <1>18, <1>19 DEF c

LEMMA ReadToTheEnd ==
  ASSUME NEW line \in Text, NEW end, end = ReadFrom(ReadStart, line)
  PROVE  ArgumentsOf(line) = IF end.inWord THEN Append(end.args, Flush(end).word) ELSE end.args
BY DEF ArgumentsOf, ReadFrom, Reading

(* What a Windows program reads from the command line catchsegv writes      *)
(* (needsQuote, quoteArg and the loop of wmain over the arguments) is what  *)
(* it was written for, if none of the arguments is one Carried excepts.     *)
THEOREM ArgumentsReadBack ==
  ASSUME NEW args \in Texts, \A i \in 1..Len(args) : Carried(args[i])
  PROVE  ArgumentsOf(commandLine(args)) = args
<1> DEFINE n == Len(args)
           upto(k) == SubSeq(args, 1, k)
           c == Lines(args)
           at(k) == ReadFrom(Between(<<>>), c[k])
           T == {k \in 0..n : k = 0 \/ HasRead(at(k), upto(k - 1), args[k], FALSE)}
<1>1. n \in Nat /\ \A k \in 1..n : args[k] \in Text
  BY DEF Texts
<1>2. \A k \in 0..n : upto(k) \in Texts
  BY PrefixTypes DEF Texts
<1>3. \A k \in 1..n : upto(k) = Append(upto(k - 1), args[k])
  BY PrefixGrows DEF Texts
<1>4. upto(0) = <<>> /\ upto(n) = args
  BY WholePrefix DEF Texts
<1>5. /\ commandLine(args) = c[n]
      /\ c[0] = <<>>
      /\ \A k \in 0..n : c[k] \in Text
      /\ \A k \in 1..n : c[k] = LineStep(args, c[k - 1], k)
  BY LineUnfolds
<1> HIDE DEF n, upto, c
<1>6. Between(<<>>) \in ReaderState /\ <<>> \in Texts
  <2>1. <<>> \in Texts
    BY DEF Texts
  <2> QED BY <2>1, BetweenTypes
<1>7. Space \in Character /\ Space \in Blank
  BY Letters, Distinct
<1>8. \A k \in 1..n : Carried(args[k])
  BY DEF n
<1>9. 0 \in T
  BY <1>1
<1>10. ASSUME NEW k \in 0..n - 1, k \in T PROVE k + 1 \in T
  <2>1. k + 1 \in 1..n /\ k + 1 \in 0..n /\ k \in 0..n /\ (k + 1) - 1 = k
    BY <1>1
  <2>2. args[k + 1] \in Text /\ Carried(args[k + 1]) /\ Written(args[k + 1]) \in Text
    BY <1>1, <1>8, <2>1, WrittenText
  <2>3. CASE k = 0
    <3>1. c[k + 1] = Written(args[k + 1])
      BY <1>5, <2>1, <2>3 DEF LineStep
    <3>2. HasRead(ReadFrom(Between(<<>>), Written(args[k + 1])), <<>>, args[k + 1], FALSE)
      BY <1>6, <2>2, ReadWritten
    <3>3. HasRead(at(k + 1), upto((k + 1) - 1), args[k + 1], FALSE)
      BY <1>4, <2>1, <2>3, <3>1, <3>2
    <3> QED BY <2>1, <3>3
  <2>4. CASE k # 0
    <3>1. k \in 1..n /\ k + 1 # 1
      BY <2>1, <2>4
    <3>2. c[k + 1] = Append(c[k], Space) \o Written(args[k + 1]) /\ c[k] \in Text
      BY <1>5, <2>1, <3>1 DEF LineStep
    <3>3. /\ at(k) \in ReaderState /\ at(k).args = upto(k - 1) /\ at(k).inWord = TRUE
          /\ at(k).quoted = FALSE /\ Pending(at(k)) = args[k]
      BY <1>10, <2>4 DEF HasRead
    <3>4. ReadFrom(Between(<<>>), Append(c[k], Space)) = Between(upto(k))
      <4>1. ReadFrom(Between(<<>>), Append(c[k], Space)) = ReadChar(at(k), Space)
        BY <1>6, <1>7, <3>2, ReadAppend
      <4> HIDE DEF at
      <4>2. ReadChar(at(k), Space) = State(Append(upto(k - 1), args[k]), <<>>, FALSE, FALSE, 0)
        BY <1>7, <3>3, ReadSeparator
      <4> QED BY <1>3, <3>1, <4>1, <4>2 DEF Between
    <3>5. at(k + 1) = ReadFrom(Between(upto(k)), Written(args[k + 1]))
      <4>1. Append(c[k], Space) \in Text
        BY <1>7, <3>2, TextConcat
      <4> QED BY <1>6, <2>2, <3>2, <3>4, <4>1, ReadConcat
    <3>6. HasRead(at(k + 1), upto(k), args[k + 1], FALSE)
      BY <1>2, <2>1, <2>2, <3>5, ReadWritten
    <3> QED BY <2>1, <3>6
  <2> QED BY <2>3, <2>4
<1> HIDE DEF T
<1>11. n \in T
  <2>1. \A k \in 0..n : k \in T
    BY <1>1, <1>9, <1>10, UpTo
  <2> QED BY <1>1, <2>1
<1> DEFINE line == commandLine(args)
           end == ReadFrom(Between(<<>>), line)
<1>12. line \in Text /\ end = at(n)
  BY <1>1, <1>5
<1>13. Between(<<>>) = ReadStart
  BY DEF Between, State, ReadStart
<1>14. ArgumentsOf(line) = IF end.inWord THEN Append(end.args, Flush(end).word) ELSE end.args
  <2> HIDE DEF line
  <2> QED BY <1>12, <1>13, ReadToTheEnd
<1> HIDE DEF line
<1>15. CASE n = 0
  <2>1. line = <<>>
    BY <1>5, <1>15 DEF line
  <2>2. end = Between(<<>>)
    BY <1>6, <2>1, ReadNothing
  <2>3. end.inWord = FALSE /\ end.args = <<>>
    BY <2>2 DEF Between, State
  <2> HIDE DEF end
  <2> QED BY <1>4, <1>14, <1>15, <2>3 DEF line
<1>16. CASE n # 0
  <2>1. HasRead(at(n), upto(n - 1), args[n], FALSE)
    BY <1>11, <1>16 DEF T
  <2>2. end \in ReaderState /\ end.inWord = TRUE /\ end.args = upto(n - 1) /\ Pending(end) = args[n]
    BY <1>12, <2>1 DEF HasRead
  <2> HIDE DEF end
  <2>3. Flush(end).word = Pending(end)
    BY <2>2 DEF Flush, Pending, ReaderState
  <2>4. n \in 1..n
    BY <1>1, <1>16
  <2>5. upto(n) = Append(upto(n - 1), args[n])
    BY <1>3, <2>4
  <2> QED BY <1>4, <1>14, <2>2, <2>3, <2>5 DEF line
<1> QED BY <1>15, <1>16
=============================================================================
