------------------------------- MODULE Counting -------------------------------
(***************************************************************************)
(* Induction over numbers, stated about a set instead of a predicate, and   *)
(* what follows from it: that a function defined by recursion over an       *)
(* interval exists.  The proofs about the functions of the models that are  *)
(* defined so rest on these facts.                                          *)
(***************************************************************************)
EXTENDS Integers, WellFoundedInduction, TLAPS

LEMMA LeastNat ==
  ASSUME NEW T \in SUBSET Nat, T # {}
  PROVE  \E n \in T : \A m \in T : n <= m
<1> DEFINE R == {ss \in Nat \X Nat : ss[1] < ss[2]}
<1>1. IsWellFoundedOn(R, Nat)
  BY NatLessThanWellFounded DEF OpToRel
<1>2. \A x, y \in Nat : x < y => <<x, y>> \in R
  OBVIOUS
<1> HIDE DEF R
<1>3. PICK n \in T : \A y \in T : ~ (<<y, n>> \in R)
  BY <1>1, WFMin
<1>4. ASSUME NEW m \in T, m < n PROVE FALSE
  <2>1. <<m, n>> \in R
    BY <1>2, <1>4
  <2> QED BY <1>3, <2>1
<1>5. \A m \in T : n <= m
  BY <1>4
<1> QED BY <1>5

\* A set of numbers is everything up to n if it has 0 and with each the next.
LEMMA UpTo ==
  ASSUME NEW n \in Nat, NEW T, 0 \in T, \A k \in 0..n - 1 : k \in T => k + 1 \in T
  PROVE  \A k \in 0..n : k \in T
<1> DEFINE missing == (0..n) \ T
<1>1. SUFFICES ASSUME missing # {} PROVE FALSE
  OBVIOUS
<1>2. missing \in SUBSET Nat
  OBVIOUS
<1> HIDE DEF missing
<1>3. PICK m \in missing : \A k \in missing : m <= k
  BY <1>1, <1>2, LeastNat
<1>4. m \in 0..n /\ m # 0 /\ m \notin T
  BY <1>3 DEF missing
<1>5. m - 1 \in 0..n - 1 /\ m - 1 \notin missing
  BY <1>3, <1>4
<1>6. m - 1 \in T
  BY <1>5 DEF missing
<1> QED BY <1>4, <1>5, <1>6

\* A set of numbers is everything down from n if it has each number when it
\* has those between that and n.
LEMMA DownTo ==
  ASSUME NEW low \in Nat, NEW n \in Nat, NEW T,
         \A j \in low..n : (\A i \in j + 1..n : i \in T) => j \in T
  PROVE  \A j \in low..n : j \in T
<1> DEFINE missing == {k \in 0..n : n - k \in low..n /\ n - k \notin T}
<1>1. missing \in SUBSET Nat
  OBVIOUS
<1>2. ASSUME NEW j \in low..n, j \notin T PROVE n - j \in missing
  <2>1. n - j \in 0..n /\ n - (n - j) = j
    OBVIOUS
  <2> QED BY <1>2, <2>1
<1>3. ASSUME missing # {} PROVE FALSE
  <2> HIDE DEF missing
  <2>1. PICK k \in missing : \A m \in missing : k <= m
    BY <1>1, <1>3, LeastNat
  <2>2. k \in 0..n /\ n - k \in low..n /\ n - k \notin T
    BY <2>1 DEF missing
  <2>3. PICK i \in (n - k) + 1..n : i \notin T
    BY <2>2
  <2>4. n - i \in missing
    BY <1>2, <2>2, <2>3
  <2> QED BY <2>1, <2>2, <2>3, <2>4
<1> QED BY <1>2, <1>3

\* A function whose value at i is computed from the one before it, by F[i].
Steps(n, X) == [1..n -> [X -> X]]
Follows(n, X, x, F, s) ==
  s \in [0..n -> X] /\ s[0] = x /\ \A i \in 1..n : s[i] = F[i][s[i - 1]]

LEMMA Forwards ==
  ASSUME NEW n \in Nat, NEW X, NEW x \in X, NEW F \in Steps(n, X)
  PROVE  \E s : Follows(n, X, x, F, s)
<1>0. F \in [1..n -> [X -> X]]
  BY DEF Steps
<1> DEFINE T == {k \in 0..n : \E s \in [0..n -> X] :
                   s[0] = x /\ \A i \in 1..k : s[i] = F[i][s[i - 1]]}
<1>1. 0 \in T
  <2> DEFINE s == [i \in 0..n |-> x]
  <2>1. s \in [0..n -> X] /\ s[0] = x /\ \A i \in 1..0 : s[i] = F[i][s[i - 1]]
    OBVIOUS
  <2> HIDE DEF s
  <2> QED BY <2>1
<1>2. ASSUME NEW k \in 0..n - 1, k \in T PROVE k + 1 \in T
  <2>1. PICK s \in [0..n -> X] : s[0] = x /\ \A i \in 1..k : s[i] = F[i][s[i - 1]]
    BY <1>2
  <2>2. F[k + 1] \in [X -> X] /\ s[k] \in X
    BY <1>0
  <2> DEFINE t == [s EXCEPT ![k + 1] = F[k + 1][s[k]]]
  <2>3. t \in [0..n -> X] /\ t[0] = x /\ t[k + 1] = F[k + 1][s[k]]
    BY <2>1, <2>2
  <2>4. \A i \in 0..k : t[i] = s[i]
    OBVIOUS
  <2> HIDE DEF t
  <2>5. \A i \in 1..k + 1 : t[i] = F[i][t[i - 1]]
    <3> TAKE i \in 1..k + 1
    <3>1. CASE i = k + 1
      <4>1. i - 1 = k
        BY <3>1
      <4> QED BY <2>3, <2>4, <3>1, <4>1
    <3>2. CASE i \in 1..k
      <4>1. i \in 0..k /\ i - 1 \in 0..k
        BY <3>2
      <4> QED BY <2>1, <2>4, <3>2, <4>1
    <3> QED BY <3>1, <3>2
  <2>6. k + 1 \in 0..n
    OBVIOUS
  <2> QED BY <2>3, <2>5, <2>6
<1> HIDE DEF T
<1>3. n \in T
  <2>1. \A k \in 0..n : k \in T
    BY <1>1, <1>2, UpTo
  <2> QED BY <2>1
<1> QED BY <1>3 DEF T, Follows

\* A function whose value at i is computed from the later ones, by F[i].
Values(low, n, X) == [low..n -> X]
Recipes(low, n, X) == [low..n -> [Values(low, n, X) -> X]]
Solves(low, n, X, F, g) ==
  g \in Values(low, n, X) /\ \A i \in low..n : g[i] = F[i][g]
LooksAhead(low, n, X, F) ==
  \A i \in low..n : \A g, h \in Values(low, n, X) :
    (\A j \in i + 1..n : g[j] = h[j]) => F[i][g] = F[i][h]

LEMMA Backwards ==
  ASSUME NEW low \in Nat, NEW n \in Nat, NEW X, NEW x \in X,
         NEW F \in Recipes(low, n, X), LooksAhead(low, n, X, F)
  PROVE  \E g : Solves(low, n, X, F, g)
<1> DEFINE D == low..n
           T == {k \in 0..n + 1 : \E g \in [D -> X] :
                   \A i \in D : i > n - k => g[i] = F[i][g]}
<1>0. F \in [D -> [[D -> X] -> X]]
  BY DEF Recipes, Values
<1>1. 0 \in T
  <2> DEFINE g == [i \in D |-> x]
  <2>1. g \in [D -> X] /\ \A i \in D : ~(i > n - 0)
    OBVIOUS
  <2> HIDE DEF g
  <2> QED BY <2>1
<1>2. ASSUME NEW k \in 0..(n + 1) - 1, k \in T PROVE k + 1 \in T
  <2>1. PICK g \in [D -> X] : \A i \in D : i > n - k => g[i] = F[i][g]
    BY <1>2
  <2>2. k + 1 \in 0..n + 1
    OBVIOUS
  <2>3. CASE n - k \notin D
    <3>1. \A i \in D : i > n - (k + 1) => i > n - k
      BY <2>3
    <3> QED BY <2>1, <2>2, <3>1
  <2>4. CASE n - k \in D
    <3> DEFINE h == [g EXCEPT ![n - k] = F[n - k][g]]
    <3>1. F[n - k] \in [[D -> X] -> X]
      BY <1>0, <2>4
    <3>2. h \in [D -> X] /\ h[n - k] = F[n - k][g]
      BY <2>4, <3>1
    <3>3. \A i \in D : i # n - k => h[i] = g[i]
      OBVIOUS
    <3> HIDE DEF h
    <3>4. \A i \in D : i > n - (k + 1) => h[i] = F[i][h]
      <4> TAKE i \in D
      <4> HAVE i > n - (k + 1)
      <4>1. \A j \in i + 1..n : j \in D /\ j # n - k
        OBVIOUS
      <4>2. \A j \in i + 1..n : h[j] = g[j]
        BY <3>3, <4>1
      <4>3. F[i][h] = F[i][g]
        BY <2>1, <3>2, <4>2 DEF LooksAhead, Values
      <4>4. CASE i = n - k
        BY <3>2, <4>3, <4>4
      <4>5. CASE i > n - k
        BY <2>1, <3>3, <4>3, <4>5
      <4> QED BY <4>4, <4>5
    <3> QED BY <2>2, <3>2, <3>4
  <2> QED BY <2>3, <2>4
<1> HIDE DEF T
<1>3. n + 1 \in T
  <2>1. n + 1 \in Nat
    OBVIOUS
  <2>2. \A k \in 0..n + 1 : k \in T
    BY ONLY <1>1, <1>2, <2>1, UpTo
  <2> QED BY <2>2
<1>4. PICK g \in [D -> X] : \A i \in D : i > n - (n + 1) => g[i] = F[i][g]
  BY <1>3 DEF T
<1> QED BY <1>4 DEF Values, Solves
=============================================================================
