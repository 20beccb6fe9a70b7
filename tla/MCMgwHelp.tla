------------------------------ MODULE MCMgwHelp ------------------------------
(* A few images and address spaces for TLC. *)
EXTENDS MgwHelp, TLC

\* An executable with its debug information in a file of its own, a library
\* with DWARF data for a part of it, and a damaged one.
MCImage == {"exe", "exe.debug", "libgcc", "bad"}
MCLink == [i \in MCImage |-> IF i = "exe" THEN "exe.debug" ELSE "none"]
MCDebugInfo == {"exe.debug", "libgcc"}
MCLines == [i \in MCImage |-> CASE i = "exe.debug" -> {0, 1} [] i = "libgcc" -> {1} [] OTHER -> {}]
MCBadTable == {"bad"}

Function(v, n) == [value |-> v, function |-> TRUE, dot |-> FALSE, aux |-> n, symbol |-> TRUE]
Data(v) == [value |-> v, function |-> FALSE, dot |-> FALSE, aux |-> 0, symbol |-> TRUE]
Section(v) == [value |-> v, function |-> TRUE, dot |-> TRUE, aux |-> 0, symbol |-> TRUE]
Aux(v) == [value |-> v, function |-> TRUE, dot |-> FALSE, aux |-> 0, symbol |-> FALSE]

MCTables ==
  {[i \in MCImage |->
      CASE i = "exe" -> <<Section(2), Data(1), Function(0, 2), Aux(1), Aux(2)>>
        [] i = "libgcc" -> <<Function(1, 1), Aux(2), Function(0, 0)>>
        [] i = "bad" -> <<Function(0, 0)>>
        [] OTHER -> <<>>]}

CONSTANTS h1, h2
MCHandle == {h1, h2}

\* The second layout of h1 has memory that is no image right below an image.
MCLayouts ==
  (h1 :> {3 :> "exe" @@ 6 :> "bad", 3 :> "heap" @@ 6 :> "libgcc"}
   @@ h2 :> {3 :> "free" @@ 6 :> "bad"})
=============================================================================
