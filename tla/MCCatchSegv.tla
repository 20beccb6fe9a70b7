------------------------------ MODULE MCCatchSegv ------------------------------
(* Values for the constants of CatchSegv.                                   *)
EXTENDS CatchSegv, TLC

CONSTANTS t1, t2, p1, p2, h1, h2, w1, w2

\* The target p1 and a child of it, one thread each.
OwnerTwo == (t1 :> p1) @@ (t2 :> p2)

CatchSegvOptions ==
  {[breakpoint_flag |-> FALSE, first_chance |-> FALSE, minidump |-> TRUE, hEvent |-> FALSE,
    dwThreadId |-> NoThread, no_debug_string |-> FALSE, wine |-> FALSE]}

\* The threads of the pool are interchangeable, and so are handle values; the
\* run that uses it checks no liveness.
RacesSymmetry == Permutations(Handle) \cup Permutations(Worker)
=============================================================================
