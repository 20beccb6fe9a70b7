------------------------------ MODULE MCDebugger ------------------------------
(* Values for the constants of Debugger.                                    *)
EXTENDS Debugger, TLC

CONSTANTS t1, t2, t3, p1, p2, p3

\* One thread per process, or all threads in one process.
OwnerEach == (t1 :> p1) @@ (t2 :> p2) @@ (t3 :> p3)
OwnerTwo == (t1 :> p1) @@ (t2 :> p2)
OwnerOne == [t \in Tid |-> p1]

\* Handle values are interchangeable, and so are the two children with their
\* threads (OwnerEach); the runs that use it check no liveness.
CONSTANTS h1, h2, h3
Children == {[x \in {p2, p3, t2, t3} |-> x], (p2 :> p3) @@ (p3 :> p2) @@ (t2 :> t3) @@ (t3 :> t2)}
FollowSymmetry == {f @@ g : f \in Permutations(Handle), g \in Children}

\* catchsegv without options, and with -1 and -z.
CatchSegv == [breakpoint_flag |-> FALSE, first_chance |-> FALSE, minidump |-> FALSE,
              hEvent |-> FALSE, dwThreadId |-> NoThread, no_debug_string |-> FALSE,
              wine |-> FALSE]
CatchSegvZ == [CatchSegv EXCEPT !.minidump = TRUE]
CatchSegvOptions == {CatchSegvZ}

\* drmingw: -b, and what -e and -t pass on from the system.
DrMingw == [CatchSegv EXCEPT !.first_chance = TRUE]
AttachOptions ==
  { [DrMingw EXCEPT !.breakpoint_flag = TRUE, !.dwThreadId = t1],
    [CatchSegvZ EXCEPT !.hEvent = TRUE, !.wine = TRUE, !.no_debug_string = TRUE] }
=============================================================================
