------------------------------ MODULE ReportLog ------------------------------
(***************************************************************************)
(* What an exception handler promises of its reports, whatever threads     *)
(* fault and in whatever order: reports are made one at a time, each is    *)
(* about one fault, goes to one place, and has its parts in their order;   *)
(* what a file holds stays.  A report may do without a description of the  *)
(* exception and the stack, and the program may abandon it half-way, by    *)
(* unwinding the stack through it.                                         *)
(*                                                                         *)
(* ExcHndl implements this specification.                                  *)
(***************************************************************************)
EXTENDS Naturals, Sequences

CONSTANTS File,    \* where reports can be read later
          Place    \* where the handler may think it writes: files and others

VARIABLES log,     \* log[f]: the parts in file f, in order
          busy,    \* a report is being made
          about,   \* the fault it is about, 0 if none
          due,     \* its next part, "done" if there is none
          place    \* where the handler writes

vars == <<log, busy, about, due, place>>

Part == {"banner", "exception", "stack", "modules"}
NextDue == [banner |-> "exception", exception |-> "stack", stack |-> "modules", modules |-> "done"]

Init ==
  /\ log \in [File -> Seq([crash : Nat, part : Part])]
  /\ busy = FALSE /\ about = 0 /\ due = "done"
  /\ place \in Place

Begin ==
  /\ ~busy
  /\ busy' = TRUE /\ about' \in Nat /\ due' = "banner"
  /\ UNCHANGED <<log, place>>

\* The place is chosen between reports, or before the banner.
Open ==
  /\ due \in {"done", "banner"}
  /\ place' \in Place
  /\ UNCHANGED <<log, busy, about>>
  /\ due' = due \/ (due = "banner" /\ due' = "done")

\* Without symbols a report goes on with the modules.
Omit ==
  /\ due = "exception" /\ due' = "modules"
  /\ UNCHANGED <<log, busy, about, place>>

Write ==
  /\ busy /\ due \in Part
  /\ log' = IF place \in File
            THEN [log EXCEPT ![place] = Append(@, [crash |-> about, part |-> due])]
            ELSE log
  /\ due' = NextDue[due]
  /\ UNCHANGED <<busy, about, place>>

Finish ==
  /\ busy /\ due = "done"
  /\ busy' = FALSE /\ about' = 0
  /\ UNCHANGED <<log, due, place>>

Abandon ==
  /\ busy
  /\ busy' = FALSE /\ about' = 0 /\ due' = "done"
  /\ UNCHANGED <<log, place>>

Next == Begin \/ Open \/ Omit \/ Write \/ Finish \/ Abandon

Spec == Init /\ [][Next]_vars
=============================================================================
