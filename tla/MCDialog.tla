------------------------------ MODULE MCDialog ------------------------------
(* Values for the constants of Dialog. *)
EXTENDS Dialog
=============================================================================
