------------------------------ MODULE MCExcHndl ------------------------------
(* A small program with ExcHndl in it, for TLC. *)
EXTENDS ExcHndl

CONSTANTS t1, t2

MCThread == {t1, t2}
\* The main thread, as in the documentation.
MCInitThreads == {t1}
\* One name CreateFileW can open and one it cannot.
MCFile == {"app.RPT", "missing.RPT"}
MCWritable == {"app.RPT"}
=============================================================================
