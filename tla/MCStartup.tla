------------------------------ MODULE MCStartup -----------------------------
(***************************************************************************)
(* The four migrations, of two or three statements each: the first is      *)
(* found by one of its tables, the second by its column, and all but the   *)
(* first can run again.  The graph has two entities and two edges.         *)
(***************************************************************************)
EXTENDS Startup

Sizes == <<3, 2, 2, 2>>

\* Table runs is the second of three parts of 001; the column of 002 comes
\* before its index.
Probes == <<2, 1, 0, 0>>

\* 002 and 003 alter runs, 004 alters tables up to the end of 001.
Builds == <<0, 2, 2, 3>>

=============================================================================
