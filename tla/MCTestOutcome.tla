--------------------------- MODULE MCTestOutcome ---------------------------
(***************************************************************************)
(* Small instances of TestOutcome: the output is never longer than         *)
(* AllLines, so that keeping as many means that nothing is cut.            *)
(***************************************************************************)
EXTENDS TestOutcome

AllLines == MaxLogs + 3

=============================================================================
