--------------------------- MODULE MCResumableRun ---------------------------
(***************************************************************************)
(* Small instances of ResumableRun.                                        *)
(***************************************************************************)
EXTENDS ResumableRun

Flags(resume, parallel) == [resume |-> resume, parallel |-> parallel]

\* A plain run with several workers, and a resumed one with one.
PlainAndResumed == {Flags(FALSE, TRUE), Flags(TRUE, FALSE)}
Resumed == {Flags(TRUE, FALSE)}
Nobody == {}

\* An edit of the files of the first mutant, elsewhere for the others.
FirstOnly == {{1}}

=============================================================================
