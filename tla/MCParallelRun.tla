--------------------------- MODULE MCParallelRun ---------------------------
(***************************************************************************)
(* Small instances of ParallelRun. Mutant 2 is both in quarantine and      *)
(* suppressed, so that the order of the two tests shows.                   *)
(***************************************************************************)
EXTENDS ParallelRun

CONSTANTS w1, w2

TwoWorkers == {w1, w2}
OneQuarantined == {2}
OneSuppressed == {2}
OneUncovered == {3}
Nobody == {}

=============================================================================
