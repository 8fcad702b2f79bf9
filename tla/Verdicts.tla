------------------------------ MODULE Verdicts ------------------------------
(***************************************************************************)
(* The statuses a mutant can be given (pkg/engine/types.go), grouped by    *)
(* the step that gives them.                                               *)
(***************************************************************************)

\* Statuses runTest derives from one execution of the test command. It has a
\* branch for "skipped_resource" too, for an error that no build returns.
Tested == {"killed", "survived", "timed_out", "memory_killed", "compile_error"}

\* Every status of a run that executes mutants; "skipped" is left to dry runs.
Status == Tested \cup {"not_covered", "cached", "pending_budget",
                       "ignored", "quarantined"}

\* A zero MutantResult: its MutantID is empty, and compactedResults drops it.
None == "none"

=============================================================================
