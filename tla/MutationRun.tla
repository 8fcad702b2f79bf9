---------------------------- MODULE MutationRun ----------------------------
(***************************************************************************)
(* What one execution of the scheduled mutants promises, however it is     *)
(* carried out: every mutant is decided once, by a status its disposition  *)
(* allows, and the run either returns with all of them decided or fails.   *)
(***************************************************************************)
EXTENDS Verdicts

CONSTANTS Mutants,       \* the scheduled mutants
          Quarantined,   \* those in active quarantine
          Suppressed,    \* those an audited rule suppresses
          Uncovered      \* those the selected tests do not execute

VARIABLES verdict,       \* the status of every mutant, None until decided
          phase          \* "running", then "ok" or "error"

vars == <<verdict, phase>>

\* The statuses open to a mutant: quarantine comes before suppression, and
\* both come before the budget and the tests.
Admissible(m) ==
  CASE m \in Quarantined -> {"quarantined"}
    [] m \in Suppressed \ Quarantined -> {"ignored"}
    [] m \in Uncovered \ (Quarantined \cup Suppressed) ->
         {"not_covered", "pending_budget"}
    [] OTHER -> Tested \cup {"cached", "pending_budget"}

Init ==
  /\ verdict = [m \in Mutants |-> None]
  /\ phase = "running"

Decide(m) ==
  /\ phase = "running"
  /\ verdict[m] = None
  /\ \E s \in Admissible(m) : verdict' = [verdict EXCEPT ![m] = s]
  /\ UNCHANGED phase

Succeed ==
  /\ phase = "running"
  /\ \A m \in Mutants : verdict[m] # None
  /\ phase' = "ok"
  /\ UNCHANGED verdict

Fail ==
  /\ phase = "running"
  /\ phase' = "error"
  /\ UNCHANGED verdict

Next ==
  \/ \E m \in Mutants : Decide(m)
  \/ Succeed
  \/ Fail

Spec == Init /\ [][Next]_vars /\ WF_vars(Next)

=============================================================================
