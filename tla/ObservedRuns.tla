---------------------------- MODULE ObservedRuns ----------------------------
(***************************************************************************)
(* What a sequence of runs over an editable source promises of verdicts,   *)
(* wherever they are kept in between: one that a run gives is of a test of *)
(* the mutant with its files as they are, the ones that concern it, given  *)
(* once and not taken back while the run lasts; a run succeeds with every  *)
(* mutant decided or returns nothing at all; and an edit leaves no verdict *)
(* standing on the mutants it touches.                                     *)
(***************************************************************************)
EXTENDS Verdicts

CONSTANTS Mutants,    \* the scheduled mutants
          Outcomes    \* the verdicts of a test

VARIABLES observed,   \* the verdicts tests of each with its present files ended with
          verdict,    \* what the run gives of every mutant
          phase       \* "stopped", "running", "done" or "failed"

vars == <<observed, verdict, phase>>

\* A decision that is no verdict on its present files: a mutant skipped or left by
\* the budget, or a test that was killed.
Unseen == "unseen"

\* What can be said of a mutant without testing it.
Known(m) == {Unseen} \cup observed[m]

Undecided == [m \in Mutants |-> None]

Init ==
  /\ observed = [m \in Mutants |-> {}]
  /\ verdict = Undecided
  /\ phase = "stopped"

\* A run may begin with anything that is known, from whichever run it is.
Begin ==
  /\ phase # "running"
  /\ phase' = "running"
  /\ verdict' \in [Mutants -> {None, Unseen} \cup UNION {observed[m] : m \in Mutants}]
  /\ \A m \in Mutants : verdict'[m] \in {None} \cup Known(m)
  /\ UNCHANGED observed

Observe(m) ==
  /\ phase = "running"
  /\ verdict[m] = None
  /\ \E v \in Outcomes :
       /\ observed' = [observed EXCEPT ![m] = @ \cup {v}]
       /\ verdict' = [verdict EXCEPT ![m] = v]
  /\ UNCHANGED phase

Recall(m) ==
  /\ phase = "running"
  /\ verdict[m] = None
  /\ UNCHANGED <<observed, phase>>
  /\ verdict'[m] \in Known(m)
  /\ verdict' = [verdict EXCEPT ![m] = verdict'[m]]

Succeed ==
  /\ phase = "running"
  /\ \A m \in Mutants : verdict[m] # None
  /\ phase' = "done"
  /\ UNCHANGED <<observed, verdict>>

\* A run that is refused, fails or is killed returns nothing.
End ==
  /\ phase' \in {"failed", "stopped"}
  /\ verdict' = Undecided
  /\ UNCHANGED observed

Edit(touched) ==
  /\ phase # "running"
  /\ observed' = [m \in Mutants |-> IF m \in touched THEN {} ELSE observed[m]]
  /\ verdict' = [m \in Mutants |->
                   IF m \in touched /\ verdict[m] # None THEN Unseen ELSE verdict[m]]
  /\ UNCHANGED phase

Next ==
  \/ Begin
  \/ \E m \in Mutants : Observe(m) \/ Recall(m)
  \/ Succeed
  \/ End
  \/ \E touched \in SUBSET Mutants : Edit(touched)

Spec == Init /\ [][Next]_vars

=============================================================================
