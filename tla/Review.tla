------------------------------- MODULE Review -------------------------------
(***************************************************************************)
(* What Engine.Run makes of the results of a run (pkg/engine/history.go,   *)
(* summary.go, baseline_flow.go, gate_policy.go): it enters them in the    *)
(* history, counts them, compares them with the baseline and applies the   *)
(* gate. The results of a run are a function of the mutants that were      *)
(* discovered; a count or a set of mutants is derived from it.             *)
(***************************************************************************)
EXTENDS Verdicts, Naturals, Sequences, FiniteSets

CONSTANTS FailUnder,              \* ci.fail_under, in percent; 0 switches it off
          FailOnTimeout,          \* ci.fail_on_timeout
          FailOnCompileError,     \* ci.fail_on_compile_error
          FailOnRegression,       \* baseline.fail_on_regression
          FailOnNewSurvivors      \* baseline.fail_on_new_survivors

\* What is assumed of the constants; the modules that give their values assume it.
PolicyAssumption ==
  /\ FailUnder \in 0 .. 100
  /\ {FailOnTimeout, FailOnCompileError, FailOnRegression, FailOnNewSurvivors} \subseteq BOOLEAN

\* A MutantResult: its status, and the one it had before, of a cached result its
\* verdict, of one the history knows the status of the run before.
Outcome(status, previous) == [status |-> status, previous |-> previous]

NoResults == [m \in {} |-> Outcome(None, None)]

-----------------------------------------------------------------------------
(* The history. *)

\* The counters of a history entry. No cached result adds to one of them.
Tallied == {"survived", "killed", "not_covered", "compile_error", "timed_out"}

NoEntry == [status |-> None, seen |-> 0, tally |-> [s \in Tallied |-> 0]]
NoHistory == [entries |-> [m \in {} |-> NoEntry], runs |-> <<>>]

Entry(history, m) ==
  IF m \in DOMAIN history.entries THEN history.entries[m] ELSE NoEntry

Known(history, m) == Entry(history, m).seen > 0

UpdateEntry(entry, r) ==
  [status |-> r.status,
   seen   |-> entry.seen + 1,
   tally  |-> [s \in Tallied |-> entry.tally[s] + IF r.status = s THEN 1 ELSE 0]]

\* What a known mutant had in the run before replaces its previous status.
Annotate(history, results) ==
  [m \in DOMAIN results |->
     IF Known(history, m)
     THEN [results[m] EXCEPT !.previous = Entry(history, m).status]
     ELSE results[m]]

Survivors(results) == {m \in DOMAIN results : results[m].status = "survived"}

NewSurvivors(history, results) ==
  {m \in Survivors(results) : ~Known(history, m)}

LongStandingSurvivors(history, results) ==
  {m \in Survivors(results) :
     Known(history, m) /\ Entry(history, m).tally["survived"] > 0}

\* Mutated form: the file is written with the entries only.
UpdateHistoryWithoutRuns(history, results) ==
  [entries |-> [m \in DOMAIN history.entries \cup DOMAIN results |->
                  IF m \in DOMAIN results
                  THEN UpdateEntry(Entry(history, m), results[m])
                  ELSE history.entries[m]],
   runs |-> <<>>]

UpdateHistory(history, results) ==
  [history EXCEPT !.entries =
     [m \in DOMAIN history.entries \cup DOMAIN results |->
        IF m \in DOMAIN results
        THEN UpdateEntry(Entry(history, m), results[m])
        ELSE history.entries[m]]]

-----------------------------------------------------------------------------
(* The summary. *)

\* The status a result is counted under.
Counted(r) == IF r.status = "cached" THEN r.previous ELSE r.status

Count(results, statuses) ==
  Cardinality({m \in DOMAIN results : Counted(results[m]) \in statuses})

\* Statuses that take a mutant out of the denominator of the score.
Unscored == {"ignored", "quarantined", "skipped", "skipped_resource",
             "pending_budget", "not_covered"}

Eligible(results) == Cardinality(DOMAIN results) - Count(results, Unscored)

Killed(results) == Count(results, {"killed"})

\* The score of a run, as a fraction: 0 when there is nothing to score.
Score(results) ==
  IF Eligible(results) = 0 THEN <<0, 1>> ELSE <<Killed(results), Eligible(results)>>

Below(x, y) == x[1] * y[2] < y[1] * x[2]

\* The row of a run in the history; new and long-standing survivors come from
\* the comparison with the history, the rest from the summary.
HistoryRun(results, newcomers, veterans) ==
  [score        |-> Score(results),
   survived     |-> Count(results, {"survived"}),
   timedOut     |-> Count(results, {"timed_out"}),
   newcomers    |-> newcomers,
   longStanding |-> veterans]

-----------------------------------------------------------------------------
(* The baseline and the gate. *)

StatusOf(results, m) == IF m \in DOMAIN results THEN results[m].status ELSE None

\* compareBaseline goes by the plain status: a cached survivor is none.
BaselineNewSurvivors(previous, results) ==
  {m \in Survivors(results) : StatusOf(previous, m) # "survived"}

Regression(previous, results) == Below(Score(results), Score(previous))

\* The checks that fail; with no baseline at hand its two are skipped.
FailedChecks(available, previous, results) ==
  (IF FailUnder > 0 /\ Below(Score(results), <<FailUnder, 100>>)
   THEN {"fail_under"} ELSE {})
  \cup
  (IF FailOnRegression /\ available /\ Regression(previous, results)
   THEN {"baseline_regression"} ELSE {})
  \cup
  (IF FailOnNewSurvivors /\ available /\ BaselineNewSurvivors(previous, results) # {}
   THEN {"baseline_new_survivors"} ELSE {})
  \cup
  (IF FailOnTimeout /\ Count(results, {"timed_out"}) > 0 THEN {"timed_out"} ELSE {})
  \cup
  (IF FailOnCompileError /\ Count(results, {"compile_error"}) > 0
   THEN {"compile_error"} ELSE {})

=============================================================================
