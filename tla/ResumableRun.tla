---------------------------- MODULE ResumableRun ----------------------------
(***************************************************************************)
(* A sequence of runs over one report directory (pkg/engine/execution.go   *)
(* and checkpoint.go): a run may be killed at any moment, the next one may *)
(* resume from the partial report it left, and the source may be edited in *)
(* between. One execution is as ParallelRun has it; here the workers may   *)
(* finish in any order, and what matters is which results survive a run.   *)
(***************************************************************************)
EXTENDS Verdicts, Naturals

CONSTANTS N,                  \* number of scheduled mutants
          Skipped,            \* those in quarantine or suppressed
          MaxEdits,           \* bound: how often the source is edited
          Edits,              \* the sets of mutants whose keyed files an edit changes
          Commands,           \* the command lines runs are started with
          Budgeted,           \* is an execution budget configured?
          CacheOn,            \* is the incremental cache on?
          MayFail             \* may the run of a mutant return an error?

ASSUME SizesAssumption == N \in Nat /\ MaxEdits \in Nat

\* The key of a mutant digests its own file, the test files of its package, go.mod
\* and go.sum: an edit of any other file changes no key, as the empty set does.
ASSUME EditsAssumption == Edits \subseteq SUBSET (1 .. N)

ASSUME SwitchesAssumption ==
  {Budgeted, CacheOn, MayFail} \subseteq BOOLEAN

\* What the flags of a run say: resume from the partial report, or not, and use
\* one worker or more. The cache key digests them with the whole configuration.
Command == [resume : BOOLEAN, parallel : BOOLEAN]

ASSUME CommandsAssumption == Commands \subseteq Command /\ Commands # {}

Mutants == 1 .. N
Versions == 0 .. MaxEdits

\* Two verdicts of a test; the others of Tested are kept and reused alike.
Outcomes == {"killed", "survived"}

\* A MutantResult, with two things the program does not keep: the version of
\* the source in the run that recorded it and whether the test ran to its end.
Result(status, previous, origin, ended) ==
  [status |-> status, previous |-> previous, origin |-> origin, ended |-> ended]
NoResult == Result(None, None, 0, TRUE)
Error(origin) == Result("error", None, origin, TRUE)

Nothing == [m \in Mutants |-> NoResult]

EmptyCache == [key \in Mutants \X Commands |-> NoResult]

\* The partial report on disk: a compatibility fingerprint and the results.
NoReport == [fingerprint |-> 0, results |-> Nothing, exists |-> FALSE]
Report(fingerprint, results) ==
  [fingerprint |-> fingerprint, results |-> results, exists |-> TRUE]

VARIABLES
  source,     \* the version of the source tree
  keyed,      \* the version in which the files its key digests changed last
  report,     \* partial-mutation-report.json
  replacing,  \* the report that is about to be renamed into place
  cache,      \* the result stored for each mutant and command under its present key
  command,    \* the command line of this run
  phase,      \* "stopped", "serial", "parallel", "done" or "failed"
  todo,       \* mutants without a result in this run
  reused,     \* results taken over from the partial report
  ready,      \* results of this run that are not recorded yet
  fresh,      \* results of this run
  failing,    \* has a mutant of this run returned an error?
  expired,    \* the clock has reached the budget of this run
  observed    \* history: the verdicts tests ended with since those files changed

runVars == <<command, phase, todo, reused, ready, fresh, failing, expired>>
vars == <<source, keyed, report, replacing, cache, observed, runVars>>

Running == phase \in {"serial", "parallel"}

Init ==
  /\ source = 0
  /\ keyed = [m \in Mutants |-> 0]
  /\ report = NoReport
  /\ replacing = NoReport
  /\ cache = EmptyCache
  /\ observed = [m \in Mutants |-> {}]
  /\ phase = "stopped"
  /\ command \in Commands
  /\ todo = {}
  /\ reused = Nothing
  /\ ready = Nothing
  /\ fresh = Nothing
  /\ failing = FALSE
  /\ expired = FALSE

Has(results, m) == results[m] # NoResult
Completed(results) == {m \in Mutants : Has(results, m)}

-----------------------------------------------------------------------------
(* The start of a run: runMutants, runMutantsWithResume, loadPartialResults. *)

\* Every loop starts with an empty result slice; the dispatcher of a parallel
\* one decides the skipped mutants, and from a cut on those the budget leaves.
Begin(c, from, mode, remaining) ==
  /\ command' = c
  /\ reused' = from
  /\ ready' = Nothing
  /\ failing' = FALSE
  /\ phase' = mode
  /\ \/ /\ mode = "serial"
        /\ todo' = remaining
        /\ fresh' = Nothing
        /\ expired' = FALSE
     \/ /\ mode = "parallel"
        /\ \E cut \in IF Budgeted THEN 1 .. N + 1 ELSE {N + 1} :
             /\ todo' = {m \in remaining \ Skipped : m < cut}
             /\ fresh' = [m \in Mutants |->
                            CASE m \in Skipped -> Result("ignored", None, source, TRUE)
                              [] m \in todo' -> NoResult
                              [] OTHER -> Result("pending_budget", None, source, TRUE)]
             /\ expired' = (cut # N + 1)
  /\ UNCHANGED <<source, keyed, report, replacing, cache, observed>>

\* A run that fails, or is killed, returns no results.
Drop(end) ==
  /\ phase' = end
  /\ todo' = {}
  /\ reused' = Nothing
  /\ ready' = Nothing
  /\ fresh' = Nothing
  /\ failing' = FALSE
  /\ expired' = FALSE

Mode(c) == IF c.parallel /\ N > 1 THEN "parallel" ELSE "serial"

StartAfresh(c) ==
  /\ ~Running
  /\ \/ ~c.resume
     \/ ~report.exists
     \/ report.fingerprint = source /\ Completed(report.results) = {}
  /\ Begin(c, Nothing, Mode(c), Mutants)

Reuse(r) == [r EXCEPT !.status = "cached", !.previous = r.status]

ReuseAll(results) ==
  [m \in Mutants |-> IF Has(results, m) THEN Reuse(results[m]) ELSE NoResult]

\* Mutated form: the fingerprint of the partial report is not compared.
StartResumedUnchecked(c) ==
  /\ ~Running
  /\ c.resume
  /\ report.exists
  /\ Completed(report.results) # {}
  /\ Begin(c, ReuseAll(report.results), "serial", Mutants \ Completed(report.results))

\* What is left to do is done by one worker, however many are configured.
StartResumed(c) ==
  /\ ~Running
  /\ c.resume
  /\ report.exists
  /\ report.fingerprint = source
  /\ Completed(report.results) # {}
  /\ Begin(c, ReuseAll(report.results), "serial", Mutants \ Completed(report.results))

RejectResume(c) ==
  /\ ~Running
  /\ c.resume
  /\ report.exists
  /\ report.fingerprint # source
  /\ command' = c
  /\ Drop("failed")
  /\ UNCHANGED <<source, keyed, report, replacing, cache, observed>>

-----------------------------------------------------------------------------
(* One mutant: the body of runMutantsSerial, or a worker of a parallel run. *)

BudgetExhausted == Budgeted /\ expired

\* The serial loop takes the mutants in order and records each before the next.
MayTake(m) ==
  /\ m \in todo
  /\ phase = "serial" =>
       ready = Nothing /\ ~replacing.exists /\ \A k \in todo : m <= k
  /\ Running

Ready(m, r) ==
  /\ todo' = todo \ {m}
  /\ ready' = [ready EXCEPT ![m] = r]

\* A serial loop looks at quarantine, suppression and the budget for each mutant.
Decide(m) ==
  /\ phase = "serial"
  /\ MayTake(m)
  /\ \/ m \in Skipped /\ Ready(m, Result("ignored", None, source, TRUE))
     \/ /\ m \notin Skipped
        /\ BudgetExhausted
        /\ Ready(m, Result("pending_budget", None, source, TRUE))
  /\ UNCHANGED <<source, keyed, report, replacing, cache, observed, command,
                 phase, reused, fresh, failing, expired>>

MustRun(m) ==
  /\ MayTake(m)
  /\ phase = "serial" => m \notin Skipped /\ ~BudgetExhausted
  /\ ~failing

\* The key vouches for a stored result: it counts as one of the present source,
\* though files that the key does not digest may have been edited since its test.
HitCache(m) ==
  /\ MustRun(m)
  /\ CacheOn
  /\ Has(cache, <<m, command>>)
  /\ Ready(m, [Reuse(cache[<<m, command>>]) EXCEPT !.origin = source])
  /\ UNCHANGED <<source, keyed, report, replacing, cache, observed, command,
                 phase, reused, fresh, failing, expired>>

Store(m, r) ==
  cache' = IF CacheOn THEN [cache EXCEPT ![<<m, command>>] = r] ELSE cache

Test(m) ==
  /\ MustRun(m)
  /\ ~(CacheOn /\ Has(cache, <<m, command>>))
  /\ \E s \in Outcomes :
       LET r == Result(s, None, source, TRUE) IN
       /\ Ready(m, r)
       /\ Store(m, r)
       /\ observed' = [observed EXCEPT ![m] = @ \cup {s}]
  /\ UNCHANGED <<source, keyed, report, replacing, command, phase, reused,
                 fresh, failing, expired>>

\* An error ends a serial run at once; a parallel one collects it.
FailMutant(m) ==
  /\ MayFail
  /\ MustRun(m)
  /\ \/ phase = "serial" /\ Drop("failed")
     \/ /\ phase = "parallel"
        /\ Ready(m, Error(source))
        /\ UNCHANGED <<phase, reused, fresh, failing, expired>>
  /\ UNCHANGED <<source, keyed, report, replacing, cache, observed, command>>

\* The first error has cancelled the siblings: a job not taken up yet fails,
\* and a test under way is killed and counted as a failed one.
Interrupt(m) ==
  /\ phase = "parallel"
  /\ MayTake(m)
  /\ failing
  /\ \/ Ready(m, Error(source)) /\ UNCHANGED cache
     \/ LET r == Result("killed", None, source, FALSE) IN Ready(m, r) /\ Store(m, r)
  /\ UNCHANGED <<source, keyed, report, replacing, observed, command, phase,
                 reused, fresh, failing, expired>>

-----------------------------------------------------------------------------
(* Recording: recordProgress aside, writePartialResults and writeFileAtomic. *)

IsError(r) == r.status = "error"

\* The fingerprint is computed anew for every report, from the files as they
\* are now; the results are those of this loop.
Written(results) == Report(source, results)

\* The new report takes the name of the old one; on Windows the old one is removed
\* first. Whatever fails on the way is ignored.
Replace(r) ==
  \/ report' = r /\ UNCHANGED replacing
  \/ report' = NoReport /\ replacing' = r
  \/ UNCHANGED <<report, replacing>>

Collect(m) ==
  /\ Running
  /\ ~replacing.exists
  /\ Has(ready, m)
  /\ ready' = [ready EXCEPT ![m] = NoResult]
  /\ fresh' = IF IsError(ready[m]) THEN fresh ELSE [fresh EXCEPT ![m] = ready[m]]
  /\ failing' = (failing \/ IsError(ready[m]))
  /\ Replace(Written(fresh'))
  /\ UNCHANGED <<source, keyed, cache, observed, command, phase, todo,
                 reused, expired>>

Rename ==
  /\ Running
  /\ replacing.exists
  /\ report' \in {replacing, report}
  /\ replacing' = NoReport
  /\ UNCHANGED <<source, keyed, cache, observed, runVars>>

Over ==
  /\ Running
  /\ todo = {}
  /\ ready = Nothing
  /\ ~replacing.exists
  /\ UNCHANGED <<source, keyed, report, replacing, cache, observed, command>>

Succeed ==
  /\ phase' = "done"
  /\ UNCHANGED <<todo, reused, ready, fresh, failing, expired>>

\* Mutated form: a parallel run returns its results even after an error.
FinishIgnoringErrors == Over /\ Succeed

Finish == Over /\ IF failing THEN Drop("failed") ELSE Succeed

-----------------------------------------------------------------------------
(* The environment. *)

\* A watchdog or the user kills the process: only the files remain.
Crash ==
  /\ Running
  /\ Drop("stopped")
  /\ replacing' = NoReport
  /\ UNCHANGED <<source, keyed, report, cache, observed, command>>

\* The source is edited between two runs, never during one, and to what it has
\* not been before. The test results of the mutants touched are void.
Touch(touched) ==
  /\ source < MaxEdits
  /\ ~Running
  /\ source' = source + 1
  /\ keyed' = [m \in Mutants |-> IF m \in touched THEN source' ELSE keyed[m]]
  /\ observed' = [m \in Mutants |-> IF m \in touched THEN {} ELSE observed[m]]
  /\ UNCHANGED <<report, replacing, runVars>>

\* Mutated form: the cache key leaves the digests of the files out.
EditKeepingKeys(touched) == Touch(touched) /\ UNCHANGED cache

\* No old key of a mutant touched is looked up again, so its entries are forgotten.
Edit(touched) ==
  /\ Touch(touched)
  /\ cache' = [key \in Mutants \X Commands |->
                 IF key[1] \in touched THEN NoResult ELSE cache[key]]

Expire ==
  /\ Budgeted
  /\ phase = "serial"
  /\ ~expired
  /\ expired' = TRUE
  /\ UNCHANGED <<source, keyed, report, replacing, cache, observed, command,
                 phase, todo, reused, ready, fresh, failing>>

Next ==
  \/ \E c \in Commands : StartAfresh(c) \/ StartResumed(c) \/ RejectResume(c)
  \/ \E m \in Mutants :
       Decide(m) \/ HitCache(m) \/ Test(m) \/ FailMutant(m) \/ Interrupt(m) \/ Collect(m)
  \/ Rename
  \/ Finish
  \/ Crash
  \/ \E touched \in Edits : Edit(touched)
  \/ Expire

Spec == Init /\ [][Next]_vars

-----------------------------------------------------------------------------

\* What a run that has ended returns.
Final == [m \in Mutants |-> IF Has(fresh, m) THEN fresh[m] ELSE reused[m]]

\* The status the summary counts a result under.
Effective(r) == IF r.status = "cached" THEN r.previous ELSE r.status

-----------------------------------------------------------------------------
(* Safety. *)

\* A resumed run takes over results of the source as it is, whatever was
\* edited, killed and resumed before: stale ones are rejected.
StaleResultsRejected ==
  [][~Running /\ Running' =>
       \A m \in Mutants : Has(reused', m) => reused'[m].origin = source]_vars

\* A run that ends has a result for every mutant: what it takes over and what
\* it does itself cover the schedule, after any number of kills and resumes.
DoneIsComplete ==
  phase = "done" => \A m \in Mutants : Has(Final, m)

\* What a run knows of each mutant: an error is not a result, and leaves none.
Recorded ==
  [m \in Mutants |->
     IF Has(fresh, m) THEN fresh[m]
     ELSE IF Has(ready, m) /\ ~IsError(ready[m]) THEN ready[m]
     ELSE reused[m]]

\* What a result says of a mutant whose keyed files are as they were since a version.
Promised(r, since) ==
  IF r = NoResult THEN None
  ELSE IF r.origin >= since /\ r.ended /\ Effective(r) \in Outcomes THEN Effective(r)
  ELSE "unseen"

Given == [m \in Mutants |-> Promised(Recorded[m], keyed[m])]
Shown == IF Running THEN "running" ELSE phase

Promise == INSTANCE ObservedRuns WITH verdict <- Given, phase <- Shown

\* Whatever is killed, resumed, reused and edited, the runs give verdicts that
\* tests of the mutant ended with while the files its key digests were as they are
\* now, decide each mutant once and do not take it back, and succeed with all of
\* them or return nothing (getCached, cacheKey, loadPartialResults).
RefinesObservedRuns == Promise!Spec

\* A verdict that is reported has been observed by a test that ran with the files
\* its key digests as they are now, also after being reused, from the cache or from
\* the partial report, by any number of runs and after edits of any files, of whose
\* others it says nothing; tests that did not run to their end are left aside.
VerdictsWereObserved ==
  phase = "done" =>
    \A m \in Mutants \ Skipped :
      LET r == Final[m] IN
      r.origin >= keyed[m] /\ r.ended /\ Effective(r) \in Outcomes =>
        Effective(r) \in observed[m]

-----------------------------------------------------------------------------
(* What the proofs rest on. *)

Results ==
  [status : Status \cup {None, "error"}, previous : Status \cup {None, "error"},
   origin : 0 .. source, ended : BOOLEAN]
Reports == [fingerprint : 0 .. source, results : [Mutants -> Results], exists : BOOLEAN]

TypeOK ==
  /\ source \in Versions
  /\ keyed \in [Mutants -> 0 .. source]
  /\ {report, replacing} \subseteq Reports
  /\ cache \in [Mutants \X Commands -> Results]
  /\ command \in Commands
  /\ phase \in {"stopped", "serial", "parallel", "done", "failed"}
  /\ todo \subseteq Mutants
  /\ {reused, ready, fresh} \subseteq [Mutants -> Results]
  /\ {failing, expired} \subseteq BOOLEAN
  /\ observed \in [Mutants -> SUBSET Outcomes]

\* Until an error is met, each mutant is waiting, done or taken over.
Covered ==
  Running /\ ~failing =>
    \A m \in Mutants : m \in todo \/ Has(reused, m) \/ Has(ready, m) \/ Has(fresh, m)

\* What a run records itself and what a fingerprint vouches for is of the source
\* it names, what a key vouches for of the files it digests.
Dated ==
  /\ Running => \A m \in Mutants : /\ Has(fresh, m) => fresh[m].origin = source
                                   /\ Has(ready, m) => ready[m].origin = source
  /\ \A m \in Mutants, c \in Commands :
       Has(cache, <<m, c>>) => cache[<<m, c>>].origin >= keyed[m]
  /\ \A f \in {report, replacing} : \A m \in Mutants :
       Has(f.results, m) => f.results[m].origin = f.fingerprint

\* A verdict recorded since its keyed files changed, and of a test that ran to its
\* end, was observed.
Vouched(r, m) ==
  r.origin >= keyed[m] /\ r.ended /\ Effective(r) \in Outcomes => Effective(r) \in observed[m]

AllVouched ==
  \A m \in Mutants :
    /\ \A results \in {reused, ready, fresh, report.results, replacing.results} :
         Vouched(results[m], m)
    /\ \A c \in Commands : Vouched(cache[<<m, c>>], m)

\* A mutant waits, or has one result: what is recorded of it is not replaced.
Apart ==
  \A m \in Mutants :
    /\ m \in todo => ~Has(reused, m) /\ ~Has(ready, m) /\ ~Has(fresh, m)
    /\ Has(ready, m) => ~Has(fresh, m)

IInv == TypeOK /\ Covered /\ DoneIsComplete /\ Dated /\ AllVouched

-----------------------------------------------------------------------------
(* Statements of the documentation the code does not keep. *)

\* A result that a resumed run takes over stays in the partial report while
\* that run goes on.
ReportKeepsObserved ==
  Running /\ report.exists =>
    \A m \in Completed(reused) : Has(report.results, m)

\* A result that is reused keeps the status it had as its previous one, so that
\* the summary can count it.
ReusedVerdictsAreKept ==
  phase = "done" => \A m \in Mutants : Effective(Final[m]) # "cached"

=============================================================================
