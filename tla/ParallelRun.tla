---------------------------- MODULE ParallelRun ----------------------------
(***************************************************************************)
(* One execution of the scheduled mutants by several workers               *)
(* (pkg/engine/execution.go, runMutantsParallel): the calling goroutine    *)
(* dispatches jobs over one buffered channel and then collects results     *)
(* from another, the workers run mutants in between, and a closer closes   *)
(* the result channel once every worker has left.                          *)
(***************************************************************************)
EXTENDS Verdicts, Naturals, Sequences, FiniteSets, Functions

CONSTANTS N,               \* number of scheduled mutants
          Workers,         \* the worker goroutines
          Quarantined,     \* mutants in active quarantine
          Suppressed,      \* mutants an audited rule suppresses
          Uncovered,       \* mutants the selected tests do not execute
          CacheMode,       \* "off", "read-only" or "incremental"
          Budgeted,        \* is an execution budget configured?
          CallerMayCancel  \* may the context given to Engine.Run be cancelled?

ASSUME NAssumption == N \in Nat
ASSUME WorkersAssumption == Workers # {}
ASSUME CacheModeAssumption == CacheMode \in {"off", "read-only", "incremental"}

Mutants == 1 .. N

JobsCapacity == N
DoneCapacity == N

\* The item of a job whose run returned an error: its result is zero.
Failed == "error"

Items == [index : Mutants, status : Status \cup {Failed}]

VARIABLES
  next,        \* dispatcher: index of the mutant to dispatch
  jobs,        \* channel: indices waiting for a worker
  jobsClosed,
  pc,          \* worker: "idle", "prepare", "test", "send" or "exited"
  job,         \* worker: index of the mutant it holds
  outcome,     \* worker: status it is about to send
  done,        \* channel: items waiting for the collector
  doneClosed,
  cancelled,   \* the context shared by the workers is done
  results,     \* the result slice, one slot per mutant
  firstErr,    \* has the collector received an error?
  phase,       \* "running", then what runMutantsParallel returned
  expired,     \* the clock has reached the budget
  partial,     \* the results in the last partial report written
  cache,       \* the verdict stored under each mutant's cache key
  interrupted  \* history: mutants whose test the cancellation killed

dispatchVars == <<next, jobsClosed>>
workerVars == <<pc, job, outcome>>
collectVars == <<results, firstErr, phase, partial>>
vars == <<next, jobs, jobsClosed, pc, job, outcome, done, doneClosed, cancelled,
          results, firstErr, phase, expired, partial, cache, interrupted>>

Init ==
  /\ next = 1
  /\ jobs = <<>>
  /\ jobsClosed = FALSE
  /\ pc = [w \in Workers |-> "idle"]
  /\ job = [w \in Workers |-> 0]
  /\ outcome = [w \in Workers |-> None]
  /\ done = <<>>
  /\ doneClosed = FALSE
  /\ cancelled = FALSE
  /\ results = [m \in Mutants |-> None]
  /\ firstErr = FALSE
  /\ phase = "running"
  /\ expired = FALSE
  /\ partial = [m \in Mutants |-> None]
  /\ cache \in [Mutants -> {None, "survived"}]
  /\ interrupted = {}

-----------------------------------------------------------------------------
(* The dispatcher: dispatchParallelJobs, in the calling goroutine.         *)
(* Here and below, a mutated form is the operator after it with one        *)
(* mistake; Spec does not use it.                                          *)

BudgetExhausted == Budgeted /\ expired

\* Mutated form: suppression is looked at before quarantine.
PreDecidedSuppressedFirst(m) ==
  CASE m \in Suppressed -> "ignored"
    [] m \in Quarantined \ Suppressed -> "quarantined"
    [] m \notin Quarantined \cup Suppressed /\ BudgetExhausted -> "pending_budget"
    [] OTHER -> None

\* The status a mutant is given without being run; None when it must run.
PreDecided(m) ==
  CASE m \in Quarantined -> "quarantined"
    [] m \in Suppressed \ Quarantined -> "ignored"
    [] m \notin Quarantined \cup Suppressed /\ BudgetExhausted -> "pending_budget"
    [] OTHER -> None

\* Mutated form: the budget is measured from the previous mutant.
DispatchRestartsClock ==
  /\ next \in Mutants
  /\ next' = next + 1
  /\ \/ /\ PreDecided(next) # None
        /\ results' = [results EXCEPT ![next] = PreDecided(next)]
        /\ UNCHANGED jobs
     \/ /\ PreDecided(next) = None
        /\ jobs' = Append(jobs, next)
        /\ UNCHANGED results
  /\ expired' = FALSE
  /\ UNCHANGED <<jobsClosed, workerVars, done, doneClosed, cancelled, firstErr,
                 phase, partial, cache, interrupted>>

Dispatch ==
  /\ next \in Mutants
  /\ next' = next + 1
  /\ \/ /\ PreDecided(next) # None
        /\ results' = [results EXCEPT ![next] = PreDecided(next)]
        /\ UNCHANGED jobs
     \/ /\ PreDecided(next) = None
        /\ Len(jobs) < JobsCapacity
        /\ jobs' = Append(jobs, next)
        /\ UNCHANGED results
  /\ UNCHANGED <<jobsClosed, workerVars, done, doneClosed, cancelled, firstErr,
                 phase, expired, partial, cache, interrupted>>

CloseJobs ==
  /\ next = N + 1
  /\ ~jobsClosed
  /\ jobsClosed' = TRUE
  /\ UNCHANGED <<next, jobs, workerVars, done, doneClosed, cancelled, collectVars,
                 expired, cache, interrupted>>

-----------------------------------------------------------------------------
(* The workers: startParallelWorkers and, for one mutant, runMutant. *)

\* A worker moves on with the mutant it holds and what it will report of it.
Step(w, to, s) ==
  /\ pc' = [pc EXCEPT ![w] = to]
  /\ outcome' = [outcome EXCEPT ![w] = s]

\* Mutated form: a worker that finds the context done reports the error and
\* runs the mutant all the same.
ReceiveWithoutContinue(w) ==
  /\ pc[w] = "idle"
  /\ jobs # <<>>
  /\ jobs' = Tail(jobs)
  /\ job' = [job EXCEPT ![w] = Head(jobs)]
  /\ Step(w, "prepare", None)
  /\ done' = IF cancelled
             THEN Append(done, [index |-> Head(jobs), status |-> Failed])
             ELSE done
  /\ UNCHANGED <<dispatchVars, doneClosed, cancelled, collectVars, expired, cache,
                 interrupted>>

\* The context is checked once, when the job is received.
Receive(w) ==
  /\ pc[w] = "idle"
  /\ jobs # <<>>
  /\ jobs' = Tail(jobs)
  /\ job' = [job EXCEPT ![w] = Head(jobs)]
  /\ \/ cancelled /\ Step(w, "send", Failed)
     \/ ~cancelled /\ Step(w, "prepare", None)
  /\ UNCHANGED <<dispatchVars, done, doneClosed, cancelled, collectVars, expired,
                 cache, interrupted>>

CacheHit(m) == CacheMode # "off" /\ cache[m] # None

\* selectTests, cacheKey, getCached and prepareMutation. Reading the source for
\* the key and preparing the copy or the overlay may each fail.
Prepare(w) ==
  /\ pc[w] = "prepare"
  /\ \/ job[w] \in Uncovered /\ Step(w, "send", "not_covered")
     \/ job[w] \notin Uncovered /\ Step(w, "send", Failed)
     \/ job[w] \notin Uncovered /\ CacheHit(job[w]) /\ Step(w, "send", "cached")
     \/ job[w] \notin Uncovered /\ ~CacheHit(job[w]) /\ Step(w, "test", None)
  /\ UNCHANGED <<dispatchVars, jobs, job, done, doneClosed, cancelled, collectVars,
                 expired, cache, interrupted>>

\* putCached: the file of a mutant's key is written only in incremental mode.
Store(m, s) ==
  cache' = IF CacheMode = "incremental" THEN [cache EXCEPT ![m] = s] ELSE cache

\* The test command ends by itself or at its timeout.
EndTest(w) ==
  /\ pc[w] = "test"
  /\ \E s \in Tested : Step(w, "send", s) /\ Store(job[w], s)
  /\ UNCHANGED <<dispatchVars, jobs, job, done, doneClosed, cancelled, collectVars,
                 expired, interrupted>>

\* The cancelled context kills the test process. runTest looks only for a
\* deadline, so the killed process counts as a failed test when its output
\* already holds "FAIL", and as a compile error when it does not.
KillTest(w) ==
  /\ pc[w] = "test"
  /\ cancelled
  /\ interrupted' = interrupted \cup {job[w]}
  /\ \E s \in {"compile_error", "killed"} : Step(w, "send", s) /\ Store(job[w], s)
  /\ UNCHANGED <<dispatchVars, jobs, job, done, doneClosed, cancelled, collectVars,
                 expired>>

Send(w) ==
  /\ pc[w] = "send"
  /\ Len(done) < DoneCapacity
  /\ done' = Append(done, [index |-> job[w], status |-> outcome[w]])
  /\ Step(w, "idle", None)
  /\ UNCHANGED <<dispatchVars, jobs, job, doneClosed, cancelled, collectVars, expired,
                 cache, interrupted>>

Exit(w) ==
  /\ pc[w] = "idle"
  /\ jobs = <<>>
  /\ jobsClosed
  /\ Step(w, "exited", None)
  /\ UNCHANGED <<dispatchVars, jobs, job, done, doneClosed, cancelled, collectVars,
                 expired, cache, interrupted>>

\* Mutated form: the first worker to leave closes the channel.
CloseDoneEarly ==
  /\ ~doneClosed
  /\ \E w \in Workers : pc[w] = "exited"
  /\ doneClosed' = TRUE
  /\ UNCHANGED <<dispatchVars, jobs, workerVars, done, cancelled, collectVars, expired,
                 cache, interrupted>>

\* The closer goroutine: wg.Wait, then close(done).
CloseDone ==
  /\ ~doneClosed
  /\ \A w \in Workers : pc[w] = "exited"
  /\ doneClosed' = TRUE
  /\ UNCHANGED <<dispatchVars, jobs, workerVars, done, cancelled, collectVars, expired,
                 cache, interrupted>>

-----------------------------------------------------------------------------
(* The collector: collectParallelResults, in the calling goroutine again. *)

\* The result of a failed item is zero, and compactedResults keeps it out of
\* the partial report.
Recorded(item) == IF item.status = Failed THEN None ELSE item.status

\* Mutated form: results are put in the order in which they arrive.
CollectInArrivalOrder ==
  /\ jobsClosed
  /\ done # <<>>
  /\ done' = Tail(done)
  /\ firstErr' = (firstErr \/ Head(done).status = Failed)
  /\ cancelled' = (cancelled \/ Head(done).status = Failed)
  /\ results' = [results EXCEPT ![Cardinality({m \in Mutants : results[m] # None}) + 1]
                   = Recorded(Head(done))]
  /\ partial' = results'
  /\ UNCHANGED <<dispatchVars, jobs, workerVars, doneClosed, phase, expired, cache,
                 interrupted>>

\* Mutated form: the partial report is written before the result is stored.
CollectReportsFirst ==
  /\ jobsClosed
  /\ done # <<>>
  /\ done' = Tail(done)
  /\ firstErr' = (firstErr \/ Head(done).status = Failed)
  /\ cancelled' = (cancelled \/ Head(done).status = Failed)
  /\ results' = [results EXCEPT ![Head(done).index] = Recorded(Head(done))]
  /\ partial' = results
  /\ UNCHANGED <<dispatchVars, jobs, workerVars, doneClosed, phase, expired, cache,
                 interrupted>>

Collect ==
  /\ jobsClosed
  /\ done # <<>>
  /\ done' = Tail(done)
  /\ firstErr' = (firstErr \/ Head(done).status = Failed)
  /\ cancelled' = (cancelled \/ Head(done).status = Failed)
  /\ results' = [results EXCEPT ![Head(done).index] = Recorded(Head(done))]
  /\ partial' = results'
  /\ UNCHANGED <<dispatchVars, jobs, workerVars, doneClosed, phase, expired, cache,
                 interrupted>>

\* Mutated form: the results are returned even after an error.
ReturnIgnoringError ==
  /\ phase = "running"
  /\ jobsClosed
  /\ done = <<>>
  /\ doneClosed
  /\ phase' = "ok"
  /\ cancelled' = TRUE
  /\ UNCHANGED <<dispatchVars, jobs, workerVars, done, doneClosed, results, firstErr,
                 expired, partial, cache, interrupted>>

\* The deferred cancel of runMutantsParallel runs as it returns.
Return ==
  /\ phase = "running"
  /\ jobsClosed
  /\ done = <<>>
  /\ doneClosed
  /\ phase' = IF firstErr THEN "error" ELSE "ok"
  /\ cancelled' = TRUE
  /\ UNCHANGED <<dispatchVars, jobs, workerVars, done, doneClosed, results, firstErr,
                 expired, partial, cache, interrupted>>

-----------------------------------------------------------------------------
(* The clock and the caller. *)

Expire ==
  /\ Budgeted
  /\ phase = "running"
  /\ ~expired
  /\ expired' = TRUE
  /\ UNCHANGED <<dispatchVars, jobs, workerVars, done, doneClosed, cancelled,
                 collectVars, cache, interrupted>>

CallerCancel ==
  /\ CallerMayCancel
  /\ phase = "running"
  /\ ~cancelled
  /\ cancelled' = TRUE
  /\ UNCHANGED <<dispatchVars, jobs, workerVars, done, doneClosed, collectVars, expired,
                 cache, interrupted>>

\* The run has returned: nothing is left to do.
Returned == phase # "running" /\ UNCHANGED vars

WorkerStep(w) ==
  Receive(w) \/ Prepare(w) \/ EndTest(w) \/ KillTest(w) \/ Send(w) \/ Exit(w)

CallerStep == Dispatch \/ CloseJobs \/ Collect \/ Return

Next ==
  \/ CallerStep
  \/ \E w \in Workers : WorkerStep(w)
  \/ CloseDone
  \/ Expire
  \/ CallerCancel
  \/ Returned

Spec == Init /\ [][Next]_vars

\* Goroutines that can run eventually do, and a test ends at its timeout at the
\* latest. Neither the clock nor the caller's cancellation has to come.
FairSpec ==
  /\ Spec
  /\ WF_vars(CallerStep)
  /\ WF_vars(CloseDone)
  /\ \A w \in Workers : WF_vars(WorkerStep(w))

-----------------------------------------------------------------------------
(* Where every mutant is. *)

Busy == {w \in Workers : pc[w] \in {"prepare", "test", "send"}}
Queued == Range(jobs)
Held == {job[w] : w \in Busy}
Indices(items) == {items[k].index : k \in DOMAIN items}
Sent == Indices(done)
InFlight == Queued \cup Held \cup Sent
Decided == {m \in Mutants : results[m] # None}

TypeOK ==
  /\ next \in 1 .. N + 1
  /\ jobs \in Seq(Mutants)
  /\ jobsClosed \in BOOLEAN
  /\ pc \in [Workers -> {"idle", "prepare", "test", "send", "exited"}]
  /\ job \in [Workers -> 0 .. N]
  /\ \A w \in Busy : job[w] \in Mutants
  /\ outcome \in [Workers -> Status \cup {Failed, None}]
  /\ \A w \in Workers : pc[w] = "send" => outcome[w] # None
  /\ done \in Seq(Items)
  /\ doneClosed \in BOOLEAN
  /\ cancelled \in BOOLEAN
  /\ results \in [Mutants -> Status \cup {None}]
  /\ firstErr \in BOOLEAN
  /\ phase \in {"running", "ok", "error"}
  /\ expired \in BOOLEAN
  /\ partial \in [Mutants -> Status \cup {None}]
  /\ cache \in [Mutants -> Tested \cup {None}]
  /\ interrupted \subseteq Mutants

-----------------------------------------------------------------------------
(* Safety. *)

\* Each mutant is in one place: no two workers, queue slots or result items
\* hold the same mutant, and none that is in flight has already been decided.
\* A mutant run twice would write its slot and its cache file twice.
NoMutantRunTwice ==
  /\ \A i, k \in DOMAIN jobs : jobs[i] = jobs[k] => i = k
  /\ \A i, k \in DOMAIN done : done[i].index = done[k].index => i = k
  /\ \A v, w \in Busy : job[v] = job[w] => v = w
  /\ Queued \cap Held = {}
  /\ Queued \cap Sent = {}
  /\ Held \cap Sent = {}
  /\ InFlight \cap Decided = {}

\* Every mutant dispatched so far is in flight or decided until the collector
\* meets an error, and none is before its turn: no step of the workers or the
\* collector drops a mutant or files its verdict under another one's index.
NoMutantLost ==
  /\ \A m \in InFlight \cup Decided : m < next
  /\ ~firstErr => \A m \in Mutants : m < next => m \in InFlight \cup Decided

\* A channel is closed when its senders are through, and the run returns when
\* both are drained: a send on a closed channel would end the whole process.
ChannelsCloseInOrder ==
  /\ jobsClosed => next = N + 1
  /\ \A w \in Workers : pc[w] = "exited" => jobsClosed /\ jobs = <<>>
  /\ doneClosed => \A w \in Workers : pc[w] = "exited"
  /\ phase # "running" => doneClosed /\ done = <<>>

\* A run that returns without an error has a verdict for every mutant: closing
\* the channels, the early exits of the workers and the order of the collector
\* lose none.
SuccessIsComplete ==
  phase = "ok" => \A m \in Mutants : results[m] # None

\* A mutant in quarantine or suppressed is never handed to a worker, not even
\* when the budget has run out, and its cached verdict is left as it was.
SkippedNeverRun ==
  InFlight \cap (Quarantined \cup Suppressed) = {}

\* The budget cuts the schedule once: after a mutant left pending, every later
\* mutant that would have to run is left pending too.
PendingIsSuffix ==
  \A i, k \in Mutants :
    /\ i < k
    /\ results[i] = "pending_budget"
    /\ k \notin Quarantined \cup Suppressed
    /\ results[k] # None
    => results[k] = "pending_budget"

\* The last partial report of a successful run holds every verdict of the run,
\* unless no mutant had to be run: then no report is written at all.
CheckpointIsComplete ==
  phase = "ok" =>
    \/ partial = results
    \/ /\ partial = [m \in Mutants |-> None]
       /\ \A m \in Mutants : results[m] \in {"quarantined", "ignored", "pending_budget"}

\* A slot of the result slice is written once, with the verdict of the mutant
\* the slot stands for, whatever order the workers finish in.
VerdictsAreFinal ==
  [][\A m \in Mutants : results[m] # None => results'[m] = results[m]]_results

\* The invariant the proofs rest on: where the mutants are, in which order the
\* channels close, and that the phase agrees with the error met.
IInv ==
  /\ TypeOK
  /\ NoMutantRunTwice
  /\ NoMutantLost
  /\ ChannelsCloseInOrder
  /\ SkippedNeverRun
  /\ phase = "ok" => ~firstErr

-----------------------------------------------------------------------------
(* Liveness. *)

\* An error a worker reports is never lost among the results of its siblings.
ErrorFailsTheRun ==
  (\E w \in Workers : pc[w] = "send" /\ outcome[w] = Failed) ~> phase = "error"

-----------------------------------------------------------------------------
(* What the run promises, as seen in the result slice. *)

Promise == INSTANCE MutationRun WITH verdict <- results

RefinesMutationRun == Promise!Spec

\* The same without the promise that the run returns.
KeepsPromise == Promise!Init /\ [][Promise!Next]_<<results, phase>>

-----------------------------------------------------------------------------
(* Statements of the documentation the code does not keep. *)

\* A verdict in the cache comes from a test that ran to its end.
CacheHoldsEndedTests ==
  \A m \in interrupted : cache[m] = None

=============================================================================
