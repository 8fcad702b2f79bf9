# TLA+ verification of cervo-mutants

cervo-mutants is a mutation tester for Go. It discovers mutants in the source of a
module, runs the selected tests once per mutant, gives every mutant a verdict, and
reports, compares and gates on the verdicts; a pool runs it over many repositories, and
helpers of its own publish it. This directory holds TLA+ models of the parts whose
correctness depends on an order of events: workers and channels, kills and resumed runs,
timeouts, memory limits, caches and files several runs share; and of the algorithms that
decide which mutants there are, which are run, and what a count means.

Every definition is translated from the Go code; `PROJECT.json` (`map`) names the lines.

## 1. Inventory

| Component | Source | State | Operations | Hard behaviour | What makes it correct |
|---|---|---|---|---|---|
| Mutant execution | `pkg/engine/execution.go`, `mutant_run_flow.go` | two channels, workers, result slice, shared context | dispatch, receive, run one mutant, send, collect, return | interleavings, errors that cancel siblings, budget, channel capacity | no mutant lost, run twice or misfiled; an error fails the run; the run returns |
| Checkpoint and resume | `pkg/engine/checkpoint.go` | partial report with a fingerprint, replaced by rename | write after each result, load, reject, take over | kills at any moment, several resumes, edits in between | no stale result, no lost result, no verdict nobody observed |
| Test execution | `pkg/engine/test_execution.go`, `process_limits*.go`, `pkg/runner/runner.go` | process, its output, context | start, limit, wait, kill, classify | the process races its deadline, limit and cancellation; only text tells causes apart | a verdict says what happened |
| Incremental cache | `pkg/engine/cache_flow.go` | one file per key, written in place | key, get, put | edits and other processes meanwhile, torn files, verdicts of killed tests | a hit was observed on the tree of its key |
| Quarantine, suppression | `pkg/engine/quarantine_flow.go`, `pkg/quarantine` | a file of entries with an expiry | load, match, validate | expiry between runs, order against the budget | a mutant goes untested only with an excuse that holds |
| Run orchestration | `pkg/engine/engine.go` and flows | none beyond a session | stages of `Engine.Run` | a stage fails after an earlier one wrote files | files agree with the outcome |
| Summary, comparison, gate, history | `pkg/engine/summary.go`, `gate_policy.go`, `history.go`, `pkg/baseline` | counters; history and baseline files | count, compare, gate, record | denominators, zero counts; load-change-write without a lock | counters add up; no run's history is lost |
| Discovery, scheduling, slicing | `pkg/discover`, `pkg/engine/mutation.go`, `slicing.go` | none | walk, identify, sort, shard, cap | several machines, overlapping targets, limits | shards partition the mutants |
| Mutators | `pkg/mutator` | none | offer, ignore, replace, classify | panics on legal code, replacement by text, claims of equivalence | profiles contain each other; an equivalent mutant is one |
| Selection, coverage | `pkg/engine/selection_flow.go`, `coverage_profile.go`, `pkg/internal/coverageprofile`, `gotestenv` | none | choose and narrow the command | what a verdict depends on | tests run over the mutated file |
| Workspace isolation | `pkg/isolate`, `pkg/internal/mutationfs` | copies with a marker, overlays | choose a root, copy, mutate, clean up | failures at each step, edits meanwhile | nothing is left behind |
| Command line | `cmd/cervomut` | report files | run, exit codes, failure report | failure after partial output | exit code and report agree |
| Baseline lifecycle | `cmd/cervomut/cli_baseline.go`, `pkg/baseline` | baseline, candidate | accept, promote, update | kill between file operations | one whole baseline |
| Pool command runner | `pkg/pool/runner.go`, `process_monitor*.go` | process, ticker, logs | wait for memory, start, poll, kill | select race, memory status errors | one exit code, the right one; returns |
| Pool campaign | `pkg/pool/campaign.go` | summary files | run jobs in order, resume | kills, edits, several resumes, failed jobs | finished jobs are kept, failed ones run again |
| Pool compare | `pkg/pool/compare*.go`, `pkg/extcompare` | reports of tools, summary, study | run a tool, parse, classify, judge | resumed sessions with other options, old and partial reports | counts are of the command of their row; a fair study is one |
| Pool benchmark, smoke | `pkg/pool/benchmark*.go`, `smoke.go` | clones, reports, summary | clone, check out, run, measure, record | kills while cloning, edits of the corpus, resumes | a pass is earned by runs of its own |
| Daemon | `pkg/daemon` | none beyond a request | read, run, answer | runs beside other processes | as for test execution and isolation |
| Release helper | `cmd/releasehelper`, `.github/workflows/release.yml` | dist, public assets, a workspace | verify, build, smoke, publish | lost jobs, the tree vouches for itself | one whole build is public; an upgrade reads old files |
| Action helper | `cmd/actionhelper` | report directories, results, summary | resolve Go, select report, extract, sum | jobs and runners that die at any step | the summary counts what ran |
| Triage | `pkg/triage` | none | classify, rank, collapse | — | priorities sort the schedule; the rest is advice |
| Reports, configuration, doctor, evaluation | `pkg/report`, `pkg/config`, `pkg/doctor`, `pkg/eval` | none | pure functions | — | section 8 |

How they interact: the command line builds a configuration and calls `Engine.Run`. That
discovers and slices mutants, runs the baseline tests, and hands the schedule to mutant
execution; a worker selects tests, asks the cache, prepares an isolated copy and calls
test execution. Collected results go to the partial report. After the last one the
engine applies history, counts, compares with the baseline, gates, records history and
writes reports. The pool runs whole `cervomut` processes through its command runner and
kills them: that is where the crashes of the checkpoint model come from. The daemon runs
single mutants through `pkg/runner`. The GitHub action runs `cervomut` per repository of a
wave, and its helper reads what each run left. The releases those jobs install are
published by a workflow whose checks are the release helper's.

## 2. Modules

| Module | Models |
|---|---|
| `Verdicts` | the statuses of `pkg/engine/types.go` |
| `MutationRun` | abstract: what one execution of a schedule promises |
| `ParallelRun` | `runMutantsParallel` with dispatcher, workers, closer and collector |
| `ObservedRuns` | abstract: what a sequence of runs over an editable source promises of verdicts |
| `ResumableRun` | any number of runs over one report directory, killed, edited and resumed |
| `TestOutcome` | one test process and the two verdicts made of it |
| `CommandRunner` | one guarded command of the pool: wait for memory, process, watchdog, cancellation |
| `Campaign` | a sequence of pool campaigns with their nested runs, killed, edited and resumed |
| `Review` | operators: what a run's results do to the history, the counters, the comparison with the baseline and the gate |
| `RunPipeline` | the stages of `cervomut run` with the files each leaves, next to the `baseline` commands |
| `Release` | the publishing job of a tag and every check of `releasehelper` in it, lost and run again |
| `Upgrade` | `verify-upgrade`: a workspace of the previous release read by the current binary |
| `Wave` | jobs of a hosted wave, their Go versions, reports, results and the summary |
| `Comparison` | `pool compare` of one repository: tools, reports, rows, the study |
| `PoolRun` | `pool benchmark` and `pool smoke`: clones, runs, reports, thresholds, rows |
| `Selection` | from a tree to the mutants a run decides, for several runs at once: shards, limits, order, quarantine, suppression |
| `Mutators` | the generator of mutants over syntax trees; `MutatorFiles` has the files it is run on |
| `TestTree` | processes that test mutants in copies or overlays of a tree under edit, with a shared cache |
| `MC*` | small instances of these for TLC |
| `ParallelRun_proofs` | the safety of `ParallelRun`, and that it implements `MutationRun` |
| `Selection_proofs`, `Campaign_proofs`, `ResumableRun_proofs`, `RunPipeline_proofs` | the safety of the module each is named after; that `ResumableRun` implements `ObservedRuns` |
| `Mutants_proofs` | the safety of `Mutators`, `TestTree` and `TestOutcome`: what becomes of a mutant |
| `Pool_proofs` | the safety of `PoolRun`, `Comparison` and `CommandRunner` |
| `Helpers_proofs` | the safety of `Release`, `Upgrade` and `Wave` |

`MCTools` extends the nine modules whose systems share no state, each with variables of
its own: a behaviour picks one system (`system`) and is a behaviour of that module alone,
while the variables of the others keep what they begin with. Every other module's
properties hold of that beginning and say nothing; its own are checked on all it can do.
`MCRunFiles` does the same for `ResumableRun` and `RunPipeline`. Nothing is lost by it and
nothing gained: each is explored as completely as by itself.

### ParallelRun

The calling goroutine first dispatches and then collects: `next` and `jobsClosed` are
the dispatcher's position, and `Collect` waits for `jobsClosed`. `jobs` and `done` are
the buffered channels. Each worker has a program counter: `idle` (at the receive),
`prepare` (`selectTests`, key, cache, copy), `test` (in `runTest`), `send`, `exited`.
The context is read once after a receive (`Receive`) and by the killed process
(`KillTest`), so a cancellation may come anywhere in between. `runTest` looks only for a
deadline: a process killed by the cancellation is reported as killed or as a compile
error and stored in the cache. `Return` includes the deferred cancel. An error item
carries a zero result, which the collector stores and the partial report leaves out.

`N` mutants, `Workers`, and the dispositions (`Quarantined`, `Suppressed`, `Uncovered`)
are constants; which tests are selected is abstracted to covered or not. The command
line gives `Engine.Run` a context that is never cancelled (`context.Background()`), a
library caller may cancel it: `CallerMayCancel`.

### ResumableRun

The order of workers is abstracted: any mutant of `todo` may be the next, in a serial run
the least one, and a result waits in `ready` until it is collected. What is kept is which
results survive: `report` on disk with its fingerprint, `replacing` the file between removal
and rename (on Windows, or nothing if a write fails), `reused` the results taken over,
`fresh` those of this loop. Each write of the partial report carries the results of this
loop only and a fingerprint computed at that moment. A resumed run is serial however many
workers are configured. `Crash` keeps only files.

`ObservedRuns` has neither files, caches, workers nor orders: a run begins with any
verdicts that tests have ended with since the files changed that concern their mutant, gains
one at a time by a test (`Observe`) or from such a verdict (`Recall`), succeeds when every
mutant has one, or returns nothing; an edit leaves none standing on the mutants it touches.
The files that concern a mutant are those its cache key digests: its own, the test files of
its package, `go.mod` and `go.sum`. `Given` maps to it: what a run has
recorded of a mutant, or taken over, as far as it is a verdict on those files as they are;
other decisions (skipped, pending, a test that was killed) are `Unseen` there, and an
error of a worker is none. The kills of interrupted tests that a resumed run takes over
(section 6) are thus not among the verdicts this promise is about.

`Commands` are the command lines a user may give, with or without `--resume` and with one or
several workers. The cache is indexed by mutant and command, since the key digests the whole
configuration and both are part of it. Edits come between runs. `Edits` are the sets of
mutants whose keyed files an edit may change: the entries of those go, for no key of theirs
from before is looked up again; the others keep theirs, also when the edit was of a source
beside them or of tests in another package, which the test command may well read. So
`keyed`, the version in which a mutant's keyed files changed last, is what a verdict from
the cache is measured by, and a verdict a test gave before an edit elsewhere may be reported
after it: the properties say what the key promises and no more. The partial report is
stricter: its fingerprint covers every Go file of the module, and every edit here changes
it. `origin`, `ended` and `observed` are history variables: the version a result is recorded
in, whether its test ended by itself, and the verdicts tests have given since the keyed
files changed.

The configuration does not change. In the code the fingerprint covers, besides files and
mutants, the policy, the profile, selection mode and prefilter, isolation, test command and
timeout, the Go version and GOFLAGS; a change of the rest (limits of resources and output,
quarantine, suppression, budget) leaves a partial report acceptable.

### TestOutcome

The output is a sequence of lines of five kinds, since a verdict depends only on whether
"FAIL", "panic", "build failed" and "out of memory" occur in the part kept. `go test`
itself is external: it prints FAIL last for a failed test and a failed build. `mutatedTree`
says whether the mutant compiles. `cause` is
a history variable with what really happened. The deadline may pass after the process
has ended and before the context is looked at. Exit codes are 0, 1 and 2 (the only one the
code singles out).

### CommandRunner

`pc` is the position in `RealCommandRunner.Run`: before anything (`enter`), in
`waitFreeMemory` (`wait`), between the wait and the `select` loop (`launch`), at the
`select`, and at the receive from the wait channel after a kill (`reap`). `waitCh` and
`tick` are the two channels of the `select`; `Cancel` makes its third case ready. When
several are ready any is taken, as Go does. Amounts of memory and times are abstracted
to what the code compares them for: `free` against the two thresholds, `grown` against
the limit of the process tree, `waited` and `overdue` against the deadlines. `log` is
what lies at the log's path. A write of the log may fail, which fails the run. The
process tree is measured on Windows only, elsewhere its peak is zero (`OverLimit`).
The runner's own codes are taken as apart from those of a command: a command that itself
ends with 124, 125 or 126 cannot be told from a guarded one by any caller.

### Campaign

A campaign works on one job at a time (`at`), a nested run on one row at a time: a tool
on a repository (`RunCompare`), an entry of the corpus (`RunBenchmark`) or a repository
(`RunSmoke`). `summary` and `ledger` are the files, `results` and `rows` the lists in
memory that are written to them whole after each step. `writeJSON` writes in place, so
a kill or an error may leave a torn file; how each reader treats one differs, and is
modelled (`Start`, `OpenJob`). `resumed` and `kept` are what was loaded from a summary. A job's
definition is the number of the edit that last changed it, and its resume key the same
number; what is left out of the key (`resume`) does not change. `origin` is a history
variable. Row by row the three kinds differ in `OpenJob`, `RecordRow` and `CloseJob`.
`next` is the loop's position, `RepoOf` the repository of each row. A comparison that comes to a
repository whose checkout is missing, which may be so in any session, appends a row that says so
and goes on after its tools (`MissRepo`), whatever its summary holds already: resumed sessions
repeat such rows, and `RowsAreRecordedOnce` is about the others. The several commands of a row
are one step.

### RunPipeline and Review

`stage` is the position in `Engine.Run`, `cmdRun` and `finalizeStructuredFailure`: the
tests (`RunMutants` stands for discovery, slicing, quarantine, the unmutated tests and
`ResumableRun`'s loop), the history, the comparison and the gate, the row of the
history, the engine's report, the report written once more with the other formats, and
the failure report. Each write has the outcomes of `os.WriteFile`: all of the content,
the old file, or a torn one (`Write`); the history ignores an error, a report fails the
run. `Kill` may tear the file that is being written. A baseline command (`command`,
`held`) goes through its file operations one by one while the run goes on: it reads the
report or the candidate, truncates its file, fills it, removes the candidate.

The results are a function of the mutants discovered, so every set and count of
`summary.go`, `history.go` and `baseline_flow.go` is derived from them. A score is a
fraction, as the code's is up to rounding. `marks` are the two counters the summary
takes from the history. The row of a run leaves out the actionable score and survivor
ages. `compared` (what the gate read), `published`, `log` and `accepted` are history
variables. The mutants keep their identities through an edit: what changes is a test.

### Selection and Mutators

A tree is a list of files with their mutants; a configuration says which targets a run
walks, where each machine has checked the tree out (`roots`), the shards, the limits and the
policy of the quarantine (`runConfig`). Each run (`runAt`) goes `discover`, select, load,
run at its own pace while the clock (`now`) lets entries run out. The hash of a group is any
function into the shards (`slot`). An ID is the record of what `stableMutantIdentity`
digests, the diff of which names the path as it was discovered.

In `Mutators` a file is a sequence of nodes in the order of `ast.Inspect`: kind, parent,
the part it plays there, its tokens and line. The candidates of a node are those of
`collectNode`; a candidate becomes a mutant where `addMutation` lets it, at the first
place of the node's text where the original stands. `Generate` runs the next stronger
profile (`level`) over the same file. What decoders make of struct tags is modelled from their
documented rules (`Decoded`), apart from how the code judges a tag.

### TestTree

Each process goes through discovery, `selectTests`, `cacheKey`, `getCached`,
`prepareMutation`, `runTest`, `putCached` and `Cleanup`, a step for each file read. A file
is the number of the edit that wrote it; `place` says where an edit left the text of the
mutant. `seen` is what the tests read, which in an overlay is the tree itself, `was` the
tree of the key, `disturbed` whether an edit came meanwhile: history variables. A worker
of the daemon enters at `prepare`. A failure of any step cleans up as its code does.

### Comparison and PoolRun

`toolFiles` and `dir` are what a tool or an entry has left on disk, each report with the
session it is of (`of`, `by`: history variables). A tool or a command may fail, leave a full,
partial or torn report, the report of its failure or nothing. Sessions are killed,
started again with other target modes, and resumed. `EvaluateThresholds`, `ParseToolMetrics`,
`ClassifyCompareStatus` and `BuildComparability` are operators over small counts. In
`PoolRun` an entry with `exit # 0` ends where a benchmark ends it and goes on where a smoke
does; smoke and benchmark are one machine with `kind`.

### Release, Upgrade and Wave

In `Release`, `tagged` is what the tagged sources hold as the checks see it: matrix, set-up,
documents with their pins, notes, workflow steps, whether the binary works. A flawed tree
has one flaw, alone or with a step lost by its own workflow; the proofs are about trees with
any number of both. A step that a tree's workflow has lost does not run, so what an upload
says depends on the steps left: with `verify-compat` among them the tree is sound and has
lost no other, without it each of the others keeps back what it looks for itself. `dist` is
any outcome of the build: archives incomplete, unlisted, or built again; `published` is the
public set. The publish step uploads the files its patterns find (`DistFiles`), asset by
asset over those of an earlier attempt. In `Upgrade` one binary may have one flaw: a command
that fails, or that exits with zero and does nothing; each file (`reportBy`, `baselineBy`,
`candidateBy`) is who wrote it last. In `Wave` a run (`ran`) completes, fails or is killed.
Before the engine has written its report a failure leaves an empty one and a debug file,
either of which may be torn or missing, and a kill nothing or half a report, with a
checkpoint beside it or not; after it the whole report stays, and the triage ledger of the
other formats may be torn, as `RunPipeline` has it. A runner may be lost; the summary is
made of what was uploaded. YAML, archives and Markdown are abstracted to what is looked for
in them.

## 3. Runs

| Run | Shows | Bounds |
|---|---|---|
| `parallel` | every interleaving of two workers: nothing run twice or misfiled, an error fails the run, success is complete; it returns and implements `MutationRun` | 4 mutants: one quarantined and suppressed, one uncovered, two that run; errors, budget, caller's cancellation, incremental cache |
| `run_files` | of `ResumableRun`: it implements `ObservedRuns` (what is recorded is not replaced, a finished run is complete), stale results are rejected, verdicts were observed with the files their keys digest. Of `RunPipeline`: only reports become baselines, an accepted one is never lost, half a baseline passes no gate, the history keeps what was written, the exit code is that of the report left | 3 mutants, one skipped, one edit of one mutant's files, plain parallel and resumed runs, budget, any number of kills and resumes; one mutant, two runs, two baseline commands, one edit, every write may fail or tear |
| `command_runner` | the run returns; its code and log say what became of the command; nothing is left running | all guards on, two failures to read the memory status |
| `campaign_resume` | only current successes are taken over; rows of tools and entries are recorded once; comparisons keep theirs; a finished campaign is recorded whole | 4 jobs: a comparison, a smoke run, a disabled one, a benchmark that resumes itself; 2 rows each, of one repository; up to 2 rows of a missing checkout in a summary; one edit |
| `tools` | the properties of the nine systems of `MCTools` | below |
| `parallel_cache`, `resume_overwrite`, `resume_cached`, `outcome_build`, `campaign_redefined`, `mutator_counters`, `overlay_script` | one statement of the documentation or the tests each that the code does not keep: section 6 | 1 to 3 mutants or rows; the instances of `tools` |

The systems of `tools`:

| System | Shows | Bounds |
|---|---|---|
| `release` | what is public after a job went through is one whole build, if `verify-compat` or `verify-release` is left in the workflow; an uploaded tree passes the steps its workflow has left, and with `verify-compat` among them it has lost none and is sound | 2 targets, 2 attempts, every tree with one flaw, and each of these with one more lost workflow step |
| `upgrade` | a verified upgrade has read what the previous release wrote | one flaw at any command of either binary |
| `wave` | the summary counts what the runs left; a result that reads clean is of a run whose engine wrote the whole report with the Go it needs | 2 jobs, 3 mutants in 2 groups, 2 reports; a Go version or none, above the action's own |
| `comparison` | full reports are of their own command; a fair study has one target and mode, and hides no warning | 2 tools, 2 sessions, 3 pairs of modes, counts with and without a decided mutant |
| `pool` | an entry passes, and a benchmark succeeds, on runs of its own on the ref it asks for; a smoke tells what its successful runs found | 2 entries, 2 sessions, one edit of the corpus, one threshold of either direction |
| `outcome` | verdicts name the cause; a kill at the deadline is no failed test; a survivor's test passed | 4 log lines, limits on, cancellation, whole output kept |
| `selection` | shards partition the mutants; excuses are accountable | 2 shards, 4 files, every kind of group, each limit, overlapping and excluded targets, 2 entries, 2 rules |
| `mutators` | an equivalent tag changes nothing for either decoder; stronger profiles keep the mutants of weaker ones | the 5 profiles over each of the files of `MutatorFiles`: loops, conditions, literals, comments, structs of two fields with every pair of tags |
| `tree` | cache hits are of the keyed tree and whole; no process leaves a directory | 2 processes, one edit, 6 configurations: copies, overlays, package and coverage modes, a read-only cache, a daemon's worker, a temporary root in the module |

Why the bounds are enough. A mutant can meet another one in a worker, in either channel or
in the result slice, and an error can come before, between or after them: two that run, next
to one decided by the dispatcher and one decided before its test, meet every pair, and two
workers are enough for one to fail while the other tests. In `ResumableRun` two mutants that
run give a report with the first, the second or both, and one edit, which touches one of
them, separates a version from the next; kills and resumes are not bounded. The verdicts of
a test are two there (`Outcomes`): all others are kept and reused alike. In `Campaign` two
rows give a summary with none, the first or both, before, between or after two rows of a
missing checkout; the three kinds of job stand next to each other once, and since a job's
files are its own, more of them add nothing; kills, failed writes and resumed campaigns are
not bounded. `CommandRunner` has no bound but on unreadable memory statuses, of which one
suffices in each of its loops. In `MCTools`: a second attempt, session, job, shard or
process is what a first one can leave something to or run beside, and a third meets nothing
the second did not; one edit separates what was from what is; one flaw is enough to be let
through, and with it one lost step to be let through by. The files of `MutatorFiles` have
one construct each, since a node's candidates depend on its ancestors and its own text only.
In `RunPipeline` one mutant is enough: its properties are about whole files, and the
counters of one mutant already tell the three outcomes, a survivor, a kill and one that is
not scored, apart. Two runs give a report, a history and a cache to the second; two commands
are an acceptance and its promotion, or one after another that was killed. The output in
`TestOutcome` needs one line more than is kept for the cut to matter.

Each property of a passing run has a mutated form of a definition (marked so in the
module) with which TLC finds it violated.

Deadlock is checked in `parallel`, `command_runner` and `campaign_resume`, where a finished
run stutters or another may always start. In `run_files` and `tools` the bounds on runs,
sessions and edits end every behaviour, and the check is off.

## 4. Fairness

`FairSpec` of `ParallelRun`: weak fairness of the caller's steps, of the closer and of
each worker, which is what the Go scheduler gives a goroutine that can run. That
`EndTest` is part of a worker's fair step is justified by the timeout: `runTest` puts a
deadline on every command. No fairness is assumed of the budget's clock or of the
caller's cancellation.

`FairSpec` of `CommandRunner`: weak fairness of the runner, of the goroutine that waits
for the process, of the ticker and of the clock reaching the deadlines. None is assumed
of the process, which may hang, of the memory and of the caller. That a killed process
can be reaped is the operating system's promise. `MaxFailures` bounds how often the
memory status is unreadable: `waitFreeMemory` looks at its deadline only when it could
read it, so `RunReturns` would not hold without. The other modules state safety only: their
steps are those of one program in sequence, or of jobs nothing obliges to run.

## 5. Proofs

`tlapm` checks the theorems for every value of the constants that the `ASSUME` of the
module allows; TLC evaluates these assumptions in the runs. Every theorem that states a
safety property of a run is a corollary of an inductive invariant, defined at the end of
the module it is about (of `ParallelRun` and `CommandRunner` with the other invariants) and
checked by TLC before it was proved. A proof has a lemma per action, or per conjunct of the
invariant with a step per action; what an action does to its process, row or file, field by
field, is a lemma of its own where several need it.

**`ParallelRun`** (`N` a natural number, at least one worker, a known cache mode).
`TypeCorrect`, and `Accounting`: `NoMutantRunTwice` is not inductive by itself: that a
dispatched mutant is new needs that all mutants in flight or decided are below `next`
(`NoMutantLost`), that a decided one is not in flight needs its place when it was
collected, and that the result channel is not written after its closing needs the order
in which workers leave (`ChannelsCloseInOrder`). `IInv` joins them with `SkippedNeverRun`
and the agreement of `phase` and `firstErr`. `NoMutantIsRunTwice`,
`SuccessfulRunsAreComplete` and `DecidedVerdictsAreFinal` follow. `BudgetCutsOnce` and
`LastCheckpointIsComplete` need one conjunct more each: that the dispatcher cuts the list
at one place, and what the partial report holds at each point. `ParallelRunKeepsPromise`:
every step of a parallel run is a step of `MutationRun` or a stutter (`KeepsPromise`, its
safety part), since what a worker is about to report, or has sent, is open to that mutant
(`ReportsAdmissible`).

**`CommandRunner`** (any set of guards, any bound). `ExitCodesTellWhy`,
`CommandsAreStopped` and `LogsAreFresh`, from `RunnerInvariant`: how far the process can be
at each position of the runner, that the channel holds what the process ended with, and
that the reason of a kill is a fact; without the last, the code given after the reaping
would say nothing.

**`Campaign`** (any list of jobs of the three kinds, rows and edits). What a campaign takes
over went from a result to a file, and from there to memory, perhaps several times:
`Honest` holds of all three, and says that a key is that of the definition a result was
made under. `ResumedJobsAreCurrentAlways` follows, and `RowsAreNeverRepeated` of the rows of tools
and entries, which a loop passes in order (`next`) and looks up. A second
invariant, `Progress`, says what the results so far settle and which rows a job has, and
gives `FinishedCampaignsAreRecorded` and the action property `ComparisonsKeepRows`. Its
proof needs a hypothesis in `DoneIsRecorded` that the run's jobs hide: a campaign without
jobs, which `LoadCampaignManifest` accepts, ends well and writes no summary, since
`RunCampaign` writes it after each job.

**`RunPipeline`** (nothing is assumed of its constants: what the functions of `Review`
compute does not matter to what the files hold). Four invariants, each closed by itself.
`Provenance`: what is on its way to the baseline was published, for
`BaselinesArePublishedReports`. `Bookkeeping` for `HistoryKeepsEveryRun`. `Judgement`: what
the gate compared with was not torn once it is passed, for `ExitsTellOfReports` and
`BrokenBaselinesFailRuns`. `Promotion`: which file holds the report accepted last at each
file operation of a command, for `AcceptedReportsAreKept`.

**`ResumableRun`** (any mutants, edits and command lines; one is enough). `AllVouched` is
the heart of `IInv`: each result in memory, in the partial report, in its replacement and in
the cache, if it was recorded since the files its key digests changed (`keyed`) and its test
ended, has a verdict observed since. An edit makes what is kept of the mutants it touches
stale and leaves the rest, so it stands with `Dated`: what a fingerprint says of the origin
of results, and that an entry under a present key is no older than `keyed`. `Covered` says
where a mutant can be while the loop runs. From these `FinishedRunsAreComplete`,
`ReportedVerdictsWereObserved` and `StaleResultsAreRejected`. `RunsKeepPromise`: every step
is one of `ObservedRuns` or a stutter, its initial state one of its initial states
(`RefinesObservedRuns`, which is safety only). A test is `Observe`; a decision, a cached
result and an interrupted test are `Recall`; collecting a result, writing it and failing are
not seen, since a result moves from `ready` to `fresh` without a change. That it replaces
none on the way needs one conjunct more, kept by every step by itself: a mutant waits or has
one result (`Apart`). That a run begins with what is known is `AllVouched` after the step;
that an edit leaves no verdict on what it touches is that origins are of versions so far
(`TypeOK`).

**`Mutators`** (files as the parser makes them: a field has at most one tag).
`ProfilesKeepMutants`: every list holds only what its profile generates, and the last all
of it (`GeneratorInv`), and `MutantsOf` grows with the profile because the operators
enabled do. `EmptiedTagsAreEquivalent`: for any struct, any tags and either decoder, a tag
classified as equivalent can be emptied: the names and rivals of every field stay.

**`Selection`** (any tree whose paths name one file each and whose mutants of a file differ
in line, operator or span; natural limits, sequences of roots, targets and rules).
`ExcusesAccountable` rests on when
the quarantine was read: the entries a run goes by were in force at one moment between its
beginning and now (`ReadWhileRunning`), and its results follow from them and the strongest
matching rule (`DecidedAsRead`). `ShardsAlwaysPartition` rests on what a run keeps: only
mutants it lists and of its shard, and without limits all of those (`SelectedAsListed`),
and that every group is of some shard (`KeysAreHashed`). What is left is about names: equal
mutations, listed on two machines, are of the same file and package (`ToldApart`), so in
groups of one key (`SameMutationSameKey`), and the shard of that key lists the mutation too
(`ListedByAll`). Under it lie lemmas about sequences. A sort or a filter is defined by the
rank of each position (`ByKey`), and since ranks are a bijection it neither loses nor makes
up an element (`EveryPositionHasAPlace`, `TakenElements`). That a sequence of sequences
holds what they hold (`FlatElements`) goes by the least position at which it would not.

**`TestTree`** (any number of processes, edits and configurations). `HitsAreOfTheirTree`:
that a key tells the versions its process took it from (`Keyed`), and that an entry of an
undisturbed process was observed on them (`Sound`), say something of files only because
two files of one version are one file (`Dated`, over everything anyone has read).
`WorkdirsDoNotStay` needs whose a directory is, and at which steps (`Owned`).

**`TestOutcome`** (any number of log lines). `OutcomeInv` says what can have been printed at
each cause and phase. `SurvivorsPassed` holds however little of the output is kept: no
verdict says the tests passed when they did not, and a kill at the deadline is no failed
test. `VerdictsTellOfCauses` is for `Kept >= MaxLogs + 2`: the lines a command prints all
fit. The assumption is needed, as the short output of section 6 shows.

**`PoolRun`** (corpus without repeated names, integer measures). `PassesAreAlwaysEarned`
and `SmokesTellOwnRuns`: rows recorded, taken over or on disk are `Honest`; the row in the
making is of this session (`Making`), and its clone and report have come as far as its step
says (`Staged`). **`Comparison`** (any of the four tools, natural counts): `HonestFiles`
and `HonestRows` give `FullRowsAreAlwaysFresh` and `FairStudiesAreFair`.

**`Upgrade`** (no assumption): who wrote each file at each step, and what of it was read,
give `VerifiedUpgradesReadOldReleases`. **`Wave`** (finite sets, reports of known mutants):
a resolved Go is one the job needs; a report directory tells the verdicts its run left and
the failure the run could name, or the helper fails on it (`Left`), and a result tells both;
`CleanResultsAreAlwaysEarned`. `SummariesAlwaysCount`: what a result counts is what its run
left (`CountsItsRun`), so the sums over results are those over runs. Sums over finite sets
are shown to exist, to agree and to add up by a least number of elements at which they would
not (`SumsExist`, `SumTakenOut`, `SumsAdd`). **`Release`** (a finite set of targets; the
smoked one is among them): `PublishedSetsAreOneBuild` from what the job has checked and
uploaded at each step, `UploadsAreOfSoundTrees` from the checks a tree has passed with the
steps it has left (`Checked`). No property of the trees that the run tags is used, so it is
of trees with any flaws: `verify-compat` looks for every other step in the tree's workflow
(`CompatFindsLostSteps`), so a tree that passed it is checked by all of them
(`CheckedTreesAreSound`).

Induction over data goes by a least counterexample throughout, since the induction theorems
of the library take an operator as a parameter, which the prover cannot instantiate.

Only model-checked:

- `RunReturns`, `ErrorFailsTheRun` and the fairness part of `RefinesMutationRun`: liveness
  needs ENABLED, which the prover cannot treat.
- The statements of section 6's runs, which are false.

## 6. What the code does otherwise than it says

Seven runs have a property that TLC refutes; `PROJECT.json` (`findings`) quotes the text.

- `parallel_cache`: verdicts of tests that a sibling's error cancelled are stored in the
  cache as if observed.
- `resume_overwrite`: the first result of a resumed run overwrites those it took over.
- `resume_cached`: a resumed run moves the status of what it takes over to
  `previous_status`. Of a result that was itself cached the previous status was its
  verdict, which is lost: the mutant is in the denominator of the score and in no count.
- `outcome_build`: the engine counts a failed build as killed; the daemon's runner does not.
- `campaign_redefined`: a resumed campaign sees that a job was redefined and starts it
  again, but starts its comparison resumed too. That knows rows by repository and tool
  only, so the job is reported as done anew with the rows of its old definition.

- `mutator_counters`: the generator looks at the condition of the loop around a counter,
  and `for { i++ }` has none: it panics, and the run fails.
- `overlay_script`: an overlay is passed as a flag of `go test`. A configured command that is
  something else runs the tests over the original file, and every mutant survives.

More was met while modelling, and TLC shows it with other values of the constants
(a short output, other commands) or
with the last definitions of the modules, which no run of the project checks:

- `ParallelRun`: workers go on after the budget has run out. The dispatcher fills a
  queue that has room for every mutant, at once, and only the dispatcher looks.
- `ResumableRun`: cancelled verdicts reach the partial report too; the fingerprint is
  taken at the write, not at the observation; a
  mutant left pending is never tried again by a resumed run; on Windows a kill between
  removal and rename leaves no partial report. The cache key covers the mutant's own file, the
  tests of its package and the module files only, so a verdict is recalled after an edit of
  another source that its test runs, and is then of code that is no longer there.
- `Campaign`: the row of a missing checkout is appended again by each resumed session.
- `TestOutcome`: a FAIL behind the cut is a compile error; without process limits the
  mutant runs unlimited, not skipped.

- `RunPipeline`: the history does what the resumed run does, without any kill. It
  replaces the previous status of a known mutant by the plain status of the run before,
  so the verdict of a mutant that is taken from the cache in two runs on end is lost in
  the second of them, and the score falls. New survivors are found by plain status too:
  a survivor taken from the cache is none, and the run after the one whose gate failed
  on it passes (`gate_policy.go:109` then says "no new survivors appeared relative to
  baseline"). A failure report without mutants can be accepted and promoted as the
  baseline. The history keeps the row of a run whose report could not be written.

- `TestTree`: the key is taken from the tree before it is copied, so an edit in between
  files a verdict of the new tree under the old one's key; `HitsAreOfKeyedTree` is about
  the others. The value of a flag such as `-p 4` passes for a
  package when the command is narrowed. With a configured temporary root inside the module
  every copy copies itself and fails.
- `Selection`: the path of a file goes into its mutants' IDs as discovered, and into the key
  of a slice by file: shards on machines with other checkouts name absolute targets
  differently, and then neither partition nor meet the quarantine; `ShardsPartition` is
  about those that agree (`SameNames`): one path on all machines, or groups by package, by
  operator or, with every mutant in one, by function, which no path enters. Overlapping
  targets list a mutant twice. A module checked out in a directory named `build` or `dist`
  and given as the target has no mutants.
- `Mutators`: a function without a body makes the generator panic. The replacement is made
  at the first place where the text of the original stands, which may be a comment.
- `PoolRun`: any directory of the entry's name is its clone, also one a killed clone has
  left; a row is taken over by its name alone, so an edited ref is not run, and one that did
  not pass fails every resumed benchmark. After a failed run a smoke tells the counts
  of an earlier session.
- `Comparison`: a partial report may be of an earlier session. A command that failed
  without a report has the status `ok` when nothing in its log says otherwise.
- `Release`: assets are replaced one by one, so the public set is a mixture until the job is
  through; lost in between, it stays one. A tree whose workflow has lost `verify-compat` is not
  told so by anything: it is published if it passes the other steps, with whatever
  `verify-compat` alone looks for, such as an incomplete matrix.
- `Upgrade`: clearing the work directory removes an archive or binary that lies in it.
- `Wave`: one torn `wave-result.json` fails the summary of all. A run that is killed after its
  engine wrote the report, or that fails then and cannot write the debug file, reads clean.

And by reading `pkg/pool`: `waitFreeMemory` ignores its context, and never returns while
the memory status cannot be read; a status of zeros, as on other platforms than Windows,
makes every command with a memory threshold end with 125.

## 7. Plan

The modules cover the components, and the theorems all safety properties of the runs.
What is left, in this order:

1. Refinement: an abstract specification of `Campaign` (each job done once), and that the
   detailed module implements it.
2. Two runs over one history, which the missing lock makes lossy.
3. The rest of the comparison in `Review`: the actionable summary, survivor ages, baseline
   diffs.

## 8. Not modelled

- Rendering (`pkg/report`): text without state; that writing it may fail is in `RunPipeline`.
- `pkg/config`, `pkg/doctor`, `pkg/eval`: parsing, defaults, probes of the machine and
  comparisons of numbers, sequential and without state that outlives them.
- Ranking, next steps and owners (`pkg/triage`, `pkg/engine/ownership.go`): advice to the
  reader of a report. The priorities that order the schedule are modelled.
- Parsing of Go, YAML, archives and profiles, and the text of diffs, hints and notes.
- Timings of mutants (`recordTiming`), `progress.jsonl` and `partial-summary.json`: written
  for readers, and no verdict depends on them.
- `pkg/cache` and `pkg/selecttest`: no other package of the program uses them.
- Mutators given as extensions: programs of the user.
- A `Cleanup` that refuses or fails (`pkg/isolate/isolate.go:44`): its directory stays.
  `WorkdirsAreRemoved` is about the paths that lead to a cleanup.
- Edits during a run, in `ResumableRun`; changes of the configuration between runs.
- The rest is in the notes of `PROJECT.json`, component by component.
