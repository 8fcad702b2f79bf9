---------------------------- MODULE RunPipeline -----------------------------
(***************************************************************************)
(* `cervomut run` over one directory, again and again (Engine.Run, cmdRun, *)
(* finalizeStructuredFailure), next to the `cervomut baseline` commands.   *)
(* A run goes through its stages and leaves files; it may fail at each of  *)
(* them, be killed while it writes, and meet files that another process is *)
(* writing. All files are written in place: what is left of a write that   *)
(* did not end is no JSON. One run and one baseline command at a time.     *)
(***************************************************************************)
EXTENDS Review

CONSTANTS Discoverable,   \* the mutants that may be discovered
          FreshStatuses,  \* statuses a fresh result may have
          MaxRuns,        \* bound: how many runs are started
          MaxSourceEdits, \* bound: how often the source is edited
          MaxCommands     \* bound: how many baseline commands are given

\* What is assumed of the constants; the modules that give their values assume it.
PipelineAssumption ==
  /\ PolicyAssumption
  /\ FreshStatuses \subseteq Status \ {"cached"}
  /\ {MaxRuns, MaxSourceEdits, MaxCommands} \subseteq Nat

\* A file: missing, torn, or whole with its content.
Missing == [is |-> "missing"]
Torn == [is |-> "torn"]
Whole(content) == [is |-> "whole", content |-> content]

\* What Engine.Run and finalizeStructuredFailure write as mutation-report.json.
RunReport(results) == [failure |-> FALSE, results |-> results]
FailureReport == [failure |-> TRUE, results |-> NoResults]

VARIABLES
  verdicts,       \* the verdict stored for each mutant under its present key
  history,        \* history.json
  mutationReport, \* mutation-report.json
  baseline,       \* baseline.json
  candidate,      \* baseline.candidate.json
  stage,          \* where the run is; "idle" between runs
  results,        \* the results of the run
  marks,          \* its new and its long-standing survivors, as numbers
  failed,         \* the checks of the gate that failed
  exit,           \* how the last run ended: None, "passed", "gate" or "error"
  commandAt,      \* where the baseline command is; "idle" between two
  held,           \* the report it has read
  runs,           \* number of runs started
  edits,          \* number of edits
  commands,       \* number of baseline commands given
  log,            \* history: the rows written to history.json since it was torn last
  published,      \* history: every report that was written whole
  compared,       \* history: what the gate of the run read as its baseline
  accepted        \* history: the report accepted last and not replaced since, a set

files == <<verdicts, history, mutationReport>>
baselines == <<baseline, candidate>>
run == <<stage, results, marks, failed, exit, compared>>
baselineCommand == <<commandAt, held>>
bounds == <<runs, edits, commands>>
pipelineVars == <<files, baselines, run, baselineCommand, bounds, log, published, accepted>>

UnderWay == stage # "idle"

PipelineInit ==
  /\ verdicts = [m \in Discoverable |-> None]
  /\ history = Missing
  /\ mutationReport = Missing
  /\ baseline = Missing
  /\ candidate = Missing
  /\ stage = "idle"
  /\ results = NoResults
  /\ marks = <<0, 0>>
  /\ failed = {}
  /\ exit = None
  /\ compared = Missing
  /\ commandAt = "idle"
  /\ held = RunReport(NoResults)
  /\ runs = 0
  /\ edits = 0
  /\ commands = 0
  /\ log = <<>>
  /\ published = {}
  /\ accepted = {}

\* The outcomes of os.WriteFile: all of it, or an error before or after the
\* file was truncated.
Write(file, content) == {Whole(content), file, Torn}

Publish == published \cup (IF mutationReport'.is = "whole" THEN {mutationReport'.content} ELSE {})

-----------------------------------------------------------------------------
(* A run. *)

\* A run that returns an error, or is killed, leaves nothing but its files.
Abandon(end) ==
  /\ stage' = "idle"
  /\ results' = NoResults
  /\ marks' = <<0, 0>>
  /\ failed' = {}
  /\ compared' = Missing
  /\ exit' = end

Start ==
  /\ ~UnderWay
  /\ runs < MaxRuns
  /\ runs' = runs + 1
  /\ stage' = "tests"
  /\ results' = NoResults
  /\ exit' = None
  /\ compared' = Missing
  /\ UNCHANGED <<files, baselines, marks, failed, baselineCommand, edits, commands,
                 log, published, accepted>>

\* A mutant that would be tested takes its verdict from the cache, if it has one.
Executed(found, fresh) ==
  [m \in found |-> IF fresh[m] \in Tested /\ verdicts[m] # None
                   THEN Outcome("cached", verdicts[m])
                   ELSE Outcome(fresh[m], None)]

Stored(found, fresh) ==
  [m \in Discoverable |->
     IF m \in found /\ verdicts[m] = None /\ fresh[m] \in Tested
     THEN fresh[m] ELSE verdicts[m]]

\* Discovery, the unmutated tests and the mutants; any of them may fail, when
\* some of the mutants may have been tested.
RunMutants ==
  /\ stage = "tests"
  /\ \E found \in SUBSET Discoverable : \E fresh \in [found -> FreshStatuses] :
       /\ verdicts' = Stored(found, fresh)
       /\ \/ /\ stage' = "history"
             /\ results' = Executed(found, fresh)
          \/ /\ stage' = "failing"
             /\ UNCHANGED results
  /\ UNCHANGED <<history, mutationReport, baselines, marks, failed, exit, compared,
                 baselineCommand, bounds, log, published, accepted>>

\* loadHistoryStore: a file that is missing or torn is an empty history.
Loaded(file) == IF file.is = "whole" THEN file.content ELSE NoHistory

\* An error of the write is ignored.
ApplyHistory ==
  /\ stage = "history"
  /\ LET old == Loaded(history) IN
     /\ results' = Annotate(old, results)
     /\ marks' = <<Cardinality(NewSurvivors(old, results)),
                   Cardinality(LongStandingSurvivors(old, results))>>
     /\ history' \in Write(history, UpdateHistory(old, results))
     /\ log' = IF history' = Torn THEN <<>> ELSE log
  /\ stage' = "compare"
  /\ UNCHANGED <<verdicts, mutationReport, baselines, failed, exit, compared, baselineCommand,
                 bounds, published, accepted>>

\* Mutated form: a baseline that cannot be parsed counts as none.
CompareLeniently ==
  /\ stage = "compare"
  /\ compared' = baseline
  /\ stage' = "record"
  /\ failed' = FailedChecks(baseline.is = "whole",
                            IF baseline.is = "whole" THEN baseline.content.results
                                                     ELSE NoResults,
                            results)
  /\ UNCHANGED <<files, baselines, results, marks, exit, baselineCommand, bounds, log,
                 published, accepted>>

\* loadBaseline, compareBaseline and EvaluateGatePolicy.
Compare ==
  /\ stage = "compare"
  /\ compared' = baseline
  /\ \/ /\ baseline.is = "torn"
        /\ stage' = "failing"
        /\ UNCHANGED failed
     \/ /\ baseline.is = "missing"
        /\ stage' = "record"
        /\ failed' = FailedChecks(FALSE, NoResults, results)
     \/ /\ baseline.is = "whole"
        /\ stage' = "record"
        /\ failed' = FailedChecks(TRUE, baseline.content.results, results)
  /\ UNCHANGED <<files, baselines, results, marks, exit, baselineCommand, bounds, log,
                 published, accepted>>

\* recordHistoryRun loads the history once more.
RecordHistoryRun ==
  /\ stage = "record"
  /\ LET old == Loaded(history)
         row == HistoryRun(results, marks[1], marks[2])
         new == [old EXCEPT !.runs = Append(@, row)] IN
     /\ history' \in Write(history, new)
     /\ log' = CASE history' = Whole(new) -> Append(log, row)
                 [] history' = Torn -> <<>>
                 [] OTHER -> log
  /\ stage' = "report"
  /\ UNCHANGED <<verdicts, mutationReport, baselines, results, marks, failed, exit, compared,
                 baselineCommand, bounds, published, accepted>>

\* A report that is not written whole fails the run; so may one that is.
WriteReport(content, next) ==
  /\ mutationReport' \in Write(mutationReport, content)
  /\ published' = Publish
  /\ \/ mutationReport' = Whole(content) /\ next
     \/ stage' = "failing" /\ UNCHANGED <<exit, marks, failed>>

\* Engine.Run writes the report, ...
WriteEngineReport ==
  /\ stage = "report"
  /\ WriteReport(RunReport(results),
                 stage' = "formats" /\ UNCHANGED <<exit, marks, failed>>)
  /\ UNCHANGED <<verdicts, history, baselines, results, compared, baselineCommand,
                 bounds, log, accepted>>

End ==
  /\ stage' = "idle"
  /\ marks' = <<0, 0>>
  /\ failed' = {}
  /\ exit' = IF failed = {} THEN "passed" ELSE "gate"

\* Mutated form: a format that cannot be written does not fail the run.
WriteFormatsLeniently ==
  /\ stage = "formats"
  /\ mutationReport' \in Write(mutationReport, RunReport(results))
  /\ published' = Publish
  /\ End
  /\ UNCHANGED <<verdicts, history, baselines, results, compared, baselineCommand,
                 bounds, log, accepted>>

\* ... and the command line writes it once more with the other formats, which
\* may fail before or after it.
WriteFormats ==
  /\ stage = "formats"
  /\ WriteReport(RunReport(results), End)
  /\ UNCHANGED <<verdicts, history, baselines, results, compared, baselineCommand,
                 bounds, log, accepted>>

\* finalizeStructuredFailure keeps a report that is there, whatever it is.
FinalizeFailure ==
  /\ stage = "failing"
  /\ Abandon("error")
  /\ \/ /\ mutationReport # Missing
        /\ UNCHANGED <<mutationReport, published>>
     \/ /\ mutationReport = Missing
        /\ mutationReport' \in Write(mutationReport, FailureReport)
        /\ published' = Publish
  /\ UNCHANGED <<verdicts, history, baselines, baselineCommand, bounds, log, accepted>>

\* A run is killed: the file it is writing, if any, may be torn.
Kill ==
  /\ UnderWay
  /\ Abandon(None)
  /\ \/ UNCHANGED <<history, mutationReport, log>>
     \/ /\ stage \in {"history", "record"}
        /\ history' = Torn
        /\ log' = <<>>
        /\ UNCHANGED mutationReport
     \/ /\ \/ stage \in {"report", "formats"}
           \/ stage = "failing" /\ mutationReport = Missing
        /\ mutationReport' = Torn
        /\ UNCHANGED <<history, log>>
  /\ UNCHANGED <<verdicts, baselines, baselineCommand, bounds, published, accepted>>

\* Edited mutants and tests have new cache keys; the other mutants keep theirs, and
\* an edit of a file that no key digests changes nothing here.
EditMutants ==
  /\ ~UnderWay
  /\ edits < MaxSourceEdits
  /\ edits' = edits + 1
  /\ \E touched \in SUBSET Discoverable \ {{}} :
       verdicts' = [m \in Discoverable |-> IF m \in touched THEN None ELSE verdicts[m]]
  /\ UNCHANGED <<history, mutationReport, baselines, run, baselineCommand, runs, commands, log,
                 published, accepted>>

-----------------------------------------------------------------------------
(* The baseline commands. Save truncates its file before it fills it. *)

\* What is held when no command runs.
Empty == RunReport(NoResults)

GiveCommand(name, content) ==
  /\ commandAt = "idle"
  /\ commands < MaxCommands
  /\ commands' = commands + 1
  /\ commandAt' = name
  /\ held' = content

Leave == commandAt' = "idle" /\ held' = Empty

\* Mutated form: the result of a report that cannot be parsed is used all the same.
ReadReportLeniently(name) ==
  /\ mutationReport.is # "missing"
  /\ GiveCommand(name, IF mutationReport.is = "whole" THEN mutationReport.content ELSE Empty)
  /\ UNCHANGED <<files, baselines, run, runs, edits, log, published, accepted>>

\* readRunReport refuses a file that is missing or torn, and no other.
ReadReport(name) ==
  /\ mutationReport.is = "whole"
  /\ GiveCommand(name, mutationReport.content)
  /\ UNCHANGED <<files, baselines, run, runs, edits, log, published, accepted>>

ReadCandidate ==
  /\ candidate.is = "whole"
  /\ GiveCommand("promote", candidate.content)
  /\ UNCHANGED <<files, baselines, run, runs, edits, log, published, accepted>>

OpenCandidate ==
  /\ commandAt = "accept"
  /\ commandAt' = "accepting"
  /\ candidate' = Torn
  /\ accepted' = {}
  /\ UNCHANGED <<files, baseline, run, held, bounds, log, published>>

SaveCandidate ==
  /\ commandAt = "accepting"
  /\ Leave
  /\ candidate' = Whole(held)
  /\ accepted' = {held}
  /\ UNCHANGED <<files, baseline, run, bounds, log, published>>

\* An update replaces a report that was promoted; one that waits is not touched.
OpenBaseline ==
  /\ \/ /\ commandAt = "update"
        /\ commandAt' = "updating"
        /\ accepted' = {r \in accepted : candidate = Whole(r)}
     \/ /\ commandAt = "promote"
        /\ commandAt' = "promoting"
        /\ UNCHANGED accepted
  /\ baseline' = Torn
  /\ UNCHANGED <<files, candidate, run, held, bounds, log, published>>

SaveBaseline ==
  /\ \/ commandAt = "updating" /\ Leave
     \/ commandAt = "promoting" /\ commandAt' = "promoted" /\ UNCHANGED held
  /\ baseline' = Whole(held)
  /\ UNCHANGED <<files, candidate, run, bounds, log, published, accepted>>

\* Mutated form: the candidate is removed before the baseline is saved.
RemoveCandidateEarly ==
  /\ commandAt \in {"promoting", "promoted"}
  /\ IF commandAt = "promoted" THEN Leave ELSE UNCHANGED baselineCommand
  /\ candidate' = Missing
  /\ UNCHANGED <<files, baseline, run, bounds, log, published, accepted>>

RemoveCandidate ==
  /\ commandAt = "promoted"
  /\ Leave
  /\ candidate' = Missing
  /\ UNCHANGED <<files, baseline, run, bounds, log, published, accepted>>

\* A command fails or is killed: what it has truncated stays torn.
StopCommand ==
  /\ commandAt # "idle"
  /\ Leave
  /\ UNCHANGED <<files, baselines, run, bounds, log, published, accepted>>

PipelineNext ==
  \/ Start
  \/ RunMutants
  \/ ApplyHistory
  \/ Compare
  \/ RecordHistoryRun
  \/ WriteEngineReport
  \/ WriteFormats
  \/ FinalizeFailure
  \/ Kill
  \/ EditMutants
  \/ \E name \in {"update", "accept"} : ReadReport(name)
  \/ ReadCandidate
  \/ OpenCandidate
  \/ SaveCandidate
  \/ OpenBaseline
  \/ SaveBaseline
  \/ RemoveCandidate
  \/ StopCommand

PipelineSpec == PipelineInit /\ [][PipelineNext]_pipelineVars

-----------------------------------------------------------------------------
(* Safety. *)

\* A baseline, and a candidate for one, is a report that a run wrote to its end:
\* kills, failed writes and commands given meanwhile leave no other.
BaselinesWerePublished ==
  \A file \in {baseline, candidate} :
    file.is = "whole" => file.content \in published

\* The history holds the row of every run whose row was written since the file
\* was torn last, in their order, though each run writes the file twice, a run may
\* end between the two, and an error of reading or writing it is ignored.
HistoryKeepsRuns == Loaded(history).runs = log

\* When a run exits with the verdict of its gate, the report it left is whole and
\* its own: what the next command reads is what the gate has judged.
ExitTellsOfReport ==
  exit \in {"passed", "gate"} => mutationReport = Whole(RunReport(results))

\* No run that met half a baseline, one that a killed command left or that is
\* being saved, gets past its gate; it is not taken for a run without a baseline.
BrokenBaselineFailsRun ==
  exit \in {"passed", "gate"} => compared # Torn

\* The report accepted last is in the candidate or in the baseline, at every
\* moment of its promotion and after a kill of it, until another takes its place.
AcceptedIsNotLost ==
  \A r \in accepted : Whole(r) \in {candidate, baseline}

\* What the proofs rest on: whatever a file or a command holds was published;
\* a run has no exit until it is over, and past its comparison it has not met a
\* torn baseline; a candidate that is whole is the report accepted last, and a
\* promotion carries it over before it is removed.
Provenance ==
  /\ BaselinesWerePublished
  /\ mutationReport.is = "whole" => mutationReport.content \in published
  /\ commandAt # "idle" => held \in published

Bookkeeping ==
  /\ HistoryKeepsRuns
  /\ DOMAIN Loaded(history) = {"entries", "runs"}

Judgement ==
  /\ UnderWay => exit = None
  /\ ExitTellsOfReport
  /\ stage \in {"record", "report", "formats"} => compared # Torn
  /\ BrokenBaselineFailsRun

Promotion ==
  /\ AcceptedIsNotLost
  /\ candidate.is = "whole" =>
       candidate = Whole(candidate.content) /\ \A r \in accepted : candidate = Whole(r)
  /\ commandAt = "updating" => \A r \in accepted : candidate = Whole(r)
  /\ commandAt \in {"promote", "promoting", "promoted"} => candidate = Whole(held)
  /\ commandAt = "promoted" => baseline = Whole(held)

PipelineInv == Provenance /\ Bookkeeping /\ Judgement /\ Promotion

=============================================================================
