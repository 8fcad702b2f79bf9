-------------------------------- MODULE Wave --------------------------------
(***************************************************************************)
(* A hosted wave: the jobs of .github/workflows/external-action-wave.yml   *)
(* run the GitHub action on one repository each, cmd/actionhelper makes a  *)
(* result of what each left in its report directory, and one summary of    *)
(* the results.                                                            *)
(*                                                                         *)
(* Jobs run side by side.  A run may complete, fail or be killed by the    *)
(* job's timeout, with or without a checkpoint behind it, and before,      *)
(* while or after its engine writes the report; a runner may be lost with  *)
(* everything on it.                                                       *)
(***************************************************************************)
EXTENDS Verdicts, Naturals, FiniteSets, FiniteSetsExt

CONSTANTS Repos,        \* the repositories of the manifest
          Mutants,      \* the mutants of any of them
          Group,        \* Group[m]: the semantic group of m, or NoGroup
          NoGroup,
          WaveReports,  \* the reports a run may write: sets of survivors and killed
          Kinds,        \* the kinds of a structured failure
          GoVersions,   \* Go versions, ordered; 0 for none named
          ActionMin     \* the Go version of the action's own go.mod

\* What is assumed of the constants.
ASSUME WaveAssumption ==
    /\ IsFiniteSet(Repos) /\ IsFiniteSet(Mutants) /\ IsFiniteSet(Kinds)
    /\ \A report \in WaveReports : report.killed \cup report.survived \subseteq Mutants
    /\ GoVersions \subseteq Nat /\ 0 \in GoVersions /\ ActionMin \in Nat \ {0}
    /\ Kinds \cap {None, "torn"} = {}

VARIABLES go,        \* go[r]: the versions job r finds, and the one it resolves
          waveAt,    \* waveAt[r]: the step of job r
          reportDir, \* reportDir[r]: its report directory
          ran,       \* ran[r]: how its run ended, and what it found and told
          result,    \* result[r]: its wave-result.json
          waveSummary   \* the summary of the wave

waveVars == <<go, waveAt, reportDir, ran, result, waveSummary>>

\* A report as the helper reads it: the verdicts, and the failure it names.
Report(verdicts, failure) ==
    [killed |-> verdicts.killed, survived |-> verdicts.survived, failure |-> failure]
Empty == [killed |-> {}, survived |-> {}]
Readable(file) == file.is = "file"
Verdicts(file) == [killed |-> file.report.killed, survived |-> file.report.survived]
Missing == [is |-> None]
TornReport == [is |-> "torn"]
WholeFile(report) == [is |-> "file", report |-> report]
Checkpoints == {Missing} \cup {WholeFile(Report(report, None)) : report \in WaveReports}
NoFiles == [full |-> Missing, partial |-> Missing, debug |-> None, ledger |-> None]

-----------------------------------------------------------------------------
(* The decisions of the helper                                              *)

MaxGo(a, b) == IF a >= b THEN a ELSE b

\* The version of a go.mod: its toolchain line, or else its go line.
GoModVersion(mod) == IF mod.toolchain # 0 THEN mod.toolchain ELSE mod.go

\* Mutated form of ResolveGoVersion: the action's own minimum is forgotten.
ResolveGoVersionAsAsked(requested, mod) == IF requested # 0 THEN requested ELSE GoModVersion(mod)

\* What is asked for, or else what the target names, but never less than the
\* action's own minimum.
ResolveGoVersion(requested, mod) ==
    LET wanted == IF requested # 0 THEN requested ELSE GoModVersion(mod)
    IN  MaxGo(ActionMin, wanted)

\* Mutated form of SelectReport: a partial report is preferred.
SelectReportPartialFirst(files) ==
    CASE files.partial # Missing -> <<"partial", files.partial>>
      [] files.partial = Missing /\ files.full # Missing -> <<"full", files.full>>
      [] OTHER -> <<"missing", Missing>>

\* A full report is preferred to the partial one.
SelectReport(files) ==
    CASE files.full # Missing -> <<"full", files.full>>
      [] files.full = Missing /\ files.partial # Missing -> <<"partial", files.partial>>
      [] OTHER -> <<"missing", Missing>>

\* Recommendations are counted one by one and by semantic group; a mutant without
\* a group is a unit of its own.  Every survivor has one.
Unit(m) == IF Group[m] = NoGroup THEN {m} ELSE {n \in Mutants : Group[n] = Group[m]}
Triage(report) ==
    LET units == {Unit(m) : m \in report.survived}
    IN  [entries |-> Cardinality(report.survived), units |-> Cardinality(units),
         collapsed |-> Cardinality(report.survived) - Cardinality(units)]
NoTriage == [entries |-> 0, units |-> 0, collapsed |-> 0]

\* The result of a job: which report there is, its counts and its failure.  The
\* debug file tells of a failure unless the report itself does.
WaveResult(files) ==
    LET selected == SelectReport(files)
        report == selected[2].report
        failure == IF selected[1] # "missing" /\ report.failure # None
                   THEN report.failure ELSE files.debug
    IN  [kind |-> selected[1], failure |-> failure,
         killed |-> IF selected[1] = "missing" THEN 0 ELSE Cardinality(report.killed),
         survived |-> IF selected[1] = "missing" THEN 0 ELSE Cardinality(report.survived),
         triage |-> IF selected[1] = "missing" THEN NoTriage ELSE Triage(report)]

\* Beside a report the helper reads what the formats leave, the triage ledger and
\* the governance review, of which "ledger" says whether one is torn; an absent one
\* is as good as an empty one.
WaveResultFails(files) ==
    \/ SelectReport(files)[2] = TornReport
    \/ SelectReport(files)[1] # "missing" /\ files.ledger = "torn"
    \/ files.debug = "torn"

Uploaded == {r \in Repos : result[r] # Missing}
Total(field(_), repos) == SumFunctionOnSet([r \in repos |-> field(result[r].report)], repos)

SummaryTriage(repos) ==
    [entries |-> Total(LAMBDA w : w.triage.entries, repos),
     units |-> Total(LAMBDA w : w.triage.units, repos),
     collapsed |-> Total(LAMBDA w : w.triage.collapsed, repos),
     reposWithUnits |-> Cardinality({r \in repos : result[r].report.triage.units > 0})]

\* The totals of the wave; a result with a failure is counted under its kind.
Aggregate(repos) ==
    LET missing == {r \in repos : result[r].report.kind = "missing"}
        failed == {r \in repos : result[r].report.failure # None}
    IN  [selected |-> Cardinality(repos),
         missing |-> Cardinality(missing), reports |-> Cardinality(repos \ missing),
         killed |-> Total(LAMBDA w : w.killed, repos),
         survived |-> Total(LAMBDA w : w.survived, repos),
         failed |-> Cardinality(failed),
         kinds |-> [k \in Kinds |-> Cardinality({r \in failed : result[r].report.failure = k})]]

-----------------------------------------------------------------------------
WaveInit ==
    /\ \E versions \in [requested : GoVersions, toolchain : GoVersions, go : GoVersions,
                        resolved : {0}] :
          go = [r \in Repos |-> versions]   \* no job looks at those of another
    /\ waveAt = [r \in Repos |-> "resolve"] /\ reportDir = [r \in Repos |-> NoFiles]
    /\ ran = [r \in Repos |-> Missing] /\ result = [r \in Repos |-> Missing]
    /\ waveSummary = Missing

WaveGoto(r, step) == waveAt' = [waveAt EXCEPT ![r] = step]

\* How a run ended: "report" are the verdicts it left to be read, "whole" says
\* whether they are those of its engine's report, "named" is the kind of failure it
\* has told of, if any.
Ran(end, report, whole, named) ==
    [is |-> end, report |-> report, whole |-> whole, named |-> named]

Leave(r, end, files) ==
    /\ waveAt[r] = "run" /\ WaveGoto(r, "extract")
    /\ ran' = [ran EXCEPT ![r] = end]
    /\ reportDir' = [reportDir EXCEPT ![r] = files]
    /\ UNCHANGED <<go, result, waveSummary>>

Resolve(r) ==
    /\ waveAt[r] = "resolve" /\ WaveGoto(r, "run")
    /\ go' = [go EXCEPT ![r].resolved = ResolveGoVersion(go[r].requested, go[r])]
    /\ UNCHANGED <<reportDir, ran, result, waveSummary>>

\* The run ends with a report, whether its gate passes or not; a checkpoint may
\* remain beside it.
Complete(r) ==
    \E report \in WaveReports, checkpoint \in Checkpoints :
        Leave(r, Ran("completed", report, TRUE, None),
              [full |-> WholeFile(Report(report, None)), partial |-> checkpoint, debug |-> None,
               ledger |-> None])

\* The verdicts that are left when the engine wrote no report.
Behind(checkpoint) == IF checkpoint = Missing THEN Empty ELSE Verdicts(checkpoint)

\* What a write whose error nobody looks at makes of a file that was not there.
Tried(written, torn, none) == {written, torn, none}

\* A structured failure writes a debug file and, unless a report is there, an empty
\* one that names the failure, whatever the checkpoint holds.  Each of the two
\* writes may fail, and the job's time may be up meanwhile; a report that the
\* failure itself has torn is left so.
FailWithoutReport(r) ==
    \E kind \in Kinds, checkpoint \in Checkpoints :
      \E debug \in Tried(kind, "torn", None),
         full \in Tried(WholeFile(Report(Empty, kind)), TornReport, Missing) :
        Leave(r, Ran("failed", IF full = Missing THEN Behind(checkpoint) ELSE Empty, FALSE,
                     IF Readable(full) \/ debug = kind THEN kind ELSE None),
              [full |-> full, partial |-> checkpoint, debug |-> debug, ledger |-> None])

\* A failure after the engine has written its report keeps that; it may have torn
\* another of the files.
FailAfterReport(r) ==
    \E kind \in Kinds, checkpoint \in Checkpoints, report \in WaveReports :
      \E debug \in Tried(kind, "torn", None), ledger \in {"torn", None} :
        Leave(r, Ran("failed", report, TRUE, IF debug = kind THEN kind ELSE None),
              [full |-> WholeFile(Report(report, None)), partial |-> checkpoint, debug |-> debug,
               ledger |-> ledger])

FailRun(r) == FailWithoutReport(r) \/ FailAfterReport(r)

\* The job's time is up: checkpoints are replaced whole, the report is written in
\* place, by the engine and then once more with the other formats.
KillRun(r) ==
    \E checkpoint \in Checkpoints :
        \/ \E full \in {Missing, TornReport} :
              Leave(r, Ran("killed", Behind(checkpoint), FALSE, None),
                    [full |-> full, partial |-> checkpoint, debug |-> None, ledger |-> None])
        \/ \E report \in WaveReports, ledger \in {"torn", None} :
              Leave(r, Ran("killed", report, TRUE, None),
                    [full |-> WholeFile(Report(report, None)), partial |-> checkpoint,
                     debug |-> None, ledger |-> ledger])

\* wave-result.json is made and uploaded in any case; when the helper fails it is
\* the empty file its output was sent to.
Extract(r) ==
    /\ waveAt[r] = "extract" /\ WaveGoto(r, "ended")
    /\ result' = [result EXCEPT ![r] = IF WaveResultFails(reportDir[r]) THEN TornReport
                                       ELSE WholeFile(WaveResult(reportDir[r]))]
    /\ UNCHANGED <<go, reportDir, ran, waveSummary>>

LoseRunner(r) ==
    /\ waveAt[r] # "ended" /\ WaveGoto(r, "ended")
    /\ UNCHANGED <<go, reportDir, ran, result, waveSummary>>

\* The summary is built when every job has ended, from the results that were
\* uploaded: it fails when there is none or one cannot be read.
Summarize ==
    /\ waveSummary = Missing /\ \A r \in Repos : waveAt[r] = "ended"
    /\ waveSummary' = IF Uploaded # {} /\ \A r \in Uploaded : Readable(result[r])
                  THEN [is |-> "file", aggregate |-> Aggregate(Uploaded),
                        triage |-> SummaryTriage(Uploaded)]
                  ELSE TornReport
    /\ UNCHANGED <<go, waveAt, reportDir, ran, result>>

WaveNext ==
    \/ \E r \in Repos : \/ Resolve(r) \/ Complete(r) \/ FailRun(r) \/ KillRun(r)
                        \/ Extract(r) \/ LoseRunner(r)
    \/ Summarize

WaveSpec == WaveInit /\ [][WaveNext]_waveVars

-----------------------------------------------------------------------------
(* Properties                                                               *)

\* The summary counts what the runs left: of every run once, the verdicts of the
\* report its engine wrote, also when it failed or was killed after that, and else
\* those of its checkpoint, unless the report of a failure stands before it; every
\* failure that a run could tell of once and under its kind; and no result as both
\* a report and a missing one (selectWaveReport, buildWaveResult,
\* accumulateWaveAggregate, finalizeStructuredFailure).
SummaryCountsWhatRan ==
    waveSummary.is = "file" =>
        LET named(k) == {r \in Uploaded : ran[r].named = k}
            a == waveSummary.aggregate
        IN  /\ a.killed = SumFunctionOnSet([r \in Repos |-> Cardinality(ran[r].report.killed)],
                                           Uploaded)
            /\ a.survived = SumFunctionOnSet([r \in Repos |-> Cardinality(ran[r].report.survived)],
                                             Uploaded)
            /\ \A k \in Kinds : a.kinds[k] = Cardinality(named(k))
            /\ a.failed = SumFunctionOnSet(a.kinds, Kinds)
            /\ a.reports + a.missing = a.selected
            /\ waveSummary.triage.entries = a.survived
            /\ waveSummary.triage.units + waveSummary.triage.collapsed = waveSummary.triage.entries

\* A result that reads like that of a clean, full run is of one whose engine wrote
\* the whole report, with the Go version its repository needs: it may have been
\* killed after that, or have failed to write the other formats and then the debug
\* file, but no run that ended before reads clean, whatever its checkpoint holds
\* (failureFromDebugFile, finalizeStructuredFailure, resolveGoVersion).
CleanResultsAreOfWholeReports ==
    \A r \in Uploaded :
        Readable(result[r]) =>
            LET w == result[r].report
            IN  (w.kind = "full" /\ w.failure = None) =>
                    /\ ran[r].whole
                    /\ go[r].resolved >= ActionMin
                    /\ go[r].resolved >= go[r].requested
                    /\ go[r].requested = 0 => go[r].resolved >= go[r].toolchain

-----------------------------------------------------------------------------
(* What the proofs rest on: an inductive invariant.                         *)

WaveSteps == {"resolve", "run", "extract", "ended"}
JobVersions == [requested : GoVersions, toolchain : GoVersions, go : GoVersions, resolved : Nat]
WaveTypeOK ==
    /\ go \in [Repos -> JobVersions] /\ waveAt \in [Repos -> WaveSteps]
    /\ DOMAIN reportDir = Repos /\ DOMAIN ran = Repos /\ DOMAIN result = Repos

\* The resolved version is one that serves the action and the repository.
Serves(v) ==
    /\ v.resolved >= ActionMin /\ v.resolved >= v.requested
    /\ v.requested = 0 => v.resolved >= v.toolchain
Resolved(r) == waveAt[r] \in {"run", "extract"} \/ result[r] # Missing => Serves(go[r])

\* A file that holds the verdicts and names the failure.
Tells(file, verdicts, failure) ==
    /\ Readable(file)
    /\ file.report.killed = verdicts.killed /\ file.report.survived = verdicts.survived
    /\ file.report.failure = failure

\* What a run leaves, unless the helper fails on it, tells the verdicts it left and
\* the failure it could name; the report of a failure names it itself.
Left(end, files) ==
    /\ end.report.killed \subseteq Mutants /\ end.report.survived \subseteq Mutants
    /\ end.named \in Kinds \cup {None} /\ end.whole \in BOOLEAN
    /\ \/ WaveResultFails(files)
       \/ /\ end.whole /\ Tells(files.full, end.report, None) /\ files.debug = end.named
       \/ /\ ~end.whole /\ end.report = Empty /\ end.named # None
          /\ Tells(files.full, Empty, end.named)
       \/ /\ ~end.whole /\ files.full = Missing /\ files.debug = end.named
          /\ \/ Tells(files.partial, end.report, None)
             \/ files.partial = Missing /\ end.report = Empty
ReportsTellOfRuns(r) == waveAt[r] = "extract" => Left(ran[r], reportDir[r])

\* A result w counts what its run left, and triages every survivor of it.
CountsItsRun(w, end) ==
    /\ w.killed \in Nat /\ w.killed = Cardinality(end.report.killed)
    /\ w.survived \in Nat /\ w.survived = Cardinality(end.report.survived)
    /\ w.failure \in Kinds \cup {None} /\ w.failure = end.named
    /\ (w.kind = "full" /\ w.failure = None) => end.whole
    /\ w.triage.entries = w.survived /\ w.triage.units \in Nat /\ w.triage.collapsed \in Nat
    /\ w.triage.units + w.triage.collapsed = w.triage.entries

\* A result is made once, and of the report directory as its run left it.
ResultsTellOfRuns(r) ==
    result[r] # Missing =>
        /\ waveAt[r] = "ended"
        /\ Readable(result[r]) => CountsItsRun(result[r].report, ran[r])

\* The summary is the last step.
SummaryIsLast == waveSummary # Missing => \A r \in Repos : waveAt[r] = "ended"

WaveInv ==
    /\ WaveTypeOK
    /\ \A r \in Repos : Resolved(r) /\ ReportsTellOfRuns(r) /\ ResultsTellOfRuns(r)
    /\ SummaryIsLast /\ SummaryCountsWhatRan
=============================================================================
