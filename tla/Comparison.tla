----------------------------- MODULE Comparison -----------------------------
(***************************************************************************)
(* pool compare for one repository of a manifest (pkg/pool/compare.go,     *)
(* compare_workflow.go): each tool is run on the checkout, its report is   *)
(* parsed (pkg/extcompare) and a row is added to the summary, from which   *)
(* the study of the repository is built.                                   *)
(*                                                                         *)
(* A session may be killed between two steps or while it writes the        *)
(* summary, end with an error, and be started again, resuming or not, with *)
(* other target modes; the checkout may be missing or come later.          *)
(***************************************************************************)
EXTENDS Verdicts, Integers, Sequences, FiniteSets, SequencesExt

CONSTANTS Tools,        \* the tools wanted, in the order in which they are run
          Targets,      \* the target in the manifest: "./..." or a package
          Modes,        \* pairs of target modes: of all tools, and of gremlins
          Counts,       \* what a tool may count
          MaxComparisons \* bound on how often the comparison is started

\* What is assumed of the constants.
ASSUME ComparisonAssumption ==
    /\ Tools \in Seq({"cervomut", "gremlins", "gomu", "go-mutesting"})
    /\ Counts \subseteq [killed : Nat, survived : Nat, notCovered : Nat, timedOut : Nat,
                         errors : Nat]
    /\ MaxComparisons \in Nat

VARIABLES target, mode, resume,   \* the options of the session
          checkout,   \* is there a checkout of the repository?
          comparison, \* number of sessions started
          toolAt,     \* the tool the session is at; 0 between sessions
          toolFiles,  \* the reports each tool has left, and whose they are
          toolRows,   \* the rows in memory
          toolSummary,  \* the summary on disk
          study       \* the study on disk

comparisonVars ==
    <<target, mode, resume, checkout, comparison, toolAt, toolFiles, toolRows, toolSummary, study>>

Torn == "torn"
NoToolReport == [is |-> None]
Zero == [killed |-> 0, survived |-> 0, notCovered |-> 0, timedOut |-> 0, errors |-> 0]

-----------------------------------------------------------------------------
(* The parsers of the reports, and what they derive (pkg/extcompare).       *)

ScoreFrom(killed, survived) ==
    IF killed + survived = 0 THEN 0 ELSE (killed * 100) \div (killed + survived)

\* What speaks against a score: the parsers add it to every result.
DenominatorWarnings(r) ==
    LET effective == r.killed + r.survived
    IN  {w \in {"no_effective_mutants"} : r.total > 0 /\ effective = 0}
        \cup {w \in {"timed_out_exceeds_effective"} : effective > 0 /\ r.timedOut > effective}
        \cup {w \in {"not_covered_exceeds_effective"} : effective > 0 /\ r.notCovered > effective}
        \cup {w \in {"high_score_poor_denominator_health"} :
                 effective > 0 /\ r.score >= 90 /\ (r.timedOut > effective \/ r.notCovered > effective)}

MutationCoverage(r) ==
    LET covered == r.killed + r.survived + r.timedOut + r.errors
    IN  IF covered + r.notCovered = 0 THEN 0 ELSE (covered * 100) \div (covered + r.notCovered)

Parsed(c, total, status) ==
    LET r == [counts |-> c, total |-> total, killed |-> c.killed, survived |-> c.survived,
              notCovered |-> c.notCovered, timedOut |-> c.timedOut, errors |-> c.errors,
              score |-> ScoreFrom(c.killed, c.survived)]
    IN  [counts |-> c, total |-> total, status |-> status, score |-> r.score,
         coverage |-> MutationCoverage(r), warnings |-> DenominatorWarnings(r)]

Sum(c) == c.killed + c.survived + c.notCovered + c.timedOut + c.errors

ParseCervo(c) == Parsed(c, Sum(c), "ok")

\* The total of Gremlins leaves out what was not covered or timed out; a report
\* without a killed or lived mutant says why there is none.
ParseGremlins(c) ==
    Parsed(c, c.killed + c.survived,
           CASE c.killed + c.survived > 0 -> "ok"
             [] c.killed + c.survived = 0 /\ c.timedOut > 0 -> "all_timed_out"
             [] c.killed + c.survived = 0 /\ c.timedOut = 0 /\ c.notCovered > 0 -> "not_covered_only"
             [] OTHER -> "no_results")

\* Of gomu and go-mutesting a report without mutants is read as text, in which no
\* number is found.
ParseGomu(c) == Parsed([c EXCEPT !.notCovered = 0], Sum(c), "ok")
ParseGoMutesting(c) == IF Sum(c) > 0 THEN Parsed(c, Sum(c), "ok") ELSE Parsed(Zero, 0, "ok")

-----------------------------------------------------------------------------
(* The tools                                                                *)

ComparisonTarget(m) == IF m = "package-root" /\ target = "./..." THEN "." ELSE target
GremlinsMode == IF mode[2] = "package-root" THEN "package-root" ELSE mode[1]
EffectiveTarget(t) == ComparisonTarget(IF t = "gremlins" THEN GremlinsMode ELSE mode[1])
TargetMode(t) ==
    IF t = "gremlins" /\ mode[2] = "package-root" THEN "package-root"
    ELSE IF mode[1] = "" THEN "manifest" ELSE mode[1]

\* Mutated form of BeforeRun: nothing is removed.
BeforeRunKeeping(t) == toolFiles[t]

\* The files as a tool finds them: only its full report has been removed.
BeforeRun(t) == [toolFiles[t] EXCEPT !.full = NoToolReport]

\* A report of this session, and the ends with certain exit codes, files and words
\* in the log.
OwnReport(c) == [is |-> "report", by |-> comparison, counts |-> c]
TornReportOfTool == [is |-> Torn, by |-> comparison, counts |-> Zero]
Endings(exits, fs, logs) ==
    {[exit |-> e, files |-> f, log |-> l] : e \in exits, f \in fs, l \in logs}

\* How a tool may end.  One killed while it writes its report leaves half of it.
Ends(t) ==
    LET before == BeforeRun(t)
    IN  Endings({0}, {[before EXCEPT !.full = OwnReport(c)] : c \in Counts}, {None})
        \cup Endings({1, 124, 125, 126}, {before}, {None})
        \cup Endings({124}, {[before EXCEPT !.full = TornReportOfTool]}, {None})
        \cup (IF t = "cervomut"
              THEN Endings({124, 126}, {[before EXCEPT !.partial = OwnReport(c)] : c \in Counts}, {None})
              ELSE IF t = "gremlins"
                   THEN Endings({0, 1}, {before}, {None, "panic:", "No results to report"})
                   ELSE {})

\* The report that is parsed, whether it is the partial one, and what it says.
Chosen(t, fs) ==
    IF t = "cervomut" /\ fs.full = NoToolReport /\ fs.partial # NoToolReport
    THEN [report |-> fs.partial, partial |-> TRUE] ELSE [report |-> fs.full, partial |-> FALSE]
Parse(t, c) ==
    CASE t = "cervomut" -> ParseCervo(c)
      [] t = "gremlins" -> ParseGremlins(c)
      [] t = "gomu" -> ParseGomu(c)
      [] t = "go-mutesting" -> ParseGoMutesting(c)
\* Half of a JSON report is an error, or a text without numbers.
ParseFails(t, fs) == t \in {"cervomut", "gremlins"} /\ Chosen(t, fs).report.is = Torn
ParseToolMetrics(t, fs) ==
    LET chosen == Chosen(t, fs)
    IN  [of |-> IF chosen.report = NoToolReport THEN 0 ELSE chosen.report.by,
         partial |-> chosen.partial,
         parsed |-> IF chosen.report = NoToolReport THEN [Parsed(Zero, 0, "") EXCEPT !.warnings = {}]
                    ELSE Parse(t, chosen.report.counts)]

ExitStatus(exit) ==
    CASE exit = 124 -> "timeout" [] exit = 125 -> "skipped" [] exit = 126 -> "watchdog_kill"
      [] OTHER -> "ok"
ClassifyCompareStatus(t, end, metrics) ==
    LET status == ExitStatus(end.exit)
    IN  CASE t = "cervomut" ->
               IF metrics.partial /\ status \in {"timeout", "watchdog_kill"}
               THEN "partial_" \o status ELSE status
          [] t = "gremlins" ->
               IF end.log = "panic:" THEN "panic"
               ELSE IF end.files.full = NoToolReport
                    THEN IF end.log = "No results to report" THEN "no_results"
                         ELSE IF end.exit = 0 THEN "no_report" ELSE status
               ELSE IF metrics.parsed.status # "ok" THEN metrics.parsed.status ELSE status
          [] OTHER -> status

Row(t, end) ==
    LET metrics == ParseToolMetrics(t, end.files)
    IN  [tool |-> t, target |-> target, effective |-> EffectiveTarget(t), mode |-> TargetMode(t),
         status |-> ClassifyCompareStatus(t, end, metrics), partial |-> metrics.partial,
         of |-> metrics.of, session |-> comparison, total |-> metrics.parsed.total,
         counts |-> metrics.parsed.counts, score |-> metrics.parsed.score,
         warnings |-> metrics.parsed.warnings]
MissingRepo ==
    [tool |-> "all", target |-> "", effective |-> "", mode |-> "", status |-> "missing_repo",
     partial |-> FALSE, of |-> 0, session |-> comparison, total |-> 0, counts |-> Zero, score |-> 0,
     warnings |-> {}]

-----------------------------------------------------------------------------
(* The study                                                                *)

\* Mutated form of BuildComparability: only targets as given are compared.
BuildComparabilityByTarget(rs) ==
    [apples |-> Cardinality({r.target : r \in rs}) <= 1, manifest |-> TRUE, warnings |-> {}]

\* A row without a target makes nothing comparable; one without an effective
\* target has the manifest's.
BuildComparability(rs) ==
    LET named == {r \in rs : r.target # "" \/ r.effective # ""}
        Effective(r) == IF r.effective = "" THEN r.target ELSE r.effective
        Mode(r) == IF r.mode = "" THEN "manifest" ELSE r.mode
        equivalent == named = rs /\ \A r \in named : r.target = Effective(r)
        oneTarget == Cardinality({Effective(r) : r \in named}) <= 1
        oneMode == Cardinality({Mode(r) : r \in named}) <= 1
    IN  [apples |-> named = rs /\ oneTarget /\ oneMode, manifest |-> equivalent,
         warnings |-> {w \in {"target_metadata_missing"} : named # rs}
                      \cup {w \in {"effective_target_mismatch"} : ~oneTarget}
                      \cup {w \in {"target_mode_mismatch"} : ~oneMode}
                      \cup {w \in {"effective_target_differs_from_manifest"} : ~equivalent}]

BuildCompareStudyRepo(rs) ==
    LET comp == BuildComparability(rs)
        missing == \E r \in rs : r.status = "missing_repo"
    IN  [label |-> IF ~comp.apples \/ missing THEN "not_comparable"
                   ELSE IF ~comp.manifest THEN "manifest_shifted" ELSE "apples_to_apples",
         warnings |-> comp.warnings \cup (UNION {r.warnings : r \in rs})
                      \cup {w \in {"missing_repo"} : missing}]

BuildCompareStudy(list) ==
    LET statuses == {list[i].status : i \in 1..Len(list)}
    IN  [is |-> "study", rows |-> list, repo |-> BuildCompareStudyRepo(ToSet(list)),
         counts |-> [s \in statuses |-> Cardinality({i \in 1..Len(list) : list[i].status = s})]]

-----------------------------------------------------------------------------
ComparisonInit ==
    /\ target \in Targets /\ mode \in Modes /\ resume = FALSE
    /\ checkout \in BOOLEAN /\ comparison = 0 /\ toolAt = 0
    /\ toolFiles = [t \in ToSet(Tools) |-> [full |-> NoToolReport, partial |-> NoToolReport]]
    /\ toolRows = <<>> /\ toolSummary = Torn /\ study = NoToolReport

\* A session that resumes takes over the rows of the summary, none when it cannot
\* be read.
OpenComparison ==
    /\ toolAt = 0 /\ comparison < MaxComparisons
    /\ comparison' = comparison + 1 /\ toolAt' = 1
    /\ mode' \in Modes /\ resume' \in BOOLEAN
    /\ toolRows' = IF resume' /\ toolSummary # Torn THEN toolSummary ELSE <<>>
    /\ UNCHANGED <<target, checkout, toolFiles, toolSummary, study>>

HasCompareResult(t) == \E i \in 1..Len(toolRows) : toolRows[i].tool = t
Running(t) == toolAt \in 1..Len(Tools) /\ t = Tools[toolAt]

\* A row is added and the summary replaced in place; the session may be killed
\* while it does that.
Append1(row, next) ==
    /\ toolRows' = Append(toolRows, row)
    /\ \/ toolSummary' = toolRows' /\ toolAt' = next
       \/ toolSummary' = Torn /\ toolAt' = 0

RecordMissing ==
    /\ toolAt = 1 /\ ~checkout
    /\ Append1(MissingRepo, Len(Tools) + 1)
    /\ UNCHANGED <<target, mode, resume, checkout, comparison, toolFiles, study>>

SkipTool(t) ==
    /\ Running(t) /\ checkout /\ resume /\ HasCompareResult(t)
    /\ toolAt' = toolAt + 1
    /\ UNCHANGED <<target, mode, resume, checkout, comparison, toolFiles, toolRows, toolSummary,
                   study>>

\* The tool is run, its report parsed and its row recorded; a report that cannot
\* be parsed ends the session.
RunTool(t) ==
    /\ Running(t) /\ checkout /\ ~(resume /\ HasCompareResult(t))
    /\ \E end \in Ends(t) :
          /\ toolFiles' = [toolFiles EXCEPT ![t] = end.files]
          /\ IF ParseFails(t, end.files)
             THEN toolAt' = 0 /\ UNCHANGED <<toolRows, toolSummary>>
             ELSE Append1(Row(t, end), toolAt + 1)
    /\ UNCHANGED <<target, mode, resume, checkout, comparison, study>>

Close ==
    /\ toolAt = Len(Tools) + 1
    /\ toolSummary' = toolRows /\ study' = BuildCompareStudy(toolRows) /\ toolAt' = 0
    /\ UNCHANGED <<target, mode, resume, checkout, comparison, toolFiles, toolRows>>

KillComparison ==
    /\ toolAt # 0 /\ toolAt' = 0
    /\ UNCHANGED <<target, mode, resume, checkout, comparison, toolFiles, toolRows, toolSummary,
                   study>>

Clone ==
    /\ toolAt = 0 /\ ~checkout /\ checkout' = TRUE
    /\ UNCHANGED <<target, mode, resume, comparison, toolAt, toolFiles, toolRows, toolSummary, study>>

ComparisonNext ==
    \/ OpenComparison \/ RecordMissing \/ Close \/ KillComparison \/ Clone
    \/ \E t \in ToSet(Tools) : SkipTool(t) \/ RunTool(t)

ComparisonSpec == ComparisonInit /\ [][ComparisonNext]_comparisonVars

-----------------------------------------------------------------------------
(* Properties                                                               *)

\* The counts of a full report are of the command the row is about: no report that
\* an earlier session had left is counted again (os.Remove in RunCompare,
\* parseToolMetrics).  A partial report may be an earlier one.
FullRowsAreFresh ==
    \A i \in 1..Len(toolRows) :
        toolRows[i].of # 0 /\ ~toolRows[i].partial => toolRows[i].of = toolRows[i].session

\* A study that calls its rows a fair comparison was made of one target and one
\* mode, the manifest's own target, over however many sessions its rows were
\* collected; what speaks against a row's score is among its warnings, and a row
\* without a single decided mutant has counts only with such a warning or a status
\* of its own (BuildComparability, buildCompareStudyRepo, denominatorHealth).
StudiesAreFair ==
    study # NoToolReport =>
        LET rs == ToSet(study.rows)
        IN  /\ study.repo.label = "apples_to_apples" =>
                  \A r, s \in rs : /\ r.effective = s.effective /\ r.mode = s.mode
                                   /\ r.effective = target
            /\ \A r \in rs :
                  /\ r.warnings \subseteq study.repo.warnings
                  /\ r.counts.killed + r.counts.survived = 0 /\ Sum(r.counts) > 0 =>
                         r.status # "ok" \/ "no_effective_mutants" \in study.repo.warnings
-----------------------------------------------------------------------------
(* What the proofs rest on: an inductive invariant.                         *)

\* What a row may say, in whichever session and with whichever modes it was made.
HonestRow(r) ==
    /\ r.of # 0 /\ ~r.partial => r.of = r.session
    /\ r.target # "" \/ r.effective # "" => r.target = target /\ r.effective # "" /\ r.mode # ""
    /\ r.counts.killed + r.counts.survived = 0 /\ Sum(r.counts) > 0 =>
          r.status # "ok" \/ "no_effective_mutants" \in r.warnings
IsList(list) == Len(list) \in Nat /\ list = [i \in 1..Len(list) |-> list[i]]
HonestRows(list) == IsList(list) /\ \A i \in 1..Len(list) : HonestRow(list[i])

\* What a tool leaves: a partial report may be of any session.
PartialReports == {NoToolReport} \cup [is : {"report"}, by : Nat, counts : Counts]
HonestFiles(files) ==
    /\ files = [full |-> files.full, partial |-> files.partial]
    /\ files.partial \in PartialReports

ComparisonInv ==
    /\ comparison \in Nat /\ DOMAIN toolFiles = ToSet(Tools)
    /\ \A t \in ToSet(Tools) : HonestFiles(toolFiles[t])
    /\ HonestRows(toolRows) /\ (toolSummary # Torn => HonestRows(toolSummary))
    /\ study # NoToolReport => HonestRows(study.rows) /\ study = BuildCompareStudy(study.rows)
=============================================================================
