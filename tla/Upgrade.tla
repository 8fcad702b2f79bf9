------------------------------ MODULE Upgrade ------------------------------
(***************************************************************************)
(* verify-upgrade of cmd/releasehelper: a workspace is prepared with the   *)
(* previous release, and the current binary must read what that release    *)
(* left, run over it and take the baseline through its lifecycle.          *)
(*                                                                         *)
(* A binary may be flawed: one of its commands fails, or exits with zero   *)
(* and does nothing.  The work directory is cleared first, and the archive *)
(* or the binary to verify may lie in it.                                  *)
(***************************************************************************)
EXTENDS Verdicts, Sequences

VARIABLES flaw,       \* the one flaw of the two binaries: how, and at which step
          inside,     \* the inputs that lie in the work directory
          lost,       \* the inputs that clearing the directory has removed
          upgradeAt,  \* the step of the verification
          reportBy, baselineBy, candidateBy,   \* who wrote each file, or None
          read        \* what the current binary has read, and who had written it

upgradeVars == <<flaw, inside, lost, upgradeAt, reportBy, baselineBy, candidateBy, read>>

Inputs == {"archive", "binary"}
PreviousSteps == {"previous run", "baseline update"}
CurrentSteps == {"report summary", "report survivors", "current run", "baseline compare",
                 "baseline diff", "baseline accept", "baseline promote"}

UpgradeInit ==
    /\ flaw \in {<<None, None>>} \cup ({"fails", "idle"} \X (PreviousSteps \cup CurrentSteps))
    /\ inside \in SUBSET Inputs /\ lost = {}
    /\ upgradeAt = "prepare" /\ read = {}
    /\ reportBy = None /\ baselineBy = None /\ candidateBy = None

Works(s) == flaw \notin {<<"fails", s>>, <<"idle", s>>}
ExitsWell(s) == flaw # <<"fails", s>>
UpgradeGoto(s, holds) == upgradeAt' = IF holds THEN s ELSE "failed"

\* The command of step s is run; the files are as given when it works and as they
\* were when it does not.  What is found afterwards decides.
Run(s, next, files, check(_, _, _)) ==
    LET left == IF Works(s) THEN files ELSE <<reportBy, baselineBy, candidateBy>>
    IN  /\ upgradeAt = s
        /\ reportBy' = left[1] /\ baselineBy' = left[2] /\ candidateBy' = left[3]
        /\ UpgradeGoto(next, ExitsWell(s) /\ check(left[1], left[2], left[3]))
        /\ UNCHANGED <<flaw, inside, lost>>
Reads(s, what) == read' = IF Works(s) THEN read \cup what ELSE read

\* The directory is cleared, whatever lies in it.  A temporary one is empty.
Prepare ==
    /\ upgradeAt = "prepare" /\ lost' = inside /\ UpgradeGoto("extract", TRUE)
    /\ UNCHANGED <<flaw, inside, reportBy, baselineBy, candidateBy, read>>

\* The previous archive is extracted, its binary found, both made executable and
\* the fixture module written.
ExtractPrevious ==
    /\ upgradeAt = "extract" /\ UpgradeGoto("previous run", lost = {})
    /\ UNCHANGED <<flaw, inside, lost, reportBy, baselineBy, candidateBy, read>>

PreviousRun ==
    /\ Run("previous run", "baseline update", <<"previous", baselineBy, candidateBy>>,
           LAMBDA r, b, c : r # None)
    /\ UNCHANGED read
BaselineUpdate ==
    /\ Run("baseline update", "report summary", <<reportBy, reportBy, candidateBy>>,
           LAMBDA r, b, c : b # None)
    /\ UNCHANGED read

\* The current binary reads the report of the previous release, ...
ReportSummary ==
    /\ Run("report summary", "report survivors", <<reportBy, baselineBy, candidateBy>>,
           LAMBDA r, b, c : TRUE)
    /\ Reads("report summary", {<<"report", reportBy>>})
ReportSurvivors ==
    /\ Run("report survivors", "current run", <<reportBy, baselineBy, candidateBy>>,
           LAMBDA r, b, c : TRUE)
    /\ Reads("report survivors", {<<"survivors", reportBy>>})
CurrentRun ==
    /\ Run("current run", "baseline compare", <<"current", baselineBy, candidateBy>>,
           LAMBDA r, b, c : TRUE)
    /\ UNCHANGED read

\* Mutated form of BaselineCompare: the exit code alone decides.
BaselineCompareByExit ==
    /\ Run("baseline compare", "baseline diff", <<reportBy, baselineBy, candidateBy>>,
           LAMBDA r, b, c : b # None)
    /\ Reads("baseline compare", {<<"compare", baselineBy>>})

\* ... its own report against the baseline of the previous release (a command that
\* prints nothing is caught where its output is decoded), ...
BaselineCompare ==
    /\ Run("baseline compare", "baseline diff", <<reportBy, baselineBy, candidateBy>>,
           LAMBDA r, b, c : Works("baseline compare") /\ b # None)
    /\ Reads("baseline compare", {<<"compare", baselineBy>>})
BaselineDiff ==
    /\ Run("baseline diff", "baseline accept", <<reportBy, baselineBy, candidateBy>>,
           LAMBDA r, b, c : Works("baseline diff") /\ b # None)
    /\ Reads("baseline diff", {<<"diff", baselineBy>>})

\* ... and accepts and promotes its report as the new baseline.
BaselineAccept ==
    /\ Run("baseline accept", "baseline promote", <<reportBy, baselineBy, reportBy>>,
           LAMBDA r, b, c : c # None)
    /\ UNCHANGED read
BaselinePromote ==
    /\ Run("baseline promote", "passed", <<reportBy, candidateBy, None>>,
           LAMBDA r, b, c : c = None /\ b # None)
    /\ UNCHANGED read

UpgradeNext ==
    \/ Prepare \/ ExtractPrevious \/ PreviousRun \/ BaselineUpdate \/ ReportSummary \/ ReportSurvivors
    \/ CurrentRun \/ BaselineCompare \/ BaselineDiff \/ BaselineAccept \/ BaselinePromote

UpgradeSpec == UpgradeInit /\ [][UpgradeNext]_upgradeVars

-----------------------------------------------------------------------------
(* Properties                                                               *)

\* An upgrade is reported as verified only when the current binary has read what
\* the previous release wrote: its report before a run of its own replaced it, and
\* its baseline before a new one was promoted over it (runUpgradeSmokeWorkflow),
\* when its report commands do what they say.
VerifiedUpgradeReadOldRelease ==
    upgradeAt = "passed" /\ (\A s \in {"report summary", "report survivors"} : Works(s)) =>
        ({"report", "survivors", "compare", "diff"} \X {"previous"}) \subseteq read

-----------------------------------------------------------------------------
(* What the proofs rest on: an inductive invariant.                         *)

\* The steps that come after each of the others.
AfterDiff == {"baseline accept", "baseline promote", "passed"}
AfterCompare == {"baseline diff"} \cup AfterDiff
AfterRun == {"baseline compare"} \cup AfterCompare
AfterSurvivors == {"current run"} \cup AfterRun
AfterSummary == {"report survivors"} \cup AfterSurvivors
AfterUpdate == {"report summary"} \cup AfterSummary

\* The files are the previous release's until the current one replaces them.
FilesInTurn ==
    /\ upgradeAt \in {"prepare", "extract", "previous run"} => reportBy = None
    /\ upgradeAt \in {"prepare", "extract", "previous run", "baseline update"} => baselineBy = None
    /\ upgradeAt \in {"baseline update"} \cup (AfterUpdate \ AfterRun) => reportBy = "previous"
    /\ upgradeAt \in AfterUpdate \ {"passed"} => baselineBy = "previous"

\* What the steps passed have read.
ReadInTurn ==
    /\ upgradeAt \in AfterSummary /\ Works("report summary") => <<"report", "previous">> \in read
    /\ upgradeAt \in AfterSurvivors /\ Works("report survivors") =>
          <<"survivors", "previous">> \in read
    /\ upgradeAt \in AfterCompare => <<"compare", "previous">> \in read
    /\ upgradeAt \in AfterDiff => <<"diff", "previous">> \in read

UpgradeInv == FilesInTurn /\ ReadInTurn
=============================================================================
