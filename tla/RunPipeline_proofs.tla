------------------------- MODULE RunPipeline_proofs -------------------------
(***************************************************************************)
(* What holds of every sequence of runs and baseline commands, for any     *)
(* mutants, statuses, policy and number of runs, edits and commands. None  *)
(* of the proofs needs an assumption on the constants: what the functions  *)
(* of Review compute does not matter to what the files hold.               *)
(***************************************************************************)
EXTENDS RunPipeline, TLAPS

\* The states of a file are told apart by their first field.
LEMMA FileStates ==
  /\ Missing.is = "missing" /\ Torn.is = "torn"
  /\ \A c : Whole(c).is = "whole" /\ Whole(c).content = c
  /\ Missing # Torn
  /\ \A c : Whole(c) # Torn /\ Whole(c) # Missing
<1>1. Missing.is = "missing" /\ Torn.is = "torn"
  BY DEF Missing, Torn
<1>2. \A c : Whole(c).is = "whole" /\ Whole(c).content = c
  BY DEF Whole
<1> QED
  BY <1>1, <1>2

-----------------------------------------------------------------------------
(* Every file and every command holds what a run has published.            *)

\* A write leaves the new content, which is published with it, or what was there.
LEMMA WritePublishes ==
  ASSUME Provenance, NEW content, mutationReport' \in Write(mutationReport, content),
         published' = Publish
  PROVE  /\ published \subseteq published'
         /\ mutationReport'.is = "whole" => mutationReport'.content \in published'
BY DEF Publish

\* A step that writes no report.
LEMMA SameReport ==
  ASSUME Provenance, UNCHANGED <<mutationReport, published>>
  PROVE  /\ published \subseteq published'
         /\ mutationReport'.is = "whole" => mutationReport'.content \in published'
BY DEF Provenance

LEMMA RunKeepsProvenance ==
  ASSUME Provenance, UNCHANGED <<baselines, baselineCommand>>,
         published \subseteq published',
         mutationReport'.is = "whole" => mutationReport'.content \in published'
  PROVE  Provenance'
BY DEF Provenance, BaselinesWerePublished, baselines, baselineCommand

LEMMA CommandKeepsProvenance ==
  ASSUME Provenance, UNCHANGED files, published' = published,
         commandAt' # "idle" => held' \in published,
         baseline' \in {baseline, Torn, Whole(held)}, commandAt # "idle" \/ baseline' = baseline,
         candidate' \in {candidate, Torn, Missing, Whole(held)},
         commandAt # "idle" \/ candidate' = candidate
  PROVE  Provenance'
<1>1. \A file \in {baseline', candidate'} : file.is = "whole" => file.content \in published
  BY FileStates DEF Provenance, BaselinesWerePublished
<1> QED
  BY <1>1 DEF Provenance, BaselinesWerePublished, files

LEMMA StepKeepsProvenance == Provenance /\ [PipelineNext]_pipelineVars => Provenance'
<1> SUFFICES ASSUME Provenance, [PipelineNext]_pipelineVars PROVE Provenance'
  OBVIOUS
<1>1. CASE \/ Start \/ RunMutants \/ ApplyHistory \/ Compare \/ RecordHistoryRun
           \/ EditMutants \/ UNCHANGED pipelineVars
  <2>1. UNCHANGED <<baselines, baselineCommand, mutationReport, published>>
    <3>1. CASE Start \/ EditMutants \/ UNCHANGED pipelineVars
      BY <3>1 DEF Start, EditMutants, pipelineVars, files
    <3>2. CASE RunMutants
      BY <3>2 DEF RunMutants
    <3>3. CASE ApplyHistory \/ Compare
      BY <3>3 DEF ApplyHistory, Compare, files
    <3>4. CASE RecordHistoryRun
      BY <3>4 DEF RecordHistoryRun
    <3> QED
      BY <1>1, <3>1, <3>2, <3>3, <3>4
  <2> QED
    BY <2>1, SameReport, RunKeepsProvenance
<1>2. CASE WriteEngineReport
  BY <1>2, WritePublishes, RunKeepsProvenance DEF WriteEngineReport, WriteReport
<1>3. CASE WriteFormats
  BY <1>3, WritePublishes, RunKeepsProvenance DEF WriteFormats, WriteReport
<1>4. CASE FinalizeFailure
  BY <1>4, WritePublishes, SameReport, RunKeepsProvenance DEF FinalizeFailure
<1>5. CASE Kill
  <2>1. /\ UNCHANGED <<baselines, baselineCommand, published>>
        /\ mutationReport' \in {mutationReport, Torn}
    BY <1>5 DEF Kill
  <2>2. mutationReport'.is = "whole" => mutationReport'.content \in published'
    BY <2>1, FileStates DEF Provenance
  <2> QED
    BY <2>1, <2>2, RunKeepsProvenance
<1>6. ASSUME NEW name, ReadReport(name)
      PROVE  Provenance'
  <2>1. held' \in published
    BY <1>6 DEF ReadReport, GiveCommand, Provenance
  <2> QED
    BY <1>6, <2>1, CommandKeepsProvenance DEF ReadReport, baselines
<1>7. CASE ReadCandidate
  <2>1. held' \in published
    BY <1>7 DEF ReadCandidate, GiveCommand, Provenance, BaselinesWerePublished
  <2> QED
    BY <1>7, <2>1, CommandKeepsProvenance DEF ReadCandidate, baselines
<1>8. CASE OpenCandidate
  BY <1>8, CommandKeepsProvenance DEF OpenCandidate, Provenance
<1>9. CASE SaveCandidate
  BY <1>9, CommandKeepsProvenance DEF SaveCandidate, Leave
<1>10. CASE OpenBaseline
  BY <1>10, CommandKeepsProvenance DEF OpenBaseline, Provenance
<1>11. CASE SaveBaseline
  BY <1>11, CommandKeepsProvenance DEF SaveBaseline, Leave, Provenance
<1>12. CASE RemoveCandidate
  BY <1>12, CommandKeepsProvenance DEF RemoveCandidate, Leave
<1>13. CASE StopCommand
  BY <1>13, CommandKeepsProvenance DEF StopCommand, Leave, baselines
<1> QED
  BY <1>1, <1>2, <1>3, <1>4, <1>5, <1>6, <1>7, <1>8, <1>9, <1>10, <1>11, <1>12, <1>13
     DEF PipelineNext

\* A baseline, and a candidate for one, is a report that a run wrote to its end:
\* kills, failed writes and commands given meanwhile leave no other.
THEOREM BaselinesArePublishedReports == PipelineSpec => []BaselinesWerePublished
<1>1. PipelineInit => Provenance
  BY FileStates DEF PipelineInit, Provenance, BaselinesWerePublished
<1>2. Provenance => BaselinesWerePublished
  BY DEF Provenance
<1> QED
  BY <1>1, <1>2, StepKeepsProvenance, PTL DEF PipelineSpec

-----------------------------------------------------------------------------
(* The history holds every row since it was torn last.                     *)

\* A history file that is missing or torn is loaded as an empty history.
LEMMA LoadedFiles ==
  /\ Loaded(Missing) = NoHistory /\ Loaded(Torn) = NoHistory
  /\ \A c : Loaded(Whole(c)) = c
  /\ DOMAIN NoHistory = {"entries", "runs"} /\ NoHistory.runs = <<>>
<1>1. DOMAIN NoHistory = {"entries", "runs"} /\ NoHistory.runs = <<>>
  BY DEF NoHistory
<1> QED
  BY <1>1, FileStates DEF Loaded

\* What is entered in a history leaves its runs alone.
LEMMA UpdateKeepsRuns ==
  ASSUME NEW old, NEW outcomes, DOMAIN old = {"entries", "runs"}
  PROVE  /\ DOMAIN UpdateHistory(old, outcomes) = {"entries", "runs"}
         /\ UpdateHistory(old, outcomes).runs = old.runs
BY DEF UpdateHistory

LEMMA StepKeepsBookkeeping == Bookkeeping /\ [PipelineNext]_pipelineVars => Bookkeeping'
<1> SUFFICES ASSUME Bookkeeping, [PipelineNext]_pipelineVars PROVE Bookkeeping'
  OBVIOUS
<1>1. CASE UNCHANGED <<history, log>>
  BY <1>1 DEF Bookkeeping, HistoryKeepsRuns, Loaded
<1>2. CASE history' = Torn /\ log' = <<>>
  BY <1>2, LoadedFiles DEF Bookkeeping, HistoryKeepsRuns
<1>3. CASE ApplyHistory
  <2> DEFINE new == UpdateHistory(Loaded(history), results)
  <2>1. /\ history' \in {Whole(new), history, Torn}
        /\ log' = IF history' = Torn THEN <<>> ELSE log
    BY <1>3 DEF ApplyHistory, Write
  <2>2. DOMAIN new = {"entries", "runs"} /\ new.runs = log
    BY UpdateKeepsRuns DEF Bookkeeping, HistoryKeepsRuns
  <2>3. CASE history' = Whole(new)
    <3>1. log' = log
      BY <2>1, <2>3, FileStates
    <3> QED
      BY <2>2, <2>3, <3>1, LoadedFiles DEF Bookkeeping, HistoryKeepsRuns
  <2> QED
    BY <1>1, <1>2, <2>1, <2>3
<1>4. CASE RecordHistoryRun
  <2> DEFINE row == HistoryRun(results, marks[1], marks[2])
             new == [Loaded(history) EXCEPT !.runs = Append(@, row)]
  <2>1. /\ history' \in {Whole(new), history, Torn}
        /\ log' = CASE history' = Whole(new) -> Append(log, row)
                    [] history' = Torn -> <<>>
                    [] OTHER -> log
    BY <1>4 DEF RecordHistoryRun, Write
  <2>2. DOMAIN new = {"entries", "runs"} /\ new.runs = Append(log, row)
    BY DEF Bookkeeping, HistoryKeepsRuns
  <2> HIDE DEF new, row
  <2>3. CASE history' = Whole(new)
    <3>1. log' = Append(log, row)
      BY <2>1, <2>3, FileStates
    <3> QED
      BY <2>2, <2>3, <3>1, LoadedFiles DEF Bookkeeping, HistoryKeepsRuns
  <2>4. CASE history' # Whole(new)
    BY <1>1, <1>2, <2>1, <2>4
  <2> QED
    BY <2>3, <2>4
<1>5. CASE Kill
  BY <1>1, <1>2, <1>5 DEF Kill
<1>6. CASE Start \/ RunMutants \/ Compare \/ WriteEngineReport \/ WriteFormats
  BY <1>1, <1>6 DEF Start, RunMutants, Compare, WriteEngineReport, WriteFormats, files
<1>7. CASE FinalizeFailure \/ EditMutants \/ ReadCandidate \/ UNCHANGED pipelineVars
  BY <1>1, <1>7 DEF FinalizeFailure, EditMutants, ReadCandidate, pipelineVars, files
<1>8. ASSUME NEW name, ReadReport(name) PROVE Bookkeeping'
  BY <1>1, <1>8 DEF ReadReport, files
<1>9. CASE OpenCandidate \/ SaveCandidate \/ OpenBaseline
  BY <1>1, <1>9 DEF OpenCandidate, SaveCandidate, OpenBaseline, files
<1>10. CASE SaveBaseline \/ RemoveCandidate \/ StopCommand
  BY <1>1, <1>10 DEF SaveBaseline, RemoveCandidate, StopCommand, files
<1> QED
  BY <1>3, <1>4, <1>5, <1>6, <1>7, <1>8, <1>9, <1>10 DEF PipelineNext

\* The history holds the row of every run whose row was written since the file
\* was torn last, in their order (applyHistory, recordHistoryRun).
THEOREM HistoryKeepsEveryRun == PipelineSpec => []HistoryKeepsRuns
<1>1. PipelineInit => Bookkeeping
  BY LoadedFiles DEF PipelineInit, Bookkeeping, HistoryKeepsRuns
<1>2. Bookkeeping => HistoryKeepsRuns
  BY DEF Bookkeeping
<1> QED
  BY <1>1, <1>2, StepKeepsBookkeeping, PTL DEF PipelineSpec

-----------------------------------------------------------------------------
(* How a run ends.                                                         *)

LEMMA StepKeepsJudgement == Judgement /\ [PipelineNext]_pipelineVars => Judgement'
<1> SUFFICES ASSUME Judgement, [PipelineNext]_pipelineVars PROVE Judgement'
  OBVIOUS
<1> USE DEF Judgement, UnderWay, ExitTellsOfReport, BrokenBaselineFailsRun, None
<1>1. CASE UNCHANGED <<stage, exit, compared, mutationReport, results>>
  BY <1>1
<1>2. CASE Start
  BY <1>2 DEF Start
<1>3. CASE RunMutants \/ ApplyHistory
  BY <1>3 DEF RunMutants, ApplyHistory
<1>4. CASE Compare
  <2>1. stage' = "record" => compared' # Torn
    BY <1>4, FileStates DEF Compare
  <2>2. stage = "compare" /\ stage' \in {"record", "failing"} /\ exit' = exit
    BY <1>4 DEF Compare
  <2> QED
    BY <2>1, <2>2
<1>5. CASE RecordHistoryRun
  BY <1>5 DEF RecordHistoryRun
<1>6. CASE WriteEngineReport
  BY <1>6 DEF WriteEngineReport, WriteReport
<1>7. CASE WriteFormats
  BY <1>7 DEF WriteFormats, WriteReport, End
<1>8. CASE FinalizeFailure \/ Kill
  BY <1>8 DEF FinalizeFailure, Kill, Abandon
<1>9. CASE EditMutants \/ ReadCandidate \/ UNCHANGED pipelineVars
  BY <1>1, <1>9 DEF EditMutants, ReadCandidate, pipelineVars, files, run
<1>10. ASSUME NEW name, ReadReport(name) PROVE Judgement'
  BY <1>1, <1>10 DEF ReadReport, files, run
<1>11. CASE OpenCandidate \/ SaveCandidate \/ OpenBaseline
  BY <1>1, <1>11 DEF OpenCandidate, SaveCandidate, OpenBaseline, files, run
<1>12. CASE SaveBaseline \/ RemoveCandidate \/ StopCommand
  BY <1>1, <1>12 DEF SaveBaseline, RemoveCandidate, StopCommand, files, run
<1> QED
  BY <1>2, <1>3, <1>4, <1>5, <1>6, <1>7, <1>8, <1>9, <1>10, <1>11, <1>12 DEF PipelineNext

LEMMA JudgementAlways == PipelineSpec => []Judgement
<1>1. PipelineInit => Judgement
  BY DEF PipelineInit, Judgement, UnderWay, ExitTellsOfReport, BrokenBaselineFailsRun, None
<1> QED
  BY <1>1, StepKeepsJudgement, PTL DEF PipelineSpec

\* A run that exits with the verdict of its gate has left a whole report, its own
\* (Engine.Run, writeRunResult).
THEOREM ExitsTellOfReports == PipelineSpec => []ExitTellsOfReport
<1>1. Judgement => ExitTellsOfReport
  BY DEF Judgement
<1> QED
  BY <1>1, JudgementAlways, PTL

\* No run that met half a baseline gets past its gate (compareBaseline).
THEOREM BrokenBaselinesFailRuns == PipelineSpec => []BrokenBaselineFailsRun
<1>1. Judgement => BrokenBaselineFailsRun
  BY DEF Judgement
<1> QED
  BY <1>1, JudgementAlways, PTL

-----------------------------------------------------------------------------
(* The report that was accepted.                                           *)

LEMMA StepKeepsPromotion == Promotion /\ [PipelineNext]_pipelineVars => Promotion'
<1> SUFFICES ASSUME Promotion, [PipelineNext]_pipelineVars PROVE Promotion'
  OBVIOUS
<1> USE DEF Promotion, AcceptedIsNotLost
<1>1. CASE UNCHANGED <<baseline, candidate, accepted>> /\ (commandAt' = "idle" \/ UNCHANGED baselineCommand)
  BY <1>1 DEF baselineCommand
<1>2. CASE Start \/ RunMutants \/ ApplyHistory \/ Compare \/ RecordHistoryRun
  BY <1>1, <1>2
     DEF Start, RunMutants, ApplyHistory, Compare, RecordHistoryRun, baselines
<1>3. CASE WriteEngineReport \/ WriteFormats \/ FinalizeFailure \/ Kill \/ EditMutants
  BY <1>1, <1>3
     DEF WriteEngineReport, WriteFormats, FinalizeFailure, Kill, EditMutants, baselines
<1>4. CASE StopCommand \/ UNCHANGED pipelineVars
  BY <1>1, <1>4 DEF StopCommand, Leave, pipelineVars, baselines
<1>5. ASSUME NEW name \in {"update", "accept"}, ReadReport(name) PROVE Promotion'
  BY <1>5 DEF ReadReport, GiveCommand, baselines
<1>6. CASE ReadCandidate
  <2>1. candidate = Whole(held')
    BY <1>6 DEF ReadCandidate, GiveCommand
  <2> QED
    BY <1>6, <2>1 DEF ReadCandidate, GiveCommand, baselines
<1>7. CASE OpenCandidate
  BY <1>7, FileStates DEF OpenCandidate
<1>8. CASE SaveCandidate
  BY <1>8, FileStates DEF SaveCandidate, Leave
<1>9. CASE OpenBaseline
  BY <1>9, FileStates DEF OpenBaseline
<1>10. CASE SaveBaseline
  BY <1>10, FileStates DEF SaveBaseline, Leave
<1>11. CASE RemoveCandidate
  BY <1>11, FileStates DEF RemoveCandidate, Leave
<1> QED
  BY <1>2, <1>3, <1>4, <1>5, <1>6, <1>7, <1>8, <1>9, <1>10, <1>11 DEF PipelineNext

\* The report accepted last is in the candidate or in the baseline, at every
\* moment of its promotion and after a kill of it (Accept, Promote).
THEOREM AcceptedReportsAreKept == PipelineSpec => []AcceptedIsNotLost
<1>1. PipelineInit => Promotion
  BY FileStates DEF PipelineInit, Promotion, AcceptedIsNotLost
<1>2. Promotion => AcceptedIsNotLost
  BY DEF Promotion
<1> QED
  BY <1>1, <1>2, StepKeepsPromotion, PTL DEF PipelineSpec

=============================================================================
