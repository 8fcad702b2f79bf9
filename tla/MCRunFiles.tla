----------------------------- MODULE MCRunFiles -----------------------------
(***************************************************************************)
(* Small instances of ResumableRun and RunPipeline, one beside the other:  *)
(* they share no state, so a behaviour is one of either system, and the    *)
(* variables of the other keep a value they begin with.                    *)
(***************************************************************************)
EXTENDS MCResumableRun, RunPipeline

VARIABLE system   \* "resume" or "pipeline"

ASSUME PipelineAssumption

OneSkipped == {2}

RunFilesInit ==
  /\ Init /\ PipelineInit
  /\ system \in {"resume", "pipeline"}
  /\ system = "pipeline" => command = Flags(FALSE, TRUE)

RunFilesNext ==
  /\ UNCHANGED system
  /\ \/ system = "resume" /\ Next /\ UNCHANGED pipelineVars
     \/ system = "pipeline" /\ PipelineNext /\ UNCHANGED vars

RunFilesSpec == RunFilesInit /\ [][RunFilesNext]_<<system, vars, pipelineVars>>
=============================================================================
