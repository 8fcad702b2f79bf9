---------------------------- MODULE TestOutcome ----------------------------
(***************************************************************************)
(* One execution of the test command for a mutant and the verdict made of  *)
(* it, by the engine (pkg/engine/test_execution.go, runTest) and by the    *)
(* runner of the daemon (pkg/runner/runner.go). Both see only the error of *)
(* the command, the state of the context and the kept part of the output.  *)
(* The process itself, `go test`, is external.                             *)
(***************************************************************************)
EXTENDS Verdicts, Naturals, Sequences, SequencesExt

CONSTANTS MaxLogs,    \* bound: log lines a test prints
          Kept,       \* lines max_output_bytes leaves of the output
          LimitsOn,   \* is max_process_memory_mb configured?
          Windows,    \* are process limits implemented on the platform?
          MayCancel   \* may the context given to the command be cancelled?

\* What is assumed of the constants.
ASSUME TestOutcomeAssumption ==
  MaxLogs \in Nat /\ Kept \in Nat /\ {LimitsOn, Windows, MayCancel} \subseteq BOOLEAN

VARIABLES
  mutatedTree, \* does the mutated tree compile? "compiles" or "broken"
  phase,       \* "starting", "running", "ended" or "judged"
  output,      \* the lines printed so far
  failed,      \* has a test failed?
  exit,        \* exit code; 0 is success, other errors count as 1
  limited,     \* does a memory limit hold for the process?
  deadline,    \* the context is past its deadline
  cancelled,   \* the context was cancelled by the caller
  cause,       \* history: why the command ended
  engine,      \* verdict of runTest
  runner       \* verdict of GoTestRunner.Run

outcomeVars == <<mutatedTree, phase, output, failed, exit, limited, deadline, cancelled, cause,
                 engine, runner>>
verdicts == <<engine, runner>>

OutcomeInit ==
  /\ mutatedTree \in {"compiles", "broken"}
  /\ phase = "starting"
  /\ output = <<>>
  /\ failed = FALSE
  /\ exit = 0
  /\ limited = FALSE
  /\ deadline = FALSE
  /\ cancelled = FALSE
  /\ cause = None
  /\ engine = None
  /\ runner = None

EndCommand(why, code) ==
  /\ phase' = "ended"
  /\ cause' = why
  /\ exit' = code

-----------------------------------------------------------------------------
(* Starting the command. *)

\* The command cannot be started, or a limit cannot be put on the process,
\* which is then killed.
FailToStart ==
  /\ phase = "starting"
  /\ \/ EndCommand("start", 1)
     \/ LimitsOn /\ Windows /\ EndCommand("limits", 1)
  /\ UNCHANGED <<mutatedTree, output, failed, limited, deadline, cancelled, verdicts>>

\* Elsewhere than on Windows applyProcessLimits does nothing and succeeds.
Start ==
  /\ phase = "starting"
  /\ phase' = "running"
  /\ limited' = (LimitsOn /\ Windows)
  /\ UNCHANGED <<mutatedTree, output, failed, exit, deadline, cancelled, cause, verdicts>>

-----------------------------------------------------------------------------
(* The process. *)

Emit(line) == output' = Append(output, line)

Log ==
  /\ phase = "running"
  /\ mutatedTree = "compiles"
  /\ ~failed
  /\ Len(output) < MaxLogs
  /\ Emit("log")
  /\ UNCHANGED <<mutatedTree, phase, failed, exit, limited, deadline, cancelled, cause, verdicts>>

FailOneTest ==
  /\ phase = "running"
  /\ mutatedTree = "compiles"
  /\ ~failed
  /\ failed' = TRUE
  /\ Emit("FAIL") \/ Emit("panic")
  /\ UNCHANGED <<mutatedTree, phase, exit, limited, deadline, cancelled, cause, verdicts>>

\* `go test` ends: its last line says FAIL unless every test passed, and says
\* that the build failed when there was nothing to run.
CompleteTests ==
  /\ phase = "running"
  /\ \/ /\ mutatedTree = "broken" /\ EndCommand("build", 1)
        /\ output' = output \o <<"build failed", "FAIL">>
     \/ mutatedTree = "compiles" /\ failed /\ EndCommand("assertion", 1) /\ Emit("FAIL")
     \/ mutatedTree = "compiles" /\ ~failed /\ EndCommand("passed", 0) /\ UNCHANGED output
  /\ UNCHANGED <<mutatedTree, failed, limited, deadline, cancelled, verdicts>>

\* The process asks for more memory than its limit; it may still say so.
Exceed ==
  /\ phase = "running"
  /\ limited
  /\ EndCommand("memory", 2)
  /\ Emit("out of memory") \/ UNCHANGED output
  /\ UNCHANGED <<mutatedTree, failed, limited, deadline, cancelled, verdicts>>

\* The context is done before the process has ended by itself.
KillCommand ==
  /\ phase = "running"
  /\ deadline \/ cancelled
  /\ EndCommand(IF deadline THEN "deadline" ELSE "cancel", 1)
  /\ UNCHANGED <<mutatedTree, output, failed, limited, deadline, cancelled, verdicts>>

\* The clock runs on until the verdict is made, also after the process ended.
PassDeadline ==
  /\ phase \in {"running", "ended"}
  /\ ~deadline
  /\ ~cancelled
  /\ deadline' = TRUE
  /\ UNCHANGED <<mutatedTree, phase, output, failed, exit, limited, cancelled, cause, verdicts>>

Cancel ==
  /\ MayCancel
  /\ phase = "running"
  /\ ~deadline
  /\ ~cancelled
  /\ cancelled' = TRUE
  /\ UNCHANGED <<mutatedTree, phase, output, failed, exit, limited, deadline, cause, verdicts>>

-----------------------------------------------------------------------------
(* The verdicts. *)

\* The output is cut before anything is looked for in it.
Text == SubSeq(output, 1, IF Len(output) < Kept THEN Len(output) ELSE Kept)
Says(line) == Contains(Text, line)

\* go test prefixes both a failed test and a failed build with FAIL.
SaysFail == Says("FAIL")

\* memoryLimitExceeded: the output says so, or the exit code is 2 and nothing
\* in the output tells of another failure.
MemoryExceeded ==
  /\ LimitsOn
  /\ exit # 0
  /\ \/ Says("out of memory")
     \/ exit = 2 /\ ~Says("panic") /\ ~Says("build failed") /\ ~SaysFail

\* Mutated form: a command that does not say FAIL has passed.
EngineVerdictByText ==
  CASE MemoryExceeded -> "memory_killed"
    [] ~MemoryExceeded /\ deadline -> "timed_out"
    [] ~MemoryExceeded /\ ~deadline /\ SaysFail -> "killed"
    [] OTHER -> "survived"

\* No build returns errProcessLimitUnsupported, so nothing is skipped for it.
EngineVerdict ==
  CASE MemoryExceeded -> "memory_killed"
    [] ~MemoryExceeded /\ deadline -> "timed_out"
    [] ~MemoryExceeded /\ ~deadline /\ exit = 0 -> "survived"
    [] ~MemoryExceeded /\ ~deadline /\ exit # 0 /\ ~SaysFail -> "compile_error"
    [] OTHER -> "killed"

RunnerVerdict ==
  CASE deadline -> "timed_out"
    [] ~deadline /\ exit = 0 -> "survived"
    [] ~deadline /\ exit # 0 /\ (Says("build failed") \/ ~SaysFail) -> "compile_error"
    [] OTHER -> "killed"

Judge ==
  /\ phase = "ended"
  /\ phase' = "judged"
  /\ engine' = EngineVerdict
  /\ runner' = RunnerVerdict
  /\ UNCHANGED <<mutatedTree, output, failed, exit, limited, deadline, cancelled, cause>>

StayJudged == phase = "judged" /\ UNCHANGED outcomeVars

OutcomeNext ==
  \/ FailToStart
  \/ Start
  \/ Log
  \/ FailOneTest
  \/ CompleteTests
  \/ Exceed
  \/ KillCommand
  \/ PassDeadline
  \/ Cancel
  \/ Judge
  \/ StayJudged

OutcomeSpec == OutcomeInit /\ [][OutcomeNext]_outcomeVars

-----------------------------------------------------------------------------

\* No verdict says that the tests passed when they did not, whatever the output
\* lost or the race between the process, the deadline and the limit came to.
SurvivedMeansPassed ==
  "survived" \in {engine, runner} => cause = "passed"

\* A process that was killed at its deadline is not counted as a failed test or
\* build, even when a test had failed in it before.
DeadlineIsNotAKill ==
  phase = "judged" /\ cause = "deadline" =>
    engine \in {"timed_out", "memory_killed"} /\ runner = "timed_out"

\* The daemon's runner names the cause, or the deadline if that has passed when
\* it looks; a command that did not start did not compile either.
RunnerNamesTheCause ==
  phase = "judged" /\ cause \in {"passed", "assertion", "build", "start", "deadline"} =>
    runner = CASE deadline -> "timed_out"
               [] ~deadline /\ cause = "passed" -> "survived"
               [] ~deadline /\ cause = "assertion" -> "killed"
               [] OTHER -> "compile_error"

\* Neither verdict claims what did not happen: the three above, of runTest
\* (test_execution.go) and GoTestRunner.Run (runner.go).
VerdictsTellWhatHappened ==
  SurvivedMeansPassed /\ DeadlineIsNotAKill /\ RunnerNamesTheCause

-----------------------------------------------------------------------------
(* Statements of the documentation the code does not keep. *)

\* A mutant that does not compile is a compile error.
BuildFailureIsCompileError ==
  phase = "judged" /\ cause = "build" /\ ~deadline => engine = "compile_error"

-----------------------------------------------------------------------------
(* What the proofs rest on: an inductive invariant. *)

Lines == {"log", "FAIL", "panic", "build failed", "out of memory"}

\* Nothing is printed before the start, nor while a tree that does not compile is built.
SilentAtFirst ==
  \/ phase = "starting" \/ cause \in {"start", "limits"}
  \/ phase = "running" /\ mutatedTree = "broken"
  => output = <<>> /\ ~failed
LogsAreBounded == phase = "running" => Len(output) <= (IF failed THEN MaxLogs + 1 ELSE MaxLogs)
OnlyBuildsSaySo == mutatedTree = "compiles" => \A i \in 1..Len(output) : output[i] # "build failed"
BuildsSaySo == cause = "build" => output = <<"build failed", "FAIL">>
FailuresSaySo ==
  cause = "assertion" =>
    /\ mutatedTree = "compiles"
    /\ Len(output) \in 1..(MaxLogs + 2) /\ output[Len(output)] = "FAIL"

\* The code of the exit and the deadline tell why the command ended.
EndedInTurn ==
  /\ phase \in {"starting", "running"} => cause = None /\ exit = 0
  /\ phase \in {"ended", "judged"} =>
        /\ cause \in {"start", "limits", "build", "assertion", "passed", "memory", "deadline", "cancel"}
        /\ exit \in Nat /\ (exit = 0 <=> cause = "passed")
        /\ cause = "deadline" => deadline

OutcomeInv ==
  /\ mutatedTree \in {"compiles", "broken"} /\ failed \in BOOLEAN /\ deadline \in BOOLEAN
  /\ phase \in {"starting", "running", "ended", "judged"}
  /\ output \in Seq(Lines)
  /\ SilentAtFirst /\ LogsAreBounded /\ OnlyBuildsSaySo /\ BuildsSaySo /\ FailuresSaySo
  /\ EndedInTurn
  /\ phase # "judged" => engine = None /\ runner = None
  /\ phase = "judged" => engine = EngineVerdict /\ runner = RunnerVerdict
=============================================================================
