--------------------------- MODULE CommandRunner ---------------------------
(***************************************************************************)
(* One guarded command of the pool (pkg/pool/runner.go): the runner waits  *)
(* for free memory, starts the command, and then takes whichever is ready  *)
(* first: the end of the command, a tick of its watchdog or the            *)
(* cancellation of its context. It answers with one exit code and a log.   *)
(***************************************************************************)
EXTENDS Verdicts, Naturals

CONSTANTS WaitsForMemory,  \* is a free-memory threshold to start at configured?
          Watches,         \* is a free-memory threshold to kill at configured?
          TreeLimit,       \* is a limit of the process tree configured?
          Windows,         \* can the process tree be measured on the platform?
          MaxFailures      \* bound: how often the memory status is unreadable

ASSUME SwitchesAssumption ==
  {WaitsForMemory, Watches, TreeLimit, Windows} \subseteq BOOLEAN
ASSUME FailuresAssumption == MaxFailures \in Nat

\* Exit codes the runner gives itself, as types.go and compare.go know them.
TimedOut == "124"
NotStarted == "125"
OutOfMemory == "126"

\* What the command itself may end with; a killed one ends with neither.
OwnCodes == {"0", "1"}

VARIABLES
  pc,         \* "enter", "wait", "launch", "select", "reap" or "returned"
  answer,     \* what Run returns: an exit code or "error"
  process,    \* "none", "running", "ended" or "killed"
  code,       \* what the process ended with
  waitCh,     \* channel: the result of cmd.Wait, None while it is empty
  tick,       \* channel of the ticker: is a tick waiting?
  free,       \* free memory: "plenty", "little" (too little to start) or
              \* "critical" (the command must be killed)
  grown,      \* has the process tree exceeded its limit?
  waited,     \* the wait for memory is past its deadline
  overdue,    \* the command is past its deadline
  cancelled,  \* the context is done
  failures,   \* how often the memory status could not be read
  log,        \* the log file: "old", "message" or "output"
  cause       \* the exit code that is given once the killed process is reaped

envVars == <<free, grown, waited, overdue, cancelled>>
vars == <<pc, answer, process, code, waitCh, tick, envVars, failures, log,
          cause>>

Init ==
  /\ pc = "enter"
  /\ answer = None
  /\ process = "none"
  /\ code = None
  /\ waitCh = None
  /\ tick = FALSE
  /\ free \in {"plenty", "little", "critical"}
  /\ grown = FALSE
  /\ waited = FALSE
  /\ overdue = FALSE
  /\ cancelled \in BOOLEAN
  /\ failures = 0
  /\ log = "old"
  /\ cause = None

-----------------------------------------------------------------------------
(* Returning. *)

Return(a) ==
  /\ pc' = "returned"
  /\ answer' = a

\* The log is written last; when that fails, so does the run.
ReturnLogged(a, text) ==
  \/ Return(a) /\ log' = text
  \/ Return("error") /\ UNCHANGED log

-----------------------------------------------------------------------------
(* Before the command: Run up to cmd.Start, and waitFreeMemory. *)

\* The directory of the log is made first, which may fail.
Enter ==
  /\ pc = "enter"
  /\ \/ cancelled /\ ReturnLogged(TimedOut, "message")
     \/ ~cancelled /\ pc' = "wait" /\ UNCHANGED <<answer, log>>
     \/ Return("error") /\ UNCHANGED log
  /\ UNCHANGED <<process, code, waitCh, tick, envVars, failures, cause>>

\* One poll of the memory status. The deadline of the wait is looked at only
\* when the status could be read, the context not at all.
Wait ==
  /\ pc = "wait"
  /\ \/ /\ ~WaitsForMemory \/ free = "plenty"
        /\ pc' = "launch"
        /\ UNCHANGED <<answer, log, failures>>
     \/ /\ WaitsForMemory
        /\ free # "plenty"
        /\ waited
        /\ ReturnLogged(NotStarted, "message")
        /\ UNCHANGED failures
     \/ /\ WaitsForMemory
        /\ failures < MaxFailures
        /\ failures' = failures + 1
        /\ UNCHANGED <<pc, answer, log>>
  /\ UNCHANGED <<process, code, waitCh, tick, envVars, cause>>

\* The old log is removed; then a log file cannot be created, or the command
\* cannot be started, or the monitor cannot be attached to it, or it runs.
Launch ==
  /\ pc = "launch"
  /\ \/ Return("error") /\ log' = "none" /\ UNCHANGED process
     \/ Return(NotStarted) /\ log' = "message" /\ UNCHANGED process
     \/ /\ Windows
        /\ TreeLimit
        /\ process' = "killed"
        /\ \/ Return(NotStarted) /\ log' = "message"
           \/ Return("error") /\ log' = "none"
     \/ pc' = "select" /\ process' = "running" /\ log' = "none" /\ UNCHANGED answer
  /\ UNCHANGED <<code, waitCh, tick, envVars, failures, cause>>

-----------------------------------------------------------------------------
(* The command, the goroutine that waits for it, and its environment. *)

Alive == process = "running"

EndProcess ==
  /\ Alive
  /\ process' = "ended"
  /\ code' \in OwnCodes
  /\ UNCHANGED <<pc, answer, waitCh, tick, envVars, failures, log, cause>>

\* The goroutine that calls cmd.Wait; it is started once the monitor is attached.
Reaped ==
  /\ pc \in {"select", "reap"}
  /\ process \in {"ended", "killed"}
  /\ waitCh = None
  /\ waitCh' = IF process = "ended" THEN code ELSE "killed"
  /\ UNCHANGED <<pc, answer, process, code, tick, envVars, failures, log, cause>>

Tick ==
  /\ pc = "select"
  /\ ~tick
  /\ tick' = TRUE
  /\ UNCHANGED <<pc, answer, process, code, waitCh, envVars, failures, log,
                 cause>>

UseMemory ==
  /\ \/ pc # "returned" /\ free' \in {"plenty", "little", "critical"} \ {free}
        /\ UNCHANGED grown
     \/ Alive /\ ~grown /\ grown' = TRUE /\ UNCHANGED free
  /\ UNCHANGED <<pc, answer, process, code, waitCh, tick, waited, overdue,
                 cancelled, failures, log, cause>>

PassDeadline ==
  /\ \/ pc = "wait" /\ ~waited /\ waited' = TRUE /\ UNCHANGED overdue
     \/ pc = "select" /\ ~overdue /\ overdue' = TRUE /\ UNCHANGED waited
  /\ UNCHANGED <<pc, answer, process, code, waitCh, tick, free, grown,
                 cancelled, failures, log, cause>>

Cancel ==
  /\ pc # "returned"
  /\ ~cancelled
  /\ cancelled' = TRUE
  /\ UNCHANGED <<pc, answer, process, code, waitCh, tick, free, grown, waited,
                 overdue, failures, log, cause>>

-----------------------------------------------------------------------------
(* The select loop: whichever is ready is taken. *)

\* Mutated form: a command that did not end by itself is taken for a success.
TakeEndAsSuccess ==
  /\ pc = "select"
  /\ waitCh # None
  /\ ReturnLogged("0", "output")
  /\ UNCHANGED <<process, code, waitCh, tick, envVars, failures, cause>>

TakeEnd ==
  /\ pc = "select"
  /\ waitCh # None
  /\ ReturnLogged(waitCh, "output")
  /\ UNCHANGED <<process, code, waitCh, tick, envVars, failures, cause>>

\* killCommand; the loop then waits for the process to be gone.
Kill(why) ==
  /\ process' = IF Alive THEN "killed" ELSE process
  /\ pc' = "reap"
  /\ cause' = why

\* The peak that is measured: none where the process tree is not watched.
OverLimit == TreeLimit /\ Windows /\ grown

\* Mutated form: the deadline moves on with every tick.
TakeTickMovesDeadline ==
  /\ pc = "select"
  /\ tick
  /\ tick' = FALSE
  /\ overdue' = FALSE
  /\ IF Watches /\ free = "critical" THEN Kill(OutOfMemory)
                                     ELSE UNCHANGED <<pc, process, cause>>
  /\ UNCHANGED <<answer, code, waitCh, free, grown, waited, cancelled, failures, log>>

\* The deadline comes first, then the free memory, if it can be read, and then
\* the process tree.
TakeTick ==
  /\ pc = "select"
  /\ tick
  /\ tick' = FALSE
  /\ \/ overdue /\ Kill(TimedOut) /\ UNCHANGED failures
     \/ /\ ~overdue
        /\ Watches
        /\ free = "critical"
        /\ Kill(OutOfMemory)
        /\ UNCHANGED failures
     \/ /\ ~overdue
        /\ \/ ~(Watches /\ free = "critical") /\ UNCHANGED failures
           \/ Watches /\ failures < MaxFailures /\ failures' = failures + 1
        /\ IF OverLimit THEN Kill(OutOfMemory) ELSE UNCHANGED <<pc, process, cause>>
  /\ UNCHANGED <<answer, code, waitCh, envVars, log>>

\* Mutated form: the run returns without the killed process.
TakeCancelAtOnce ==
  /\ pc = "select"
  /\ cancelled
  /\ ReturnLogged(TimedOut, "message")
  /\ UNCHANGED <<process, code, waitCh, tick, envVars, failures, cause>>

TakeCancel ==
  /\ pc = "select"
  /\ cancelled
  /\ Kill(TimedOut)
  /\ UNCHANGED <<answer, code, waitCh, tick, envVars, failures, log>>

\* Mutated form: the message of a killed command is not written.
ReapSilently ==
  /\ pc = "reap"
  /\ waitCh # None
  /\ Return(cause)
  /\ UNCHANGED <<log, process, code, waitCh, tick, envVars, failures, cause>>

\* <-waitCh after a kill: how the process ended is not looked at any more.
Reap ==
  /\ pc = "reap"
  /\ waitCh # None
  /\ ReturnLogged(cause, "message")
  /\ UNCHANGED <<process, code, waitCh, tick, envVars, failures, cause>>

Returned == pc = "returned" /\ UNCHANGED vars

RunnerStep == Enter \/ Wait \/ Launch \/ TakeEnd \/ TakeTick \/ TakeCancel \/ Reap

Next ==
  \/ RunnerStep
  \/ EndProcess
  \/ Reaped
  \/ Tick
  \/ UseMemory
  \/ PassDeadline
  \/ Cancel
  \/ Returned

Spec == Init /\ [][Next]_vars

\* The runner and the goroutine that waits for the command run on, the ticker
\* ticks and the clock reaches the deadlines. The command need not end, and
\* neither the memory nor the caller has to do anything.
FairSpec ==
  /\ Spec
  /\ WF_vars(RunnerStep)
  /\ WF_vars(Reaped)
  /\ WF_vars(Tick)
  /\ WF_vars(PassDeadline)

-----------------------------------------------------------------------------

Answers == OwnCodes \cup {TimedOut, NotStarted, OutOfMemory, "error"}

TypeOK ==
  /\ pc \in {"enter", "wait", "launch", "select", "reap", "returned"}
  /\ answer \in Answers \cup {None}
  /\ process \in {"none", "running", "ended", "killed"}
  /\ code \in OwnCodes \cup {None}
  /\ waitCh \in OwnCodes \cup {None, "killed"}
  /\ tick \in BOOLEAN
  /\ free \in {"plenty", "little", "critical"}
  /\ grown \in BOOLEAN
  /\ waited \in BOOLEAN
  /\ overdue \in BOOLEAN
  /\ cancelled \in BOOLEAN
  /\ failures \in 0 .. MaxFailures
  /\ log \in {"old", "none", "message", "output"}
  /\ cause \in {None, TimedOut, OutOfMemory}

\* The exit code says what became of the command, whatever was ready together
\* in the select: a code of the command's own is the one it ended with, and the
\* codes of the runner have their reason. Callers know the command only by it.
ExitCodeTellsWhy ==
  pc = "returned" =>
    /\ answer \in OwnCodes => process = "ended" /\ code = answer
    /\ answer = TimedOut => overdue \/ cancelled
    /\ answer = NotStarted => process \in {"none", "killed"}
    /\ answer = OutOfMemory => Watches \/ OverLimit
    /\ process = "killed" => answer \notin OwnCodes

\* Run never returns while the command runs, not even when its log fails.
NothingLeftRunning ==
  pc = "returned" => process # "running"

\* The log that is there afterwards is of this command: its output when it ended
\* by itself, otherwise the runner's reason. Statuses are read from it.
LogIsOfThisCommand ==
  /\ process # "none" => log # "old"
  /\ pc = "returned" /\ answer # "error" =>
       log = IF answer \in OwnCodes THEN "output" ELSE "message"

\* What the proofs rest on: how far the process is at each point of the runner,
\* that the channel holds how it ended, and that a kill has its reason.
IInv ==
  /\ TypeOK
  /\ pc \in {"enter", "wait", "launch"} => process = "none"
  /\ pc = "select" => process \in {"running", "ended"}
  /\ pc = "reap" => process \in {"ended", "killed"} /\ cause # None
  /\ process = "none" => waitCh = None
  /\ process = "running" => waitCh = None
  /\ process = "killed" => waitCh \in {None, "killed"}
  /\ process = "ended" => code # None /\ waitCh \in {None, code}
  /\ cause = TimedOut => overdue \/ cancelled
  /\ cause = OutOfMemory => Watches \/ OverLimit
  /\ ExitCodeTellsWhy
  /\ NothingLeftRunning
  /\ LogIsOfThisCommand

\* Run returns, also when the command never ends by itself and the memory status
\* cannot be read MaxFailures times.
RunReturns == <>(pc = "returned")

=============================================================================
