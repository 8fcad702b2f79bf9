------------------------------ MODULE Campaign ------------------------------
(***************************************************************************)
(* A sequence of pool campaigns over one output directory                  *)
(* (pkg/pool/campaign.go) with the runs they nest (compare.go,             *)
(* benchmark_run.go, smoke.go). A campaign goes through its jobs, a job    *)
(* through its rows: a tool on a repository, or an entry of a corpus.      *)
(* Both keep a summary file they can be resumed from. The process may be   *)
(* killed and a write may fail at any moment; the campaign file may be     *)
(* edited between two campaigns; the checkout of a repository that is to   *)
(* be compared may be missing in any session. A row's command is taken as  *)
(* CommandRunner has it.                                                   *)
(***************************************************************************)
EXTENDS Naturals, Sequences, FiniteSets

CONSTANTS Kind,      \* kind of each job: "smoke", "compare" or "benchmark"
          Disabled,  \* the jobs that are disabled
          Resuming,  \* the jobs that ask for a resumed nested run themselves
          RepoOf,    \* the repository of each row of a job
          MaxEdits,  \* bound: how often the campaign file is edited
          MaxMissing \* bound: how many rows of missing checkouts a summary holds

ASSUME KindAssumption == Kind \in Seq({"smoke", "compare", "benchmark"})
ASSUME SetsAssumption == Disabled \subseteq DOMAIN Kind /\ Resuming \subseteq DOMAIN Kind
ASSUME SizesAssumption == MaxEdits \in Nat /\ MaxMissing \in Nat

\* The rows of a repository, one for each tool, stand next to each other.
ASSUME RowsAssumption ==
  /\ RepoOf \in Seq(Nat)
  /\ \A i, k \in DOMAIN RepoOf : i <= k => RepoOf[i] <= RepoOf[k]

Jobs == DOMAIN Kind
NRows == Len(RepoOf)
Rows == 1 .. NRows
Versions == 0 .. MaxEdits

\* A summary file. os.WriteFile writes in place: a kill or an error leaves a
\* torn file, which is no JSON any more.
Absent == [state |-> "absent", entries |-> <<>>]
Torn == [state |-> "torn", entries |-> <<>>]
Whole(entries) == [state |-> "whole", entries |-> entries]

VARIABLES
  edits,     \* how often the campaign file was edited
  version,   \* the definition of each job in it: the edit that last changed it
  summary,   \* campaign-summary.json: the results of jobs
  ledger,    \* summary.json of each job: its rows
  phase,     \* "stopped", "running", "done" or "failed"
  resume,    \* was the campaign started with --resume?
  resumed,   \* the results loaded from the summary
  at,        \* the job that is due
  results,   \* the results of this campaign
  nested,    \* is the run of the due job under way?
  kept,      \* rows that run has loaded from its summary
  rows,      \* rows of that run
  next       \* the row its loop has come to

nestedVars == <<nested, kept, rows, next>>
vars == <<edits, version, summary, ledger, phase, resume, resumed, at, results, nestedVars>>

\* A result of a job. "key" hashes the definition of the job; "origin" is not in
\* the file: the definition under which the nested run was made.
JobResult(job, status, key, again, origin) ==
  [job |-> job, status |-> status, key |-> key, resumed |-> again, origin |-> origin]

\* A row; "good" says whether an entry of a benchmark passed and is TRUE in the
\* other kinds, which do not look at it. "origin" again is not in the file.
Row(row, good, origin) ==
  [row |-> row, good |-> good, origin |-> origin, missing |-> FALSE]

\* The row of a repository whose checkout is missing, named by its first row.
MissingRow(row, origin) == [Row(row, TRUE, origin) EXCEPT !.missing = TRUE]

Init ==
  /\ edits = 0
  /\ version = [j \in Jobs |-> 0]
  /\ summary = Absent
  /\ ledger = [j \in Jobs |-> Absent]
  /\ phase = "stopped"
  /\ resume = FALSE
  /\ resumed = <<>>
  /\ at = 1
  /\ results = <<>>
  /\ nested = FALSE
  /\ kept = <<>>
  /\ rows = <<>>
  /\ next = 1

Running == phase = "running"

\* A campaign that ends or is killed leaves its files.
Forget(p) ==
  /\ phase' = p
  /\ resume' = FALSE
  /\ resumed' = <<>>
  /\ at' = 1
  /\ nested' = FALSE
  /\ kept' = <<>>
  /\ rows' = <<>>
  /\ next' = 1

-----------------------------------------------------------------------------
(* The campaign: RunCampaign. *)

\* A torn summary cannot be resumed from.
Start(again) ==
  /\ ~Running
  /\ results' = <<>>
  /\ \/ again /\ summary.state = "torn" /\ Forget("failed")
     \/ /\ ~(again /\ summary.state = "torn")
        /\ phase' = "running"
        /\ resume' = again
        /\ resumed' = IF again THEN summary.entries ELSE <<>>
        /\ at' = 1
        /\ nested' = FALSE
        /\ kept' = <<>>
        /\ rows' = <<>>
        /\ next' = 1
  /\ UNCHANGED <<edits, version, summary, ledger>>

\* The result of the due job is appended and the summary written anew; a write
\* that fails, before the file is opened or after, ends the campaign.
Record(result) ==
  /\ results' = Append(results, result)
  /\ \/ /\ summary' = Whole(results')
        /\ at' = at + 1
        /\ nested' = FALSE
        /\ kept' = <<>>
        /\ rows' = <<>>
        /\ next' = 1
        /\ UNCHANGED <<phase, resume, resumed>>
     \/ /\ summary' \in {summary, Torn}
        /\ Forget("failed")
  /\ UNCHANGED <<edits, version>>

\* Mutated form: the resume key is not compared.
ReusableByName(r) ==
  /\ r.job = at
  /\ r.status \in {"ok", "skipped"}

\* A result is taken over when the job was done under the same definition.
Reusable(r) ==
  /\ r.job = at
  /\ r.status \in {"ok", "skipped"}
  /\ r.key = version[at]

Reused == {k \in DOMAIN resumed : Reusable(resumed[k])}

Due(job) ==
  /\ Running
  /\ ~nested
  /\ at = job

SkipJob(j) ==
  /\ Due(j)
  /\ j \in Disabled
  /\ Record(JobResult(j, "skipped", version[j], FALSE, version[j]))
  /\ UNCHANGED ledger

ReuseJob(j) ==
  /\ Due(j)
  /\ j \notin Disabled
  /\ \E k \in Reused : Record([resumed[k] EXCEPT !.resumed = TRUE])
  /\ UNCHANGED ledger

EndJob(status) == Record(JobResult(at, status, version[at], FALSE, version[at]))

-----------------------------------------------------------------------------
(* The nested runs: RunSmoke, RunCompare and RunBenchmark. *)

Resumes(j) == resume \/ j \in Resuming

\* hasCompareResult: a row of a missing checkout is of no tool.
HasRow(list, row) == \E k \in DOMAIN list : list[k].row = row /\ ~list[k].missing

Missed(list, row) ==
  \E k \in DOMAIN list : list[k].missing /\ RepoOf[list[k].row] = RepoOf[row]

\* Mutated form: a resumed comparison starts with no rows.
OpenJobEmpty(j) ==
  /\ Due(j)
  /\ j \notin Disabled
  /\ Reused = {}
  /\ nested' = TRUE
  /\ next' = 1
  /\ rows' = <<>>
  /\ kept' = IF Resumes(j) /\ Kind[j] = "benchmark" THEN ledger[j].entries ELSE <<>>
  /\ UNCHANGED <<edits, version, summary, ledger, phase, resume, resumed, at, results>>

\* A comparison goes on with the rows of its summary, and with none when that
\* cannot be read; a benchmark starts anew, looks rows up in its summary, and
\* fails when that cannot be read. A smoke run is never resumed. Any of them may
\* fail before its first row: its manifest or a binary is missing.
OpenJob(j) ==
  /\ Due(j)
  /\ j \notin Disabled
  /\ Reused = {}
  /\ \/ EndJob("failed")
     \/ /\ ~(Kind[j] = "benchmark" /\ Resumes(j) /\ ledger[j].state = "torn")
        /\ nested' = TRUE
        /\ next' = 1
        /\ rows' = IF Resumes(j) /\ Kind[j] = "compare" THEN ledger[j].entries ELSE <<>>
        /\ kept' = IF Resumes(j) /\ Kind[j] = "benchmark" THEN ledger[j].entries ELSE <<>>
        /\ UNCHANGED <<edits, version, summary, phase, resume, resumed, at, results>>
  /\ UNCHANGED ledger

\* The file may have been torn when its write fails.
FailWrite(j) == \E f \in {ledger[j], Torn} : ledger' = [ledger EXCEPT ![j] = f]

\* A row is appended and the loop goes on after it. Smoke runs write their summary
\* at the end only; when a write fails the nested run fails with it, and the
\* campaign goes on.
RecordRow(r, after) ==
  \/ /\ rows' = Append(rows, r)
     /\ next' = after
     /\ ledger' = IF Kind[at] = "smoke" THEN ledger
                                        ELSE [ledger EXCEPT ![at] = Whole(rows')]
     /\ UNCHANGED <<edits, version, summary, phase, resume, resumed, at, results, nested, kept>>
  \/ /\ Kind[at] # "smoke"
     /\ FailWrite(at)
     /\ EndJob("failed")

Outcomes == IF Kind[at] = "benchmark" THEN BOOLEAN ELSE {TRUE}

NextRow(row) == Running /\ nested /\ next = row

\* Mutated form: a row that is in the summary already is run again.
RunRowAgain(row) ==
  /\ NextRow(row)
  /\ ~HasRow(kept, row)
  /\ \/ \E good \in Outcomes : RecordRow(Row(row, good, version[at]), row + 1)
     \/ EndJob("failed") /\ UNCHANGED ledger

\* The command of a row is run; when the runner returns an error, so does the
\* nested run.
RunRow(row) ==
  /\ NextRow(row)
  /\ ~HasRow(rows, row)
  /\ ~HasRow(kept, row)
  /\ \/ \E good \in Outcomes : RecordRow(Row(row, good, version[at]), row + 1)
     \/ EndJob("failed") /\ UNCHANGED ledger

\* A benchmark takes over what its summary says of a row, good or not.
KeepRow(row) ==
  /\ NextRow(row)
  /\ \E k \in DOMAIN kept :
       kept[k].row = row /\ ~kept[k].missing /\ RecordRow(kept[k], row + 1)

\* A resumed comparison passes over a row it has; the output directory of the
\* repository is made all the same, which may fail.
PassRow(row) ==
  /\ NextRow(row)
  /\ HasRow(rows, row)
  /\ \/ /\ next' = row + 1
        /\ UNCHANGED <<edits, version, summary, phase, resume, resumed, at, results,
                       nested, kept, rows>>
     \/ EndJob("failed")
  /\ UNCHANGED ledger

\* The rows of a repository are those from its first one to the last before "after".
Span(row, after) ==
  /\ \A other \in Rows : other < row => RepoOf[other] # RepoOf[row]
  /\ \A other \in Rows : row <= other /\ other < after => RepoOf[other] = RepoOf[row]
  /\ after \in Rows => RepoOf[after] # RepoOf[row]

\* A comparison that comes to a repository whose checkout is missing records that,
\* whatever its summary holds already, and goes on with the next repository.
MissRepo(row) ==
  /\ NextRow(row)
  /\ Kind[at] = "compare"
  /\ Cardinality({k \in DOMAIN rows : rows[k].missing}) < MaxMissing
  /\ \E after \in row + 1 .. NRows + 1 :
       Span(row, after) /\ RecordRow(MissingRow(row, version[at]), after)

AllGood == \A k \in DOMAIN rows : rows[k].good

\* Mutated form: a benchmark with failed rows is reported as done.
CloseJobOk ==
  /\ Running /\ nested
  /\ next = NRows + 1
  /\ ledger' = [ledger EXCEPT ![at] = Whole(rows)]
  /\ EndJob("ok")

\* The summary is written once more. Only a benchmark fails on its rows, only a
\* comparison has further files to write, which may fail.
CloseJob ==
  /\ Running /\ nested
  /\ next = NRows + 1
  /\ \/ /\ ledger' = [ledger EXCEPT ![at] = Whole(rows)]
        /\ \/ EndJob(IF Kind[at] = "benchmark" /\ ~AllGood THEN "failed" ELSE "ok")
           \/ Kind[at] = "compare" /\ EndJob("failed")
     \/ /\ FailWrite(at)
        /\ EndJob("failed")

Finish ==
  /\ Running
  /\ at = Len(Kind) + 1
  /\ Forget("done")
  /\ UNCHANGED <<edits, version, summary, ledger, results>>

-----------------------------------------------------------------------------
(* The environment. *)

\* A kill, between two steps or in the middle of a write.
Crash ==
  /\ Running
  /\ Forget("stopped")
  /\ \/ UNCHANGED <<summary, ledger>>
     \/ summary' = Torn /\ UNCHANGED ledger
     \/ nested /\ ledger' = [ledger EXCEPT ![at] = Torn] /\ UNCHANGED summary
  /\ results' = <<>>
  /\ UNCHANGED <<edits, version>>

\* The campaign file is read once, at the start.
Edit(j) ==
  /\ ~Running
  /\ edits < MaxEdits
  /\ edits' = edits + 1
  /\ version' = [version EXCEPT ![j] = edits']
  /\ UNCHANGED <<summary, ledger, phase, resume, resumed, at, results, nestedVars>>

Next ==
  \/ \E again \in BOOLEAN : Start(again)
  \/ \E j \in Jobs : SkipJob(j) \/ ReuseJob(j) \/ OpenJob(j) \/ Edit(j)
  \/ \E row \in Rows : RunRow(row) \/ KeepRow(row) \/ PassRow(row) \/ MissRepo(row)
  \/ CloseJob
  \/ Finish
  \/ Crash

Spec == Init /\ [][Next]_vars

-----------------------------------------------------------------------------

JobResults ==
  [job : Jobs, status : {"ok", "failed", "skipped"}, key : Versions, resumed : BOOLEAN,
   origin : Versions]
RowResults == [row : Rows, good : BOOLEAN, origin : Versions, missing : BOOLEAN]
Files(entries) == [state : {"absent", "torn", "whole"}, entries : Seq(entries)]

TypeOK ==
  /\ edits \in Versions
  /\ version \in [Jobs -> 0 .. edits]
  /\ summary \in Files(JobResults)
  /\ ledger \in [Jobs -> Files(RowResults)]
  /\ phase \in {"stopped", "running", "done", "failed"}
  /\ resume \in BOOLEAN
  /\ resumed \in Seq(JobResults)
  /\ at \in 1 .. Len(Kind) + 1
  /\ results \in Seq(JobResults)
  /\ nested \in BOOLEAN
  /\ kept \in Seq(RowResults)
  /\ rows \in Seq(RowResults)
  /\ next \in 1 .. NRows + 1

\* A result that a campaign takes over comes from a run that succeeded, made
\* under the definition the job has now, after any number of kills, edits and
\* resumed campaigns in between: a failed or redefined job is run again.
ResumedJobsAreCurrent ==
  Running =>
    \A k \in DOMAIN results :
      results[k].resumed =>
        results[k].status = "ok" /\ results[k].origin = version[results[k].job]

\* No summary lists a row that was run twice, however often its run was killed and
\* resumed and whatever checkouts came and went: a tool that was recorded for a
\* repository is not run on it again by a resumed run. The rows that say a checkout
\* is missing are left aside: each session appends them again (compare.go:150-162).
RowsAreRecordedOnce ==
  \A j \in Jobs :
    LET list == ledger[j].entries IN
    \A i, k \in DOMAIN list :
      list[i].row = list[k].row /\ ~list[i].missing /\ ~list[k].missing => i = k

\* A comparison that is resumed keeps the rows it had, in their order.
ResumedComparisonsKeepRows ==
  [][\A j \in Jobs :
       /\ Kind[j] = "compare"
       /\ Running /\ nested /\ at = j /\ Resumes(j)
       /\ ledger'[j].state = "whole"
       => /\ Len(ledger[j].entries) <= Len(ledger'[j].entries)
          /\ \A k \in DOMAIN ledger[j].entries :
               ledger'[j].entries[k] = ledger[j].entries[k]]_vars

\* What a job leaves that has run to its end: every row, or for a comparison that
\* its checkout was missing, and no failed entry in a benchmark.
Complete(j, list) ==
  /\ \A row \in Rows : HasRow(list, row) \/ (Kind[j] = "compare" /\ Missed(list, row))
  /\ Kind[j] = "benchmark" => \A k \in DOMAIN list : list[k].good

\* A result is that of its job, and says "ok" of a job run to its end only.
Settled(j) ==
  /\ results[j].job = j
  /\ results[j].status = "ok" /\ ~results[j].resumed => Complete(j, ledger[j].entries)

\* What a campaign that goes to its end leaves: one result per job in the order
\* of the campaign file, and a benchmark counted as done has no failed entry. A
\* campaign without jobs writes no summary.
DoneIsRecorded ==
  phase = "done" =>
    /\ Jobs # {} => summary = Whole(results)
    /\ Len(results) = Len(Kind)
    /\ \A j \in Jobs : Settled(j)

\* What the proofs rest on: wherever a result is kept, its key is that of the
\* definition it was made under, only a disabled job is skipped, and what was
\* taken over had succeeded; a list of rows names none twice, for a benchmark and
\* a smoke run has no row ahead of its loop and a comparison keeps none aside.
Honest(list) ==
  \A k \in DOMAIN list :
    /\ list[k].origin = list[k].key
    /\ list[k].resumed => list[k].status = "ok"
    /\ list[k].status = "skipped" => list[k].job \in Disabled

Distinct(list) ==
  \A i, k \in DOMAIN list :
    list[i].row = list[k].row /\ ~list[i].missing /\ ~list[k].missing => i = k

IInv ==
  /\ TypeOK
  /\ Honest(summary.entries)
  /\ Honest(resumed)
  /\ Honest(results)
  /\ Running => \A k \in DOMAIN results : results[k].key = version[results[k].job]
  /\ nested => at \in Jobs
  /\ nested => IF Kind[at] = "compare" THEN kept = <<>>
                                       ELSE \A k \in DOMAIN rows : rows[k].row < next
  /\ Distinct(rows)
  /\ \A j \in Jobs : Distinct(ledger[j].entries)

\* Beyond it: the summary of a running campaign holds the results of the jobs
\* before the one that is due, each settled by the rows its job has left, a nested
\* run has a row of all that it has passed, and a resumed comparison holds the rows
\* of its summary.
Progress ==
  /\ Running => Len(results) = at - 1 /\ (at > 1 => summary = Whole(results))
  /\ Running => \A j \in DOMAIN results : Settled(j)
  /\ DoneIsRecorded
  /\ nested => Running
  /\ nested => \A row \in Rows : row < next =>
                 HasRow(rows, row) \/ (Kind[at] = "compare" /\ Missed(rows, row))
  /\ nested /\ Kind[at] = "compare" /\ Resumes(at) => rows = ledger[at].entries

-----------------------------------------------------------------------------
(* A statement of the tests the code does not keep. *)

\* A job whose definition has changed is executed: every row of a job that is
\* reported as done, and not as resumed, comes from the definition it was done
\* under.
RedefinedJobsAreExecuted ==
  phase = "done" =>
    \A j \in Jobs \ Disabled :
      results[j].status = "ok" /\ ~results[j].resumed =>
        \A k \in DOMAIN ledger[j].entries : ledger[j].entries[k].origin = results[j].origin

=============================================================================
