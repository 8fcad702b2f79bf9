--------------------------- MODULE Campaign_proofs ---------------------------
(***************************************************************************)
(* What holds of every sequence of campaigns: for any jobs, any number of  *)
(* rows, edits and missing checkouts.                                      *)
(***************************************************************************)
EXTENDS Campaign, TLAPS

\* The jobs are numbered from one.
LEMMA JobsAreNumbered == Jobs = 1 .. Len(Kind) /\ Len(Kind) \in Nat
BY KindAssumption DEF Jobs

\* So are the rows.
LEMMA RowsAreNumbered == NRows \in Nat /\ 1 \in 1 .. NRows + 1 /\ NRows = Len(RepoOf)
BY RowsAssumption DEF NRows

\* Appending a result of its own definition keeps a list honest.
LEMMA AppendHonest ==
  ASSUME NEW list \in Seq(JobResults), NEW r \in JobResults,
         Honest(list),
         r.origin = r.key,
         r.resumed => r.status = "ok",
         r.status = "skipped" => r.job \in Disabled
  PROVE  Append(list, r) \in Seq(JobResults) /\ Honest(Append(list, r))
<1> DEFINE longer == Append(list, r)
<1>1. longer \in Seq(JobResults) /\ Len(longer) = Len(list) + 1
  OBVIOUS
<1>2. \A k \in 1 .. Len(list) : longer[k] = list[k]
  OBVIOUS
<1>3. longer[Len(list) + 1] = r
  OBVIOUS
<1>4. \A k \in DOMAIN longer : k \in 1 .. Len(list) \/ k = Len(list) + 1
  BY <1>1
<1>5. DOMAIN list = 1 .. Len(list)
  OBVIOUS
<1> QED
  BY <1>1, <1>2, <1>3, <1>4, <1>5 DEF Honest

\* Appending a row that the run has no result of keeps its rows distinct.
LEMMA AppendDistinct ==
  ASSUME NEW list \in Seq(RowResults), NEW r \in RowResults,
         Distinct(list), r.missing \/ ~HasRow(list, r.row)
  PROVE  Append(list, r) \in Seq(RowResults) /\ Distinct(Append(list, r))
<1> DEFINE longer == Append(list, r)
<1>1. longer \in Seq(RowResults) /\ Len(longer) = Len(list) + 1
  OBVIOUS
<1>2. \A k \in 1 .. Len(list) : longer[k] = list[k]
  OBVIOUS
<1>3. longer[Len(list) + 1] = r
  OBVIOUS
<1>4. \A k \in DOMAIN longer : k \in 1 .. Len(list) \/ k = Len(list) + 1
  BY <1>1
<1>5. DOMAIN list = 1 .. Len(list)
  OBVIOUS
<1> QED
  BY <1>1, <1>2, <1>3, <1>4, <1>5 DEF Distinct, HasRow

\* The files a kill or an error leaves are files.
LEMMA FilesAreFiles ==
  /\ Absent \in Files(JobResults) /\ Absent \in Files(RowResults)
  /\ Torn \in Files(JobResults) /\ Torn \in Files(RowResults)
  /\ \A list \in Seq(JobResults) : Whole(list) \in Files(JobResults)
  /\ \A list \in Seq(RowResults) : Whole(list) \in Files(RowResults)
  /\ Honest(<<>>) /\ Distinct(<<>>)
BY DEF Absent, Torn, Whole, Files, Honest, Distinct

LEMMA InitHolds == Init => IInv
<1> SUFFICES ASSUME Init PROVE IInv
  OBVIOUS
<1>1. edits \in Versions /\ version \in [Jobs -> 0 .. edits]
  BY SizesAssumption DEF Init, Versions
<1>2. summary \in Files(JobResults) /\ ledger \in [Jobs -> Files(RowResults)]
  BY FilesAreFiles DEF Init
<1>3. at \in 1 .. Len(Kind) + 1
  BY JobsAreNumbered DEF Init
<1>4. /\ resumed \in Seq(JobResults) /\ results \in Seq(JobResults)
      /\ kept \in Seq(RowResults) /\ rows \in Seq(RowResults)
  BY DEF Init
<1>5. TypeOK
  BY <1>1, <1>2, <1>3, <1>4, RowsAreNumbered DEF Init, TypeOK
<1>6. \A j \in Jobs : Distinct(ledger[j].entries)
  BY FilesAreFiles DEF Init, Absent
<1> QED
  BY <1>5, <1>6, FilesAreFiles DEF Init, IInv, Absent, Running

-----------------------------------------------------------------------------
(* Ending a job: what is recorded, and the files it leaves. *)

\* A campaign that is over keeps honest files, whichever way it ended.
LEMMA ForgetHolds ==
  ASSUME IInv, NEW p \in {"stopped", "done", "failed"}, Forget(p),
         edits' = edits, version' = version,
         summary' \in Files(JobResults), Honest(summary'.entries),
         results' \in Seq(JobResults), Honest(results'),
         ledger' \in [Jobs -> Files(RowResults)],
         \A j \in Jobs : Distinct(ledger'[j].entries)
  PROVE  IInv'
<1>1. at' \in 1 .. Len(Kind) + 1
  BY JobsAreNumbered DEF Forget
<1>2. /\ resumed' \in Seq(JobResults)
      /\ kept' \in Seq(RowResults) /\ rows' \in Seq(RowResults)
  BY DEF Forget
<1>3. TypeOK'
  BY <1>1, <1>2, RowsAreNumbered DEF IInv, TypeOK, Forget
<1>4. Honest(resumed') /\ Distinct(rows')
  BY FilesAreFiles DEF Forget
<1> QED
  BY <1>3, <1>4 DEF IInv, Forget, Running

LEMMA RecordHolds ==
  ASSUME IInv, Running, at \in Jobs, NEW r \in JobResults, Record(r),
         r.origin = r.key, r.key = version[r.job],
         r.resumed => r.status = "ok",
         r.status = "skipped" => r.job \in Disabled,
         ledger' \in [Jobs -> Files(RowResults)],
         \A j \in Jobs : Distinct(ledger'[j].entries)
  PROVE  IInv'
<1>1. results' \in Seq(JobResults) /\ Honest(results')
  BY AppendHonest DEF Record, IInv, TypeOK
<1>2. CASE summary' \in {summary, Torn} /\ Forget("failed")
  <2>1. summary' \in Files(JobResults) /\ Honest(summary'.entries)
    BY <1>2, FilesAreFiles DEF Torn, IInv, TypeOK
  <2> QED
    BY <1>1, <1>2, <2>1, ForgetHolds DEF Record
<1>3. CASE /\ summary' = Whole(results') /\ at' = at + 1
           /\ nested' = FALSE /\ kept' = <<>> /\ rows' = <<>> /\ next' = 1
           /\ UNCHANGED <<phase, resume, resumed>>
  <2>1. summary' \in Files(JobResults) /\ Honest(summary'.entries)
    BY <1>1, <1>3, FilesAreFiles DEF Whole
  <2>2. at' \in 1 .. Len(Kind) + 1
    BY <1>3, JobsAreNumbered
  <2>3. kept' \in Seq(RowResults) /\ rows' \in Seq(RowResults) /\ Distinct(rows')
    BY <1>3, FilesAreFiles
  <2>4. TypeOK'
    BY <1>1, <1>3, <2>1, <2>2, <2>3, RowsAreNumbered DEF Record, IInv, TypeOK
  <2>5. \A k \in DOMAIN results' : results'[k].key = version'[results'[k].job]
    <3>1. \A k \in DOMAIN results' : k \in DOMAIN results \/ results'[k] = r
      BY DEF Record, IInv, TypeOK
    <3>2. \A k \in DOMAIN results : results'[k] = results[k]
      BY DEF Record, IInv, TypeOK
    <3>3. \A k \in DOMAIN results : results[k].key = version[results[k].job]
      BY DEF IInv
    <3> QED
      BY <3>1, <3>2, <3>3 DEF Record
  <2> QED
    BY <1>1, <1>3, <2>1, <2>3, <2>4, <2>5 DEF IInv
<1> QED
  BY <1>2, <1>3 DEF Record

\* The result of the job that is due.
LEMMA EndJobHolds ==
  ASSUME IInv, Running, at \in Jobs, NEW s \in {"ok", "failed"}, EndJob(s),
         ledger' \in [Jobs -> Files(RowResults)],
         \A j \in Jobs : Distinct(ledger'[j].entries)
  PROVE  IInv'
<1> DEFINE r == JobResult(at, s, version[at], FALSE, version[at])
<1>1. version[at] \in Versions
  BY SizesAssumption DEF IInv, TypeOK, Versions
<1>2. r \in JobResults
  BY <1>1 DEF JobResult, JobResults
<1>3. /\ r.origin = r.key /\ r.key = version[r.job]
      /\ ~r.resumed /\ r.status # "skipped"
  BY DEF JobResult
<1>4. Record(r)
  BY DEF EndJob
<1> QED
  BY <1>2, <1>3, <1>4, RecordHolds

\* The summary of the due job is written anew, or torn.
LEMMA LedgerHolds ==
  ASSUME IInv, NEW f \in Files(RowResults), Distinct(f.entries),
         ledger' = [ledger EXCEPT ![at] = f]
  PROVE  /\ ledger' \in [Jobs -> Files(RowResults)]
         /\ \A j \in Jobs : Distinct(ledger'[j].entries)
BY DEF IInv, TypeOK

LEMMA SameLedgerHolds ==
  ASSUME IInv, ledger' = ledger
  PROVE  /\ ledger' \in [Jobs -> Files(RowResults)]
         /\ \A j \in Jobs : Distinct(ledger'[j].entries)
BY DEF IInv, TypeOK

-----------------------------------------------------------------------------
(* The actions. *)

\* What is loaded is what was written.
LEMMA StartHolds == ASSUME IInv, NEW again \in BOOLEAN, Start(again) PROVE IInv'
<1>1. summary.entries \in Seq(JobResults) /\ Honest(summary.entries)
  BY DEF IInv, TypeOK, Files
<1>2. results' \in Seq(JobResults) /\ Honest(results')
  BY FilesAreFiles DEF Start
<1>3. CASE Forget("failed")
  BY <1>2, <1>3, ForgetHolds, SameLedgerHolds DEF Start, IInv, TypeOK
<1>4. CASE /\ phase' = "running"
           /\ resume' = again
           /\ resumed' = IF again THEN summary.entries ELSE <<>>
           /\ at' = 1
           /\ nested' = FALSE
           /\ kept' = <<>>
           /\ rows' = <<>>
           /\ next' = 1
  <2>1. resumed' \in Seq(JobResults) /\ Honest(resumed')
    BY <1>1, <1>4, FilesAreFiles
  <2>2. at' \in 1 .. Len(Kind) + 1
    BY <1>4, JobsAreNumbered
  <2>3. kept' \in Seq(RowResults) /\ rows' \in Seq(RowResults) /\ Distinct(rows')
    BY <1>4, FilesAreFiles
  <2>4. TypeOK'
    BY <1>2, <1>4, <2>1, <2>2, <2>3, RowsAreNumbered DEF Start, IInv, TypeOK
  <2>5. DOMAIN results' = {}
    BY DEF Start
  <2> QED
    BY <1>2, <1>4, <2>1, <2>3, <2>4, <2>5 DEF Start, IInv
<1> QED
  BY <1>3, <1>4 DEF Start

LEMMA SkipJobHolds == ASSUME IInv, NEW j \in Jobs, SkipJob(j) PROVE IInv'
<1> DEFINE r == JobResult(j, "skipped", version[j], FALSE, version[j])
<1>1. version[j] \in Versions
  BY SizesAssumption DEF IInv, TypeOK, Versions
<1>2. r \in JobResults
  BY <1>1 DEF JobResult, JobResults
<1>3. /\ r.origin = r.key /\ r.key = version[r.job]
      /\ ~r.resumed /\ r.job \in Disabled
  BY DEF JobResult, SkipJob
<1>4. Running /\ at \in Jobs /\ Record(r) /\ ledger' = ledger
  BY DEF SkipJob, Due
<1> QED
  BY <1>2, <1>3, <1>4, RecordHolds, SameLedgerHolds

\* A result that can be reused is none of a disabled job, and so had succeeded.
LEMMA ReuseJobHolds == ASSUME IInv, NEW j \in Jobs, ReuseJob(j) PROVE IInv'
<1>1. PICK k \in Reused : Record([resumed[k] EXCEPT !.resumed = TRUE])
  BY DEF ReuseJob
<1> DEFINE r == [resumed[k] EXCEPT !.resumed = TRUE]
<1>2. resumed[k] \in JobResults /\ k \in DOMAIN resumed
  BY <1>1 DEF Reused, IInv, TypeOK
<1>3. /\ r \in JobResults /\ r.status = resumed[k].status /\ r.job = resumed[k].job
      /\ r.key = resumed[k].key /\ r.origin = resumed[k].origin
  BY <1>2 DEF JobResults
<1>4. resumed[k].status \in {"ok", "skipped"} /\ r.job = at /\ r.key = version[at]
  BY <1>1, <1>3 DEF Reused, Reusable
<1>5. at = j /\ Running /\ j \notin Disabled /\ ledger' = ledger
  BY DEF ReuseJob, Due
<1>6. r.status = "ok" /\ r.origin = r.key
  BY <1>2, <1>3, <1>4, <1>5 DEF IInv, Honest
<1> QED
  BY <1>1, <1>3, <1>4, <1>5, <1>6, RecordHolds, SameLedgerHolds

\* A nested run starts with rows of the summary, or with none.
LEMMA OpenJobHolds == ASSUME IInv, NEW j \in Jobs, OpenJob(j) PROVE IInv'
<1>1. Running /\ at = j /\ ledger' = ledger
  BY DEF OpenJob, Due
<1>2. CASE EndJob("failed")
  BY <1>1, <1>2, EndJobHolds, SameLedgerHolds
<1>3. CASE /\ nested' = TRUE
           /\ next' = 1
           /\ rows' = IF Resumes(j) /\ Kind[j] = "compare" THEN ledger[j].entries ELSE <<>>
           /\ kept' = IF Resumes(j) /\ Kind[j] = "benchmark" THEN ledger[j].entries ELSE <<>>
           /\ UNCHANGED <<edits, version, summary, phase, resume, resumed, at, results>>
  <2>1. ledger[j].entries \in Seq(RowResults) /\ Distinct(ledger[j].entries)
    BY DEF IInv, TypeOK, Files
  <2>2. kept' \in Seq(RowResults) /\ rows' \in Seq(RowResults) /\ Distinct(rows')
    BY <1>3, <2>1, FilesAreFiles
  <2>3. TypeOK'
    BY <1>1, <1>3, <2>2, RowsAreNumbered DEF IInv, TypeOK
  <2> QED
    BY <1>1, <1>3, <2>2, <2>3 DEF IInv, Running
<1> QED
  BY <1>2, <1>3 DEF OpenJob

\* A row that the run has no result of yet, or one of a missing checkout, is
\* recorded.
LEMMA RecordRowHolds ==
  ASSUME IInv, Running, nested, NEW r \in RowResults,
         NEW after \in 1 .. NRows + 1, RecordRow(r, after),
         r.missing \/ ~HasRow(rows, r.row),
         Kind[at] # "compare" => next < after /\ r.row < after
  PROVE  IInv'
<1>1. at \in Jobs
  BY DEF IInv
<1>2. CASE FailWrite(at) /\ EndJob("failed")
  <2>1. PICK f \in {ledger[at], Torn} : ledger' = [ledger EXCEPT ![at] = f]
    BY <1>2 DEF FailWrite
  <2>2. f \in Files(RowResults) /\ Distinct(f.entries)
    BY <1>1, <2>1, FilesAreFiles DEF Torn, IInv, TypeOK
  <2> QED
    BY <1>1, <1>2, <2>1, <2>2, EndJobHolds, LedgerHolds
<1>3. CASE /\ rows' = Append(rows, r)
           /\ next' = after
           /\ ledger' = IF Kind[at] = "smoke" THEN ledger
                                              ELSE [ledger EXCEPT ![at] = Whole(rows')]
           /\ UNCHANGED <<edits, version, summary, phase, resume, resumed, at, results,
                          nested, kept>>
  <2>1. rows' \in Seq(RowResults) /\ Distinct(rows')
    BY <1>3, AppendDistinct DEF IInv, TypeOK
  <2>2. Whole(rows') \in Files(RowResults) /\ Distinct(Whole(rows').entries)
    BY <2>1, FilesAreFiles DEF Whole
  <2>3. /\ ledger' \in [Jobs -> Files(RowResults)]
        /\ \A j \in Jobs : Distinct(ledger'[j].entries)
    BY <1>3, <2>2, LedgerHolds, SameLedgerHolds
  <2>4. TypeOK'
    BY <1>3, <2>1, <2>3 DEF IInv, TypeOK
  <2>5. Kind[at] # "compare" => \A k \in DOMAIN rows' : rows'[k].row < next'
    <3> SUFFICES ASSUME Kind[at] # "compare", NEW k \in DOMAIN rows'
                 PROVE  rows'[k].row < next'
      OBVIOUS
    <3>1. rows \in Seq(RowResults) /\ next \in Nat /\ after \in Nat
      BY RowsAreNumbered DEF IInv, TypeOK
    <3>2. CASE k \in DOMAIN rows
      <4>1. rows'[k] = rows[k]
        BY <1>3, <3>1, <3>2
      <4>2. rows[k] \in RowResults /\ rows[k].row < next
        BY <3>1, <3>2 DEF IInv
      <4>3. rows[k].row \in Nat
        BY <4>2, RowsAreNumbered DEF RowResults, Rows
      <4> QED
        BY <1>3, <3>1, <4>1, <4>2, <4>3
    <3>3. CASE k \notin DOMAIN rows
      BY <1>3, <3>1, <3>3
    <3> QED
      BY <3>2, <3>3
  <2> QED
    BY <1>1, <1>3, <2>1, <2>3, <2>4, <2>5 DEF IInv, Running
<1> QED
  BY <1>2, <1>3 DEF RecordRow

LEMMA RunRowHolds == ASSUME IInv, NEW row \in Rows, RunRow(row) PROVE IInv'
<1>1. Running /\ nested /\ at \in Jobs /\ ~HasRow(rows, row)
  BY DEF RunRow, NextRow, IInv
<1>2. CASE EndJob("failed") /\ ledger' = ledger
  BY <1>1, <1>2, EndJobHolds, SameLedgerHolds
<1>3. ASSUME NEW good \in Outcomes, RecordRow(Row(row, good, version[at]), row + 1) PROVE IInv'
  <2> DEFINE r == Row(row, good, version[at])
  <2>1. version[at] \in Versions
    BY <1>1, SizesAssumption DEF IInv, TypeOK, Versions
  <2>2. good \in BOOLEAN
    BY Zenon DEF Outcomes
  <2>3. r \in RowResults /\ r.row = row
    BY <2>1, <2>2 DEF Row, RowResults
  <2>4. row + 1 \in 1 .. NRows + 1 /\ row < row + 1 /\ next = row
    BY RowsAreNumbered DEF Rows, RunRow, NextRow
  <2> QED
    BY <1>1, <1>3, <2>3, <2>4, RecordRowHolds
<1> QED
  BY <1>2, <1>3 DEF RunRow

\* Only a benchmark keeps rows aside, and it has none ahead of its loop.
LEMMA KeepRowHolds == ASSUME IInv, NEW row \in Rows, KeepRow(row) PROVE IInv'
<1>1. PICK k \in DOMAIN kept : kept[k].row = row /\ RecordRow(kept[k], row + 1)
  BY DEF KeepRow
<1>2. kept[k] \in RowResults
  BY <1>1 DEF IInv, TypeOK
<1>3. Running /\ nested /\ next = row
  BY DEF KeepRow, NextRow
<1>4. row + 1 \in 1 .. NRows + 1 /\ row < row + 1
  BY RowsAreNumbered DEF Rows
<1>5. Kind[at] # "compare"
  <2>1. DOMAIN kept # {}
    BY <1>1
  <2> QED
    BY <1>3, <2>1 DEF IInv
<1>6. ~HasRow(rows, kept[k].row)
  <2>1. \A i \in DOMAIN rows : rows[i].row < row
    BY <1>3, <1>5 DEF IInv
  <2> QED
    BY <1>1, <2>1 DEF HasRow, Rows
<1> QED
  BY <1>1, <1>2, <1>3, <1>4, <1>6, RecordRowHolds

\* A comparison passes over a row, or fails.
LEMMA PassRowHolds == ASSUME IInv, NEW row \in Rows, PassRow(row) PROVE IInv'
<1>1. Running /\ nested /\ at \in Jobs /\ next = row /\ ledger' = ledger
  BY DEF PassRow, NextRow, IInv
<1>2. CASE EndJob("failed")
  BY <1>1, <1>2, EndJobHolds, SameLedgerHolds
<1>3. CASE /\ next' = row + 1
           /\ UNCHANGED <<edits, version, summary, phase, resume, resumed, at, results,
                          nested, kept, rows>>
  <2>1. next' \in 1 .. NRows + 1 /\ next < next'
    BY <1>1, <1>3, RowsAreNumbered DEF Rows
  <2>2. TypeOK'
    BY <1>1, <1>3, <2>1 DEF IInv, TypeOK
  <2>3. Kind[at] = "compare"
    <3>1. PICK k \in DOMAIN rows : rows[k].row = row
      BY DEF PassRow, HasRow
    <3>2. ~(rows[k].row < next)
      BY <1>1, <3>1 DEF Rows
    <3> QED
      BY <1>1, <3>1, <3>2 DEF IInv
  <2> QED
    BY <1>1, <1>3, <2>2, <2>3 DEF IInv, Running
<1> QED
  BY <1>2, <1>3 DEF PassRow

\* A comparison records that a checkout is missing.
LEMMA MissRepoHolds == ASSUME IInv, NEW row \in Rows, MissRepo(row) PROVE IInv'
<1> DEFINE r == MissingRow(row, version[at])
<1>1. Running /\ nested /\ at \in Jobs /\ Kind[at] = "compare"
  BY DEF MissRepo, NextRow, IInv
<1>2. PICK after \in row + 1 .. NRows + 1 : RecordRow(r, after)
  BY DEF MissRepo
<1>3. version[at] \in Versions
  BY <1>1, SizesAssumption DEF IInv, TypeOK, Versions
<1>4. r \in RowResults /\ r.missing
  BY <1>3 DEF MissingRow, Row, RowResults
<1>5. after \in 1 .. NRows + 1
  BY RowsAreNumbered DEF Rows
<1> QED
  BY <1>1, <1>2, <1>4, <1>5, RecordRowHolds

LEMMA CloseJobHolds == ASSUME IInv, CloseJob PROVE IInv'
<1>1. Running /\ at \in Jobs
  BY DEF CloseJob, IInv
<1>2. PICK f \in {Whole(rows), ledger[at], Torn} : ledger' = [ledger EXCEPT ![at] = f]
  BY DEF CloseJob, FailWrite
<1>3. f \in Files(RowResults) /\ Distinct(f.entries)
  BY <1>1, <1>2, FilesAreFiles DEF Whole, Torn, IInv, TypeOK
<1>4. PICK s \in {"ok", "failed"} : EndJob(s)
  BY DEF CloseJob
<1> QED
  BY <1>1, <1>2, <1>3, <1>4, EndJobHolds, LedgerHolds

LEMMA FinishHolds == ASSUME IInv, Finish PROVE IInv'
<1>1. /\ Forget("done") /\ edits' = edits /\ version' = version
      /\ summary' = summary /\ ledger' = ledger /\ results' = results
  BY DEF Finish
<1>2. /\ summary' \in Files(JobResults) /\ Honest(summary'.entries)
      /\ results' \in Seq(JobResults) /\ Honest(results')
  BY <1>1 DEF IInv, TypeOK
<1> QED
  BY <1>1, <1>2, ForgetHolds, SameLedgerHolds

\* A kill tears at most one file.
LEMMA CrashHolds == ASSUME IInv, Crash PROVE IInv'
<1>1. /\ Forget("stopped") /\ edits' = edits /\ version' = version
      /\ results' \in Seq(JobResults) /\ Honest(results')
  BY FilesAreFiles DEF Crash
<1>2. /\ Torn \in Files(JobResults) /\ Torn \in Files(RowResults)
      /\ Honest(Torn.entries) /\ Distinct(Torn.entries)
  BY FilesAreFiles DEF Torn
<1>3. summary' \in Files(JobResults) /\ Honest(summary'.entries)
  BY <1>2 DEF Crash, IInv, TypeOK
<1>4. /\ ledger' \in [Jobs -> Files(RowResults)]
      /\ \A j \in Jobs : Distinct(ledger'[j].entries)
  <2>1. CASE ledger' = ledger
    BY <2>1, SameLedgerHolds
  <2>2. CASE ledger' = [ledger EXCEPT ![at] = Torn]
    BY <1>2, <2>2, LedgerHolds
  <2> QED
    BY <2>1, <2>2 DEF Crash
<1> QED
  BY <1>1, <1>3, <1>4, ForgetHolds

LEMMA EditHolds == ASSUME IInv, NEW j \in Jobs, Edit(j) PROVE IInv'
<1>1. edits' \in Versions /\ version' \in [Jobs -> 0 .. edits']
  BY SizesAssumption DEF Edit, IInv, TypeOK, Versions
<1>2. TypeOK'
  BY <1>1 DEF Edit, IInv, TypeOK, nestedVars
<1> QED
  BY <1>2 DEF Edit, IInv, Running, nestedVars

LEMMA StutterHolds == ASSUME IInv, UNCHANGED vars PROVE IInv'
<1>1. TypeOK'
  BY DEF vars, nestedVars, IInv, TypeOK
<1> QED
  BY <1>1 DEF vars, nestedVars, IInv, Running

\* The inductive invariant of every sequence of campaigns.
THEOREM CampaignInvariant == Spec => []IInv
<1>1. IInv /\ [Next]_vars => IInv'
  BY StartHolds, SkipJobHolds, ReuseJobHolds, OpenJobHolds, EditHolds, RunRowHolds,
     KeepRowHolds, PassRowHolds, MissRepoHolds, CloseJobHolds, FinishHolds, CrashHolds, StutterHolds DEF Next
<1> QED
  BY <1>1, InitHolds, PTL DEF Spec

\* A resumed campaign takes over only results that succeeded and were made under
\* the definition the job has now (RunCampaign, canResumeCampaignJob), however
\* often it was killed and edited, for any jobs.
THEOREM ResumedJobsAreCurrentAlways == Spec => []ResumedJobsAreCurrent
<1>1. IInv => ResumedJobsAreCurrent
  BY DEF IInv, Honest, ResumedJobsAreCurrent
<1> QED
  BY <1>1, CampaignInvariant, PTL

\* No summary of a nested run lists a row twice that was run (hasCompareResult,
\* resumedResult), whatever checkouts come and go; those of missing checkouts are
\* left aside, as resumed sessions do append them again.
THEOREM RowsAreNeverRepeated == Spec => []RowsAreRecordedOnce
<1>1. IInv => RowsAreRecordedOnce
  BY DEF IInv, Distinct, RowsAreRecordedOnce
<1> QED
  BY <1>1, CampaignInvariant, PTL

-----------------------------------------------------------------------------
(* What a campaign that goes to its end leaves. *)

\* A recorded result settles its job and leaves the jobs before it as they were.
LEMMA RecordSettles ==
  ASSUME IInv, Progress, Running, at \in Jobs, NEW r \in JobResults, Record(r),
         r.job = at,
         \A j \in Jobs \ {at} : ledger'[j] = ledger[j],
         r.status = "ok" /\ ~r.resumed => Complete(at, ledger'[at].entries)
  PROVE  Progress'
<1>1. /\ results' = Append(results, r) /\ results \in Seq(JobResults)
      /\ Len(results) = at - 1 /\ at \in Nat
  BY JobsAreNumbered DEF Record, Progress, IInv, TypeOK
<1>2. CASE Forget("failed")
  BY <1>2 DEF Forget, Progress, Running, DoneIsRecorded
<1>3. CASE /\ summary' = Whole(results') /\ at' = at + 1 /\ nested' = FALSE
           /\ UNCHANGED phase
  <2>1. Len(results') = at /\ DOMAIN results' = 1 .. at
    BY <1>1
  <2>2. \A k \in 1 .. at - 1 : k \in DOMAIN results /\ results'[k] = results[k]
    BY <1>1
  <2>3. results'[at] = r
    BY <1>1
  <2>4. \A k \in 1 .. at - 1 : k \in Jobs \ {at}
    BY <1>1, JobsAreNumbered
  <2>5. ASSUME NEW k \in DOMAIN results' PROVE Settled(k)'
    <3>1. CASE k = at
      BY <2>3, <3>1 DEF Settled, Complete, HasRow, Missed
    <3>2. CASE k # at
      <4>1. k \in 1 .. at - 1
        BY <1>1, <2>1, <2>5, <3>2
      <4>2. Settled(k) /\ results'[k] = results[k] /\ ledger'[k] = ledger[k]
        BY <2>2, <2>4, <4>1 DEF Progress
      <4> QED
        BY <4>2 DEF Settled, Complete, HasRow, Missed
    <3> QED
      BY <3>1, <3>2
  <2>6. Len(results') = at' - 1
    BY <1>1, <1>3, <2>1
  <2> QED
    BY <1>3, <2>5, <2>6 DEF Progress, Running, DoneIsRecorded
<1> QED
  BY <1>2, <1>3 DEF Record

LEMMA EndJobSettles ==
  ASSUME IInv, Progress, Running, at \in Jobs, NEW s \in {"ok", "failed"}, EndJob(s),
         \A j \in Jobs \ {at} : ledger'[j] = ledger[j],
         s = "ok" => Complete(at, ledger'[at].entries)
  PROVE  Progress'
<1> DEFINE r == JobResult(at, s, version[at], FALSE, version[at])
<1>1. version[at] \in Versions
  BY SizesAssumption DEF IInv, TypeOK, Versions
<1>2. r \in JobResults
  BY <1>1 DEF JobResult, JobResults
<1>3. r.job = at /\ r.status = s
  BY DEF JobResult
<1>4. Record(r)
  BY DEF EndJob
<1> QED
  BY <1>2, <1>3, <1>4, RecordSettles

\* The file of the due job alone is written.
LEMMA OthersKeepLedger ==
  ASSUME IInv, NEW f, ledger' = [ledger EXCEPT ![at] = f]
  PROVE  /\ \A j \in Jobs \ {at} : ledger'[j] = ledger[j]
         /\ at \in Jobs => ledger'[at] = f
BY DEF IInv, TypeOK

LEMMA StartSettles ==
  ASSUME IInv, Progress, NEW again \in BOOLEAN, Start(again)
  PROVE  Progress'
<1>1. Len(results') = 0 /\ DOMAIN results' = {}
  BY DEF Start
<1>2. phase' # "done" /\ nested' = FALSE /\ at' = 1
  BY DEF Start, Forget
<1> QED
  BY <1>1, <1>2 DEF Progress, DoneIsRecorded

LEMMA SkipJobSettles ==
  ASSUME IInv, Progress, NEW j \in Jobs, SkipJob(j)
  PROVE  Progress'
<1> DEFINE r == JobResult(j, "skipped", version[j], FALSE, version[j])
<1>1. version[j] \in Versions
  BY SizesAssumption DEF IInv, TypeOK, Versions
<1>2. r \in JobResults
  BY <1>1 DEF JobResult, JobResults
<1>3. r.job = j /\ r.status = "skipped"
  BY DEF JobResult
<1>4. Running /\ at = j /\ Record(r) /\ ledger' = ledger
  BY DEF SkipJob, Due
<1> QED
  BY <1>2, <1>3, <1>4, RecordSettles

LEMMA ReuseJobSettles ==
  ASSUME IInv, Progress, NEW j \in Jobs, ReuseJob(j)
  PROVE  Progress'
<1>1. PICK k \in Reused : Record([resumed[k] EXCEPT !.resumed = TRUE])
  BY DEF ReuseJob
<1> DEFINE r == [resumed[k] EXCEPT !.resumed = TRUE]
<1>2. resumed[k] \in JobResults /\ resumed[k].job = at
  BY <1>1 DEF Reused, Reusable, IInv, TypeOK
<1>3. r \in JobResults /\ r.job = at /\ r.resumed
  BY <1>2 DEF JobResults
<1>4. at = j /\ Running /\ ledger' = ledger
  BY DEF ReuseJob, Due
<1> QED
  BY <1>1, <1>3, <1>4, RecordSettles

LEMMA OpenJobSettles ==
  ASSUME IInv, Progress, NEW j \in Jobs, OpenJob(j)
  PROVE  Progress'
<1>1. Running /\ at = j /\ ledger' = ledger
  BY DEF OpenJob, Due
<1>2. CASE EndJob("failed")
  BY <1>1, <1>2, EndJobSettles
<1>3. CASE /\ nested' = TRUE
           /\ next' = 1
           /\ rows' = IF Resumes(j) /\ Kind[j] = "compare" THEN ledger[j].entries ELSE <<>>
           /\ UNCHANGED <<summary, phase, resume, at, results>>
  BY <1>1, <1>3 DEF Rows, Progress, Running, DoneIsRecorded, Settled, Complete, HasRow, Missed, Resumes
<1> QED
  BY <1>2, <1>3 DEF OpenJob

LEMMA FailWriteSettles ==
  ASSUME IInv, Progress, Running, at \in Jobs, FailWrite(at), EndJob("failed")
  PROVE  Progress'
BY OthersKeepLedger, EndJobSettles DEF FailWrite

LEMMA RecordRowSettles ==
  ASSUME IInv, Progress, Running, nested, NEW r \in RowResults,
         NEW after \in 1 .. NRows + 1, RecordRow(r, after),
         \A row \in Rows : next <= row /\ row < after =>
           \/ r.row = row /\ ~r.missing
           \/ Kind[at] = "compare" /\ r.missing /\ RepoOf[r.row] = RepoOf[row]
  PROVE  Progress'
<1>1. at \in Jobs
  BY DEF IInv
<1>2. CASE FailWrite(at) /\ EndJob("failed")
  BY <1>1, <1>2, FailWriteSettles
<1>3. CASE /\ rows' = Append(rows, r)
           /\ next' = after
           /\ ledger' = IF Kind[at] = "smoke" THEN ledger
                                              ELSE [ledger EXCEPT ![at] = Whole(rows')]
           /\ UNCHANGED <<edits, version, summary, phase, resume, resumed, at, results,
                          nested, kept>>
  <2>1. \A j \in Jobs \ {at} : ledger'[j] = ledger[j]
    BY <1>3, OthersKeepLedger
  <2>2. Kind[at] = "compare" => rows' = ledger'[at].entries
    <3>1. Kind[at] = "compare" => ledger' = [ledger EXCEPT ![at] = Whole(rows')]
      BY <1>3
    <3>2. Kind[at] = "compare" => ledger'[at] = Whole(rows')
      BY <1>1, <3>1, OthersKeepLedger
    <3> QED
      BY <3>2 DEF Whole
  <2>3. DOMAIN results \subseteq Jobs \ {at}
    <3>1. DOMAIN results = 1 .. at - 1 /\ at \in Nat
      BY JobsAreNumbered DEF Progress, IInv, TypeOK
    <3> QED
      BY <1>1, <3>1, JobsAreNumbered
  <2>4. \A k \in DOMAIN results : Settled(k) => Settled(k)'
    BY <1>3, <2>1, <2>3 DEF Settled, Complete, HasRow, Missed
  <2>5. ASSUME NEW row \in Rows, row < next'
        PROVE  HasRow(rows', row) \/ (Kind[at] = "compare" /\ Missed(rows', row))
    <3>1. /\ \A k \in DOMAIN rows : k \in DOMAIN rows' /\ rows'[k] = rows[k]
          /\ Len(rows) + 1 \in DOMAIN rows' /\ rows'[Len(rows) + 1] = r
      BY <1>3 DEF IInv, TypeOK
    <3>2. CASE row < next
      <4>1. HasRow(rows, row) \/ (Kind[at] = "compare" /\ Missed(rows, row))
        BY <3>2 DEF Progress
      <4> QED
        BY <3>1, <4>1 DEF HasRow, Missed
    <3>3. CASE next <= row
      <4>1. \/ r.row = row /\ ~r.missing
            \/ Kind[at] = "compare" /\ r.missing /\ RepoOf[r.row] = RepoOf[row]
        BY <1>3, <2>5, <3>3
      <4> QED
        BY <3>1, <4>1 DEF HasRow, Missed
    <3>4. next \in Nat /\ row \in Nat
      BY RowsAreNumbered DEF Rows, IInv, TypeOK
    <3> QED
      BY <3>2, <3>3, <3>4
  <2> QED
    BY <1>3, <2>2, <2>4, <2>5 DEF Progress, Running, DoneIsRecorded, Resumes
<1> QED
  BY <1>2, <1>3 DEF RecordRow

LEMMA RunRowSettles ==
  ASSUME IInv, Progress, NEW row \in Rows, RunRow(row)
  PROVE  Progress'
<1>1. Running /\ nested /\ at \in Jobs /\ next = row
  BY DEF RunRow, NextRow, IInv
<1>2. CASE EndJob("failed") /\ ledger' = ledger
  BY <1>1, <1>2, EndJobSettles
<1>3. ASSUME NEW good \in Outcomes, RecordRow(Row(row, good, version[at]), row + 1)
      PROVE  Progress'
  <2> DEFINE r == Row(row, good, version[at])
  <2>1. version[at] \in Versions
    BY <1>1, SizesAssumption DEF IInv, TypeOK, Versions
  <2>2. good \in BOOLEAN
    BY Zenon DEF Outcomes
  <2>3. r \in RowResults /\ r.row = row /\ ~r.missing
    BY <2>1, <2>2 DEF Row, RowResults
  <2>4. /\ row + 1 \in 1 .. NRows + 1
        /\ \A other \in Rows : row <= other /\ other < row + 1 => other = row
    BY RowsAreNumbered DEF Rows
  <2> QED
    BY <1>1, <1>3, <2>3, <2>4, RecordRowSettles
<1> QED
  BY <1>2, <1>3 DEF RunRow

LEMMA KeepRowSettles ==
  ASSUME IInv, Progress, NEW row \in Rows, KeepRow(row)
  PROVE  Progress'
<1>1. PICK k \in DOMAIN kept :
        kept[k].row = row /\ ~kept[k].missing /\ RecordRow(kept[k], row + 1)
  BY DEF KeepRow
<1>2. kept[k] \in RowResults /\ Running /\ nested /\ next = row
  BY <1>1 DEF KeepRow, NextRow, IInv, TypeOK
<1>3. /\ row + 1 \in 1 .. NRows + 1
      /\ \A other \in Rows : row <= other /\ other < row + 1 => other = row
  BY RowsAreNumbered DEF Rows
<1> QED
  BY <1>1, <1>2, <1>3, RecordRowSettles

\* A row that is passed over is one of the summary.
LEMMA PassRowSettles ==
  ASSUME IInv, Progress, NEW row \in Rows, PassRow(row)
  PROVE  Progress'
<1>1. Running /\ nested /\ at \in Jobs /\ next = row /\ HasRow(rows, row) /\ ledger' = ledger
  BY DEF PassRow, NextRow, IInv
<1>2. CASE EndJob("failed")
  BY <1>1, <1>2, EndJobSettles
<1>3. CASE /\ next' = row + 1
           /\ UNCHANGED <<edits, version, summary, phase, resume, resumed, at, results,
                          nested, kept, rows>>
  <2>1. \A other \in Rows : other < next' => other < next \/ other = row
    BY <1>1, <1>3 DEF Rows
  <2> QED
    BY <1>1, <1>3, <2>1
       DEF Progress, Running, DoneIsRecorded, Settled, Complete, HasRow, Missed, Resumes
<1> QED
  BY <1>2, <1>3 DEF PassRow

\* The row of a missing checkout stands for every row of its repository.
LEMMA MissRepoSettles ==
  ASSUME IInv, Progress, NEW row \in Rows, MissRepo(row)
  PROVE  Progress'
<1> DEFINE r == MissingRow(row, version[at])
<1>1. Running /\ nested /\ at \in Jobs /\ Kind[at] = "compare" /\ next = row
  BY DEF MissRepo, NextRow, IInv
<1>2. PICK after \in row + 1 .. NRows + 1 : Span(row, after) /\ RecordRow(r, after)
  BY DEF MissRepo
<1>3. version[at] \in Versions
  BY <1>1, SizesAssumption DEF IInv, TypeOK, Versions
<1>4. r \in RowResults /\ r.missing /\ r.row = row
  BY <1>3 DEF MissingRow, Row, RowResults
<1>5. after \in 1 .. NRows + 1
  BY RowsAreNumbered DEF Rows
<1>6. \A other \in Rows : row <= other /\ other < after => RepoOf[other] = RepoOf[row]
  BY <1>2 DEF Span
<1> HIDE DEF r
<1> QED
  BY <1>1, <1>2, <1>4, <1>5, <1>6, RecordRowSettles

\* A nested run that is counted as done has a result for each of its rows.
LEMMA CloseJobSettles ==
  ASSUME IInv, Progress, CloseJob
  PROVE  Progress'
<1>1. Running /\ nested /\ at \in Jobs /\ next = NRows + 1
  BY DEF CloseJob, IInv
<1>2. CASE FailWrite(at) /\ EndJob("failed")
  BY <1>1, <1>2, FailWriteSettles
<1>3. CASE ledger' = [ledger EXCEPT ![at] = Whole(rows)]
  <2>1. /\ \A j \in Jobs \ {at} : ledger'[j] = ledger[j]
        /\ ledger'[at] = Whole(rows)
    BY <1>1, <1>3, OthersKeepLedger
  <2>2. CASE EndJob("failed")
    BY <1>1, <2>1, <2>2, EndJobSettles
  <2>3. CASE EndJob("ok") /\ ~(Kind[at] = "benchmark" /\ ~AllGood)
    <3>1. Complete(at, rows)
      <4>1. \A row \in Rows : row < next
        BY <1>1, RowsAreNumbered DEF Rows
      <4> QED
        BY <1>1, <2>3, <4>1 DEF Complete, AllGood, Progress
    <3>2. Complete(at, ledger'[at].entries)
      BY <2>1, <3>1 DEF Whole
    <3> QED
      BY <1>1, <2>1, <2>3, <3>2, EndJobSettles
  <2>4. \/ EndJob(IF Kind[at] = "benchmark" /\ ~AllGood THEN "failed" ELSE "ok")
        \/ EndJob("failed")
    BY DEF CloseJob
  <2> QED
    BY <2>2, <2>3, <2>4
<1> QED
  BY <1>2, <1>3 DEF CloseJob

LEMMA FinishSettles == ASSUME IInv, Progress, Finish PROVE Progress'
<1>1. /\ Running /\ at = Len(Kind) + 1 /\ phase' = "done" /\ nested' = FALSE
      /\ UNCHANGED <<summary, ledger, results>>
  BY DEF Finish, Forget
<1>2. Len(results) = Len(Kind) /\ DOMAIN results = Jobs
  BY <1>1, JobsAreNumbered DEF Progress, IInv, TypeOK
<1>3. Jobs # {} => summary = Whole(results)
  BY <1>1, JobsAreNumbered DEF Progress
<1>4. \A j \in Jobs : Settled(j)'
  BY <1>1, <1>2 DEF Progress, Settled, Complete, HasRow, Missed
<1> QED
  BY <1>1, <1>2, <1>3, <1>4 DEF Progress, Running, DoneIsRecorded

LEMMA OthersSettle ==
  ASSUME IInv, Progress,
         Crash \/ (\E j \in Jobs : Edit(j)) \/ UNCHANGED vars
  PROVE  Progress'
<1>1. CASE Crash
  BY <1>1 DEF Crash, Forget, Progress, Running, DoneIsRecorded
<1>2. CASE (\E j \in Jobs : Edit(j)) \/ UNCHANGED vars
  <2>1. UNCHANGED <<summary, ledger, phase, resume, at, results, nested, rows, next>>
    BY <1>2 DEF Edit, vars, nestedVars
  <2> QED
    BY <2>1 DEF Progress, Running, DoneIsRecorded, Settled, Complete, HasRow, Missed, Resumes
<1> QED
  BY <1>1, <1>2

LEMMA StepSettles == IInv /\ Progress /\ [Next]_vars => Progress'
BY StartSettles, SkipJobSettles, ReuseJobSettles, OpenJobSettles, RunRowSettles,
   KeepRowSettles, PassRowSettles, MissRepoSettles, CloseJobSettles, FinishSettles, OthersSettle DEF Next

LEMMA ProgressAlways == Spec => [](IInv /\ Progress)
<1>1. Init => Progress
  BY DEF Init, Progress, Running, DoneIsRecorded
<1> QED
  BY <1>1, StepSettles, CampaignInvariant, PTL DEF Spec

\* A campaign that goes to its end leaves one result per job in the order of the
\* campaign file, every row of a job reported as done and no failed entry in a
\* benchmark, whatever was killed, torn, edited and resumed before (RunCampaign).
THEOREM FinishedCampaignsAreRecorded == Spec => []DoneIsRecorded
<1>1. Progress => DoneIsRecorded
  BY DEF Progress
<1> QED
  BY <1>1, ProgressAlways, PTL

\* A resumed comparison never writes a summary that lacks or reorders a row the
\* summary had (RunCompare).
THEOREM ComparisonsKeepRows == Spec => ResumedComparisonsKeepRows
<1> DEFINE Keeps(j) ==
      /\ Kind[j] = "compare"
      /\ Running /\ nested /\ at = j /\ Resumes(j)
      /\ ledger'[j].state = "whole"
      => /\ Len(ledger[j].entries) <= Len(ledger'[j].entries)
         /\ \A k \in DOMAIN ledger[j].entries :
              ledger'[j].entries[k] = ledger[j].entries[k]
<1>1. ASSUME IInv, Progress, [Next]_vars, NEW j \in Jobs
      PROVE  Keeps(j)
  <2> SUFFICES ASSUME Kind[j] = "compare", Running, nested, at = j, Resumes(j),
                      ledger'[j].state = "whole"
               PROVE  /\ Len(ledger[j].entries) <= Len(ledger'[j].entries)
                      /\ \A k \in DOMAIN ledger[j].entries :
                           ledger'[j].entries[k] = ledger[j].entries[k]
    OBVIOUS
  <2>1. rows = ledger[j].entries /\ rows \in Seq(RowResults)
    BY <1>1 DEF Progress, IInv, TypeOK
  <2>2. CASE ledger' = ledger
    BY <2>1, <2>2
  <2>3. CASE ledger' = [ledger EXCEPT ![at] = Whole(rows)]
    BY <1>1, <2>1, <2>3, OthersKeepLedger DEF Whole
  <2>4. CASE ledger' = [ledger EXCEPT ![at] = Torn]
    BY <1>1, <2>4, OthersKeepLedger DEF Torn
  <2>5. ASSUME NEW r \in RowResults, ledger' = [ledger EXCEPT ![at] = Whole(Append(rows, r))]
        PROVE  /\ Len(ledger[j].entries) <= Len(ledger'[j].entries)
               /\ \A k \in DOMAIN ledger[j].entries :
                    ledger'[j].entries[k] = ledger[j].entries[k]
    <3>1. ledger'[j].entries = Append(rows, r)
      <4>1. at \in Jobs /\ ledger'[at] = Whole(Append(rows, r))
        BY <1>1, <2>5, OthersKeepLedger
      <4> QED
        BY <4>1 DEF Whole
    <3>2. /\ Len(rows) <= Len(Append(rows, r))
          /\ \A k \in DOMAIN rows : Append(rows, r)[k] = rows[k]
      BY <2>1
    <3> QED
      BY <2>1, <3>1, <3>2
  <2>6. FailWrite(at) => ledger' = ledger \/ ledger' = [ledger EXCEPT ![at] = Torn]
    <3>1. ledger \in [Jobs -> Files(RowResults)]
      BY <1>1 DEF IInv, TypeOK
    <3>2. [ledger EXCEPT ![at] = ledger[at]] = ledger
      BY <3>1
    <3> QED
      BY <3>2 DEF FailWrite
  <2>7. ASSUME NEW r \in RowResults, NEW after, RecordRow(r, after)
        PROVE  \/ ledger' = ledger
               \/ ledger' = [ledger EXCEPT ![at] = Torn]
               \/ ledger' = [ledger EXCEPT ![at] = Whole(Append(rows, r))]
    BY <2>6, <2>7 DEF RecordRow
  <2>8. ASSUME NEW row \in Rows, RunRow(row)
        PROVE  \/ ledger' = ledger
               \/ \E r \in RowResults : RecordRow(r, row + 1)
    <3>1. ASSUME NEW good \in Outcomes
          PROVE  Row(row, good, version[at]) \in RowResults
      <4>1. version[at] \in Versions /\ good \in BOOLEAN
        <5>1. version[at] \in Versions
          BY <1>1, SizesAssumption DEF IInv, TypeOK, Versions
        <5>2. good \in BOOLEAN
          BY Zenon DEF Outcomes
        <5> QED
          BY <5>1, <5>2
      <4> QED
        BY <4>1 DEF Row, RowResults
    <3> QED
      BY <2>8, <3>1 DEF RunRow
  <2>9. ASSUME NEW row \in Rows, KeepRow(row)
        PROVE  \E r \in RowResults : RecordRow(r, row + 1)
    BY <1>1, <2>9 DEF KeepRow, IInv, TypeOK
  <2>10. ASSUME NEW row \in Rows, PassRow(row)
         PROVE  ledger' = ledger
    BY <2>10 DEF PassRow
  <2>11. ASSUME NEW row \in Rows, MissRepo(row)
         PROVE  \E r \in RowResults, after \in 1 .. NRows + 1 : RecordRow(r, after)
    <3>1. version[at] \in Versions
      BY <1>1, SizesAssumption DEF IInv, TypeOK, Versions
    <3>2. MissingRow(row, version[at]) \in RowResults
      BY <3>1 DEF MissingRow, Row, RowResults
    <3>3. row + 1 .. NRows + 1 \subseteq 1 .. NRows + 1
      BY RowsAreNumbered DEF Rows
    <3> QED
      BY <2>11, <3>2, <3>3 DEF MissRepo
  <2>12. CloseJob => \/ ledger' = ledger
                     \/ ledger' = [ledger EXCEPT ![at] = Torn]
                     \/ ledger' = [ledger EXCEPT ![at] = Whole(rows)]
    BY <2>6 DEF CloseJob
  <2>13. CASE CloseJob
    BY <2>2, <2>3, <2>4, <2>12, <2>13
  <2>14. CASE \E row \in Rows : RunRow(row) \/ KeepRow(row) \/ PassRow(row) \/ MissRepo(row)
    BY <2>2, <2>4, <2>5, <2>7, <2>8, <2>9, <2>14, <2>10, <2>11
  <2>15. CASE Crash
    BY <2>2, <2>4, <2>15 DEF Crash
  <2>16. CASE UNCHANGED vars
    BY <2>2, <2>16 DEF vars
  <2>17. ~Finish /\ \A again \in BOOLEAN : ~Start(again)
    BY JobsAreNumbered DEF Finish, Start
  <2>18. \A i \in Jobs : ~SkipJob(i) /\ ~ReuseJob(i) /\ ~OpenJob(i) /\ ~Edit(i)
    BY DEF SkipJob, ReuseJob, OpenJob, Edit, Due
  <2> QED
    BY <1>1, <2>13, <2>14, <2>15, <2>16, <2>17, <2>18 DEF Next
<1>2. ASSUME IInv, Progress, [Next]_vars PROVE [\A j \in Jobs : Keeps(j)]_vars
  BY <1>1, <1>2
<1> QED
  BY <1>2, ProgressAlways, PTL DEF Spec, ResumedComparisonsKeepRows

=============================================================================
