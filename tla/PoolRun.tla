------------------------------- MODULE PoolRun -------------------------------
(***************************************************************************)
(* pool benchmark and pool smoke (pkg/pool/benchmark.go, benchmark_run.go, *)
(* smoke.go): each entry of a corpus is cloned when it is not there yet,   *)
(* its baseline is tested, mutants are listed and then run, and its report *)
(* becomes a row.  A benchmark checks out the entry's ref, stops an entry  *)
(* at its first failure, measures the report against thresholds and writes *)
(* its summary after every entry, which a later session resumes; a smoke   *)
(* goes on after a failure and writes its summary once, at the end.        *)
(*                                                                         *)
(* Commands fail, or are killed while they write or clone; a session is    *)
(* killed at any step; the corpus is edited between sessions.  Nothing     *)
(* clears the clones and report directories between sessions.              *)
(***************************************************************************)
EXTENDS Verdicts, Integers, Sequences, FiniteSets, FiniteSetsExt, SequencesExt

CONSTANTS Corpus,       \* the names in the corpus, in order
          Asked,        \* the names asked for; none for all
          Limit,        \* how many entries at most; 0 for all
          Refs,         \* the refs an entry may ask for; None for no ref
          FirstRef,     \* the refs the corpus names at first
          Reports,      \* the reports a run of mutants may write when it succeeds, ...
          FailedReports,   \* ... and when it fails
          Thresholds,   \* the thresholds of each entry, 0 for none
          Seconds,      \* how long a run of mutants may take
          MaxSessions, MaxCorpusEdits   \* bounds


\* The thresholds a benchmark has: upper bounds and lower ones.
AtMost == {"baselineSeconds", "dryRunSeconds", "mutationSeconds", "peak"}
AtLeast == {"perSecond", "executed"}

\* What is assumed of the constants: each name is in the corpus once.
ASSUME PoolRunAssumption ==
    /\ Corpus \in Seq(ToSet(Corpus))
    /\ \A i, j \in 1..Len(Corpus) : Corpus[i] = Corpus[j] => i = j
    /\ FirstRef \in [ToSet(Corpus) -> Refs]
    /\ \A r \in Reports \cup FailedReports :
          {r.executed, r.peak} \subseteq Int /\ Len(r.mutants) \in Nat
    /\ Thresholds \in [ToSet(Corpus) -> [AtMost \cup AtLeast -> Int]]
    /\ Limit \in Nat /\ MaxSessions \in Nat /\ MaxCorpusEdits \in Nat /\ Seconds \subseteq Nat

VARIABLES kind,       \* "benchmark" or "smoke"
          ref,        \* ref[e]: the ref the corpus names for e
          corpusEdits, \* number of edits of the corpus
          session,    \* number of sessions started
          at,         \* the entry and the step the session is at
          row,        \* the row in the making
          rows,       \* the rows in memory
          resumed,    \* the rows taken over, by name
          dir,        \* dir[e]: what is checked out, and the reports of e
          summary,    \* the rows on disk, or TornFile
          end         \* how the last session ended

poolVars == <<kind, ref, corpusEdits, session, at, row, rows, resumed, dir, summary, end>>

TornFile == "torn"
NoReport == [is |-> None]
NoStep == <<0, None>>

\* The entries of a session: those asked for, in the order of the corpus.
FilterEntries ==
    LET wanted == {n \in 1..Len(Corpus) : Asked = {} \/ Corpus[n] \in Asked}
        count == Cardinality(wanted)
        Nth(n) == CHOOSE i \in wanted : Cardinality({j \in wanted : j <= i}) = n
    IN  [n \in 1..IF Limit \in 1..(count - 1) THEN Limit ELSE count |-> Corpus[Nth(n)]]
Entries == FilterEntries

-----------------------------------------------------------------------------
(* What a report amounts to: a count the summary of the report does not     *)
(* have is made up from others.                                             *)

OrElse(n, m) == IF n > 0 THEN n ELSE m
Executed == {"killed", "survived", "timed_out", "memory_killed", "compile_error"}
GeneratedMutants(r) == OrElse(r.generated, OrElse(r.total, Len(r.mutants)))
ExecutedMutants(r) ==
    OrElse(r.executed,
           Cardinality({i \in 1..Len(r.mutants) : r.mutants[i] \in Executed}))
EffectiveMutants(r) == OrElse(r.effective, r.killed + r.survived)
ScoreDenominator(r) == OrElse(r.denominator, EffectiveMutants(r) + r.timedOut + r.compileError)
MutantsPerSecond(executed, seconds) ==
    IF seconds = 0 THEN executed * 1000 ELSE executed \div seconds

Metrics(r, seconds) ==
    [baselineSeconds |-> 1, dryRunSeconds |-> 1, mutationSeconds |-> seconds,
     generated |-> GeneratedMutants(r), executed |-> ExecutedMutants(r),
     effective |-> EffectiveMutants(r), denominator |-> ScoreDenominator(r), peak |-> r.peak,
     perSecond |-> MutantsPerSecond(ExecutedMutants(r), seconds)]

EvaluateThresholds(m, thresholds) ==
    {[name |-> n, pass |-> IF n \in AtMost THEN m[n] <= thresholds[n] ELSE m[n] >= thresholds[n]] :
        n \in {n \in AtMost \cup AtLeast : thresholds[n] > 0}}

\* The totals that decide how a benchmark ends.
Having(status, rs) == Cardinality({i \in 1..Len(rs) : rs[i].status = status})
Errored(rs) == Len(rs) - Having("pass", rs) - Having("fail", rs)

-----------------------------------------------------------------------------
NewRow(e) ==
    [name |-> e, ref |-> ref[e], status |-> "error", clone |-> "pending", head |-> None,
     exits |-> [s \in {"baseline", "dry", "mutation"} |-> -1], seconds |-> 0,
     report |-> NoReport, checks |-> {}, resumed |-> FALSE, session |-> session]

PoolInit ==
    /\ kind \in {"benchmark", "smoke"}
    /\ ref = FirstRef /\ corpusEdits = 0
    /\ session = 0 /\ at = NoStep /\ row = None /\ rows = <<>> /\ resumed = <<>>
    /\ dir = [e \in ToSet(Corpus) |-> [head |-> None, full |-> NoReport, partial |-> NoReport]]
    /\ summary = <<>> /\ end = None

AtStep(e, step) == at[1] \in 1..Len(Entries) /\ e = Entries[at[1]] /\ at[2] = step
Goto(step) == at' = <<at[1], step>>
Stop(how) == at' = NoStep /\ end' = how /\ resumed' = <<>>

\* A benchmark that resumes fails when it cannot read the summary; it takes over
\* every row of it by name.
Open ==
    /\ at = NoStep /\ session < MaxSessions /\ session' = session + 1
    /\ rows' = <<>> /\ row' = None
    /\ \E resume \in IF kind = "benchmark" THEN BOOLEAN ELSE {FALSE} :
          IF resume /\ summary = TornFile
          THEN Stop("error")
          ELSE /\ at' = <<1, "start">> /\ end' = None
               /\ resumed' = IF resume THEN summary ELSE <<>>
    /\ UNCHANGED <<kind, ref, corpusEdits, dir, summary>>

\* The next entry: its row is taken over, or made anew.
Resumed(e) == {i \in 1..Len(resumed) : resumed[i].name = e}
StartEntry(e) ==
    /\ AtStep(e, "start")
    /\ \/ Resumed(e) = {} /\ row' = NewRow(e) /\ Goto("clone")
       \/ \E i \in Resumed(e) :
             /\ \A j \in Resumed(e) : j <= i
             /\ row' = [resumed[i] EXCEPT !.resumed = TRUE] /\ Goto("record")
    /\ UNCHANGED <<kind, ref, corpusEdits, session, rows, resumed, dir, summary, end>>

\* Any directory of the entry's name is taken for its clone.  A clone that is
\* killed may leave one that is none.
EnsureClone(e) ==
    /\ AtStep(e, "clone")
    /\ \/ /\ dir[e].head # None /\ dir' = dir
          /\ row' = [row EXCEPT !.clone = IF kind = "smoke" THEN "ok" ELSE "existing"]
          /\ Goto("checkout")
       \/ /\ dir[e].head = None /\ dir' = [dir EXCEPT ![e].head = "main"]
          /\ row' = [row EXCEPT !.clone = "ok"] /\ Goto("checkout")
       \/ /\ dir[e].head = None /\ dir' \in {dir, [dir EXCEPT ![e].head = "broken"]}
          /\ row' = [row EXCEPT !.clone = "failed"] /\ Goto("record")
    /\ UNCHANGED <<kind, ref, corpusEdits, session, rows, resumed, summary, end>>

Fails(e) == row' = row /\ Goto("record")

\* A benchmark fetches the ref and checks it out, when there is one.
EnsureCheckout(e) ==
    /\ AtStep(e, "checkout")
    /\ \/ /\ kind = "smoke" \/ ref[e] = None
          /\ dir' = dir /\ row' = [row EXCEPT !.head = dir[e].head] /\ Goto("baseline")
       \/ /\ kind = "benchmark" /\ ref[e] # None /\ dir[e].head # "broken"
          /\ dir' = [dir EXCEPT ![e].head = ref[e]]
          /\ row' = [row EXCEPT !.head = ref[e]] /\ Goto("baseline")
       \/ kind = "benchmark" /\ ref[e] # None /\ dir' = dir /\ Fails(e)
    /\ UNCHANGED <<kind, ref, corpusEdits, session, rows, resumed, summary, end>>

\* Mutated form of Exits: the entry goes on after a failed command.
ExitsIgnored(e, exit, next) == (exit = 0 => dir[e].head # "broken") /\ Goto(next)

\* A command and its exit code; a benchmark gives the entry up when it fails.
Exits(e, exit, next) ==
    /\ exit = 0 => dir[e].head # "broken"
    /\ Goto(IF exit # 0 /\ kind = "benchmark" THEN "record" ELSE next)

RunBaseline(e) ==
    /\ AtStep(e, "baseline")
    /\ \E exit \in {0, 1} : /\ Exits(e, exit, "dry")
                            /\ row' = [row EXCEPT !.exits.baseline = exit]
    /\ UNCHANGED <<kind, ref, corpusEdits, session, rows, resumed, dir, summary, end>>

\* A dry run writes nothing but the report of its own failure.
Failure == [is |-> "failure", by |-> session]
FailureLeft(e) == IF dir[e].full = NoReport THEN [dir EXCEPT ![e].full = Failure] ELSE dir
RunDryRun(e) ==
    /\ AtStep(e, "dry")
    /\ \E exit \in {0, 1} :
          /\ Exits(e, exit, "mutation")
          /\ row' = [row EXCEPT !.exits.dry = exit]
          /\ dir' = IF exit = 0 THEN dir ELSE FailureLeft(e)
    /\ UNCHANGED <<kind, ref, corpusEdits, session, rows, resumed, summary, end>>

\* A run that succeeds has written its report.  One that fails may have, when its
\* gate does not hold; it may have left the report of its failure, the one of an
\* earlier run, half of one or a partial one.
RunMutation(e) ==
    /\ AtStep(e, "mutation")
    /\ \E exit \in {0, 1}, seconds \in Seconds :
       \E r \in IF exit = 0 THEN Reports ELSE FailedReports :
          LET own == [is |-> "report", by |-> session, head |-> dir[e].head, says |-> r]
          IN  /\ Exits(e, exit, "report")
              /\ row' = [row EXCEPT !.exits.mutation = exit, !.seconds = seconds]
              /\ dir' \in IF exit = 0 THEN {[dir EXCEPT ![e].full = own]}
                          ELSE {dir, FailureLeft(e), [dir EXCEPT ![e].full = own],
                                [dir EXCEPT ![e].full = [is |-> TornFile]],
                                [dir EXCEPT ![e].partial = own]}
    /\ UNCHANGED <<kind, ref, corpusEdits, session, rows, resumed, summary, end>>

\* Mutated form of Found: the partial report is taken first.
FoundPartialFirst(e) == IF dir[e].partial # NoReport THEN dir[e].partial ELSE dir[e].full

\* A benchmark takes the partial report when there is no full one.  A smoke that
\* cannot parse the report ends, and its rows are lost.
Found(e) ==
    IF kind = "benchmark" /\ dir[e].full = NoReport THEN dir[e].partial ELSE dir[e].full
Judged(e, report) ==
    LET checks == EvaluateThresholds(Metrics(report.says, row.seconds), Thresholds[e])
    IN  [row EXCEPT !.report = report, !.checks = checks,
                    !.status = IF \E c \in checks : ~c.pass THEN "fail" ELSE "pass"]
ApplyReport(e) ==
    /\ AtStep(e, "report")
    /\ IF kind = "smoke"
       THEN IF Found(e).is = TornFile THEN Stop("error") /\ row' = None
            ELSE row' = [row EXCEPT !.report = Found(e)] /\ Goto("record")
                 /\ UNCHANGED <<end, resumed>>
       ELSE /\ row' = IF Found(e).is = "report" THEN Judged(e, Found(e)) ELSE row
            /\ Goto("record") /\ UNCHANGED <<end, resumed>>
    /\ UNCHANGED <<kind, ref, corpusEdits, session, rows, dir, summary>>

\* The row is recorded; the summary is written in place, and only by a benchmark.
Record(e) ==
    /\ AtStep(e, "record")
    /\ row' = None
    /\ \/ /\ at' = <<at[1] + 1, "start">> /\ UNCHANGED <<end, resumed>>
          /\ rows' = Append(rows, row)
          /\ summary' = IF kind = "benchmark" THEN rows' ELSE summary
       \/ /\ kind = "benchmark" /\ summary' = TornFile /\ Stop("killed") /\ rows' = <<>>
    /\ UNCHANGED <<kind, ref, corpusEdits, session, dir>>

\* A benchmark ends with an error unless every entry has passed.
Finish ==
    /\ at = <<Len(Entries) + 1, "start">>
    /\ summary' = rows
    /\ Stop(IF kind = "benchmark" /\ Having("fail", rows) + Errored(rows) > 0
            THEN "failed" ELSE "ok")
    /\ UNCHANGED <<kind, ref, corpusEdits, session, row, rows, dir>>

KillSession ==
    /\ at # NoStep /\ Stop("killed") /\ row' = None /\ rows' = <<>>
    /\ \/ dir' = dir
       \/ \E e \in ToSet(Corpus) : /\ AtStep(e, "clone") /\ dir[e].head = None
                                  /\ dir' = [dir EXCEPT ![e].head = "broken"]
    /\ UNCHANGED <<kind, ref, corpusEdits, session, summary>>

EditCorpus(e) ==
    /\ at = NoStep /\ session > 0 /\ corpusEdits < MaxCorpusEdits /\ corpusEdits' = corpusEdits + 1
    /\ \E other \in Refs \ {ref[e]} : ref' = [ref EXCEPT ![e] = other]
    /\ UNCHANGED <<kind, session, at, row, rows, resumed, dir, summary, end>>

PoolNext ==
    \/ Open \/ Finish \/ KillSession
    \/ \E e \in ToSet(Corpus) :
          \/ StartEntry(e) \/ EnsureClone(e) \/ EnsureCheckout(e) \/ RunBaseline(e) \/ RunDryRun(e)
          \/ RunMutation(e) \/ ApplyReport(e) \/ Record(e) \/ EditCorpus(e)

PoolSpec == PoolInit /\ [][PoolNext]_poolVars

-----------------------------------------------------------------------------
(* Properties                                                               *)

Recorded == ToSet(rows) \cup IF summary = TornFile THEN {} ELSE ToSet(summary)

\* An entry of a benchmark passes on the full report of its own run, whose commands
\* all succeeded on the ref it asks for, whatever earlier sessions left in its
\* clone and its report directory, and on numbers within its thresholds (runEntry,
\* checkoutBenchmarkRef, loadBenchmarkRunResult, evaluateBenchmarkThresholds).
Earned(r) ==
    r.status = "pass" =>
        LET m == Metrics(r.report.says, r.seconds)
        IN  /\ r.exits = [s \in {"baseline", "dry", "mutation"} |-> 0]
            /\ r.report.by = r.session
            /\ r.ref # None => r.report.head = r.ref
            /\ r.report.head \notin {None, "broken"}
            /\ \A n \in AtLeast : m[n] >= Thresholds[r.name][n]
            /\ \A n \in AtMost : Thresholds[r.name][n] > 0 => m[n] <= Thresholds[r.name][n]
PassesAreOfOwnRuns == \A r \in Recorded : Earned(r)

\* A benchmark that ends without an error has passed every entry asked for, in
\* order, also when it was killed and resumed before (finish, resultForEntry).
SuccessPassedEveryEntry ==
    kind = "benchmark" /\ end = "ok" =>
        /\ Len(rows) = Len(Entries) /\ summary = rows
        /\ \A i \in 1..Len(rows) : rows[i].name = Entries[i] /\ rows[i].status = "pass"

\* The two of a benchmark: no entry passes, and no benchmark succeeds, on less than
\* runs of its own (runEntry, resultForEntry, finish).
PassesAreEarned == PassesAreOfOwnRuns /\ SuccessPassedEveryEntry

\* What a smoke tells of a repository whose run succeeded was found by that run;
\* its summary has one row for each repository, or is that of an earlier session
\* (RunSmoke).
OfOwnRun(r) == r.exits.mutation = 0 => r.report.by = r.session
SmokeTellsOwnRuns ==
    kind = "smoke" =>
        /\ \A r \in Recorded : OfOwnRun(r)
        /\ end = "ok" => [i \in 1..Len(summary) |-> summary[i].name] = Entries

-----------------------------------------------------------------------------
(* What the proofs rest on: an inductive invariant.                         *)

Stages == {"clone", "checkout", "baseline", "dry", "mutation", "report"}
Heads == {None, "main", "broken"} \cup Refs
Files == {NoReport, [is |-> TornFile]} \cup [is : {"failure"}, by : Nat]
         \cup [is : {"report"}, by : Nat, head : Heads, says : Reports \cup FailedReports]
Rows == [name : ToSet(Corpus), ref : Refs, status : {"pass", "fail", "error"},
         clone : {"pending", "ok", "existing", "failed"}, head : Heads,
         exits : [{"baseline", "dry", "mutation"} -> {-1, 0, 1}], seconds : Nat, report : Files,
         checks : SUBSET [name : AtMost \cup AtLeast, pass : BOOLEAN], resumed : BOOLEAN,
         session : Nat]

PoolTypeOK ==
    /\ kind \in {"benchmark", "smoke"}
    /\ ref \in [ToSet(Corpus) -> Refs] /\ session \in Nat
    /\ at \in {NoStep} \cup ((1..(Len(Entries) + 1)) \X {"start"})
             \cup ((1..Len(Entries)) \X (Stages \cup {"record"}))
    /\ rows \in Seq(Rows) /\ resumed \in Seq(Rows)
    /\ summary = TornFile \/ summary \in Seq(Rows)
    /\ dir \in [ToSet(Corpus) -> [head : Heads, full : Files, partial : Files]]

\* The rows of a session are those of its entries, in order, and it has not ended.
InOrder ==
    at # NoStep => /\ end = None /\ Len(rows) = at[1] - 1
                   /\ \A i \in 1..Len(rows) : rows[i].name = Entries[i]

\* What a row may say once it is recorded.
Honest(r) == Earned(r) /\ (kind = "smoke" => OfOwnRun(r))
AllHonest ==
    /\ \A i \in 1..Len(rows) : Honest(rows[i])
    /\ \A i \in 1..Len(resumed) : Honest(resumed[i])
    /\ summary # TornFile => \A i \in 1..Len(summary) : Honest(summary[i])

\* The row in the making tells of this session, ...
Making ==
    /\ at[2] \in Stages \cup {"record"} => row \in Rows /\ row.name = Entries[at[1]]
    /\ at[2] \in Stages => row.session = session /\ row.status = "error" /\ row.ref = ref[row.name]
    /\ at[2] \in Stages \ {"report"} => row.exits.mutation = -1
    /\ at[2] = "record" => Honest(row)

\* ... and so do, as far as it has come, its clone and its report.
Staged ==
    LET d == dir[row.name]
        Past(stages) == at[2] \in stages
    IN  /\ Past(Stages \ {"clone"}) => d.head # None
        /\ kind = "benchmark" =>
              /\ Past({"baseline", "dry", "mutation", "report"}) /\ row.ref # None =>
                    d.head = row.ref
              /\ Past({"dry", "mutation", "report"}) => row.exits.baseline = 0 /\ d.head # "broken"
              /\ Past({"mutation", "report"}) => row.exits.dry = 0
              /\ Past({"report"}) => row.exits.mutation = 0
        /\ Past({"report"}) /\ row.exits.mutation = 0 =>
              d.full.is = "report" /\ d.full.by = session /\ d.full.head = d.head

PoolInv ==
    /\ PoolTypeOK /\ InOrder /\ AllHonest /\ Making /\ Staged
    /\ PassesAreEarned /\ SmokeTellsOwnRuns
=============================================================================
