------------------------------- MODULE MCTools -------------------------------
(***************************************************************************)
(* Small instances of the components that share no state with one another: *)
(* a behaviour is one of one of them, and the variables of the others keep *)
(* what they begin with.                                                   *)
(***************************************************************************)
EXTENDS MutatorFiles, TestTree, PoolRun, Comparison, Release, Upgrade, Wave, TestOutcome,
        Selection, Mutators

CONSTANT Systems   \* those that are explored

VARIABLE system

-----------------------------------------------------------------------------
(* The wave: two mutants of one semantic group, and one of none.            *)

ThreeMutants == {"m1", "m2", "m3"}
OneGroup == [m \in ThreeMutants |-> IF m = "m3" THEN "none" ELSE "g"]
TwoReports == {[killed |-> {"m1", "m3"}, survived |-> {"m2"}],
               [killed |-> {}, survived |-> ThreeMutants]}

-----------------------------------------------------------------------------
(* The comparison, the benchmark and the smoke.                             *)

Count(kills, survivors, notCovered, timedOut) ==
    [killed |-> kills, survived |-> survivors, notCovered |-> notCovered, timedOut |-> timedOut,
     errors |-> 0]
TwoTools == <<"cervomut", "gremlins">>
ThreeModes == {<<"", "">>, <<"package-root", "">>, <<"", "package-root">>}
TwoCounts == {Count(2, 0, 3, 0), Count(0, 0, 0, 1)}

\* A report with every count of its own, and a failed run's that leaves some to be made up.
NewReport == [generated |-> 3, total |-> 3, mutants |-> <<"killed", "survived", "timed_out">>,
              executed |-> 3, effective |-> 2, killed |-> 1, survived |-> 1, timedOut |-> 1,
              compileError |-> 0, denominator |-> 3, peak |-> 1]
OldReport == [NewReport EXCEPT !.generated = 0, !.executed = 0, !.denominator = 0,
                               !.mutants = <<"killed", "pending_budget">>, !.peak = 3]
NoThreshold == [baselineSeconds |-> 0, dryRunSeconds |-> 0, mutationSeconds |-> 0, peak |-> 0,
                perSecond |-> 0, executed |-> 0]

TwoEntries == <<"e1", "e2">>
PinnedRef == [e \in {"e1", "e2"} |-> "v1"]
OneReport == {NewReport}
OneFailedReport == {OldReport}
FirstMeasured == [e \in {"e1", "e2"} |-> IF e = "e2" THEN NoThreshold ELSE
                     [NoThreshold EXCEPT !.executed = 2, !.mutationSeconds = 2]]

-----------------------------------------------------------------------------
(* From a tree to the mutants of a run.                                     *)

Mutant(line, op, function, recommendation, nonProgress) ==
    [line |-> line, op |-> op, span |-> line, function |-> function,
     recommendation |-> recommendation, nonProgress |-> nonProgress, sensitive |-> line = 1]
File(folder, name, mutated, ms) ==
    [dir |-> folder, name |-> name, mutated |-> mutated, mutants |-> ms]
SmallTree == << File(<<>>, "a.go", TRUE, <<Mutant(1, "inc-dec", "F", "default", TRUE),
                                      Mutant(2, "logical", "none", "conservative", FALSE)>>),
           File(<<>>, "a_test.go", FALSE, <<>>),
           File(<<"build">>, "x.go", TRUE, <<Mutant(3, "literals", "F", "aggressive", FALSE)>>),
           File(<<"p">>, "b.go", TRUE, <<Mutant(4, "logical", "G", "conservative", FALSE)>>) >>

\* Two shards, checked out at the same place or at different ones.
TwoShards == [targets |-> << <<>> >>, sliceBy |-> "", count |-> 2, maxFiles |-> 0, maxPerPackage |-> 0,
              maxMutants |-> 0, budget |-> FALSE, windows |-> FALSE, roots |-> << <<"w">>, <<"w">> >>,
              quarantine |-> TRUE, required |-> {"reason"}, failOnExpired |-> FALSE, maxRenewals |-> 1]
Whole == [TwoShards EXCEPT !.count = 0]
Unsliced == [Whole EXCEPT !.quarantine = FALSE]
SelectionConfigs ==
    {[TwoShards EXCEPT !.sliceBy = by, !.roots[2] = <<root>>] :
        by \in {"", "package", "file", "function", "operator"}, root \in {"w", "v"}}
    \cup {[TwoShards EXCEPT !.maxFiles = 1, !.budget = TRUE, !.windows = TRUE],
          [TwoShards EXCEPT !.maxPerPackage = 1], [TwoShards EXCEPT !.maxMutants = 1, !.budget = TRUE],
          [TwoShards EXCEPT !.targets = << <<"p">>, <<>> >>],
          [Whole EXCEPT !.failOnExpired = TRUE], [Whole EXCEPT !.required = {"reason", "owner"}],
          [Whole EXCEPT !.targets = << <<"build">> >>], Unsliced}

QuarantineEntry(file, line, op, expires, renewals) ==
    [id |-> [rel |-> file, line |-> line, op |-> op, span |-> line, diff |-> <<"w">> \o file],
     reason |-> "r", owner |-> "none", named |-> TRUE, expires |-> expires, renewals |-> renewals]
Rule(op, file, action) == [op |-> op, file |-> file, action |-> action]

TwoQuarantined == {QuarantineEntry(<<"a.go">>, 1, "inc-dec", 1, 0),
                   QuarantineEntry(<<"p", "b.go">>, 4, "logical", 2, 1)}
TwoRules == <<Rule("logical", <<>>, "report-only"), Rule("none", <<"a.go">>, "suppress")>>
TopModule == { <<>> }

-----------------------------------------------------------------------------
(* The tree mutants are tested in.                                          *)

\* A machine whose temporary directory is at hand, and one on which it is in the module.
Linux == [windows |-> FALSE, module |-> <<"w">>, systemTemp |-> <<"tmp">>, candidates |-> <<>>,
          unc |-> [path \in {<<"tmp">>} |-> FALSE]]
WindowsHome == [windows |-> TRUE, module |-> <<"w">>, systemTemp |-> <<"w", "tmp">>,
            candidates |-> << <<"w", "onedrive">>, <<"local">> >>,
            unc |-> [path \in {<<"w", "tmp">>, <<"w", "onedrive">>, <<"local">>} |-> FALSE]]
PlainConfig == [mode |-> "coverage", prefilter |-> TRUE, isolation |-> "temp-workdir", command |-> <<>>,
            cache |-> "incremental", tempRoot |-> <<>>, machine |-> Linux, daemons |-> {}]
Script == [PlainConfig EXCEPT !.command = <<"make", "test">>, !.isolation = "overlay", !.mode = "all",
                          !.prefilter = FALSE, !.cache = "off"]
Profile(exists, blocks) == [exists |-> exists, mentions |-> FALSE, blocks |-> blocks]

TreeConfigs ==
    {PlainConfig, Script, [PlainConfig EXCEPT !.daemons = {2}],
     [PlainConfig EXCEPT !.isolation = "overlay", !.mode = "package"],
     [PlainConfig EXCEPT !.machine = WindowsHome, !.cache = "off"],
     [PlainConfig EXCEPT !.tempRoot = <<"w", "t">>, !.cache = "read-only"]}
NoProfile == Profile(FALSE, {})
TreeCovers ==
    {NoProfile, Profile(TRUE, {[file |-> <<"m", "p", "x.go">>, first |-> 1, last |-> 3, count |-> 1]})}

-----------------------------------------------------------------------------
\* One of the ways in which each begins whose turn it is not.
Init ==
    /\ system \in Systems
    /\ SelectionInit
    /\ system # "selection" => runConfig = Unsliced /\ \A key \in DOMAIN slot : slot[key] = 0
    /\ GeneratorInit /\ (system # "mutators" => source = Bounded)
    /\ OutcomeInit /\ (system # "outcome" => mutatedTree = "compiles")
    /\ TreeInit /\ (system # "tree" => config = PlainConfig /\ cover = NoProfile)
    /\ PoolInit /\ (system # "pool" => kind = "smoke")
    /\ ComparisonInit
    /\ system # "comparison" => target = "./pkg" /\ mode = <<"", "">> /\ checkout
    /\ ReleaseInit /\ (system # "release" => tagged = GoodTree)
    /\ UpgradeInit /\ (system # "upgrade" => flaw = <<None, None>> /\ inside = {})
    /\ WaveInit
    /\ system # "wave" => \A r \in Repos : go[r].requested = 0 /\ go[r].toolchain = 0 /\ go[r].go = 0
    /\ \A r \in Repos :   \* where another version is named, the go line is not looked at
          go[r].go # 0 => go[r].requested = 0 /\ go[r].toolchain = 0

MutantVars == <<outcomeVars, selectionVars, generatorVars, treeVars>>
PoolToolVars == <<poolVars, comparisonVars>>
PublishingVars == <<releaseVars, upgradeVars, waveVars>>

\* How a mutant is found, selected, tested and judged.
MutantNext ==
    /\ \/ system = "outcome" /\ OutcomeNext /\ UNCHANGED <<selectionVars, generatorVars, treeVars>>
       \/ system = "selection" /\ SelectionNext /\ UNCHANGED <<outcomeVars, generatorVars, treeVars>>
       \/ system = "mutators" /\ Generate /\ UNCHANGED <<outcomeVars, selectionVars, treeVars>>
       \/ system = "tree" /\ TreeNext /\ UNCHANGED <<outcomeVars, selectionVars, generatorVars>>
    /\ UNCHANGED <<PoolToolVars, PublishingVars>>

PoolToolNext ==
    /\ \/ system = "pool" /\ PoolNext /\ UNCHANGED comparisonVars
       \/ system = "comparison" /\ ComparisonNext /\ UNCHANGED poolVars
    /\ UNCHANGED <<MutantVars, PublishingVars>>

PublishingNext ==
    /\ \/ system = "release" /\ ReleaseNext /\ UNCHANGED <<upgradeVars, waveVars>>
       \/ system = "upgrade" /\ UpgradeNext /\ UNCHANGED <<releaseVars, waveVars>>
       \/ system = "wave" /\ WaveNext /\ UNCHANGED <<releaseVars, upgradeVars>>
    /\ UNCHANGED <<MutantVars, PoolToolVars>>

Next == UNCHANGED system /\ (MutantNext \/ PoolToolNext \/ PublishingNext)

Spec == Init /\ [][Next]_<<system, MutantVars, PoolToolVars, PublishingVars>>
=============================================================================
