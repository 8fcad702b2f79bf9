----------------------------- MODULE Selection -----------------------------
(***************************************************************************)
(* From a tree to the mutants a run decides (pkg/discover, mutation.go,    *)
(* slicing.go, quarantine_flow.go, suppression in execution.go).  Several  *)
(* runs, the shards of one tree on machines of their own, each walk their  *)
(* targets, give every mutant its ID, keep the groups of their shard,      *)
(* apply the limits, order what is left, read the quarantine file and      *)
(* excuse the mutants that it or a suppression rule names.  Runs share     *)
(* nothing but the tree, the configuration and the clock by which entries  *)
(* of the quarantine file run out.                                         *)
(*                                                                         *)
(* A path is a sequence of names.  Tree lists files in the order in which  *)
(* their relative paths sort, mutants of a file in the order of their IDs. *)
(***************************************************************************)
EXTENDS Verdicts, Integers, Sequences, FiniteSets, FiniteSetsExt, SequencesExt

CONSTANTS Tree,            \* files: directory, name, whether it is mutated, and its mutants
          Modules,         \* the directories with a go.mod
          RunConfigs,      \* the configurations to choose from; see SelectionAssumption
          QuarantineFile,  \* its entries; expires is 0 and named FALSE when left out
          Rules,           \* the suppression rules, in order
          MaxTime          \* bound on the clock

Paths == Seq(STRING)

\* What is assumed of the constants: a path names one file of the tree, and the
\* mutants of a file differ in line, operator or span, which stands for what they
\* replace and by what.
ASSUME TreeAssumption ==
    /\ Len(Tree) \in Nat /\ DOMAIN Tree = 1..Len(Tree)
    /\ \A f \in ToSet(Tree) :
          /\ f.dir \in Paths /\ f.name \in STRING
          /\ Len(f.mutants) \in Nat /\ DOMAIN f.mutants = 1..Len(f.mutants)
          /\ \A m, n \in ToSet(f.mutants) :
                m.line = n.line /\ m.op = n.op /\ m.span = n.span => m = n
          /\ \A g \in ToSet(Tree) : f.dir = g.dir /\ f.name = g.name => f = g
ASSUME SelectionAssumption ==
    /\ MaxTime \in Nat
    /\ Len(Rules) \in Nat /\ DOMAIN Rules = 1..Len(Rules)
    /\ \A e \in QuarantineFile : e.expires \in Int
    /\ \A c \in RunConfigs :
          /\ c.roots \in Seq(Paths \ {<<>>}) /\ c.targets \in Seq(Paths)
          /\ c.count \in Nat /\ c.count # 1 /\ c.count <= Len(c.roots)
          /\ c.maxFiles \in Nat /\ c.maxPerPackage \in Nat /\ c.maxMutants \in Nat
          /\ c.sliceBy \in {"", "package", "file", "function", "operator", "mutant"}

VARIABLES runConfig, slot, now,
          runAt,      \* runAt[s]: the stage run s is at
          started,    \* started[s]: when run s began
          mutants,    \* mutants[s]: those it has selected so far
          active,     \* active[s]: the IDs it read from the quarantine file
          results     \* results[s]: what became of each of its mutants

selectionVars == <<runConfig, slot, now, runAt, started, mutants, active, results>>

Shards == DOMAIN runConfig.roots

-----------------------------------------------------------------------------
(* Elements of a sequence, by the order of the keys of their positions      *)

Less(v, w) == \E i \in DOMAIN v : v[i] < w[i] /\ \A j \in 1..(i - 1) : v[j] = w[j]
Rank(N, key, n) == Cardinality({k \in N : k = n \/ Less(key[k], key[n])})
ByKey(N, key) == [i \in 1..Cardinality(N) |-> CHOOSE n \in N : Rank(N, key, n) = i]
Taken(seq, N, key) ==
    LET order == ByKey(N, key) IN [i \in 1..Cardinality(N) |-> seq[order[i]]]
Only(seq, N) == Taken(seq, N, [n \in N |-> <<n>>])

-----------------------------------------------------------------------------
(* Discovery                                                                *)

Excluded == {".git", ".cervomut", "vendor", "node_modules", "dist", "build", "coverage"}

\* The directory of the go.mod nearest to a target, or the target itself.
ModuleDir(target) ==
    LET above == {n \in 0..Len(target) : SubSeq(target, 1, n) \in Modules}
    IN  IF above = {} THEN target ELSE SubSeq(target, 1, Max(above))

\* Whether a walk reaches a file: also the directory it begins at may be excluded.
Visits(root, target, f) ==
    /\ IsPrefix(target, f.dir)
    /\ Last(root \o target) \notin Excluded
    /\ \A i \in Len(target) + 1 .. Len(f.dir) : f.dir[i] \notin Excluded

WalkTree(root, target) ==
    Only(Tree, {i \in DOMAIN Tree : Tree[i].mutated /\ Visits(root, target, Tree[i])})

\* Files of overlapping targets are listed once for each.
Discovered(root) ==
    FlattenSeq([t \in DOMAIN runConfig.targets |->
        LET files == WalkTree(root, runConfig.targets[t])
        IN  [i \in DOMAIN files |-> [file |-> files[i], module |-> ModuleDir(runConfig.targets[t])]]])

\* The digest in an ID covers the diff, whose headers name the absolute path.
StableMutantIdentity(root, module, f, m) ==
    [rel |-> SubSeq(f.dir, Len(module) + 1, Len(f.dir)) \o <<f.name>>,
     line |-> m.line, op |-> m.op, span |-> m.span, diff |-> root \o f.dir \o <<f.name>>]

MutantOf(root, d, m) ==
    [id |-> StableMutantIdentity(root, d.module, d.file, m), of |-> m,
     file |-> root \o d.file.dir \o <<d.file.name>>,
     package |-> SubSeq(d.file.dir, Len(d.module) + 1, Len(d.file.dir))]
GenerateMutants(root) ==
    LET found == Discovered(root)
    IN  FlattenSeq([i \in DOMAIN found |->
            [j \in DOMAIN found[i].file.mutants |->
                MutantOf(root, found[i], found[i].file.mutants[j])]])

-----------------------------------------------------------------------------
(* The order of a schedule                                                  *)

SortedBy(ms, Key(_)) ==   \* stable: the position comes last
    Taken(ms, DOMAIN ms, [i \in DOMAIN ms |-> Append(Key(ms[i]), i)])

\* The place of a mutant among all by ID.
IDRank(m) ==
    LET f == CHOOSE f \in DOMAIN Tree : \E i \in DOMAIN Tree[f].mutants : Tree[f].mutants[i] = m.of
    IN  <<f, CHOOSE i \in DOMAIN Tree[f].mutants : Tree[f].mutants[i] = m.of>>

RecommendationPriority(m) ==
    CASE m.of.recommendation = "fast-ci" -> 0 [] m.of.recommendation = "conservative" -> 1
      [] m.of.recommendation = "default" -> 2 [] m.of.recommendation = "aggressive" -> 3
      [] OTHER -> 4
TimeoutRiskPriority(m) ==
    CASE m.of.nonProgress -> 4
      [] m.of.op \in {"conditionals-negation", "conditionals-boundary", "boolean-literals",
                      "logical"} -> 0
      [] m.of.op \in {"arithmetic-basic", "string-empty-literals", "nil-checks", "numeric-literals",
                      "return-bool-literals", "assignment-arithmetic", "inc-dec"} -> 1
      [] m.of.op \in {"literals", "returns", "loop-control", "slice-map-len-boundary"} -> 3
      [] OTHER -> 2
PlatformSensitivityPriority(m) == IF runConfig.windows /\ m.of.sensitive THEN 1 ELSE 0

ScheduleMutants(ms) ==
    IF runConfig.budget
    THEN SortedBy(ms, LAMBDA m : <<RecommendationPriority(m), TimeoutRiskPriority(m),
                                   PlatformSensitivityPriority(m)>> \o IDRank(m))
    ELSE SortedBy(ms, IDRank)

-----------------------------------------------------------------------------
(* Slicing                                                                  *)

EffectiveSliceBy == IF runConfig.sliceBy = "" THEN "mutant" ELSE runConfig.sliceBy

\* A mutant outside any function is a group of its own.
SliceGroupKey(m) ==
    CASE EffectiveSliceBy = "package" -> <<"name", m.package>>
      [] EffectiveSliceBy = "file" -> <<"name", m.file>>
      [] EffectiveSliceBy = "function" /\ m.of.function # None -> <<"name", m.of.function>>
      [] EffectiveSliceBy = "operator" -> <<"name", m.of.op>>
      [] OTHER -> <<"mutant", m.id>>
ShardForKeyFromZero(key) == slot[key]   \* mutated form: shards counted from zero
ShardForKey(key) == slot[key] + 1
AllKeys(c) ==
    UNION {{SliceGroupKey(m) : m \in ToSet(GenerateMutants(c.roots[s]))} : s \in DOMAIN c.roots}

\* The files, or the first mutants of a package, up to a limit; 0 is no limit.
WithinFiles(ms) ==
    LET First(f) == Min({i \in DOMAIN ms : ms[i].file = f})
        Nth(f) == Cardinality({ms[i].file : i \in 1..First(f)})
    IN  IF runConfig.maxFiles = 0 THEN ms
        ELSE Only(ms, {i \in DOMAIN ms : Nth(ms[i].file) <= runConfig.maxFiles})
WithinPackages(ms) ==
    LET Nth(i) == Cardinality({j \in 1..i : ms[j].package = ms[i].package})
    IN  IF runConfig.maxPerPackage = 0 THEN ms
        ELSE Only(ms, {i \in DOMAIN ms : Nth(i) <= runConfig.maxPerPackage})

ApplySlicing(s, ms) ==
    LET ordered == SortedBy(ms, IDRank)
        ours == {i \in DOMAIN ordered :
                    runConfig.count = 0 \/ ShardForKey(SliceGroupKey(ordered[i])) = s}
    IN  WithinPackages(WithinFiles(Only(ordered, ours)))

Cut(ms) ==
    IF runConfig.maxMutants \in 1..Len(ms) THEN SubSeq(ms, 1, runConfig.maxMutants) ELSE ms

-----------------------------------------------------------------------------
(* Excuses                                                                  *)

Valid(e) ==
    /\ e.named
    /\ \A field \in runConfig.required : e[field] # None
    /\ e.expires # 0
    /\ runConfig.failOnExpired => e.expires > now
    /\ runConfig.maxRenewals > 0 => e.renewals <= runConfig.maxRenewals

SuppressionRuleMatches(rule, m) ==
    /\ rule.op \in {None, m.of.op}
    /\ rule.file = <<>> \/ IsSuffix(rule.file, m.file)
SuppressionPriority(action) ==
    CASE action = "report-only" -> 0 [] action = "lower-priority" -> 1
      [] action = "quarantine-required" -> 2 [] action = "suppress" -> 3 [] OTHER -> -1
MatchingRules(m) ==
    {i \in DOMAIN Rules :
        SuppressionRuleMatches(Rules[i], m) /\ SuppressionPriority(Rules[i].action) >= 0}
StrongestRules(m) ==
    {i \in MatchingRules(m) : \A j \in MatchingRules(m) :
        SuppressionPriority(Rules[j].action) <= SuppressionPriority(Rules[i].action)}
StrongestSuppression(m) == IF MatchingRules(m) = {} THEN 0 ELSE Min(StrongestRules(m))
SuppressedResult(m) ==
    LET i == StrongestSuppression(m) IN i # 0 /\ Rules[i].action = "suppress"

Verdict(s, m) ==
    IF m.id \in active[s] THEN "quarantined" ELSE IF SuppressedResult(m) THEN "ignored" ELSE "run"

-----------------------------------------------------------------------------
SelectionInit ==
    /\ runConfig \in RunConfigs
    /\ slot \in [AllKeys(runConfig) -> 0..(IF runConfig.count = 0 THEN 0 ELSE runConfig.count - 1)]
    /\ now = 0
    /\ runAt = [s \in Shards |-> "begin"] /\ started = [s \in Shards |-> 0]
    /\ mutants = [s \in Shards |-> <<>>] /\ active = [s \in Shards |-> {}]
    /\ results = [s \in Shards |-> <<>>]

Move(s, from, to) == runAt[s] = from /\ runAt' = [runAt EXCEPT ![s] = to]

DiscoverMutants(s) ==
    /\ Move(s, "begin", "slice")
    /\ started' = [started EXCEPT ![s] = now]
    /\ mutants' = [mutants EXCEPT ![s] = GenerateMutants(runConfig.roots[s])]
    /\ UNCHANGED <<runConfig, slot, now, active, results>>

SelectMutants(s) ==
    /\ Move(s, "slice", "quarantine")
    /\ mutants' = [mutants EXCEPT ![s] = Cut(ScheduleMutants(ApplySlicing(s, @)))]
    /\ UNCHANGED <<runConfig, slot, now, started, active, results>>

\* Mutated form of LoadQuarantine: entries that have run out stay active.
LoadQuarantineExpired(s) ==
    /\ Move(s, "quarantine", "decide")
    /\ active' = [active EXCEPT ![s] =
          {e.id : e \in {e \in QuarantineFile : runConfig.quarantine /\ e.expires >= 0}}]
    /\ UNCHANGED <<runConfig, slot, now, started, mutants, results>>

\* One bad entry fails the run.  An entry that has run out excuses nothing.
LoadQuarantine(s) ==
    /\ IF runConfig.quarantine /\ \E e \in QuarantineFile : ~Valid(e)
       THEN Move(s, "quarantine", "failed") /\ UNCHANGED active
       ELSE /\ Move(s, "quarantine", "decide")
            /\ active' = [active EXCEPT ![s] =
                  {e.id : e \in {e \in QuarantineFile : runConfig.quarantine /\ e.expires > now}}]
    /\ UNCHANGED <<runConfig, slot, now, started, mutants, results>>

RunMutants(s) ==
    /\ Move(s, "decide", "done")
    /\ results' = [results EXCEPT ![s] =
          [i \in DOMAIN mutants[s] |->
              [id |-> mutants[s][i].id, verdict |-> Verdict(s, mutants[s][i])]]]
    /\ UNCHANGED <<runConfig, slot, now, started, mutants, active>>

Tick ==
    /\ now < MaxTime /\ now' = now + 1
    /\ UNCHANGED <<runConfig, slot, runAt, started, mutants, active, results>>

SelectionNext ==
    \/ \E s \in Shards : DiscoverMutants(s) \/ SelectMutants(s) \/ LoadQuarantine(s) \/ RunMutants(s)
    \/ Tick

SelectionSpec == SelectionInit /\ [][SelectionNext]_selectionVars

-----------------------------------------------------------------------------
\* A mutation that run s lists, apart from where its tree was checked out.
Mutation(s, id) ==
    [id EXCEPT !.diff = SubSeq(id.diff, Len(runConfig.roots[s]) + 1, Len(id.diff))]
Done(s) == runAt[s] = "done"
ListedBy(s) == ToSet(GenerateMutants(runConfig.roots[s]))
Decided(s) == {Mutation(s, results[s][i].id) : i \in DOMAIN results[s]}
ListedMutations(s) == {Mutation(s, m.id) : m \in ListedBy(s)}
NoLimit == runConfig.maxFiles = 0 /\ runConfig.maxPerPackage = 0 /\ runConfig.maxMutants = 0

\* Whether the machines name groups alike: the tree lies under one path on all, or
\* groups are named by what no path changes, and walks leave out none of the paths.
AllInFunctions == \A f \in ToSet(Tree) : \A m \in ToSet(f.mutants) : m.function # None
SameNames ==
    \/ \A s, t \in Shards : runConfig.roots[s] = runConfig.roots[t]
    \/ /\ \/ EffectiveSliceBy \in {"package", "operator"}
          \/ EffectiveSliceBy = "function" /\ AllInFunctions
       /\ \A s \in Shards : Last(runConfig.roots[s]) \notin Excluded

\* When the machines name groups alike, no mutation is decided by two shards, whatever
\* limits and order apply, and without limits the shards decide every mutation of the
\* targets (applySlicing, sliceGroupKey, shardForKey, slicing.go).
ShardsPartition ==
    runConfig.count > 0 /\ SameNames =>
        /\ \A s, t \in Shards : s # t /\ Done(s) /\ Done(t) => Decided(s) \cap Decided(t) = {}
        /\ NoLimit /\ runConfig.count = Len(runConfig.roots) /\ (\A s \in Shards : Done(s)) =>
              \A s \in Shards : ListedMutations(s) \subseteq UNION {Decided(t) : t \in Shards}

Accountable(e) == \A field \in runConfig.required : e[field] # None
InForce(e, s) == e.expires > started[s]

\* A mutant goes untested only under a quarantine entry that has all the fields the
\* policy asks for and had not run out when the run began, or under a matching rule
\* that suppresses; one whose entry is still in force is not tested
\* (loadQuarantine, quarantine_flow.go; suppressedResult, execution.go).
ExcusesAreAccountable ==
    \A s \in Shards : Done(s) => \A i \in DOMAIN results[s] :
        LET r == results[s][i]
            ofIt == {e \in QuarantineFile : e.id = r.id}
        IN  /\ r.verdict = "quarantined" => \E e \in ofIt : Accountable(e) /\ InForce(e, s)
            /\ r.verdict = "ignored" =>
                  \E rule \in ToSet(Rules) : rule.action = "suppress"
                      /\ SuppressionRuleMatches(rule, mutants[s][i])
            /\ r.verdict = "run" => ~runConfig.quarantine \/ \A e \in ofIt : e.expires <= now

-----------------------------------------------------------------------------
(* What the proofs rest on: an inductive invariant.                         *)

SelectionTypeOK ==
    /\ now \in Nat
    /\ DOMAIN runAt = Shards /\ DOMAIN started = Shards /\ DOMAIN mutants = Shards
    /\ DOMAIN active = Shards /\ DOMAIN results = Shards
    /\ \A s \in Shards : started[s] \in Nat /\ started[s] <= now

InForceAt(t) == {e.id : e \in {e \in QuarantineFile : runConfig.quarantine /\ e.expires > t}}

\* What a run excuses was in force at one moment of it, and every entry was checked.
ReadWhileRunning(s) ==
    runAt[s] \in {"decide", "done"} =>
        /\ \E t \in 0..now : started[s] <= t /\ active[s] = InForceAt(t)
        /\ runConfig.quarantine => \A e \in QuarantineFile : Accountable(e)

DecidedAsRead(s) ==
    Done(s) => results[s] = [i \in DOMAIN mutants[s] |->
                                [id |-> mutants[s][i].id, verdict |-> Verdict(s, mutants[s][i])]]

\* What a run has listed, what it has selected of it, and that no group is missing.
Ours(s, m) == runConfig.count > 0 => ShardForKey(SliceGroupKey(m)) = s
SelectedAsListed(s) ==
    /\ runAt[s] = "slice" => mutants[s] = GenerateMutants(runConfig.roots[s])
    /\ runAt[s] \in {"quarantine", "decide", "done"} =>
          /\ \A m \in ToSet(mutants[s]) : m \in ListedBy(s) /\ Ours(s, m)
          /\ NoLimit => \A m \in ListedBy(s) : Ours(s, m) => m \in ToSet(mutants[s])
KeysAreHashed ==
    /\ runConfig \in RunConfigs
    /\ runConfig.count > 0 =>
          \A s \in Shards : \A m \in ListedBy(s) :
              ShardForKey(SliceGroupKey(m)) \in 1..runConfig.count

ExcusesInv == SelectionTypeOK /\ \A s \in Shards : ReadWhileRunning(s) /\ DecidedAsRead(s)
SelectionInv == ExcusesInv /\ KeysAreHashed /\ \A s \in Shards : SelectedAsListed(s)
=============================================================================
