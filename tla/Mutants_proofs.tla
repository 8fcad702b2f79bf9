--------------------------- MODULE Mutants_proofs ---------------------------
(***************************************************************************)
(* What holds of the mutants of any tree: how they are generated, tested   *)
(* in a tree of their own by any number of processes and judged by what    *)
(* the test command said.                                                  *)
(***************************************************************************)
EXTENDS TestTree, TestOutcome, Mutators, SequenceTheorems, WellFoundedInduction, TLAPS

\* A set of numbers has a least one.
LEMMA PairsInOrder ==
    ASSUME NEW x \in Nat, NEW y \in Nat, y < x
    PROVE  <<y, x>> \in {p \in Nat \X Nat : p[1] < p[2]}
OBVIOUS

LEMMA LeastIsOneOfThem ==
    ASSUME NEW T, T \subseteq Nat, T # {}
    PROVE  Min(T) \in T /\ \A n \in T : Min(T) <= n
<1> DEFINE less == {p \in Nat \X Nat : p[1] < p[2]}
<1>1. IsWellFoundedOn(less, Nat)
    BY NatLessThanWellFounded DEF OpToRel
<1> HIDE DEF less
<1>2. PICK x \in T : \A y \in T : ~(<<y, x>> \in less)
    BY <1>1, WFMin
<1>3. \A y \in T : x <= y
    <2> SUFFICES ASSUME NEW y \in T, y < x PROVE FALSE
        OBVIOUS
    <2>1. <<y, x>> \in less
        BY PairsInOrder DEF less
    <2> QED
        BY <1>2, <2>1
<1> QED
    BY <1>3 DEF Min

-----------------------------------------------------------------------------
(* Mutators: the profiles.                                                  *)

Operators == Fast \cup Conservative \cup Default \cup Aggressive

LEMMA OperatorsAreKnown == \A n : \A c \in CollectNode(n) : c.op \in Operators
<1> SUFFICES ASSUME NEW n, NEW c \in CollectNode(n) PROVE c.op \in Operators
    OBVIOUS
<1> USE DEF C, Operators, Fast, Conservative, Default, Aggressive
<1>1. c \in BinaryCandidates(n) \cup LoopControlCandidates(n) \cup IdentCandidates(n)
           \cup StringCandidates(n) \cup IntCandidates(n) \cup AssignCandidates(n)
           \cup IncDecCandidates(n)
    BY DEF CollectNode
<1>2. ASSUME c \in BinaryCandidates(n) PROVE c.op \in Operators
    BY <1>2 DEF BinaryCandidates
<1>3. ASSUME c \in LoopControlCandidates(n) PROVE c.op \in Operators
    BY <1>3 DEF LoopControlCandidates
<1>4. ASSUME c \in IdentCandidates(n) PROVE c.op \in Operators
    BY <1>4 DEF IdentCandidates
<1>5. ASSUME c \in StringCandidates(n) PROVE c.op \in Operators
    <2>1. c \in {C(op, N(n).text, "") : op \in {"string-empty-literals", "literals"}}
        BY <1>5 DEF StringCandidates
    <2>2. PICK op \in {"string-empty-literals", "literals"} : c = C(op, N(n).text, "")
        BY <2>1
    <2>3. c.op = op
        BY <2>2
    <2> QED
        BY <2>3
<1>6. ASSUME c \in IntCandidates(n) PROVE c.op \in Operators
    BY <1>6 DEF IntCandidates
<1>7. ASSUME c \in AssignCandidates(n) PROVE c.op \in Operators
    BY <1>7 DEF AssignCandidates
<1>8. ASSUME c \in IncDecCandidates(n) PROVE c.op \in Operators
    BY <1>8 DEF IncDecCandidates
<1> QED
    BY <1>1, <1>2, <1>3, <1>4, <1>5, <1>6, <1>7, <1>8

LEMMA ProfilesGrow ==
    ASSUME NEW op \in Operators, NEW p \in 1..5, NEW q \in 1..5, p <= q,
           OperatorEnabled(op, Profiles[p])
    PROVE  OperatorEnabled(op, Profiles[q])
<1>1. CASE op \in Fast
    BY <1>1 DEF OperatorEnabled, EnabledProfiles, Fast, Conservative, Default, Aggressive
<1>2. CASE op \in Conservative
    BY <1>2 DEF OperatorEnabled, EnabledProfiles, Profiles, Fast, Conservative
<1>3. CASE op \in Default
    BY <1>3 DEF OperatorEnabled, EnabledProfiles, Profiles, Fast, Conservative, Default
<1>4. CASE op \in Aggressive
    BY <1>4 DEF OperatorEnabled, EnabledProfiles, Profiles, Fast, Conservative, Default, Aggressive
<1> QED
    BY <1>1, <1>2, <1>3, <1>4 DEF Operators

LEMMA MutantsGrow ==
    ASSUME NEW p \in 1..5, NEW q \in 1..5, p <= q
    PROVE  MutantsOf(Profiles[p]) \subseteq MutantsOf(Profiles[q])
<1>1. \A n : Enabled(n, Profiles[p]) \subseteq Enabled(n, Profiles[q])
    BY OperatorsAreKnown, ProfilesGrow DEF Enabled
<1> QED
    BY <1>1 DEF MutantsOf

-----------------------------------------------------------------------------
\* The file is what it was, and so is all that is read off it.
LEMMA MutantsStay ==
    ASSUME source' = source
    PROVE  \A p : MutantsOf(p)' = MutantsOf(p)
<1>1. Nodes' = Nodes /\ \A n : N(n)' = N(n)
    BY DEF Nodes, N
<1>2. \A n : CollectNode(n)' = CollectNode(n)
    BY DEF CollectNode, BinaryCandidates, LoopControlCandidates, IdentCandidates, StringCandidates,
       IntCandidates, AssignCandidates, IncDecCandidates, IsNilCheck, IsLenComparison, IsLenCall,
       IsImportPath, IsNamed, Child, Is, N, Nodes
<1>3. /\ \A n, original : ReplaceFirst(n, original)' = ReplaceFirst(n, original)
      /\ \A line, op : Ignored(line, op)' = Ignored(line, op)
      /\ \A n : Function(n)' = Function(n)
    BY DEF ReplaceFirst, Ignored, Function, Above, Is, N, Nodes
<1>4. \A n : NonProgressLoopRisk(n)' = NonProgressLoopRisk(n)
    <2>1. \A n : EnclosingFor(n)' = EnclosingFor(n) /\ Counter(n)' = Counter(n)
        BY DEF EnclosingFor, Counter, IdentName, Above, Child, Is, N, Nodes
    <2>2. \A n, part : Child(n, part)' = Child(n, part)
        BY DEF Child, N, Nodes
    <2>3. /\ \A n, name : ExprHasIdent(n, name)' = ExprHasIdent(n, name)
          /\ \A n : Within(n)' = Within(n) /\ Is(n, "binary")' = Is(n, "binary")
        BY DEF ExprHasIdent, IsNamed, Within, Above, Is, N, Nodes
    <2>4. \A cond, name : LoopConditionDirection(cond, name)' = LoopConditionDirection(cond, name)
        <3> DEFINE Of(m, name) ==
                IF ExprHasIdent(Child(m, "x"), name) THEN DirectionFromComparison(N(m).text, TRUE)
                ELSE IF ExprHasIdent(Child(m, "y"), name)
                THEN DirectionFromComparison(N(m).text, FALSE)
                ELSE None
                   telling(cond, name) == {m \in Within(cond) : Is(m, "binary") /\ Of(m, name) # None}
        <3>1. \A m, name : Of(m, name)' = Of(m, name)
            BY <1>1, <2>2, <2>3
        <3>2. \A cond, name : LoopConditionDirection(cond, name) =
                IF telling(cond, name) = {} THEN None ELSE Of(Min(telling(cond, name)), name)
            BY DEF LoopConditionDirection
        <3>3. \A cond, name : LoopConditionDirection(cond, name)' =
                (IF telling(cond, name) = {} THEN None ELSE Of(Min(telling(cond, name)), name))'
            BY DEF LoopConditionDirection
        <3> HIDE DEF Of
        <3>4. \A cond, name : telling(cond, name)' = telling(cond, name)
            BY <2>3, <3>1
        <3> HIDE DEF telling
        <3> QED
            BY <3>1, <3>2, <3>3, <3>4
    <2> QED
        BY <1>1, <2>1, <2>2, <2>4 DEF NonProgressLoopRisk
<1>5. \A n, op : PermissionModeMutation(n, op)' = PermissionModeMutation(n, op)
    BY DEF PermissionModeMutation, EnclosingArgument, Callee, SelectorName, Above, Child, Is, N, Nodes
<1>6. \A n, op : SemanticGroup(n, op)' = SemanticGroup(n, op)
    BY DEF SemanticGroup, IsSortComparator, EnclosingArgument, Callee, SelectorName, IsLenComparison,
       IsLenCall, IsNamed, Above, Child, Is, N, Nodes
<1>7. \A n, op : EquivalentTag(n, op)' = EquivalentTag(n, op)
    BY DEF EquivalentTag, IsProvablyEquivalentTagMutation, DefaultName, Is, N
<1>8. \A n, c : AddMutation(n, c)' = AddMutation(n, c)
    BY <1>3, <1>4, <1>5, <1>6, <1>7 DEF AddMutation
<1>9. \A n, p : Enabled(n, p)' = Enabled(n, p)
    BY <1>1, <1>2, <1>3 DEF Enabled
<1> QED
    BY <1>1, <1>8, <1>9 DEF MutantsOf

LEMMA GeneratorStep == GeneratorInv /\ [Generate]_generatorVars => GeneratorInv'
<1> SUFFICES ASSUME GeneratorInv, [Generate]_generatorVars PROVE GeneratorInv'
    OBVIOUS
<1>1. CASE UNCHANGED generatorVars
    <2>1. \A p : MutantsOf(p)' = MutantsOf(p)
        BY <1>1, MutantsStay DEF generatorVars
    <2> QED
        BY <1>1, <2>1 DEF generatorVars, GeneratorInv
<1>2. CASE Generate
    <2>1. source' = source /\ level' = level + 1 /\ level \in 0..4 /\ level + 1 \in 1..5
        BY <1>2 DEF Generate, GeneratorInv
    <2>2. \A p : MutantsOf(p)' = MutantsOf(p)
        BY <2>1, MutantsStay
    <2>3. /\ DOMAIN generated' = 1..5
          /\ \A p \in 1..5 : p # level + 1 => generated'[p] = generated[p]
          /\ generated'[level + 1] = IF generation' = "ok" THEN MutantsOf(Profiles[level + 1]) ELSE {}
        BY <1>2, <2>1 DEF Generate, GeneratorInv
    <2> QED
        BY <2>1, <2>2, <2>3 DEF GeneratorInv
<1> QED
    BY <1>1, <1>2

THEOREM GeneratorInvariant == GeneratorSpec => []GeneratorInv
<1>1. GeneratorInit => GeneratorInv
    BY DEF GeneratorInit, GeneratorInv, None
<1> QED
    BY <1>1, GeneratorStep, PTL DEF GeneratorSpec

\* Of any files, with any comments.
THEOREM ProfilesKeepMutants == GeneratorSpec => []StrongerProfilesKeepMutants
<1>1. GeneratorInv => StrongerProfilesKeepMutants
    <2> SUFFICES ASSUME GeneratorInv, generation = "ok", NEW p \in 1..(level - 1)
                 PROVE  generated[p] \subseteq generated[level]
        BY DEF StrongerProfilesKeepMutants
    <2>1. p \in 1..5 /\ level \in 1..5 /\ p <= level
        BY DEF GeneratorInv
    <2>2. generated[p] \subseteq MutantsOf(Profiles[p]) /\ generated[level] = MutantsOf(Profiles[level])
        BY <2>1 DEF GeneratorInv
    <2> QED
        BY <2>1, <2>2, MutantsGrow
<1> QED
    BY <1>1, GeneratorInvariant, PTL

-----------------------------------------------------------------------------
(* Tags.                                                                    *)

LEMMA TagsAreSingle ==
    ASSUME GeneratorInv, NEW n \in Nodes, N(n).part = "tag"
    PROVE  Child(N(n).parent, "tag") = n
<1>1. {m \in Nodes : N(m).parent = N(n).parent /\ N(m).part = "tag"} = {n}
    BY MutatorsAssumption DEF GeneratorInv, Nodes, N
<1>2. n \in Nat
    BY MutatorsAssumption DEF GeneratorInv, Nodes
<1>3. Min({n}) = n
    BY <1>2 DEF Min
<1> QED
    BY <1>1, <1>3 DEF Child

\* Without its tag an exported field is decoded from the name that the tag gave it.
LEMMA EmptiedTagIsDefault ==
    ASSUME GeneratorInv, NEW n \in Nodes, NEW op, EquivalentTag(n, op),
           N(N(n).parent).exported, NEW key \in TagKnownKeys
    PROVE  LET field == N(n).parent
           IN  /\ Pair(field, field, key) = [name |-> "", options |-> FALSE]
               /\ Pair(field, 0, key).options = FALSE
               /\ Pair(field, 0, key).name = "" \/
                    (key = "yaml" /\ Pair(field, 0, key).name = DefaultName(key, field)
                     /\ Pair(field, 0, key).name # "-")
<1> DEFINE field == N(n).parent
           tag == N(n).tag.pairs
<1>1. field # 0 /\ N(n).part = "tag" /\ IsProvablyEquivalentTagMutation(field, N(n).tag)
    BY DEF EquivalentTag, Is
<1>2. TagOf(field, field) = <<>> /\ TagOf(field, 0) = tag
    <2>1. Child(field, "tag") = n
        BY <1>1, TagsAreSingle
    <2>2. n # 0
        BY MutatorsAssumption DEF GeneratorInv, Nodes
    <2> QED
        BY <1>1, <2>1, <2>2 DEF TagOf
<1>3. Pair(field, field, key) = [name |-> "", options |-> FALSE]
    <2>1. {i \in DOMAIN <<>> : <<>>[i].key = key} = {}
        OBVIOUS
    <2> QED
        BY <1>2, <2>1 DEF Pair
<1> DEFINE having == {i \in DOMAIN tag : tag[i].key = key}
<1>4. CASE having = {}
    BY <1>2, <1>3, <1>4 DEF Pair
<1>5. CASE having # {}
    <2>1. having \subseteq Nat
        BY MutatorsAssumption DEF GeneratorInv, Nodes, N
    <2>2. PICK i \in having : i = Min(having)
        BY <1>5, <2>1, LeastIsOneOfThem
    <2>3. Pair(field, 0, key) = [name |-> tag[i].name, options |-> tag[i].options]
        BY <1>2, <1>5, <2>2 DEF Pair
    <2>4. ~tag[i].options /\ tag[i].name # "-"
          /\ (tag[i].name # "" => key = "yaml" /\ tag[i].name = DefaultName(key, field))
        BY <1>1, <2>2 DEF IsProvablyEquivalentTagMutation, TagDerives
    <2>5. tag[i].options \in BOOLEAN
        BY MutatorsAssumption DEF GeneratorInv, Nodes, N
    <2> QED
        <3>1. Pair(field, 0, key).name = tag[i].name /\ Pair(field, 0, key).options = tag[i].options
            BY <2>3
        <3>2. Pair(field, 0, key).options = FALSE
            BY <2>4, <2>5, <3>1
        <3>3. Pair(field, 0, key).name = "" \/
                (key = "yaml" /\ Pair(field, 0, key).name = DefaultName(key, field)
                 /\ Pair(field, 0, key).name # "-")
            BY <2>4, <3>1
        <3> QED
            BY <1>3, <3>2, <3>3
<1> QED
    BY <1>4, <1>5

\* The tags of other fields are what they were.
LEMMA OthersKeepTheirs ==
    ASSUME NEW field, NEW f, f # field, f # 0, NEW key
    PROVE  Pair(f, field, key) = Pair(f, 0, key)
<1>1. TagOf(f, field) = TagOf(f, 0)
    BY DEF TagOf
<1> QED
    BY <1>1 DEF Pair

LEMMA EmptiedTagChangesNothing ==
    ASSUME GeneratorInv, NEW n \in Nodes, NEW op, EquivalentTag(n, op), NEW key \in TagKnownKeys
    PROVE  LET field == N(n).parent
           IN  Decoded(Siblings(field), 0, key) = Decoded(Siblings(field), field, key)
<1> DEFINE field == N(n).parent
           struct == Siblings(field)
<1>1. field # 0 /\ \A f \in struct : f # 0
    BY MutatorsAssumption DEF EquivalentTag, Is, Siblings
<1>2. ASSUME NEW f \in struct, N(f).exported
      PROVE  /\ Pair(f, field, key).options = Pair(f, 0, key).options
             /\ DecodedName(f, field, key) = DecodedName(f, 0, key)
             /\ Pair(f, field, key).name = Pair(f, 0, key).name \/
                  (key = "yaml" /\ Pair(f, field, key).name # "-" /\ Pair(f, 0, key).name # "-")
    <2>1. CASE f # field
        BY <1>1, <2>1, OthersKeepTheirs DEF DecodedName
    <2>2. CASE f = field
        <3>1. /\ Pair(field, field, key) = [name |-> "", options |-> FALSE]
              /\ Pair(field, 0, key).options = FALSE
              /\ Pair(field, 0, key).name = "" \/
                   (key = "yaml" /\ Pair(field, 0, key).name = DefaultName(key, field)
                    /\ Pair(field, 0, key).name # "-")
            BY <1>2, <2>2, EmptiedTagIsDefault
        <3> HIDE DEF field
        <3>2. Pair(field, field, key).name = "" /\ Pair(field, field, key).options = FALSE
            <4>1. [name |-> "", options |-> FALSE].name = "" /\ [name |-> "", options |-> FALSE].options = FALSE
                OBVIOUS
            <4> QED
                BY ONLY <3>1, <4>1
        <3>3. DecodedName(field, field, key) = DefaultName(key, field)
              /\ DecodedName(field, 0, key) = DefaultName(key, field)
            BY <3>1, <3>2 DEF DecodedName
        <3> QED
            BY <2>2, <3>1, <3>2, <3>3
    <2> QED
        BY <2>1, <2>2
<1> HIDE DEF field, struct
<1>3. DecodedFields(struct, field, key) = DecodedFields(struct, 0, key)
    BY <1>2 DEF DecodedFields
<1> DEFINE fields == DecodedFields(struct, 0, key)
<1>4. \A f \in fields : f \in struct /\ N(f).exported
    BY DEF DecodedFields
<1>5. \A f \in fields : Rivals(f, struct, field, key) = Rivals(f, struct, 0, key)
    BY <1>2, <1>3, <1>4 DEF Rivals
<1>6. Refused(struct, field, key) <=> Refused(struct, 0, key)
    BY <1>3, <1>5 DEF Refused
<1>7. ASSUME NEW f \in fields PROVE Wins(f, struct, field, key) <=> Wins(f, struct, 0, key)
    <2>1. CASE key = "yaml"
        BY <1>5, <1>7, <2>1 DEF Wins
    <2>2. CASE key # "yaml"
        <3>1. \A g \in Rivals(f, struct, 0, key) : Pair(g, field, key).name = Pair(g, 0, key).name
            BY <1>2, <1>4, <2>2 DEF Rivals
        <3>2. {g \in Rivals(f, struct, field, key) : Pair(g, field, key).name # ""} =
              {g \in Rivals(f, struct, 0, key) : Pair(g, 0, key).name # ""}
            BY <1>5, <1>7, <3>1
        <3> QED
            BY <1>5, <1>7, <3>2 DEF Wins
    <2> QED
        BY <2>1, <2>2
<1>8. {f \in DecodedFields(struct, field, key) :
           ~Refused(struct, field, key) /\ Wins(f, struct, field, key)} =
      {f \in fields : ~Refused(struct, 0, key) /\ Wins(f, struct, 0, key)}
    BY <1>3, <1>6, <1>7
<1>9. \A f \in fields :
          [field |-> f, name |-> DecodedName(f, field, key), options |-> Pair(f, field, key).options]
        = [field |-> f, name |-> DecodedName(f, 0, key), options |-> Pair(f, 0, key).options]
    BY <1>2, <1>4
<1>10. Decoded(struct, 0, key) = Decoded(struct, field, key)
    BY <1>8, <1>9 DEF Decoded
<1> QED
    BY <1>10 DEF field, struct

\* Of any struct whose fields have tags for the two decoders.
THEOREM EmptiedTagsAreEquivalent == GeneratorSpec => []EquivalentTagsChangeNothing
<1>1. GeneratorInv => EquivalentTagsChangeNothing
    <2> SUFFICES ASSUME GeneratorInv, NEW p \in 1..5, NEW m \in generated[p], m.equivalent,
                        NEW key \in TagKnownKeys
                 PROVE  LET field == N(m.node).parent
                        IN  Decoded(Siblings(field), 0, key) = Decoded(Siblings(field), field, key)
        BY DEF EquivalentTagsChangeNothing
    <2>1. m \in MutantsOf(Profiles[p])
        BY DEF GeneratorInv
    <2>2. PICK n \in Nodes : \E c \in Enabled(n, Profiles[p]) : m = AddMutation(n, c)
        BY <2>1 DEF MutantsOf
    <2>3. PICK c \in Enabled(n, Profiles[p]) : m = AddMutation(n, c)
        BY <2>2
    <2>4. m.node = n /\ EquivalentTag(n, c.op)
        BY <2>3 DEF AddMutation
    <2> QED
        BY <2>4, EmptiedTagChangesNothing
<1> QED
    BY <1>1, GeneratorInvariant, PTL

-----------------------------------------------------------------------------
(* TestTree: the tree mutants are tested in.                                *)

LEMMA NamesOfWalk == Names = {"mod", "x", "x_test", "y"}
<1>1. DOMAIN Walk = 1 .. 4
  BY DEF Walk
<1> QED
  BY <1>1 DEF Names, ToSet, Walk

\* A step of one process.
Step(i) ==
  \/ Begin(i) \/ Select(i) \/ ReadKey(i) \/ GetCached(i) \/ CreateTempDir(i) \/ Copy(i)
  \/ FailCopy(i) \/ ApplyReplacement(i) \/ TestReads(i) \/ Test(i) \/ FailTest(i)
  \/ PutCached(i) \/ Cleanup(i) \/ Kill(i)

LEMMA StepsOfNext == TreeNext => Edit \/ \E i \in Workers : Step(i)
BY DEF TreeNext, Step

LEMMA IdleFields ==
  DOMAIN Idle = {"at", "runs", "fingerprint", "command", "key", "was", "seen", "disturbed",
                 "mutated", "pass", "todo", "result", "hit"}
BY DEF Idle

-----------------------------------------------------------------------------
(* What each step does to its process, field by field.                      *)

Alone(i) == DOMAIN w' = Workers /\ \A j \in Workers \ {i} : w'[j] = w[j]

\* The process goes on, ...
Moves(i, step) ==
  /\ Alone(i) /\ DOMAIN w'[i] = DOMAIN w[i]
  /\ w'[i].at = step /\ w'[i].runs = w[i].runs /\ w'[i].disturbed = w[i].disturbed
  /\ w'[i].pass \in BOOLEAN /\ w'[i].result # "cached" /\ w'[i].todo \subseteq Names

\* ... with what it has read and the key it has taken, ...
Keeps(i) == w'[i].key = w[i].key /\ w'[i].was = w[i].was /\ w'[i].seen = w[i].seen

\* ... or it ends its run.
Ends(i) ==
  /\ Alone(i) /\ DOMAIN w'[i] = DOMAIN w[i]
  /\ w'[i].at = "idle" /\ w'[i].runs = w[i].runs /\ w'[i].disturbed = FALSE /\ w'[i].pass = FALSE
  /\ w'[i].seen = Absent /\ w'[i].todo = {}

LEMMA EndEnds ==
  ASSUME TypeOK, NEW i \in Workers, NEW result, result # "cached", End(i, result)
  PROVE  Ends(i) /\ w'[i].was = Absent /\ w'[i].result # "cached"
<1>1. w'[i] = [Idle EXCEPT !.runs = w[i].runs, !.result = result]
  BY DEF TypeOK, End
<1>2. Alone(i)
  BY DEF TypeOK, End, Alone
<1>3. DOMAIN w'[i] = DOMAIN w[i]
  BY <1>1 DEF TypeOK, Process
<1> QED
  BY <1>1, <1>2, <1>3, IdleFields DEF Ends, Idle

LEMMA BeginDoes ==
  ASSUME TypeOK, NEW i \in Workers, Begin(i)
  PROVE  /\ Alone(i) /\ DOMAIN w'[i] = DOMAIN w[i]
         /\ w'[i].at = (IF i \in config.daemons THEN "prepare" ELSE "select")
         /\ w'[i].runs = w[i].runs + 1 /\ w'[i].disturbed = FALSE /\ w'[i].pass = FALSE
         /\ w'[i].result = NoResult /\ w'[i].was = Absent /\ w'[i].seen = Absent
         /\ w'[i].todo = {}
<1>1. PICK c, f : w'[i] = [Idle EXCEPT !.runs = w[i].runs + 1,
                             !.at = IF i \in config.daemons THEN "prepare" ELSE "select",
                             !.command = c, !.fingerprint = f]
  BY DEF TypeOK, Begin
<1>2. Alone(i)
  BY DEF TypeOK, Begin, Alone
<1>3. DOMAIN w'[i] = DOMAIN w[i]
  BY <1>1 DEF TypeOK, Process
<1> QED
  BY <1>1, <1>2, <1>3, IdleFields DEF Idle

LEMMA SelectDoes ==
  ASSUME TypeOK, NEW i \in Workers, Select(i)
  PROVE  \/ Moves(i, "key") /\ Keeps(i)
         \/ Ends(i) /\ w'[i].was = Absent /\ w'[i].result # "cached"
<1>1. CASE SelectTests.covers
  BY <1>1, IdleFields DEF TypeOK, Process, Select, At, Alone, Moves, Keeps
<1>2. CASE ~SelectTests.covers
  BY <1>2, EndEnds DEF Select
<1> QED
  BY <1>1, <1>2

LEMMA ReadKeyDoes ==
  ASSUME TypeOK, NEW i \in Workers, ReadKey(i)
  PROVE  /\ Moves(i, IF config.cache = "off" THEN "prepare" ELSE "get")
         /\ w'[i].key = CacheKey(i) /\ w'[i].was = tree /\ w'[i].seen = w[i].seen
BY IdleFields DEF TypeOK, Process, ReadKey, At, Alone, Moves

LEMMA GetCachedDoes ==
  ASSUME TypeOK, NEW i \in Workers, GetCached(i)
  PROVE  \/ Moves(i, "prepare") /\ Keeps(i)
         \/ /\ w[i].key \in DOMAIN entries /\ entries[w[i].key] # TornEntry
            /\ Ends(i) /\ w'[i].was = w[i].was /\ w'[i].hit = entries[w[i].key]
<1>1. CASE w[i].key \in DOMAIN entries /\ entries[w[i].key] # TornEntry
  <2>1. w'[i] = [Idle EXCEPT !.runs = w[i].runs, !.result = "cached", !.was = w[i].was,
                             !.hit = entries[w[i].key]]
    BY <1>1 DEF TypeOK, GetCached
  <2>2. Alone(i)
    BY <1>1 DEF TypeOK, GetCached, Alone
  <2>3. DOMAIN w'[i] = DOMAIN w[i]
    BY <2>1 DEF TypeOK, Process
  <2> QED
    BY <1>1, <2>1, <2>2, <2>3, IdleFields DEF Ends, Idle
<1>2. CASE ~(w[i].key \in DOMAIN entries /\ entries[w[i].key] # TornEntry)
  BY <1>2, IdleFields DEF TypeOK, Process, GetCached, Then, At, Alone, Moves, Keeps
<1> QED
  BY <1>1, <1>2

LEMMA CreateTempDirDoes ==
  ASSUME TypeOK, NEW i \in Workers, CreateTempDir(i)
  PROVE  /\ Moves(i, "read") /\ Keeps(i)
         /\ w'[i].todo = (IF Overlay(i) THEN {"x"} ELSE Names)
BY IdleFields, NamesOfWalk DEF TypeOK, Process, CreateTempDir, At, Alone, Moves, Keeps

LEMMA SeeDoes ==
  ASSUME TypeOK, NEW i \in Workers, ~At(i, "idle"), NEW name \in Names, See(i, name)
  PROVE  /\ Moves(i, w[i].at) /\ w'[i].key = w[i].key /\ w'[i].was = w[i].was
         /\ w'[i].todo = w[i].todo \ {name} /\ w'[i].seen = [w[i].seen EXCEPT ![name] = tree[name]]
BY IdleFields DEF TypeOK, Process, See, At, Alone, Moves

LEMMA BeginTestDoes ==
  ASSUME TypeOK, NEW i \in Workers, ~At(i, "idle"), BeginTest(i)
  PROVE  Moves(i, "test") /\ Keeps(i) /\ w'[i].todo = ReadByTests(i)
BY IdleFields DEF TypeOK, Process, BeginTest, ReadByTests, At, Alone, Moves, Keeps

LEMMA TestDoes ==
  ASSUME TypeOK, NEW i \in Workers, Test(i)
  PROVE  Moves(i, IF Writes(i) THEN "put" ELSE "cleanup") /\ Keeps(i)
BY IdleFields DEF TypeOK, Process, Test, At, Alone, Moves, Keeps

LEMMA FailTestDoes ==
  ASSUME TypeOK, NEW i \in Workers, FailTest(i)
  PROVE  Moves(i, "cleanup") /\ Keeps(i)
BY IdleFields DEF TypeOK, Process, FailTest, At, Alone, Moves, Keeps

LEMMA ThenDoes ==
  ASSUME TypeOK, NEW i \in Workers, ~At(i, "idle"), NEW step, Then(i, step)
  PROVE  Moves(i, step) /\ Keeps(i)
BY IdleFields DEF TypeOK, Process, Then, At, Alone, Moves, Keeps

LEMMA PutPuts ==
  ASSUME NEW key, NEW entry, Put(key, entry)
  PROVE  /\ DOMAIN entries' = DOMAIN entries \cup {key}
         /\ entries'[key] = entry
         /\ \A k \in DOMAIN entries : k # key => entries'[k] = entries[k]
BY DEF Put

-----------------------------------------------------------------------------
(* The types.                                                               *)

LEMMA AbsentFiles == Absent \in [Names -> FileVersions]
BY DEF Absent, FileVersions

LEMMA TypeInit == TreeInit => TypeOK
<1> SUFFICES ASSUME TreeInit PROVE TypeOK
  OBVIOUS
<1>1. Process(Idle) /\ Idle.at = "idle"
  BY AbsentFiles DEF Process, Idle, Steps, PastKey, WithDir
<1>2. \A i \in Workers : w[i] = Idle
  BY DEF TreeInit
<1> QED
  BY <1>1, <1>2 DEF TreeInit, TypeOK, FileVersions, Cached

\* The types of a process that has gone on or ended.
LEMMA TypeOfMove ==
  ASSUME TypeOK, NEW i \in Workers, NEW step \in Steps, Moves(i, step),
         w'[i].was \in [Names -> FileVersions], w'[i].seen \in [Names -> FileVersions],
         config' = config, tree' = tree, edits' = edits, step \in Cached => i \notin config.daemons,
         entries' = entries
  PROVE  TypeOK'
<1>1. Process(w'[i])
  BY DEF TypeOK, Process, Moves
<1> QED
  BY <1>1 DEF TypeOK, Moves, Alone

LEMMA TypeOfEnd ==
  ASSUME TypeOK, NEW i \in Workers, Ends(i), w'[i].was \in [Names -> FileVersions],
         UNCHANGED <<config, tree, edits, entries>>
  PROVE  TypeOK'
<1>1. Process(w'[i]) /\ w'[i].at = "idle"
  BY AbsentFiles DEF TypeOK, Process, Ends, Steps
<1> QED
  BY <1>1 DEF TypeOK, Ends, Alone, Cached

LEMMA TypeOfSee ==
  ASSUME TypeOK, NEW i \in Workers, w[i].at \in {"read", "test"}, NEW name \in Names, See(i, name),
         UNCHANGED <<config, tree, edits, entries>>
  PROVE  TypeOK'
<1>0. w[i].seen \in [Names -> FileVersions] /\ w[i].was \in [Names -> FileVersions] /\ tree \in [Names -> FileVersions]
  BY DEF TypeOK, Process
<1>1. w'[i].seen \in [Names -> FileVersions] /\ w'[i].was \in [Names -> FileVersions]
  <2>1. w'[i].seen = [w[i].seen EXCEPT ![name] = tree[name]] /\ w'[i].was = w[i].was
    BY SeeDoes DEF At
  <2> QED
    BY <1>0, <2>1
<1>2. Moves(i, w[i].at)
  BY SeeDoes DEF At
<1> QED
  BY <1>1, <1>2, TypeOfMove DEF Steps, PastKey, WithDir, Cached

LEMMA TypeNext == TypeOK /\ [TreeNext]_treeVars => TypeOK'
<1> SUFFICES ASSUME TypeOK, [TreeNext]_treeVars PROVE TypeOK'
  OBVIOUS
<1> USE AbsentFiles
<1>1. CASE UNCHANGED treeVars
  BY <1>1 DEF TypeOK, treeVars
<1>2. CASE Edit
  <2>1. \A i \in Workers : w'[i] = [w[i] EXCEPT !.disturbed = w[i].disturbed \/ ~At(i, "idle")]
    BY <1>2 DEF Edit
  <2>2. \A i \in Workers : Process(w'[i]) /\ w'[i].at = w[i].at
    <3> SUFFICES ASSUME NEW i \in Workers PROVE Process(w'[i]) /\ w'[i].at = w[i].at
      OBVIOUS
    <3>1. Process(w[i])
      BY DEF TypeOK
    <3>2. /\ DOMAIN w'[i] = DOMAIN w[i] /\ w'[i].disturbed \in BOOLEAN
          /\ w'[i].at = w[i].at /\ w'[i].runs = w[i].runs /\ w'[i].pass = w[i].pass
          /\ w'[i].was = w[i].was /\ w'[i].seen = w[i].seen /\ w'[i].todo = w[i].todo
          /\ w'[i].result = w[i].result
      BY <2>1, <3>1, IdleFields DEF Process
    <3> QED
      BY <3>1, <3>2 DEF Process
  <2>3. tree' \in [Names -> FileVersions] /\ edits' \in Nat
    BY <1>2 DEF TypeOK, Edit, FileVersions
  <2> QED
    BY <1>2, <2>2, <2>3 DEF TypeOK, Edit
<1>3. ASSUME NEW i \in Workers, Step(i) PROVE TypeOK'
  <2>0. w[i].was \in [Names -> FileVersions] /\ w[i].seen \in [Names -> FileVersions] /\ tree \in [Names -> FileVersions]
    BY DEF TypeOK, Process
  <2> USE DEF Steps, PastKey, WithDir, Cached
  <2>1. CASE Begin(i)
    <3>1. Process(w[i]) /\ w'[i].at \in {"prepare", "select"}
          /\ (w'[i].at = "select" => i \notin config.daemons)
      BY <2>1, BeginDoes DEF TypeOK
    <3>2. Process(w'[i])
      <4>1. /\ DOMAIN w'[i] = DOMAIN w[i] /\ w'[i].runs = w[i].runs + 1
            /\ w'[i].disturbed \in BOOLEAN /\ w'[i].pass \in BOOLEAN /\ w'[i].result = NoResult
            /\ w'[i].was = Absent /\ w'[i].seen = Absent /\ w'[i].todo = {}
        BY <2>1, BeginDoes
      <4> QED
        BY <3>1, <4>1 DEF Process, NoResult
    <3>3. \A j \in Workers \ {i} : w'[j] = w[j]
      BY <2>1, BeginDoes DEF Alone
    <3> QED
      BY <2>1, <3>1, <3>2, <3>3, BeginDoes DEF TypeOK, Alone, Begin
  <2>2. CASE Select(i)
    BY <2>0, <2>2, SelectDoes, TypeOfMove, TypeOfEnd DEF TypeOK, Select, At, Keeps
  <2>3. CASE ReadKey(i)
    BY <2>0, <2>3, ReadKeyDoes, TypeOfMove DEF TypeOK, ReadKey, At
  <2>4. CASE GetCached(i)
    BY <2>0, <2>4, GetCachedDoes, TypeOfMove, TypeOfEnd DEF GetCached, Keeps
  <2>5. CASE CreateTempDir(i)
    BY <2>0, <2>5, CreateTempDirDoes, TypeOfMove DEF CreateTempDir, Keeps
  <2>6. CASE Copy(i)
    <3>1. PICK n \in 1 .. Len(Walk) : See(i, Walk[n])
      BY <2>6 DEF Copy
    <3>2. Walk[n] \in Names
      BY NamesOfWalk DEF Walk
    <3> QED
      BY <2>6, <3>1, <3>2, TypeOfSee DEF Copy, At
  <2>7. CASE FailCopy(i)
    BY <2>0, <2>7, EndEnds, TypeOfEnd DEF FailCopy, RemoveAfterError
  <2>8. CASE ApplyReplacement(i)
    BY <2>0, <2>8, EndEnds, TypeOfEnd, BeginTestDoes, TypeOfMove
       DEF ApplyReplacement, RemoveAfterError, At, Keeps
  <2>9. CASE TestReads(i)
    <3>1. PICK name \in w[i].todo : See(i, name)
      BY <2>9 DEF TestReads
    <3>2. name \in Names
      BY DEF TypeOK, Process
    <3> QED
      BY <2>9, <3>1, <3>2, TypeOfSee DEF TestReads, At
  <2>10. CASE Test(i)
    BY <2>0, <2>10, TestDoes, TypeOfMove DEF Test, Writes, Keeps
  <2>11. CASE FailTest(i)
    BY <2>0, <2>11, FailTestDoes, TypeOfMove DEF FailTest, Keeps
  <2>12. CASE PutCached(i)
    <3>1. Process(w'[i]) /\ Alone(i) /\ w'[i].at \in {"write", "cleanup"} /\ i \notin config.daemons
      BY <2>0, <2>12, ThenDoes DEF TypeOK, Process, PutCached, At, Moves, Keeps
    <3>2. [torn |-> FALSE, seen |-> w[i].seen, pass |-> w[i].pass, disturbed |-> w[i].disturbed] \in CacheEntries
      BY DEF TypeOK, Process, CacheEntries
    <3>3. \A key \in DOMAIN entries' : entries'[key] \in CacheEntries
      <4>1. PICK entry \in CacheEntries : Put(w[i].key, entry)
        BY <2>12, <3>2 DEF PutCached, CacheEntries
      <4>2. /\ DOMAIN entries' = DOMAIN entries \cup {w[i].key}
            /\ entries'[w[i].key] = entry
            /\ \A k \in DOMAIN entries : k # w[i].key => entries'[k] = entries[k]
        BY <4>1, PutPuts
      <4> QED
        BY <4>2 DEF TypeOK
    <3> QED
      BY <2>12, <3>1, <3>3 DEF TypeOK, PutCached, Alone
  <2>13. CASE Cleanup(i)
    BY <2>0, <2>13, EndEnds, TypeOfEnd DEF TypeOK, Process, Cleanup, At
  <2>14. CASE Kill(i)
    BY <2>0, <2>14, EndEnds, TypeOfEnd DEF Kill
  <2> QED
    BY <1>3, <2>1, <2>2, <2>3, <2>4, <2>5, <2>6, <2>7, <2>8, <2>9, <2>10, <2>11, <2>12, <2>13,
       <2>14 DEF Step
<1> QED
  BY <1>1, <1>2, <1>3, StepsOfNext

\* A process reads a file as it is.
LEMMA SeeReads ==
  ASSUME TypeOK, NEW i \in Workers, Copy(i) \/ TestReads(i)
  PROVE  \E name \in Names :
            /\ name \in w[i].todo /\ Moves(i, w[i].at)
            /\ w'[i].key = w[i].key /\ w'[i].was = w[i].was /\ w'[i].todo = w[i].todo \ {name}
            /\ w'[i].seen[name] = tree[name]
            /\ \A other \in Names \ {name} : w'[i].seen[other] = w[i].seen[other]
            /\ UNCHANGED <<config, cover, tree, edits, entries, left, killed>>
<1>1. PICK name \in Names : name \in w[i].todo /\ See(i, name)
  <2>1. CASE Copy(i)
    <3>1. PICK n \in 1 .. Len(Walk) : Walk[n] \in w[i].todo /\ See(i, Walk[n])
      BY <2>1 DEF Copy
    <3> QED
      BY <3>1 DEF TypeOK, Process
  <2>2. CASE TestReads(i)
    BY <2>2 DEF TestReads, TypeOK, Process
  <2> QED
    BY <2>1, <2>2
<1>2. ~At(i, "idle") /\ UNCHANGED <<config, cover, tree, edits, entries, left, killed>>
  BY DEF Copy, TestReads, At
<1>3. w[i].seen \in [Names -> FileVersions]
  BY DEF TypeOK, Process
<1> QED
  BY <1>1, <1>2, <1>3, SeeDoes

-----------------------------------------------------------------------------
(* The directories.                                                         *)

\* A process with a directory keeps it, or makes it; ...
LEMMA OwnedAtWork ==
  ASSUME TypeOK, Owned, NEW i \in Workers, NEW step \in WithDir, Moves(i, step),
         left' \subseteq left \cup {Dir(i)}, killed' = killed
  PROVE  Owned'
<1>1. w'[i].runs = w[i].runs /\ w'[i].at \in WithDir /\ \A j \in Workers \ {i} : w'[j] = w[j]
  BY DEF Moves, Alone
<1>2. w[i].runs \in Nat
  BY DEF TypeOK, Process
<1> QED
  BY <1>1, <1>2 DEF Owned, Dir

\* ... one that ends leaves none, unless it is killed.
LEMMA OwnedAtEnd ==
  ASSUME TypeOK, Owned, NEW i \in Workers, Ends(i), killed \subseteq killed', left' \subseteq left,
         Dir(i) \notin left' \ killed'
  PROVE  Owned'
<1>1. \A j \in Workers \ {i} : w'[j] = w[j]
  BY DEF Ends, Alone
<1> QED
  BY <1>1 DEF Owned, Dir

LEMMA OwnedNext == TypeOK /\ Owned /\ [TreeNext]_treeVars => Owned'
<1> SUFFICES ASSUME TypeOK, Owned, [TreeNext]_treeVars PROVE Owned'
  OBVIOUS
<1> USE DEF Owned, Dir, WithDir
<1>1. CASE UNCHANGED treeVars
  BY <1>1 DEF treeVars
<1>2. CASE Edit
  <2>1. \A i \in Workers : w'[i].at = w[i].at /\ w'[i].runs = w[i].runs
    BY <1>2, IdleFields DEF TypeOK, Process, Edit
  <2> QED
    BY <1>2, <2>1 DEF Edit
<1>3. ASSUME NEW i \in Workers, Step(i) PROVE Owned'
  <2>0. \A d \in left : d[1] \in Workers
    OBVIOUS
  <2>1. CASE Begin(i)
    BY <2>0, <2>1, BeginDoes DEF Begin, At, Alone
  <2>2. CASE Select(i)
    BY <2>0, <2>2, SelectDoes DEF Select, At, Moves, Ends, Alone
  <2>3. CASE ReadKey(i)
    BY <2>0, <2>3, ReadKeyDoes DEF ReadKey, At, Moves, Alone
  <2>4. CASE GetCached(i)
    <3>1. Alone(i) /\ w[i].at = "get" /\ w'[i].at \notin WithDir /\ UNCHANGED <<left, killed>>
      BY <2>4, GetCachedDoes DEF GetCached, At, Moves, Ends
    <3> QED
      BY <2>0, <3>1 DEF Alone
  <2>5. CASE CreateTempDir(i)
    BY <2>5, CreateTempDirDoes, OwnedAtWork DEF CreateTempDir
  <2>6. CASE Copy(i)
    <3>1. PICK n \in 1 .. Len(Walk) : See(i, Walk[n])
      BY <2>6 DEF Copy
    <3>2. Walk[n] \in Names
      BY NamesOfWalk DEF Walk
    <3> QED
      BY <2>6, <3>1, <3>2, SeeDoes, OwnedAtWork DEF Copy, At
  <2>7. CASE FailCopy(i)
    BY <2>7, EndEnds, OwnedAtEnd DEF FailCopy, RemoveAfterError
  <2>8. CASE ApplyReplacement(i)
    <3>1. CASE RemoveAfterError(i) /\ UNCHANGED killed
      BY <3>1, EndEnds, OwnedAtEnd DEF RemoveAfterError
    <3>2. CASE BeginTest(i) /\ UNCHANGED <<left, killed>> /\ At(i, "read")
      BY <3>2, BeginTestDoes, OwnedAtWork DEF At
    <3> QED
      BY <2>8, <3>1, <3>2 DEF ApplyReplacement
  <2>9. CASE TestReads(i)
    <3>1. PICK name \in w[i].todo : See(i, name)
      BY <2>9 DEF TestReads
    <3>2. name \in Names
      BY DEF TypeOK, Process
    <3> QED
      BY <2>9, <3>1, <3>2, SeeDoes, OwnedAtWork DEF TestReads, At
  <2>10. CASE Test(i)
    BY <2>10, TestDoes, OwnedAtWork DEF Test
  <2>11. CASE FailTest(i)
    BY <2>11, FailTestDoes, OwnedAtWork DEF FailTest
  <2>12. CASE PutCached(i)
    BY <2>12, ThenDoes, OwnedAtWork DEF PutCached, At
  <2>13. CASE Cleanup(i)
    BY <2>13, EndEnds, OwnedAtEnd DEF TypeOK, Process, Cleanup, At
  <2>14. CASE Kill(i)
    BY <2>14, EndEnds, OwnedAtEnd DEF Kill
  <2> QED
    BY <1>3, <2>1, <2>2, <2>3, <2>4, <2>5, <2>6, <2>7, <2>8, <2>9, <2>10, <2>11, <2>12, <2>13,
       <2>14 DEF Step
<1> QED
  BY <1>1, <1>2, <1>3, StepsOfNext

-----------------------------------------------------------------------------
(* The versions of a file.                                                  *)

LEMMA SnapshotsOfAll ==
  ASSUME NEW name
  PROVE  /\ Absent[name] \in Snapshots(name) /\ tree[name] \in Snapshots(name)
         /\ \A i \in Workers : w[i].was[name] \in Snapshots(name) /\ w[i].seen[name] \in Snapshots(name)
         /\ \A key \in DOMAIN entries : entries[key] # TornEntry => entries[key].seen[name] \in Snapshots(name)
BY DEF Snapshots

\* A step that reads nothing but what is there makes no new version.
LEMMA DatedByReading ==
  ASSUME Dated, NEW i \in Workers, Alone(i), UNCHANGED <<tree, edits>>,
         \A name \in Names : w'[i].was[name] \in Snapshots(name) /\ w'[i].seen[name] \in Snapshots(name),
         \A name \in Names : \A key \in DOMAIN entries' :
            entries'[key] # TornEntry => entries'[key].seen[name] \in Snapshots(name)
  PROVE  Dated'
<1>1. \A name \in Names : Snapshots(name)' \subseteq Snapshots(name)
  <2> SUFFICES ASSUME NEW name \in Names, NEW s \in Snapshots(name)' PROVE s \in Snapshots(name)
    OBVIOUS
  <2>1. CASE s = Absent[name] \/ s = tree'[name]
    BY <2>1, SnapshotsOfAll
  <2>2. CASE \E j \in Workers : s = w'[j].was[name] \/ s = w'[j].seen[name]
    BY <2>2, SnapshotsOfAll DEF Alone
  <2>3. CASE \E key \in DOMAIN entries' : entries'[key] # TornEntry /\ s = entries'[key].seen[name]
    BY <2>3
  <2> QED
    BY <2>1, <2>2, <2>3 DEF Snapshots
<1> QED
  BY <1>1 DEF Dated

\* The version an edit writes is newer than all of them.
LEMMA DatedByEdit == TypeOK /\ Dated /\ Edit => Dated'
<1> SUFFICES ASSUME TypeOK, Dated, Edit PROVE Dated'
  OBVIOUS
<1>1. \A i \in Workers : w'[i].was = w[i].was /\ w'[i].seen = w[i].seen
  BY IdleFields DEF TypeOK, Process, Edit
<1>2. \A name \in Names : Snapshots(name)' \subseteq Snapshots(name) \cup {tree'[name]}
  BY <1>1 DEF Snapshots, Edit
<1>3. \A name \in Names : tree'[name] = tree[name] \/ tree'[name].version = edits + 1
  BY DEF TypeOK, Edit
<1>4. \A name \in Names : \A s \in Snapshots(name) : s.version \in Int /\ s.version <= edits
  <2> SUFFICES ASSUME NEW name \in Names, NEW s \in Snapshots(name)
               PROVE  s.version \in Int /\ s.version <= edits
    OBVIOUS
  <2>1. \A f \in [Names -> FileVersions] : f[name].version \in Int
    BY DEF FileVersions
  <2>2. \A key \in DOMAIN entries : entries[key] # TornEntry => entries[key].seen \in [Names -> FileVersions]
    BY DEF TypeOK, CacheEntries
  <2>3. s.version \in Int
    BY <2>1, <2>2, AbsentFiles DEF Snapshots, TypeOK, Process
  <2> QED
    BY <2>3 DEF Dated
<1>5. edits' = edits + 1 /\ edits \in Nat
  BY DEF TypeOK, Edit
<1> SUFFICES ASSUME NEW name \in Names, NEW s \in Snapshots(name)', NEW t \in Snapshots(name)'
             PROVE  s.version <= edits' /\ (s.version = t.version => s = t)
  BY DEF Dated
<1>6. s.version <= edits'
  BY <1>2, <1>3, <1>4, <1>5, SnapshotsOfAll
<1>7. s.version = t.version => s = t
  <2>1. CASE tree'[name] = tree[name]
    BY <1>2, <2>1, SnapshotsOfAll DEF Dated
  <2>2. CASE tree'[name].version = edits + 1
    <3>1. CASE s \in Snapshots(name) /\ t \in Snapshots(name)
      BY <3>1 DEF Dated
    <3>2. CASE s = tree'[name] /\ t \in Snapshots(name)
      BY <1>4, <1>5, <2>2, <3>2
    <3>3. CASE s \in Snapshots(name) /\ t = tree'[name]
      BY <1>4, <1>5, <2>2, <3>3
    <3> QED
      BY <1>2, <3>1, <3>2, <3>3
  <2> QED
    BY <1>3, <2>1, <2>2
<1> QED
  BY <1>6, <1>7

\* An entry holds what its process has read.
LEMMA PutSnapshots ==
  ASSUME NEW i \in Workers, PutCached(i), NEW name \in Names, NEW key \in DOMAIN entries',
         entries'[key] # TornEntry
  PROVE  entries'[key].seen[name] \in Snapshots(name)
<1>1. PICK entry : /\ Put(w[i].key, entry)
                   /\ entry = TornEntry \/ entry.seen = w[i].seen
  BY DEF PutCached
<1>2. /\ DOMAIN entries' = DOMAIN entries \cup {w[i].key}
      /\ entries'[w[i].key] = entry
      /\ \A k \in DOMAIN entries : k # w[i].key => entries'[k] = entries[k]
  BY <1>1, PutPuts
<1> QED
  BY <1>1, <1>2, SnapshotsOfAll

LEMMA DatedNext == TypeOK /\ Dated /\ [TreeNext]_treeVars => Dated'
<1> SUFFICES ASSUME TypeOK, Dated, [TreeNext]_treeVars PROVE Dated'
  OBVIOUS
<1>1. CASE UNCHANGED treeVars
  BY <1>1 DEF treeVars, Dated, Snapshots
<1>2. CASE Edit
  BY <1>2, DatedByEdit
<1>3. ASSUME NEW i \in Workers, Step(i) PROVE Dated'
  <2>1. Alone(i) /\ UNCHANGED <<tree, edits>>
    <3>1. CASE Copy(i) \/ TestReads(i)
      BY <3>1, SeeReads DEF Moves
    <3>2. CASE PutCached(i)
      BY <3>2, ThenDoes DEF PutCached, At, Moves
    <3>3. CASE ApplyReplacement(i)
      BY <3>3, EndEnds, BeginTestDoes DEF ApplyReplacement, RemoveAfterError, At, Moves, Ends
    <3>4. CASE FailCopy(i) \/ Cleanup(i) \/ Kill(i)
      BY <3>4, EndEnds DEF FailCopy, RemoveAfterError, Cleanup, Kill, At, Ends, TypeOK, Process
    <3>5. CASE Test(i) \/ FailTest(i) \/ CreateTempDir(i)
      BY <3>5, TestDoes, FailTestDoes, CreateTempDirDoes DEF Test, FailTest, CreateTempDir, Moves
    <3>6. CASE Begin(i) \/ Select(i) \/ ReadKey(i) \/ GetCached(i)
      BY <3>6, BeginDoes, SelectDoes, ReadKeyDoes, GetCachedDoes
         DEF Begin, Select, ReadKey, GetCached, Moves, Ends
    <3> QED
      BY <1>3, <3>1, <3>2, <3>3, <3>4, <3>5, <3>6 DEF Step
  <2>2. \A name \in Names : w'[i].was[name] \in Snapshots(name) /\ w'[i].seen[name] \in Snapshots(name)
    <3>1. CASE Copy(i) \/ TestReads(i)
      BY <3>1, SeeReads, SnapshotsOfAll
    <3>2. CASE PutCached(i)
      BY <3>2, ThenDoes, SnapshotsOfAll DEF PutCached, At, Keeps
    <3>3. CASE ApplyReplacement(i)
      BY <3>3, EndEnds, BeginTestDoes, SnapshotsOfAll
         DEF ApplyReplacement, RemoveAfterError, At, Keeps, Ends
    <3>4. CASE FailCopy(i) \/ Cleanup(i) \/ Kill(i)
      BY <3>4, EndEnds, SnapshotsOfAll
         DEF FailCopy, RemoveAfterError, Cleanup, Kill, At, Ends, TypeOK, Process
    <3>5. CASE Test(i) \/ FailTest(i) \/ CreateTempDir(i)
      BY <3>5, TestDoes, FailTestDoes, CreateTempDirDoes, SnapshotsOfAll DEF Keeps
    <3>6. CASE Begin(i) \/ Select(i) \/ ReadKey(i) \/ GetCached(i)
      BY <3>6, BeginDoes, SelectDoes, ReadKeyDoes, GetCachedDoes, SnapshotsOfAll DEF Keeps, Ends
    <3> QED
      BY <1>3, <3>1, <3>2, <3>3, <3>4, <3>5, <3>6 DEF Step
  <2>3. entries' = entries \/ PutCached(i)
    BY <1>3 DEF Step, Begin, Select, ReadKey, GetCached, CreateTempDir, Copy, FailCopy,
                ApplyReplacement, TestReads, Test, FailTest, Cleanup, Kill
  <2>4. \A name \in Names : \A key \in DOMAIN entries' :
           entries'[key] # TornEntry => entries'[key].seen[name] \in Snapshots(name)
    BY <2>3, PutSnapshots, SnapshotsOfAll
  <2> QED
    BY <2>1, <2>2, <2>4, DatedByReading
<1> QED
  BY <1>1, <1>2, <1>3, StepsOfNext

-----------------------------------------------------------------------------
(* The keys.                                                                *)

\* What Keyed says of one process, and of what it knows.
KeyedOne(i) ==
  i \notin config.daemons /\ w[i].at \in PastKey =>
     /\ \A name \in KeyNames : w[i].key.files[name] = w[i].was[name].version
     /\ ~w[i].disturbed => w[i].was = tree /\ \A name \in Known(i) : w[i].seen[name] = tree[name]

LEMMA KeyedIsOfEach == Keyed <=> \A i \in Workers : KeyedOne(i)
BY DEF Keyed, KeyedOne

LEMMA KeyedByStep ==
  ASSUME Keyed, NEW i \in Workers, Alone(i), UNCHANGED <<config, tree>>, KeyedOne(i)'
  PROVE  Keyed'
<1>1. ASSUME NEW j \in Workers \ {i} PROVE KeyedOne(j)'
  <2>1. w'[j] = w[j] /\ KeyedOne(j)
    BY KeyedIsOfEach DEF Alone
  <2> QED
    BY <2>1 DEF KeyedOne, Known, At, Overlay
<1> QED
  BY <1>1 DEF Keyed, KeyedOne

\* A process that goes on with its key and has read no more than it knew.
LEMMA KeyedKept ==
  ASSUME TypeOK, Keyed, NEW i \in Workers, NEW step, Moves(i, step), w[i].at \in PastKey,
         Keeps(i), UNCHANGED <<config, tree>>, Known(i)' \subseteq Known(i)
  PROVE  Keyed'
<1>1. KeyedOne(i)'
  BY DEF Keyed, KeyedOne, Moves, Keeps
<1> QED
  BY <1>1, KeyedByStep DEF Moves

\* One that ends has no key.
LEMMA KeyedAtEnd ==
  ASSUME Keyed, NEW i \in Workers, Ends(i), UNCHANGED <<config, tree>>
  PROVE  Keyed'
<1>1. KeyedOne(i)'
  BY DEF KeyedOne, Ends, PastKey, WithDir
<1> QED
  BY <1>1, KeyedByStep DEF Ends

LEMMA KeyedNext == TypeOK /\ Keyed /\ [TreeNext]_treeVars => Keyed'
<1> SUFFICES ASSUME TypeOK, Keyed, [TreeNext]_treeVars PROVE Keyed'
  OBVIOUS
<1>1. CASE UNCHANGED treeVars
  BY <1>1 DEF treeVars, Keyed, Known, At, Overlay
<1>2. CASE Edit
  <2>1. \A i \in Workers :
           /\ w'[i].at = w[i].at /\ w'[i].key = w[i].key /\ w'[i].was = w[i].was
           /\ w[i].at # "idle" => w'[i].disturbed
    BY <1>2, IdleFields DEF TypeOK, Process, Edit, At
  <2> QED
    BY <1>2, <2>1 DEF Keyed, Edit, PastKey, WithDir
<1>3. ASSUME NEW i \in Workers, Step(i) PROVE Keyed'
  <2> USE DEF PastKey, WithDir
  <2>1. CASE Begin(i)
    <3>1. KeyedOne(i)'
      <4>1. config' = config /\ w'[i].at = (IF i \in config.daemons THEN "prepare" ELSE "select")
        BY <2>1, BeginDoes DEF Begin
      <4> QED
        BY <4>1 DEF KeyedOne
    <3> QED
      BY <2>1, <3>1, BeginDoes, KeyedByStep DEF Begin
  <2>2. CASE Select(i)
    <3>1. CASE Ends(i)
      BY <2>2, <3>1, KeyedAtEnd DEF Select
    <3>2. CASE Moves(i, "key")
      <4>1. KeyedOne(i)'
        BY <3>2 DEF KeyedOne, Moves
      <4> QED
        BY <2>2, <3>2, <4>1, KeyedByStep DEF Select, Moves
    <3> QED
      BY <2>2, <3>1, <3>2, SelectDoes
  <2>3. CASE ReadKey(i)
    <3>1. w'[i].key = CacheKey(i) /\ w'[i].was = tree /\ w'[i].at \in {"prepare", "get"}
      BY <2>3, ReadKeyDoes DEF Moves
    <3>2. \A name \in KeyNames : w'[i].key.files[name] = tree[name].version
      BY <3>1 DEF CacheKey, KeyNames
    <3>3. Known(i)' = {}
      BY <3>1 DEF Known, At
    <3>4. KeyedOne(i)'
      BY <2>3, <3>1, <3>2, <3>3 DEF ReadKey, KeyedOne
    <3> QED
      BY <2>3, <3>4, ReadKeyDoes, KeyedByStep DEF ReadKey, Moves
  <2>4. CASE GetCached(i)
    <3>1. CASE Ends(i)
      BY <2>4, <3>1, KeyedAtEnd DEF GetCached
    <3>2. CASE Moves(i, "prepare") /\ Keeps(i)
      <4>1. Known(i)' = {}
        BY <3>2 DEF Known, At, Moves
      <4> QED
        BY <2>4, <3>2, <4>1, KeyedKept DEF GetCached, At
    <3> QED
      BY <2>4, <3>1, <3>2, GetCachedDoes
  <2>5. CASE CreateTempDir(i)
    <3>1. Known(i)' = {}
      <4>1. w'[i].at = "read" /\ w'[i].todo = (IF Overlay(i) THEN {"x"} ELSE Names) /\ config' = config
        BY <2>5, CreateTempDirDoes DEF Moves, CreateTempDir
      <4>2. Overlay(i)' = Overlay(i)
        BY <4>1 DEF Overlay
      <4> QED
        BY <4>1, <4>2 DEF Known, At
    <3> QED
      BY <2>5, <3>1, CreateTempDirDoes, KeyedKept DEF CreateTempDir, At
  <2>6. CASE Copy(i) \/ TestReads(i)
    <3>1. PICK name \in Names :
             /\ name \in w[i].todo /\ Moves(i, w[i].at)
             /\ w'[i].key = w[i].key /\ w'[i].was = w[i].was /\ w'[i].todo = w[i].todo \ {name}
             /\ w'[i].seen[name] = tree[name]
             /\ \A other \in Names \ {name} : w'[i].seen[other] = w[i].seen[other]
             /\ UNCHANGED <<config, cover, tree, edits, entries, left, killed>>
      BY <2>6, SeeReads
    <3>2. w[i].at \in {"read", "test"} /\ w'[i].at = w[i].at
      BY <2>6, <3>1 DEF Copy, TestReads, At, Moves
    <3>3. Known(i)' \subseteq Known(i) \cup {name}
      BY <3>1, <3>2 DEF Known, At, Overlay
    <3>4. Known(i) \subseteq Names
      BY NamesOfWalk DEF Known
    <3>5. KeyedOne(i)'
      BY <3>1, <3>2, <3>3, <3>4 DEF Keyed, KeyedOne, Moves
    <3> QED
      BY <3>1, <3>5, KeyedByStep DEF Moves
  <2>7. CASE FailCopy(i)
    BY <2>7, EndEnds, KeyedAtEnd DEF FailCopy, RemoveAfterError
  <2>8. CASE ApplyReplacement(i)
    <3>1. CASE RemoveAfterError(i)
      BY <2>8, <3>1, EndEnds, KeyedAtEnd DEF ApplyReplacement, RemoveAfterError
    <3>2. CASE BeginTest(i)
      <4>1. At(i, "read") /\ w[i].todo = {} /\ UNCHANGED <<config, tree>>
        BY <2>8 DEF ApplyReplacement
      <4>2. Moves(i, "test") /\ Keeps(i) /\ w'[i].todo = ReadByTests(i)
        BY <3>2, <4>1, BeginTestDoes DEF At
      <4>3. Known(i)' \subseteq Known(i)
        BY <4>1, <4>2, NamesOfWalk DEF Known, At, Moves, ReadByTests
      <4> QED
        BY <4>1, <4>2, <4>3, KeyedKept DEF At
    <3> QED
      BY <2>8, <3>1, <3>2 DEF ApplyReplacement
  <2>9. CASE Test(i)
    <3>1. Moves(i, IF Writes(i) THEN "put" ELSE "cleanup") /\ Keeps(i) /\ At(i, "test") /\ w[i].todo = {}
      BY <2>9, TestDoes DEF Test
    <3>2. Known(i)' \subseteq Known(i)
      BY <3>1 DEF Known, At, Moves
    <3> QED
      BY <2>9, <3>1, <3>2, KeyedKept DEF Test, At
  <2>10. CASE FailTest(i)
    <3>1. Known(i)' = {}
      BY <2>10, FailTestDoes DEF Known, At, Moves
    <3> QED
      BY <2>10, <3>1, FailTestDoes, KeyedKept DEF FailTest, At
  <2>11. CASE PutCached(i)
    <3>1. PICK step \in {"write", "cleanup"} :
             /\ Moves(i, step) /\ Keeps(i) /\ w[i].at \in {"put", "write"}
      BY <2>11, ThenDoes DEF PutCached, At
    <3>2. Known(i)' \subseteq Known(i)
      BY <3>1 DEF Known, At, Moves
    <3> QED
      BY <2>11, <3>1, <3>2, KeyedKept DEF PutCached
  <2>12. CASE Cleanup(i) \/ Kill(i)
    BY <2>12, EndEnds, KeyedAtEnd DEF Cleanup, Kill, At, TypeOK, Process
  <2> QED
    BY <1>3, <2>1, <2>2, <2>3, <2>4, <2>5, <2>6, <2>7, <2>8, <2>9, <2>10, <2>11, <2>12 DEF Step
<1> QED
  BY <1>1, <1>2, <1>3, StepsOfNext

-----------------------------------------------------------------------------
(* The entries and the hits.                                                *)

LEMMA SoundNext == TypeOK /\ Keyed /\ Sound /\ [TreeNext]_treeVars => Sound'
<1> SUFFICES ASSUME TypeOK, Keyed, Sound, [TreeNext]_treeVars PROVE Sound'
  OBVIOUS
<1>1. CASE UNCHANGED entries
  BY <1>1 DEF Sound
<1>2. ASSUME NEW i \in Workers, PutCached(i) PROVE Sound'
  <2>1. CASE At(i, "put")
    <3>1. Put(w[i].key, TornEntry)
      BY <1>2, <2>1 DEF PutCached, At
    <3>2. /\ DOMAIN entries' = DOMAIN entries \cup {w[i].key}
          /\ entries'[w[i].key] = TornEntry
          /\ \A k \in DOMAIN entries : k # w[i].key => entries'[k] = entries[k]
      BY <3>1, PutPuts
    <3> QED
      BY <3>2 DEF Sound
  <2>2. CASE At(i, "write")
    <3> DEFINE entry == [torn |-> FALSE, seen |-> w[i].seen, pass |-> w[i].pass, disturbed |-> w[i].disturbed]
    <3>1. Put(w[i].key, entry)
      BY <1>2, <2>2 DEF PutCached, At
    <3>2. entry.seen = w[i].seen /\ entry.disturbed = w[i].disturbed
      OBVIOUS
    <3>3. ASSUME ~w[i].disturbed, NEW name \in KeyNames
          PROVE  w[i].seen[name].version = w[i].key.files[name]
      <4>1. i \notin config.daemons /\ w[i].at \in PastKey
        BY <2>2 DEF TypeOK, Cached, At, PastKey, WithDir
      <4>2. w[i].was = tree /\ \A other \in Known(i) : w[i].seen[other] = tree[other]
        BY <3>3, <4>1 DEF Keyed
      <4>3. name \in Known(i)
        BY <2>2, NamesOfWalk DEF Known, At, KeyNames
      <4>4. w[i].key.files[name] = w[i].was[name].version
        BY <4>1 DEF Keyed
      <4> QED
        BY <4>2, <4>3, <4>4
    <3> HIDE DEF entry
    <3>4. /\ DOMAIN entries' = DOMAIN entries \cup {w[i].key}
          /\ entries'[w[i].key] = entry
          /\ \A k \in DOMAIN entries : k # w[i].key => entries'[k] = entries[k]
      BY <3>1, PutPuts
    <3> QED
      BY <3>2, <3>3, <3>4 DEF Sound
  <2> QED
    BY <1>2, <2>1, <2>2 DEF PutCached
<1>3. UNCHANGED entries \/ \E i \in Workers : PutCached(i)
  <2>1. ASSUME NEW i \in Workers, Step(i) PROVE UNCHANGED entries \/ PutCached(i)
    BY <2>1 DEF Step, Begin, Select, ReadKey, GetCached, CreateTempDir, Copy, FailCopy,
                ApplyReplacement, TestReads, Test, FailTest, Cleanup, Kill
  <2> QED
    BY <2>1, StepsOfNext DEF treeVars, Edit
<1> QED
  BY <1>1, <1>2, <1>3

\* A hit is an entry, taken for the versions its key tells.
LEMMA HitsNext ==
  TypeOK /\ Dated /\ Keyed /\ Sound /\ HitsAreOfKeyedTree /\ [TreeNext]_treeVars => HitsAreOfKeyedTree'
<1> SUFFICES ASSUME TypeOK, Dated, Keyed, Sound, HitsAreOfKeyedTree, [TreeNext]_treeVars
             PROVE  HitsAreOfKeyedTree'
  OBVIOUS
<1> DEFINE Told(r) == r.result = "cached" =>
             /\ r.hit # TornEntry
             /\ ~r.hit.disturbed => \A name \in {"mod", "x", "x_test"} : r.hit.seen[name] = r.was[name]
<1>0. HitsAreOfKeyedTree <=> \A i \in Workers : Told(w[i])
  BY DEF HitsAreOfKeyedTree
<1>1. CASE UNCHANGED treeVars
  BY <1>1 DEF treeVars, HitsAreOfKeyedTree
<1>2. CASE Edit
  <2>1. \A i \in Workers : w'[i].result = w[i].result /\ w'[i].hit = w[i].hit /\ w'[i].was = w[i].was
    BY <1>2, IdleFields DEF TypeOK, Process, Edit
  <2> QED
    BY <2>1 DEF HitsAreOfKeyedTree
<1>3. ASSUME NEW i \in Workers, Step(i) PROVE HitsAreOfKeyedTree'
  <2>1. Alone(i) /\ (w'[i].result # "cached" \/ GetCached(i))
    <3>1. CASE Copy(i) \/ TestReads(i)
      BY <3>1, SeeReads DEF Moves
    <3>2. CASE PutCached(i)
      BY <3>2, ThenDoes DEF PutCached, At, Moves
    <3>3. CASE ApplyReplacement(i)
      BY <3>3, EndEnds, BeginTestDoes DEF ApplyReplacement, RemoveAfterError, At, Moves, Ends
    <3>4. CASE FailCopy(i) \/ Cleanup(i) \/ Kill(i)
      BY <3>4, EndEnds DEF FailCopy, RemoveAfterError, Cleanup, Kill, At, Ends, TypeOK, Process
    <3>5. CASE Test(i) \/ FailTest(i) \/ CreateTempDir(i)
      BY <3>5, TestDoes, FailTestDoes, CreateTempDirDoes DEF Moves
    <3>6. CASE Begin(i) \/ Select(i) \/ ReadKey(i)
      BY <3>6, BeginDoes, SelectDoes, ReadKeyDoes DEF Moves, Ends, NoResult
    <3>7. CASE GetCached(i)
      BY <3>7, GetCachedDoes DEF Moves, Ends
    <3> QED
      BY <1>3, <3>1, <3>2, <3>3, <3>4, <3>5, <3>6, <3>7 DEF Step
  <2>2. Told(w'[i])
    <3>1. CASE w'[i].result # "cached"
      BY <3>1
    <3>2. CASE GetCached(i) /\ w'[i].result = "cached"
      <4> DEFINE hit == entries[w[i].key]
      <4>1. /\ w[i].key \in DOMAIN entries /\ hit # TornEntry
            /\ w'[i].was = w[i].was /\ w'[i].hit = hit
        BY <3>2, GetCachedDoes DEF Moves
      <4>2. i \notin config.daemons /\ w[i].at \in PastKey
        BY <3>2 DEF TypeOK, Cached, GetCached, At, PastKey
      <4>3. ASSUME ~hit.disturbed, NEW name \in KeyNames PROVE hit.seen[name] = w[i].was[name]
        <5>1. hit.seen[name].version = w[i].key.files[name]
          BY <4>1, <4>3 DEF Sound
        <5>2. w[i].key.files[name] = w[i].was[name].version
          BY <4>2 DEF Keyed
        <5>3. hit.seen[name] \in Snapshots(name) /\ w[i].was[name] \in Snapshots(name)
          BY <4>1, SnapshotsOfAll
        <5>4. name \in Names
          BY NamesOfWalk DEF KeyNames
        <5> QED
          BY <5>1, <5>2, <5>3, <5>4 DEF Dated
      <4> QED
        BY <4>1, <4>3 DEF KeyNames
    <3> QED
      BY <2>1, <3>1, <3>2
  <2> QED
    BY <1>0, <2>1, <2>2 DEF Alone, HitsAreOfKeyedTree
<1> QED
  BY <1>1, <1>2, <1>3, StepsOfNext

-----------------------------------------------------------------------------
(* The theorems.                                                            *)

LEMMA IInvInit == TreeInit => TreeInv
<1> SUFFICES ASSUME TreeInit PROVE TreeInv
  OBVIOUS
<1>1. \A i \in Workers : w[i].at = "idle" /\ w[i].result = NoResult /\ w[i].was = Absent /\ w[i].seen = Absent
  BY DEF TreeInit, Idle
<1>2. Dated
  <2>1. \A name \in Names : Snapshots(name) \subseteq {Absent[name], tree[name]}
    BY <1>1 DEF TreeInit, Snapshots
  <2>2. \A name \in Names : Absent[name].version = -1 /\ tree[name].version = 0 /\ edits = 0
    BY DEF TreeInit, Absent
  <2> QED
    BY <2>1, <2>2 DEF Dated
<1>3. Keyed /\ HitsAreOfKeyedTree
  BY <1>1 DEF Keyed, HitsAreOfKeyedTree, PastKey, WithDir, NoResult
<1>4. Owned /\ Sound
  BY DEF TreeInit, Owned, Sound
<1> QED
  BY <1>2, <1>3, <1>4, TypeInit DEF TreeInv

\* The invariant that the properties rest on: an entry of the cache holds the versions
\* its key tells, because a process that no edit has disturbed tests the versions it
\* took its key from, and because no two contents of a file have one version; a
\* directory is of a killed process or of the run its process is at.
THEOREM TestTreeInvariant == TreeSpec => []TreeInv
<1>1. TreeInv /\ [TreeNext]_treeVars => TreeInv'
  BY TypeNext, OwnedNext, DatedNext, KeyedNext, SoundNext, HitsNext DEF TreeInv
<1> QED
  BY IInvInit, <1>1, PTL DEF TreeSpec

\* An undisturbed verdict taken from the cache was observed on the files the run that
\* takes it has (getCached, putCached, cache_flow.go).
THEOREM HitsAreOfTheirTree == TreeSpec => []HitsAreOfKeyedTree
<1>1. TreeInv => HitsAreOfKeyedTree
  BY DEF TreeInv
<1> QED
  BY <1>1, TestTreeInvariant, PTL

\* No process leaves a working directory behind unless it is killed
\* (prepareMutation, workspace_flow.go; CopyModuleWithRoot, isolate.go).
THEOREM WorkdirsDoNotStay == TreeSpec => []WorkdirsAreRemoved
<1>1. TreeInv => WorkdirsAreRemoved
  BY DEF TreeInv, Owned, WithDir, WorkdirsAreRemoved, At
<1> QED
  BY <1>1, TestTreeInvariant, PTL

-----------------------------------------------------------------------------
(* TestOutcome: the verdict of a test.                                      *)

\* What is looked for is found where it was printed and kept.
LEMMA SaysWhatWasKept ==
    ASSUME output \in Seq(Lines), NEW line
    PROVE  Says(line) <=> \E i \in 1..Len(output) : i <= Kept /\ output[i] = line
<1> DEFINE kept == IF Len(output) < Kept THEN Len(output) ELSE Kept
<1>1. Len(output) \in Nat /\ Kept \in Nat /\ kept \in Nat
    BY TestOutcomeAssumption, LenProperties
<1>2. \A i \in 1..Len(output) : output[i] \in Lines
    BY ElementOfSeq
<1>3. \A i \in 1..kept : output[i] \in Lines
    BY <1>1, <1>2
<1>4. Text = SubSeq(output, 1, kept)
    BY DEF Text
<1>5. Len(Text) = kept /\ \A i \in 1..kept : Text[i] = output[i]
    <2> HIDE DEF kept
    <2>1. /\ Len(SubSeq(output, 1, kept)) = IF 1 <= kept THEN kept - 1 + 1 ELSE 0
          /\ \A i \in 1 .. kept - 1 + 1 : SubSeq(output, 1, kept)[i] = output[1 + i - 1]
        BY <1>1, <1>3, SubSeqProperties
    <2> QED
        BY <1>1, <1>4, <2>1
<1>6. Says(line) <=> \E i \in 1..kept : output[i] = line
    BY <1>5 DEF Says, Contains
<1>7. \A i : i \in 1..kept <=> i \in 1..Len(output) /\ i <= Kept
    BY <1>1
<1> QED
    BY <1>6, <1>7

\* One line more.
LEMMA Emitted ==
    ASSUME output \in Seq(Lines), NEW line \in Lines, output' = Append(output, line)
    PROVE  /\ output' \in Seq(Lines) /\ Len(output') = Len(output) + 1 /\ Len(output) \in Nat
           /\ output'[Len(output')] = line
           /\ \A i \in 1..Len(output') : output'[i] = line \/ \E j \in 1..Len(output) : output'[i] = output[j]
<1>1. Len(output) \in Nat
    BY LenProperties
<1>2. /\ Append(output, line) \in Seq(Lines) /\ Len(Append(output, line)) = Len(output) + 1
      /\ \A i \in 1..Len(output) : Append(output, line)[i] = output[i]
      /\ Append(output, line)[Len(output) + 1] = line
    BY AppendProperties
<1>3. \A i \in 1..(Len(output) + 1) : i \in 1..Len(output) \/ i = Len(output) + 1
    BY <1>1
<1> QED
    BY <1>1, <1>2, <1>3

LEMMA NothingPrinted == <<>> \in Seq(Lines) /\ Len(<<>>) = 0
BY EmptySeq

LEMMA BuildLines == <<"build failed", "FAIL">> \in Seq(Lines)
BY DEF Lines

LEMMA BuildOutput ==
    ASSUME output = <<>>, output' = output \o <<"build failed", "FAIL">>
    PROVE  output' = <<"build failed", "FAIL">> /\ output' \in Seq(Lines)
BY BuildLines, ConcatEmptySeq

\* The verdicts depend on what they are made of alone.
LEMMA VerdictsStay ==
    ASSUME UNCHANGED <<output, exit, deadline>>
    PROVE  EngineVerdict' = EngineVerdict /\ RunnerVerdict' = RunnerVerdict
BY DEF EngineVerdict, RunnerVerdict, MemoryExceeded, SaysFail, Says, Text

\* What the output tells, before and after a step.
Told == SilentAtFirst /\ LogsAreBounded /\ OnlyBuildsSaySo /\ BuildsSaySo /\ FailuresSaySo

\* An output that stays as it is, of a command that goes on or ends without an own word.
LEMMA ToldStays ==
    ASSUME OutcomeInv, UNCHANGED <<mutatedTree, output, failed>>,
           \/ UNCHANGED <<phase, cause>>
           \/ phase' \in {"running", "ended", "judged"} /\ UNCHANGED cause
              /\ (phase' = "running" => phase = "starting")
           \/ phase' = "ended" /\ cause' \in {"memory", "deadline", "cancel", "passed"}
           \/ phase = "starting" /\ phase' = "ended" /\ cause' \in {"start", "limits"}
    PROVE  Told'
<1>1. MaxLogs \in Nat /\ Len(<<>>) = 0
    BY TestOutcomeAssumption
<1>2. SilentAtFirst'
    BY DEF OutcomeInv, SilentAtFirst
<1>3. LogsAreBounded'
    <2>1. CASE phase' = "running" /\ phase = "starting"
        BY <1>1, <2>1 DEF OutcomeInv, SilentAtFirst, LogsAreBounded
    <2>2. CASE phase' = "running" /\ phase = "running"
        BY <2>2 DEF OutcomeInv, LogsAreBounded
    <2>3. CASE phase' # "running"
        BY <2>3 DEF LogsAreBounded
    <2> QED
        BY <2>1, <2>2, <2>3
<1>4. OnlyBuildsSaySo'
    BY DEF OutcomeInv, OnlyBuildsSaySo
<1>5. BuildsSaySo'
    BY DEF OutcomeInv, BuildsSaySo
<1>6. FailuresSaySo'
    BY DEF OutcomeInv, FailuresSaySo
<1> QED
    BY <1>2, <1>3, <1>4, <1>5, <1>6 DEF Told

LEMMA OneLineMore ==
    ASSUME NEW m \in Nat, NEW n \in Nat, n <= m
    PROVE  n + 1 <= m + 1 /\ (n < m => n + 1 <= m)
OBVIOUS

\* A line more of a tree that compiles, printed while the command goes on.
LEMMA ToldMore ==
    ASSUME OutcomeInv, NEW line \in Lines \ {"build failed"}, output' = Append(output, line),
           phase = "running", mutatedTree = "compiles", UNCHANGED <<mutatedTree, phase, cause>>,
           \/ ~failed /\ ~failed' /\ Len(output) < MaxLogs
           \/ ~failed /\ failed'
    PROVE  Told'
<1>1. MaxLogs \in Nat /\ output \in Seq(Lines) /\ cause = None
    BY TestOutcomeAssumption DEF OutcomeInv, EndedInTurn
<1>2. /\ Len(output') = Len(output) + 1 /\ Len(output) \in Nat
      /\ \A i \in 1..Len(output') : output'[i] = line \/ \E j \in 1..Len(output) : output'[i] = output[j]
    BY <1>1, Emitted
<1>3. SilentAtFirst' /\ BuildsSaySo' /\ FailuresSaySo'
    BY <1>1 DEF SilentAtFirst, BuildsSaySo, FailuresSaySo, None
<1>4. LogsAreBounded'
    <2>1. Len(output) <= MaxLogs
        BY DEF OutcomeInv, LogsAreBounded
    <2>2. Len(output') <= MaxLogs + 1 /\ (~failed' => Len(output') <= MaxLogs)
        BY <1>1, <1>2, <2>1, OneLineMore
    <2> QED
        BY <2>2 DEF LogsAreBounded
<1>5. OnlyBuildsSaySo'
    BY <1>2 DEF OutcomeInv, OnlyBuildsSaySo
<1> QED
    BY <1>3, <1>4, <1>5 DEF Told

\* The last lines of go test.
LEMMA ToldAtEnd ==
    ASSUME OutcomeInv, CompleteTests
    PROVE  output' \in Seq(Lines) /\ Told'
<1>1. MaxLogs \in Nat /\ output \in Seq(Lines) /\ phase = "running" /\ phase' = "ended"
      /\ UNCHANGED <<mutatedTree, failed>>
    BY TestOutcomeAssumption DEF OutcomeInv, CompleteTests, EndCommand
<1>2. CASE mutatedTree = "broken" /\ EndCommand("build", 1) /\ output' = output \o <<"build failed", "FAIL">>
    <2>1. output' = <<"build failed", "FAIL">> /\ output' \in Seq(Lines)
        BY <1>1, <1>2, BuildOutput DEF OutcomeInv, SilentAtFirst
    <2> QED
        BY <1>1, <1>2, <2>1
        DEF Told, EndCommand, SilentAtFirst, LogsAreBounded, OnlyBuildsSaySo, BuildsSaySo, FailuresSaySo
<1>3. CASE mutatedTree = "compiles" /\ failed /\ EndCommand("assertion", 1) /\ Emit("FAIL")
    <2>1. output' = Append(output, "FAIL") /\ "FAIL" \in Lines /\ cause' = "assertion"
        BY <1>3 DEF Emit, Lines, EndCommand
    <2>2. /\ output' \in Seq(Lines) /\ Len(output') = Len(output) + 1 /\ Len(output) \in Nat
          /\ output'[Len(output')] = "FAIL"
          /\ \A i \in 1..Len(output') : output'[i] = "FAIL" \/ \E j \in 1..Len(output) : output'[i] = output[j]
        BY <1>1, <2>1, Emitted
    <2>3. SilentAtFirst' /\ LogsAreBounded' /\ BuildsSaySo'
        BY <1>1, <1>3, <2>1 DEF SilentAtFirst, LogsAreBounded, BuildsSaySo
    <2>4. OnlyBuildsSaySo'
        BY <1>1, <2>2 DEF OutcomeInv, OnlyBuildsSaySo
    <2>5. Len(output) <= MaxLogs + 1
        BY <1>1, <1>3 DEF OutcomeInv, LogsAreBounded
    <2>6. Len(output') \in 1..(MaxLogs + 2)
        BY <1>1, <2>2, <2>5
    <2>7. FailuresSaySo'
        BY <1>1, <1>3, <2>2, <2>6 DEF FailuresSaySo
    <2> QED
        BY <2>2, <2>3, <2>4, <2>7 DEF Told
<1>4. CASE mutatedTree = "compiles" /\ ~failed /\ EndCommand("passed", 0) /\ UNCHANGED output
    BY <1>1, <1>4, ToldStays DEF EndCommand
<1> QED
    BY <1>2, <1>3, <1>4 DEF CompleteTests

\* A step that prints while the command runs.
LEMMA OutcomeStep == OutcomeInv /\ [OutcomeNext]_outcomeVars => OutcomeInv'
<1> SUFFICES ASSUME OutcomeInv, [OutcomeNext]_outcomeVars
             PROVE  OutcomeInv'
    OBVIOUS
<1> USE DEF OutcomeInv
<1>0. MaxLogs \in Nat /\ output \in Seq(Lines)
    BY TestOutcomeAssumption
<1>1. CASE FailToStart
    <2>1. /\ phase = "starting" /\ phase' = "ended" /\ cause' \in {"start", "limits"} /\ exit' = 1
          /\ UNCHANGED <<mutatedTree, output, failed, limited, deadline, cancelled, verdicts>>
        BY <1>1 DEF FailToStart, EndCommand
    <2>2. Told'
        BY <2>1, ToldStays
    <2>3. EndedInTurn'
        BY <2>1 DEF EndedInTurn
    <2> QED
        BY <2>1, <2>2, <2>3 DEF verdicts, Told
<1>2. CASE Start
    <2>1. /\ phase = "starting" /\ phase' = "running"
          /\ UNCHANGED <<mutatedTree, output, failed, exit, deadline, cancelled, cause, verdicts>>
        BY <1>2 DEF Start
    <2>2. Told'
        BY <2>1, ToldStays
    <2>3. EndedInTurn'
        BY <2>1 DEF EndedInTurn
    <2> QED
        BY <2>1, <2>2, <2>3 DEF verdicts, Told
<1>3. CASE Log \/ FailOneTest
    <2>1. PICK line \in {"log", "FAIL", "panic"} :
          /\ phase = "running" /\ mutatedTree = "compiles" /\ output' = Append(output, line)
          /\ \/ ~failed /\ ~failed' /\ Len(output) < MaxLogs
             \/ ~failed /\ failed'
          /\ failed' \in BOOLEAN
          /\ UNCHANGED <<mutatedTree, phase, exit, limited, deadline, cancelled, cause, verdicts>>
        BY <1>3 DEF Log, FailOneTest, Emit
    <2>2. line \in Lines \ {"build failed"}
        BY DEF Lines
    <2>3. Told' /\ output' \in Seq(Lines)
        BY <1>0, <2>1, <2>2, ToldMore, Emitted
    <2> QED
        BY <2>1, <2>3 DEF EndedInTurn, verdicts, Told
<1>4. CASE CompleteTests
    <2>1. /\ phase = "running"
          /\ EndCommand("build", 1) \/ EndCommand("assertion", 1) \/ EndCommand("passed", 0)
          /\ UNCHANGED <<mutatedTree, failed, limited, deadline, cancelled, verdicts>>
        BY <1>4 DEF CompleteTests
    <2>2. Told' /\ output' \in Seq(Lines)
        BY <1>4, ToldAtEnd
    <2>3. EndedInTurn' /\ phase' = "ended"
        BY <2>1 DEF EndedInTurn, EndCommand
    <2> QED
        BY <2>1, <2>2, <2>3 DEF verdicts, Told
<1>5. CASE Exceed
    <2>1. phase = "running" /\ phase' = "ended" /\ cause' = "memory" /\ exit' = 2
          /\ UNCHANGED <<mutatedTree, failed, limited, deadline, cancelled, verdicts>>
        BY <1>5 DEF Exceed, EndCommand
    <2>0. output' = Append(output, "out of memory") \/ output' = output
        BY <1>5 DEF Exceed, Emit
    <2>2. Told' /\ output' \in Seq(Lines)
        <3>1. CASE output' = output
            BY <1>0, <2>1, <3>1, ToldStays
        <3>2. CASE output' = Append(output, "out of memory")
            <4>1. "out of memory" \in Lines
                BY DEF Lines
            <4>2. /\ output' \in Seq(Lines)
                  /\ \A i \in 1..Len(output') :
                        output'[i] = "out of memory" \/ \E j \in 1..Len(output) : output'[i] = output[j]
                BY <1>0, <3>2, <4>1, Emitted
            <4>3. OnlyBuildsSaySo'
                BY <2>1, <4>2 DEF OnlyBuildsSaySo
            <4> QED
                BY <2>1, <4>2, <4>3 DEF Told, SilentAtFirst, LogsAreBounded, BuildsSaySo, FailuresSaySo
        <3> QED
            BY <2>0, <3>1, <3>2
    <2>3. EndedInTurn'
        BY <2>1 DEF EndedInTurn
    <2> QED
        BY <2>1, <2>2, <2>3 DEF verdicts, Told
<1>6. CASE KillCommand
    <2>1. phase = "running" /\ phase' = "ended" /\ cause' \in {"deadline", "cancel"} /\ exit' = 1
          /\ (cause' = "deadline" => deadline)
          /\ UNCHANGED <<mutatedTree, output, failed, limited, deadline, cancelled, verdicts>>
        BY <1>6 DEF KillCommand, EndCommand
    <2>2. Told'
        BY <2>1, ToldStays
    <2>3. EndedInTurn'
        BY <2>1 DEF EndedInTurn
    <2> QED
        BY <2>1, <2>2, <2>3 DEF verdicts, Told
<1>7. CASE PassDeadline \/ Cancel
    <2>1. /\ UNCHANGED <<mutatedTree, phase, output, failed, exit, cause, verdicts>>
          /\ phase # "judged" /\ deadline' \in BOOLEAN /\ (deadline => deadline')
        BY <1>7 DEF PassDeadline, Cancel
    <2>2. Told'
        BY <2>1, ToldStays
    <2>3. EndedInTurn'
        BY <2>1 DEF EndedInTurn
    <2> QED
        BY <2>1, <2>2, <2>3 DEF verdicts, Told
<1>8. CASE Judge
    <2>1. /\ UNCHANGED <<mutatedTree, output, failed, exit, limited, deadline, cancelled, cause>>
          /\ phase = "ended" /\ phase' = "judged" /\ engine' = EngineVerdict /\ runner' = RunnerVerdict
        BY <1>8 DEF Judge
    <2>2. Told'
        BY <2>1, ToldStays
    <2>3. EndedInTurn'
        BY <2>1 DEF EndedInTurn
    <2>4. EngineVerdict' = EngineVerdict /\ RunnerVerdict' = RunnerVerdict
        BY <2>1, VerdictsStay
    <2> QED
        BY <2>1, <2>2, <2>3, <2>4 DEF Told
<1>9. CASE StayJudged \/ UNCHANGED outcomeVars
    <2>1. UNCHANGED <<mutatedTree, phase, output, failed, exit, deadline, cause, engine, runner>>
        BY <1>9 DEF StayJudged, outcomeVars
    <2>2. Told'
        BY <2>1, ToldStays
    <2>3. EndedInTurn'
        BY <2>1 DEF EndedInTurn
    <2>4. EngineVerdict' = EngineVerdict /\ RunnerVerdict' = RunnerVerdict
        BY <2>1, VerdictsStay
    <2> QED
        BY <2>1, <2>2, <2>3, <2>4 DEF Told
<1> QED
    BY <1>1, <1>2, <1>3, <1>4, <1>5, <1>6, <1>7, <1>8, <1>9 DEF OutcomeNext

\* What a test has printed, why it ended and what was made of it, for any output,
\* limits and races with the deadline (runTest, GoTestRunner.Run).
THEOREM OutcomeInvariant == OutcomeSpec => []OutcomeInv
<1>1. OutcomeInit => OutcomeInv
    <2> SUFFICES ASSUME OutcomeInit PROVE OutcomeInv
        OBVIOUS
    <2>1. /\ mutatedTree \in {"compiles", "broken"} /\ phase = "starting" /\ output = <<>>
          /\ failed = FALSE /\ exit = 0 /\ deadline = FALSE
          /\ cause = None /\ engine = None /\ runner = None
        BY DEF OutcomeInit
    <2>2. output \in Seq(Lines) /\ \A i \in 1..Len(output) : FALSE
        BY <2>1, NothingPrinted
    <2>3. SilentAtFirst /\ LogsAreBounded /\ OnlyBuildsSaySo
        BY <2>1, <2>2 DEF SilentAtFirst, LogsAreBounded, OnlyBuildsSaySo
    <2>4. BuildsSaySo /\ FailuresSaySo /\ EndedInTurn
        BY <2>1 DEF BuildsSaySo, FailuresSaySo, EndedInTurn, None
    <2> QED
        BY <2>1, <2>2, <2>3, <2>4 DEF OutcomeInv
<1> QED
    BY <1>1, OutcomeStep, PTL DEF OutcomeSpec

\* However much of the output is kept: no verdict says that the tests passed when they
\* did not, and what was killed at its deadline counts as no failed test.
THEOREM SurvivorsPassed == OutcomeSpec => [](SurvivedMeansPassed /\ DeadlineIsNotAKill)
<1>1. OutcomeInv => SurvivedMeansPassed /\ DeadlineIsNotAKill
    BY DEF OutcomeInv, EndedInTurn, SurvivedMeansPassed, DeadlineIsNotAKill, EngineVerdict,
           RunnerVerdict, None
<1> QED
    BY <1>1, OutcomeInvariant, PTL

LEMMA LastLineIsKept ==
    ASSUME NEW m \in Nat, NEW k \in Nat, k >= m + 2, NEW n \in 1..(m + 2)
    PROVE  n \in 1..n /\ n <= k
OBVIOUS

LEMMA FirstLineIsKept ==
    ASSUME NEW m \in Nat, NEW k \in Nat, k >= m + 2
    PROVE  1 \in 1..2 /\ 1 <= k
OBVIOUS

\* When the last line of a failed test is kept, its FAIL is found; of a broken build the
\* first line is enough.
LEMMA CausesAreFound ==
    ASSUME OutcomeInv, phase = "judged", Kept >= MaxLogs + 2
    PROVE  /\ cause = "start" => ~SaysFail
           /\ cause = "build" => Says("build failed") \/ ~SaysFail
           /\ cause = "assertion" => SaysFail /\ ~Says("build failed")
<1>1. MaxLogs \in Nat /\ Kept \in Nat /\ output \in Seq(Lines)
    BY TestOutcomeAssumption DEF OutcomeInv
<1>2. \A line : Says(line) <=> \E i \in 1..Len(output) : i <= Kept /\ output[i] = line
    BY <1>1, SaysWhatWasKept
<1>3. CASE cause = "start"
    <2>1. Len(output) = 0
        BY <1>3, NothingPrinted DEF OutcomeInv, SilentAtFirst
    <2> QED
        BY <1>2, <1>3, <2>1 DEF SaysFail
<1>4. CASE cause = "build"
    <2>1. output = <<"build failed", "FAIL">>
        BY <1>4 DEF OutcomeInv, BuildsSaySo
    <2>2. Len(output) = 2 /\ output[1] = "build failed"
        BY <2>1
    <2>3. 1 \in 1..2 /\ 1 <= Kept
        BY <1>1, FirstLineIsKept
    <2>4. 1 \in 1..Len(output)
        BY ONLY <2>2, <2>3
    <2>5. Says("build failed")
        BY <1>2, <2>2, <2>3, <2>4
    <2> QED
        BY <1>4, <2>5
<1>5. CASE cause = "assertion"
    <2>1. Len(output) \in 1..(MaxLogs + 2) /\ output[Len(output)] = "FAIL"
          /\ \A i \in 1..Len(output) : output[i] # "build failed"
        BY <1>5 DEF OutcomeInv, FailuresSaySo, OnlyBuildsSaySo
    <2>2. Len(output) \in 1..Len(output) /\ Len(output) <= Kept
        BY <1>1, <2>1, LastLineIsKept
    <2> QED
        BY <1>2, <1>5, <2>1, <2>2 DEF SaysFail
<1> QED
    BY <1>3, <1>4, <1>5

\* When the output is kept, the verdicts also name the cause.
THEOREM VerdictsTellOfCauses ==
    Kept >= MaxLogs + 2 => (OutcomeSpec => []VerdictsTellWhatHappened)
<1> SUFFICES ASSUME Kept >= MaxLogs + 2
             PROVE  OutcomeSpec => []VerdictsTellWhatHappened
    OBVIOUS
<1>1. OutcomeInv => RunnerNamesTheCause
    <2> SUFFICES ASSUME OutcomeInv, phase = "judged",
                        cause \in {"passed", "assertion", "build", "start", "deadline"}
                 PROVE  runner = CASE deadline -> "timed_out"
                                   [] ~deadline /\ cause = "passed" -> "survived"
                                   [] ~deadline /\ cause = "assertion" -> "killed"
                                   [] OTHER -> "compile_error"
        BY DEF RunnerNamesTheCause
    <2>1. /\ cause = "start" => ~SaysFail
          /\ cause = "build" => Says("build failed") \/ ~SaysFail
          /\ cause = "assertion" => SaysFail /\ ~Says("build failed")
        BY CausesAreFound
    <2>2. runner = RunnerVerdict /\ (exit = 0 <=> cause = "passed") /\ (cause = "deadline" => deadline)
        BY DEF OutcomeInv, EndedInTurn
    <2> QED
        BY <2>1, <2>2 DEF RunnerVerdict
<1>2. SurvivedMeansPassed /\ DeadlineIsNotAKill /\ RunnerNamesTheCause => VerdictsTellWhatHappened
    BY DEF VerdictsTellWhatHappened
<1> QED
    BY <1>1, <1>2, OutcomeInvariant, SurvivorsPassed, PTL
=============================================================================
