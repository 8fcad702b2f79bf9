------------------------------ MODULE Mutators ------------------------------
(***************************************************************************)
(* The generator of mutants (pkg/mutator/mutator.go, structtag.go).  It    *)
(* walks the syntax tree of a file, offers each node to the operators that *)
(* its profile enables, leaves out what an inline comment ignores, writes  *)
(* the replacement over the first place in the node's text where the       *)
(* original stands, and classifies the result.                             *)
(*                                                                         *)
(* A file is a sequence of nodes in the order ast.Inspect visits them,     *)
(* each with its parent and its part in it, and the tokens it spans.  What *)
(* the walk does not reach, the parameters of a declared function, is not  *)
(* in the sequence.                                                        *)
(***************************************************************************)
EXTENDS Verdicts, Integers, Sequences, FiniteSets, FiniteSetsExt

CONSTANT SourceFiles   \* nodes, tokens and comments of each file; MC modules build them

\* What is assumed of the files: a field has at most one tag, a sequence of pairs.
ASSUME MutatorsAssumption ==
    \A f \in SourceFiles :
        /\ DOMAIN f.nodes \subseteq Nat \ {0}
        /\ \A n \in DOMAIN f.nodes : \A i \in DOMAIN f.nodes[n].tag.pairs :
              i \in Nat /\ f.nodes[n].tag.pairs[i].options \in BOOLEAN
        /\ \A n, m \in DOMAIN f.nodes :
              /\ f.nodes[n].parent = f.nodes[m].parent
              /\ f.nodes[n].part = "tag" /\ f.nodes[m].part = "tag"
              => n = m

VARIABLES source,      \* the file
          level,       \* the profiles it was generated with so far, by number
          generation,  \* how the last generation ended: "ok", "error" or "panic"
          generated    \* generated[p]: the mutants generated with profile p

generatorVars == <<source, level, generation, generated>>

Profiles == <<"gremlins-compatible", "conservative-fast", "conservative", "default", "aggressive">>

-----------------------------------------------------------------------------
(* The operator catalogue                                                   *)

Fast == {"conditionals-negation", "conditionals-boundary", "arithmetic-basic"}
Conservative == {"logical", "boolean-literals", "string-empty-literals"}
Default == {"nil-checks", "error-returns", "numeric-literals", "return-bool-literals",
            "assignment-arithmetic", "inc-dec"}
Aggressive == {"literals", "returns", "loop-control", "slice-map-len-boundary"}

\* Mutated form of EnabledProfiles: an operator of the default profile left out of the next.
EnabledProfilesOfOwn(op) ==
    IF op \in Default THEN {"default"}
    ELSE {Profiles[i] : i \in {i \in 1..5 : op \in Fast \/ (i >= 3 /\ op \in Conservative)
                                            \/ (i >= 5 /\ op \in Aggressive)}}
EnabledProfiles(op) ==
    CASE op \in Fast -> {Profiles[i] : i \in 1..5}
      [] op \in Conservative -> {Profiles[i] : i \in 3..5}
      [] op \in Default -> {Profiles[i] : i \in 4..5}
      [] op \in Aggressive -> {"aggressive"}
OperatorEnabled(op, p) == p \in EnabledProfiles(op)

EquivalentRisk(op) ==
    IF op \in {"conditionals-boundary", "nil-checks", "error-returns", "literals", "returns",
               "loop-control"} THEN "high"
    ELSE IF op \in {"arithmetic-basic", "boolean-literals"} THEN "low" ELSE "medium"

-----------------------------------------------------------------------------
(* The syntax tree                                                          *)

Nodes == DOMAIN source.nodes
N(n) == source.nodes[n]
Is(n, type) == n # 0 /\ N(n).type = type
Above(n) == LET up[m \in 0..n] == IF m = 0 THEN {} ELSE {N(m).parent} \cup up[N(m).parent]
            IN  up[n] \ {0}
Within(n) == {m \in Nodes : m = n \/ n \in Above(m)}
Child(n, part) == LET cs == {m \in Nodes : N(m).parent = n /\ N(m).part = part}
                  IN  IF cs = {} THEN 0 ELSE Min(cs)
\* A parent comes before its children, so the nearest node is the last.
Nearest(ns) == IF ns = {} THEN 0 ELSE Max(ns)

IsNamed(n, name) == Is(n, "ident") /\ N(n).text = name
IdentName(n) == IF Is(n, "ident") THEN N(n).text ELSE None
Function(n) == LET f == Nearest({m \in Above(n) : Is(m, "func")}) IN IF f = 0 THEN None ELSE N(f).text
SelectorName(n) == IF n = 0 THEN None ELSE N(n).text
IsLenCall(n) == Is(n, "call") /\ IsNamed(Child(n, "fun"), "len") /\ N(n).args = 1
IsLenComparison(n) == IsLenCall(Child(n, "x")) \/ IsLenCall(Child(n, "y"))
IsNilCheck(n) ==
    N(n).text \in {"==", "!="} /\ (IsNamed(Child(n, "x"), "nil") \/ IsNamed(Child(n, "y"), "nil"))
IsImportPath(n) == Is(N(n).parent, "import") /\ N(n).part = "path"

-----------------------------------------------------------------------------
(* What each node offers: operator, original and replacement.               *)

C(op, original, mutated) == [op |-> op, original |-> original, mutated |-> mutated]

BoundaryReplacement == [o \in {"<", "<=", ">", ">="} |->
    CASE o = "<" -> "<=" [] o = "<=" -> "<" [] o = ">" -> ">=" [] o = ">=" -> ">"]
Negation == [o \in {"==", "!=", "<", "<=", ">", ">="} |->
    CASE o = "==" -> "!=" [] o = "!=" -> "==" [] o = "<" -> ">="
      [] o = "<=" -> ">" [] o = ">" -> "<=" [] o = ">=" -> "<"]
Arithmetic == [o \in {"+", "-", "*", "/"} |->
    CASE o = "+" -> "-" [] o = "-" -> "+" [] o = "*" -> "/" [] o = "/" -> "*"]
AssignReplacement == [o \in {"+=", "-=", "*=", "/="} |->
    CASE o = "+=" -> "-=" [] o = "-=" -> "+=" [] o = "*=" -> "/=" [] o = "/=" -> "*="]
Not(b) == IF b = "true" THEN "false" ELSE "true"

\* A comparison with nil is offered to the nil checks alone.
BinaryCandidates(n) ==
    LET o == N(n).text
        From(op, table) == IF o \in DOMAIN table THEN {C(op, o, table[o])} ELSE {}
        Swapped == CASE o = "&&" -> {C("logical", o, "||")} [] o = "||" -> {C("logical", o, "&&")}
                     [] OTHER -> From("arithmetic-basic", Arithmetic)
    IN  IF IsNilCheck(n) THEN {C("nil-checks", o, Negation[o])}
        ELSE From("conditionals-negation", Negation)
             \cup From("conditionals-boundary", BoundaryReplacement)
             \cup Swapped
             \cup IF IsLenComparison(n) THEN From("slice-map-len-boundary", BoundaryReplacement) ELSE {}

\* The literal true or false, of whatever role, and once more as the value of a return.
IdentCandidates(n) ==
    IF N(n).text \notin {"true", "false"} THEN {}
    ELSE {C(op, N(n).text, Not(N(n).text)) :
             op \in {"boolean-literals"} \cup IF Is(N(n).parent, "return")
                                              THEN {"return-bool-literals", "returns"} ELSE {}}

StringCandidates(n) ==
    IF N(n).text = "" \/ IsImportPath(n) THEN {}
    ELSE {C(op, N(n).text, "") : op \in {"string-empty-literals", "literals"}}
IntCandidates(n) ==
    {C(op, N(n).text, IF N(n).text = "0" THEN "1" ELSE "0") : op \in {"numeric-literals", "literals"}}
AssignCandidates(n) ==
    IF N(n).text \in DOMAIN AssignReplacement
    THEN {C("assignment-arithmetic", N(n).text, AssignReplacement[N(n).text])} ELSE {}
IncDecCandidates(n) == {C("inc-dec", N(n).text, IF N(n).text = "++" THEN "--" ELSE "++")}
\* The condition of a loop, offered when the loop itself is visited.
LoopControlCandidates(n) ==
    IF Is(n, "binary") /\ N(n).part = "cond" /\ Is(N(n).parent, "for")
       /\ N(n).text \in DOMAIN BoundaryReplacement
    THEN {C("loop-control", N(n).text, BoundaryReplacement[N(n).text])} ELSE {}

CollectNode(n) ==
    CASE Is(n, "binary") -> BinaryCandidates(n) \cup LoopControlCandidates(n)
      [] Is(n, "ident") -> IdentCandidates(n)
      [] Is(n, "string") -> StringCandidates(n)
      [] Is(n, "int") -> IntCandidates(n)
      [] Is(n, "assign") -> AssignCandidates(n)
      [] Is(n, "incdec") -> IncDecCandidates(n)
      [] OTHER -> {}

-----------------------------------------------------------------------------
(* Inline comments ignore the operators they name on the line below.        *)

ValidateInlineIgnores == \A c \in source.comments : c.reason
OperatorMatchesIgnore(op, ignored) ==
    \/ ignored \in {"*", op}
    \/ ignored = "conditionals" /\ op \in {"conditionals-negation", "conditionals-boundary"}
Ignored(line, op) ==
    \E c \in source.comments : c.line + 1 = line /\ OperatorMatchesIgnore(op, c.operator)

-----------------------------------------------------------------------------
(* Classification                                                           *)

EnclosingFor(n) == Nearest({m \in Above(n) : Is(m, "for")})
ExprHasIdent(n, name) == n # 0 /\ \E m \in Within(n) : IsNamed(m, name)
DirectionFromComparison(o, left) ==
    CASE o \in {"<", "<="} -> IF left THEN "ascending" ELSE "descending"
      [] o \in {">", ">="} -> IF left THEN "descending" ELSE "ascending"
      [] OTHER -> None
\* The first comparison of a condition that has the variable on a side.
LoopConditionDirection(cond, name) ==
    LET Of(m) == IF ExprHasIdent(Child(m, "x"), name) THEN DirectionFromComparison(N(m).text, TRUE)
                 ELSE IF ExprHasIdent(Child(m, "y"), name)
                 THEN DirectionFromComparison(N(m).text, FALSE)
                 ELSE None
        telling == {m \in Within(cond) : Is(m, "binary") /\ Of(m) # None}
    IN  IF telling = {} THEN None ELSE Of(Min(telling))
Direction(o) == CASE o \in {"++", "+="} -> "ascending" [] o \in {"--", "-="} -> "descending"
                  [] OTHER -> None

Counter(n) == IF Is(n, "incdec") THEN IdentName(Child(n, "x"))
              ELSE IF Is(n, "assign") THEN IdentName(Child(n, "lhs")) ELSE None
\* ast.Inspect panics on the condition of a loop that has none.
ClassifyPanics(n) ==
    EnclosingFor(n) # 0 /\ Counter(n) # None /\ Child(EnclosingFor(n), "cond") = 0
NonProgressLoopRisk(n) ==
    LET cond == Child(EnclosingFor(n), "cond")
    IN  /\ EnclosingFor(n) # 0 /\ Counter(n) # None /\ Direction(N(n).text) # None
        /\ Direction(N(n).text) = LoopConditionDirection(cond, Counter(n))

\* The nearest call that has the node in an argument, and that argument.
EnclosingArgument(n) ==
    Nearest({m \in Above(n) \cup {n} : Is(N(m).parent, "call") /\ N(m).part # "fun"})
Callee(arg) == SelectorName(Child(N(arg).parent, "fun"))
PermissionModeMutation(n, op) ==
    LET arg == EnclosingArgument(n)
    IN  /\ op \in {"numeric-literals", "literals"} /\ arg # 0
        /\ \/ Callee(arg) \in {"os.Mkdir", "os.MkdirAll", "os.Chmod"} /\ N(arg).part = "arg1"
           \/ Callee(arg) = "os.OpenFile" /\ N(arg).part = "arg2"

IsSortComparator(n) ==
    LET arg == EnclosingArgument(n)
    IN  arg # 0 /\ arg # n /\ Is(arg, "funclit") /\ Callee(arg) \in {"sort.Slice", "sort.SliceStable"}
SemanticGroup(n, op) ==
    IF op = "conditionals-boundary" /\ IsSortComparator(n)
    THEN <<"sort comparator boundary", N(N(EnclosingArgument(n)).parent).line>>
    ELSE IF Is(n, "binary") /\ op \in {"slice-map-len-boundary", "conditionals-boundary", "loop-control"}
            /\ IsLenComparison(n)
    THEN <<"len boundary", SubSeq(source.tokens, N(n).first, N(n).last)>>
    ELSE <<>>

\* The keys whose decoder is known, and those whose default name is derived.
TagKnownKeys == {"yaml", "json"}
TagDerivesAny(key) == TRUE   \* mutated form: json is taken to derive its default too
TagDerives(key) == key = "yaml"
DefaultName(key, field) == IF key = "yaml" THEN N(field).lower ELSE N(field).text
ParseStructTagPairs(tag) ==
    tag.wellFormed /\ \A i, j \in DOMAIN tag.pairs : tag.pairs[i].key = tag.pairs[j].key => i = j
IsProvablyEquivalentTagMutation(field, tag) ==
    /\ N(field).names = 1 /\ ParseStructTagPairs(tag) /\ tag.pairs # <<>>
    /\ \A i \in DOMAIN tag.pairs : tag.pairs[i].key \in TagKnownKeys
    /\ N(field).exported => \A i \in DOMAIN tag.pairs :
          LET p == tag.pairs[i]
          IN  /\ ~p.options /\ p.name # "-"
              /\ p.name # "" => TagDerives(p.key) /\ p.name = DefaultName(p.key, field)
EquivalentTag(n, op) ==
    /\ op \in {"string-empty-literals", "literals"} /\ Is(N(n).parent, "field") /\ N(n).part = "tag"
    /\ IsProvablyEquivalentTagMutation(N(n).parent, N(n).tag)

-----------------------------------------------------------------------------
\* One text stands in another: "<" also in "<=".
Inside == {<<"<", "<=">>, <<">", ">=">>, <<"-", "--">>, <<"-", "-=">>, <<"+", "++">>, <<"+", "+=">>,
           <<"*", "*=">>, <<"/", "/=">>}
ReplaceFirst(n, original) ==
    LET found == {i \in N(n).first..N(n).last :
                    source.tokens[i] = original \/ <<original, source.tokens[i]>> \in Inside}
    IN  IF found = {} THEN 0 ELSE Min(found)

Enabled(n, p) == {c \in CollectNode(n) : OperatorEnabled(c.op, p) /\ ~Ignored(N(n).line, c.op)
                                         /\ ReplaceFirst(n, c.original) # 0}
AddMutation(n, c) ==
    [node |-> n, op |-> c.op, original |-> c.original, mutated |-> c.mutated,
     at |-> ReplaceFirst(n, c.original), function |-> Function(n),
     risk |-> IF EquivalentTag(n, c.op) THEN "high" ELSE EquivalentRisk(c.op),
     equivalent |-> EquivalentTag(n, c.op), nonProgress |-> NonProgressLoopRisk(n),
     sensitive |-> PermissionModeMutation(n, c.op), group |-> SemanticGroup(n, c.op)]

MutantsOf(p) == UNION {{AddMutation(n, c) : c \in Enabled(n, p)} : n \in Nodes}

\* A function without a body cannot be inspected.
GeneratePanics(p) ==
    \E n \in Nodes : (Is(n, "func") /\ ~N(n).body) \/ (Enabled(n, p) # {} /\ ClassifyPanics(n))

GeneratorInit ==
    /\ source \in SourceFiles
    /\ level = 0 /\ generation = None /\ generated = [i \in 1..5 |-> {}]

Generate ==
    /\ level < 5 /\ level' = level + 1
    /\ generation' = IF ~ValidateInlineIgnores THEN "error"
                 ELSE IF GeneratePanics(Profiles[level + 1]) THEN "panic" ELSE "ok"
    /\ generated' = [generated EXCEPT ![level + 1] =
          IF generation' = "ok" THEN MutantsOf(Profiles[level + 1]) ELSE {}]
    /\ UNCHANGED source

GeneratorSpec == GeneratorInit /\ [][Generate]_generatorVars

-----------------------------------------------------------------------------
(* The decoders a struct tag is for.  A field is decoded from a name with   *)
(* options, or not at all.                                                  *)

Siblings(field) == {m \in Nodes : Is(m, "field") /\ N(m).parent = N(field).parent}
\* The tag of a field when that of another is empty.
TagOf(field, emptied) ==
    IF field = emptied \/ Child(field, "tag") = 0 THEN <<>> ELSE N(Child(field, "tag")).tag.pairs
Pair(field, emptied, key) ==
    LET tag == TagOf(field, emptied) having == {i \in DOMAIN tag : tag[i].key = key}
    IN  IF having = {} THEN [name |-> "", options |-> FALSE]
        ELSE [name |-> tag[Min(having)].name, options |-> tag[Min(having)].options]
DecodedName(f, emptied, key) ==
    LET name == Pair(f, emptied, key).name IN IF name = "" THEN DefaultName(key, f) ELSE name
DecodedFields(struct, emptied, key) ==
    {f \in struct : N(f).exported
                    /\ ~(Pair(f, emptied, key).name = "-" /\ ~Pair(f, emptied, key).options)}
Rivals(f, struct, emptied, key) ==
    {g \in DecodedFields(struct, emptied, key) :
        DecodedName(g, emptied, key) = DecodedName(f, emptied, key)}
\* Of rivals none is decoded, but that json takes the only tagged one.
Wins(f, struct, emptied, key) ==
    \/ Rivals(f, struct, emptied, key) = {f}
    \/ key = "json" /\ {g \in Rivals(f, struct, emptied, key) : Pair(g, emptied, key).name # ""} = {f}
\* yaml refuses a struct that names two fields alike.
Refused(struct, emptied, key) ==
    /\ key = "yaml"
    /\ \E f \in DecodedFields(struct, emptied, key) : Rivals(f, struct, emptied, key) # {f}
Decoded(struct, emptied, key) ==
    {[field |-> f, name |-> DecodedName(f, emptied, key), options |-> Pair(f, emptied, key).options] :
        f \in {f \in DecodedFields(struct, emptied, key) :
                 ~Refused(struct, emptied, key) /\ Wins(f, struct, emptied, key)}}

\* A tag that is classified as provably equivalent can be emptied without either
\* decoder reading any field of the struct differently
\* (isProvablyEquivalentTagMutation, structtag.go).
EquivalentTagsChangeNothing ==
    \A p \in 1..5 : \A m \in generated[p] : m.equivalent =>
        LET field == N(m.node).parent
        IN  \A key \in TagKnownKeys :
               Decoded(Siblings(field), 0, key) = Decoded(Siblings(field), field, key)

\* A stronger profile generates every mutant of a weaker one, alike, so that IDs,
\* baselines and quarantine entries outlast a change of profile
\* (operatorCatalog, collectNode, mutator.go).
StrongerProfilesKeepMutants ==
    \A p \in 1..(level - 1) : generation = "ok" => generated[p] \subseteq generated[level]

\* The counter of a loop is mutated in every profile that has inc-dec
\* (nonProgressLoopRisk, mutator.go).
CountersOfLoopsAreMutated ==
    level # 0 /\ generation # "error" =>
        \A n \in Nodes : Is(n, "incdec") /\ EnclosingFor(n) # 0 /\ ~Ignored(N(n).line, "inc-dec")
                         /\ OperatorEnabled("inc-dec", Profiles[level]) =>
            \E m \in generated[level] : m.node = n /\ m.op = "inc-dec"

-----------------------------------------------------------------------------
(* What the proofs rest on: an inductive invariant.                         *)

GeneratorInv ==
    /\ source \in SourceFiles /\ level \in 0..5 /\ DOMAIN generated = 1..5
    /\ \A p \in 1..5 : generated[p] \subseteq MutantsOf(Profiles[p])
    /\ generation = "ok" => level # 0 /\ generated[level] = MutantsOf(Profiles[level])
=============================================================================
