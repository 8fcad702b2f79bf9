-------------------------- MODULE Selection_proofs --------------------------
(***************************************************************************)
(* What holds of the mutants that the runs of any tree select and excuse:  *)
(* any number of shards, on machines that hold the tree anywhere, with any *)
(* targets, limits, order, entries of quarantine and rules.  A sort and a  *)
(* filter are told by the ranks of positions, a sequence of sequences by a *)
(* least position at which it would not hold what they hold.               *)
(***************************************************************************)
EXTENDS Selection, SequenceTheorems, FiniteSetTheorems, WellFoundedInduction, TLAPS

\* A set of numbers has a least one.
LEMMA PairsInOrder ==
    ASSUME NEW x \in Nat, NEW y \in Nat, y < x
    PROVE  <<y, x>> \in {p \in Nat \X Nat : p[1] < p[2]}
OBVIOUS

LEMMA LeastIsOneOfThem ==
    ASSUME NEW T, T \subseteq Nat, T # {}
    PROVE  Min(T) \in T /\ \A n \in T : Min(T) <= n
<1> DEFINE less == {p \in Nat \X Nat : p[1] < p[2]}
<1>1. IsWellFoundedOn(less, Nat)
    BY NatLessThanWellFounded DEF OpToRel
<1> HIDE DEF less
<1>2. PICK x \in T : \A y \in T : ~(<<y, x>> \in less)
    BY <1>1, WFMin
<1>3. \A y \in T : x <= y
    <2> SUFFICES ASSUME NEW y \in T, y < x PROVE FALSE
        OBVIOUS
    <2>1. <<y, x>> \in less
        BY PairsInOrder DEF less
    <2> QED
        BY <1>2, <2>1
<1> QED
    BY <1>3 DEF Min

-----------------------------------------------------------------------------
(* The strongest of the rules, and the entries in force.                    *)

LEMMA RulesAreListed == DOMAIN Rules \subseteq Nat
<1>1. Len(Rules) \in Nat /\ DOMAIN Rules = 1..Len(Rules)
    BY SelectionAssumption
<1> QED
    BY ONLY <1>1

LEMMA EntriesExpire == \A e \in QuarantineFile : e.expires \in Int
BY SelectionAssumption

LEMMA StrongestOfRules ==
    ASSUME NEW m, StrongestSuppression(m) # 0
    PROVE  /\ StrongestSuppression(m) \in DOMAIN Rules
           /\ SuppressionRuleMatches(Rules[StrongestSuppression(m)], m)
<1> DEFINE Pr(i) == SuppressionPriority(Rules[i].action)
           matching == MatchingRules(m)
           strongest == {i \in matching : \A j \in matching : Pr(j) <= Pr(i)}
<1>1. matching # {} /\ StrongestSuppression(m) = Min(strongest)
    BY DEF StrongestSuppression, StrongestRules
<1>2. \A i \in matching : Pr(i) \in 0..3
    BY DEF MatchingRules, SuppressionPriority
<1>3. matching \subseteq DOMAIN Rules /\ \A i \in matching : SuppressionRuleMatches(Rules[i], m)
    BY DEF MatchingRules
<1> HIDE DEF Pr
<1>4. strongest # {}
    <2>1. CASE \E i \in matching : Pr(i) = 3
        BY <1>2, <2>1
    <2>2. CASE (\A i \in matching : Pr(i) # 3) /\ \E i \in matching : Pr(i) = 2
        BY <1>2, <2>2
    <2>3. CASE (\A i \in matching : Pr(i) \notin {2, 3}) /\ \E i \in matching : Pr(i) = 1
        BY <1>2, <2>3
    <2>4. CASE \A i \in matching : Pr(i) \notin {1, 2, 3}
        BY <1>1, <1>2, <2>4
    <2> QED
        BY <2>1, <2>2, <2>3, <2>4
<1>5. Min(strongest) \in strongest
    <2>1. strongest \subseteq Nat
        BY <1>3, RulesAreListed
    <2> QED
        BY <1>4, <2>1, LeastIsOneOfThem
<1> QED
    BY <1>1, <1>3, <1>5

-----------------------------------------------------------------------------
LEMMA ExcusesStart == SelectionInit => ExcusesInv
<1> SUFFICES ASSUME SelectionInit PROVE ExcusesInv
    OBVIOUS
<1>1. SelectionTypeOK
    BY DEF SelectionInit, SelectionTypeOK
<1>2. ASSUME NEW s \in Shards PROVE ReadWhileRunning(s) /\ DecidedAsRead(s)
    BY DEF SelectionInit, ReadWhileRunning, DecidedAsRead, Done
<1> QED
    BY <1>1, <1>2 DEF ExcusesInv

LEMMA ExcusesStep == ExcusesInv /\ [SelectionNext]_selectionVars => ExcusesInv'
<1> SUFFICES ASSUME ExcusesInv, [SelectionNext]_selectionVars PROVE ExcusesInv'
    OBVIOUS
<1> USE DEF Shards
\* What a step leaves to a run that it does not concern.
<1>1. ASSUME NEW s \in Shards, runConfig' = runConfig, now' \in Nat, now <= now',
             runAt'[s] = runAt[s], started'[s] = started[s], mutants'[s] = mutants[s],
             active'[s] = active[s], results'[s] = results[s]
      PROVE  ReadWhileRunning(s)' /\ DecidedAsRead(s)'
    <2>1. \A t : InForceAt(t)' = InForceAt(t)
        BY <1>1 DEF InForceAt
    <2>2. \A m : Verdict(s, m)' = Verdict(s, m)
        BY <1>1 DEF Verdict, SuppressedResult, StrongestSuppression, MatchingRules, StrongestRules,
               SuppressionRuleMatches
    <2>3. \A e : Accountable(e)' = Accountable(e)
        BY <1>1 DEF Accountable
    <2>4. now \in Nat
        BY DEF ExcusesInv, SelectionTypeOK
    <2>5. ReadWhileRunning(s)'
        BY <1>1, <2>1, <2>3, <2>4 DEF ExcusesInv, ReadWhileRunning
    <2>6. DecidedAsRead(s)'
        <3> SUFFICES ASSUME Done(s)' PROVE
                results'[s] = [i \in DOMAIN mutants'[s] |->
                                  [id |-> mutants'[s][i].id, verdict |-> Verdict(s, mutants[s][i])']]
            BY <1>1 DEF DecidedAsRead
        <3>1. results[s] = [i \in DOMAIN mutants[s] |->
                               [id |-> mutants[s][i].id, verdict |-> Verdict(s, mutants[s][i])]]
            BY <1>1 DEF ExcusesInv, DecidedAsRead, Done
        <3> QED
            BY <1>1, <2>2, <3>1
    <2> QED
        BY <2>5, <2>6
<1>2. ASSUME NEW s \in Shards, DiscoverMutants(s) PROVE ExcusesInv'
    <2>1. SelectionTypeOK'
        BY <1>2 DEF ExcusesInv, SelectionTypeOK, DiscoverMutants, Move
    <2>2. ASSUME NEW t \in Shards PROVE ReadWhileRunning(t)' /\ DecidedAsRead(t)'
        <3>1. CASE t = s
            BY <1>2, <3>1 DEF ExcusesInv, SelectionTypeOK, DiscoverMutants, Move, ReadWhileRunning, DecidedAsRead, Done
        <3>2. CASE t # s
            BY <1>1, <1>2, <3>2 DEF ExcusesInv, SelectionTypeOK, DiscoverMutants, Move
        <3> QED
            BY <3>1, <3>2
    <2> QED
        BY <1>2, <2>1, <2>2 DEF ExcusesInv, DiscoverMutants
<1>3. ASSUME NEW s \in Shards, SelectMutants(s) PROVE ExcusesInv'
    <2>1. SelectionTypeOK'
        BY <1>3 DEF ExcusesInv, SelectionTypeOK, SelectMutants, Move
    <2>2. ASSUME NEW t \in Shards PROVE ReadWhileRunning(t)' /\ DecidedAsRead(t)'
        <3>1. CASE t = s
            BY <1>3, <3>1 DEF ExcusesInv, SelectionTypeOK, SelectMutants, Move, ReadWhileRunning, DecidedAsRead, Done
        <3>2. CASE t # s
            BY <1>1, <1>3, <3>2 DEF ExcusesInv, SelectionTypeOK, SelectMutants, Move
        <3> QED
            BY <3>1, <3>2
    <2> QED
        BY <1>3, <2>1, <2>2 DEF ExcusesInv, SelectMutants
<1>4. ASSUME NEW s \in Shards, LoadQuarantine(s) PROVE ExcusesInv'
    <2>1. UNCHANGED <<runConfig, now, started, mutants, results>>
          /\ (Move(s, "quarantine", "failed") \/ Move(s, "quarantine", "decide"))
          /\ DOMAIN active' = Shards /\ \A t \in Shards \ {s} : active'[t] = active[t]
        BY <1>4 DEF LoadQuarantine, ExcusesInv, SelectionTypeOK
    <2>2. SelectionTypeOK'
        BY <2>1 DEF ExcusesInv, SelectionTypeOK, Move
    <2>3. ASSUME NEW t \in Shards PROVE ReadWhileRunning(t)' /\ DecidedAsRead(t)'
        <3>1. CASE t = s /\ runAt'[s] = "decide"
            <4>1. active'[s] = InForceAt(now)' /\ (runConfig.quarantine => \A e \in QuarantineFile : Valid(e))
                BY <1>4, <3>1 DEF LoadQuarantine, ExcusesInv, SelectionTypeOK, Move, InForceAt
            <4>2. \A e : Valid(e) => Accountable(e)'
                BY <2>1 DEF Valid, Accountable
            <4>3. now \in Nat /\ started'[s] <= now /\ now' = now
                BY <2>1 DEF ExcusesInv, SelectionTypeOK
            <4> QED
                BY <2>1, <3>1, <4>1, <4>2, <4>3 DEF ReadWhileRunning, DecidedAsRead, Done
        <3>2. CASE t = s /\ runAt'[s] # "decide"
            BY <2>1, <3>2 DEF ExcusesInv, SelectionTypeOK, Move, ReadWhileRunning, DecidedAsRead, Done
        <3>3. CASE t # s
            BY <1>1, <2>1, <3>3 DEF ExcusesInv, SelectionTypeOK, Move
        <3> QED
            BY <3>1, <3>2, <3>3
    <2> QED
        BY <2>1, <2>2, <2>3 DEF ExcusesInv
<1>5. ASSUME NEW s \in Shards, RunMutants(s) PROVE ExcusesInv'
    <2>1. SelectionTypeOK'
        BY <1>5 DEF ExcusesInv, SelectionTypeOK, RunMutants, Move
    <2>2. ASSUME NEW t \in Shards PROVE ReadWhileRunning(t)' /\ DecidedAsRead(t)'
        <3>1. CASE t = s
            <4>1. \A m : Verdict(s, m)' = Verdict(s, m)
                BY <1>5 DEF RunMutants, Verdict, SuppressedResult, StrongestSuppression,
                            MatchingRules, StrongestRules, SuppressionRuleMatches
            <4>2. results'[s] = [i \in DOMAIN mutants[s] |->
                      [id |-> mutants[s][i].id, verdict |-> Verdict(s, mutants[s][i])]]
                BY <1>5 DEF RunMutants, ExcusesInv, SelectionTypeOK
            <4>3. DecidedAsRead(s)'
                BY <1>5, <4>1, <4>2 DEF RunMutants, DecidedAsRead
            <4>4. ReadWhileRunning(s)'
                <5>1. \A n : InForceAt(n)' = InForceAt(n)
                    BY <1>5 DEF RunMutants, InForceAt
                <5>2. \A e : Accountable(e)' = Accountable(e)
                    BY <1>5 DEF RunMutants, Accountable
                <5>3. runAt[s] = "decide" /\ ReadWhileRunning(s)
                    BY <1>5 DEF RunMutants, Move, ExcusesInv
                <5> QED
                    BY <1>5, <5>1, <5>2, <5>3 DEF RunMutants, ReadWhileRunning
            <4> QED
                BY <3>1, <4>3, <4>4
        <3>2. CASE t # s
            BY <1>1, <1>5, <3>2 DEF ExcusesInv, SelectionTypeOK, RunMutants, Move
        <3> QED
            BY <3>1, <3>2
    <2> QED
        BY <1>5, <2>1, <2>2 DEF ExcusesInv, RunMutants
<1>6. CASE Tick
    <2>1. SelectionTypeOK'
        <3>1. now' \in Nat /\ now <= now' /\ now \in Nat
            BY <1>6 DEF ExcusesInv, SelectionTypeOK, Tick
        <3> QED
            BY <1>6, <3>1 DEF ExcusesInv, SelectionTypeOK, Tick
    <2>2. ASSUME NEW t \in Shards PROVE ReadWhileRunning(t)' /\ DecidedAsRead(t)'
        BY <1>1, <1>6, <2>1 DEF ExcusesInv, SelectionTypeOK, Tick
    <2> QED
        BY <1>6, <2>1, <2>2 DEF ExcusesInv, Tick
<1>7. CASE UNCHANGED selectionVars
    <2>1. SelectionTypeOK'
        BY <1>7 DEF ExcusesInv, SelectionTypeOK, selectionVars
    <2>2. ASSUME NEW t \in Shards PROVE ReadWhileRunning(t)' /\ DecidedAsRead(t)'
        BY <1>1, <1>7 DEF ExcusesInv, SelectionTypeOK, selectionVars
    <2> QED
        BY <1>7, <2>1, <2>2 DEF ExcusesInv, selectionVars
<1> QED
    BY <1>2, <1>3, <1>4, <1>5, <1>6, <1>7 DEF SelectionNext

-----------------------------------------------------------------------------
(* Sequences by the order of keys.                                          *)

\* Vectors of numbers of one length are in a strict order, and in a total one.
LEMMA LessIsAnOrder ==
    ASSUME NEW L \in Nat, NEW u \in [1..L -> Int], NEW v \in [1..L -> Int], NEW w \in [1..L -> Int]
    PROVE  /\ ~Less(v, v)
           /\ Less(u, v) /\ Less(v, w) => Less(u, w)
           /\ v # w => Less(v, w) \/ Less(w, v)
<1>1. ~Less(v, v)
    BY DEF Less
<1>2. ASSUME Less(u, v), Less(v, w) PROVE Less(u, w)
    <2>1. PICK i \in 1..L : u[i] < v[i] /\ \A j \in 1..(i - 1) : u[j] = v[j]
        BY <1>2 DEF Less
    <2>2. PICK k \in 1..L : v[k] < w[k] /\ \A j \in 1..(k - 1) : v[j] = w[j]
        BY <1>2 DEF Less
    <2>3. CASE i <= k
        <3>1. u[i] < w[i]
            <4>1. i = k \/ v[i] = w[i]
                BY <2>2, <2>3
            <4>2. u[i] \in Int /\ v[i] \in Int /\ w[i] \in Int /\ u[i] < v[i]
                BY <2>1
            <4>3. i = k => v[i] < w[i]
                BY <2>2
            <4> QED
                BY <4>1, <4>2, <4>3
        <3>2. \A j \in 1..(i - 1) : u[j] = w[j]
            BY <2>1, <2>2, <2>3
        <3> QED
            BY <3>1, <3>2 DEF Less
    <2>4. CASE k < i
        <3>1. u[k] = v[k] /\ v[k] < w[k]
            BY <2>1, <2>2, <2>4
        <3>2. \A j \in 1..(k - 1) : u[j] = w[j]
            BY <2>1, <2>2, <2>4
        <3> QED
            BY <3>1, <3>2 DEF Less
    <2> QED
        BY <2>3, <2>4
<1>3. ASSUME v # w PROVE Less(v, w) \/ Less(w, v)
    <2> DEFINE differ == {i \in 1..L : v[i] # w[i]}
    <2>1. differ # {} /\ differ \subseteq Nat
        <3>1. (\A i \in 1..L : v[i] = w[i]) => v = w
            OBVIOUS
        <3>2. PICK i \in 1..L : v[i] # w[i]
            BY ONLY <1>3, <3>1
        <3>3. i \in differ
            BY <3>2
        <3>4. differ \subseteq 1..L /\ 1..L \subseteq Nat
            OBVIOUS
        <3> HIDE DEF differ
        <3> QED
            BY <3>3, <3>4
    <2> DEFINE i == Min(differ)
    <2>2. i \in differ /\ \A n \in differ : i <= n
        <3> HIDE DEF differ
        <3> QED
            BY <2>1, LeastIsOneOfThem
    <2> HIDE DEF i
    <2>3. i \in 1..L /\ v[i] # w[i] /\ v[i] \in Int /\ w[i] \in Int
        BY <2>2
    <2>4. \A j \in 1..(i - 1) : v[j] = w[j]
        BY <2>2, <2>3
    <2>5. v[i] < w[i] \/ w[i] < v[i]
        BY <2>3
    <2> QED
        BY <2>3, <2>4, <2>5 DEF Less
<1> QED
    BY <1>1, <1>2, <1>3

\* Positions with keys of their own have places of their own, and every place is taken.
LEMMA EveryPositionHasAPlace ==
    ASSUME NEW N, IsFiniteSet(N), NEW L \in Nat, NEW key \in [N -> [1..L -> Int]],
           \A i, j \in N : key[i] = key[j] => i = j
    PROVE  /\ ByKey(N, key) \in [1..Cardinality(N) -> N]
           /\ \A n \in N : \E i \in 1..Cardinality(N) : ByKey(N, key)[i] = n
           /\ Cardinality(N) \in Nat
<1> DEFINE upTo(n) == {k \in N : k = n \/ Less(key[k], key[n])}
           place == [n \in N |-> Rank(N, key, n)]
           size == Cardinality(N)
<1>1. size \in Nat /\ IsFiniteSet(1..size) /\ Cardinality(1..size) = size
    <2>1. size \in Nat
        BY FS_CardinalityType
    <2> HIDE DEF size
    <2>2. 1 \in Int /\ size \in Int /\ (1 > size => size = 0)
        BY <2>1
    <2>3. IsFiniteSet(1..size)
        BY <2>2, FS_Interval
    <2>4. Cardinality(1..size) = IF 1 > size THEN 0 ELSE size - 1 + 1
        BY <2>2, FS_Interval
    <2> QED
        BY <2>1, <2>3, <2>4
<1>2. ASSUME NEW n \in N PROVE place[n] \in 1..size /\ IsFiniteSet(upTo(n))
    <2>1. upTo(n) \subseteq N /\ n \in upTo(n)
        OBVIOUS
    <2> HIDE DEF upTo
    <2>2. IsFiniteSet(upTo(n)) /\ Cardinality(upTo(n)) \in Nat /\ Cardinality(upTo(n)) <= size
        BY <2>1, FS_Subset, FS_CardinalityType
    <2>3. Cardinality(upTo(n)) # 0
        BY <2>1, <2>2, FS_EmptySet
    <2>4. place[n] = Cardinality(upTo(n))
        BY DEF Rank, upTo
    <2> QED
        BY <1>1, <2>2, <2>3, <2>4
<1>3. ASSUME NEW m \in N, NEW n \in N, Less(key[m], key[n]) PROVE place[m] < place[n]
    <2>1. key[m] \in [1..L -> Int] /\ key[n] \in [1..L -> Int]
        OBVIOUS
    <2>2. upTo(m) \subseteq upTo(n)
        <3> SUFFICES ASSUME NEW k \in N, Less(key[k], key[m]) PROVE Less(key[k], key[n])
            BY <1>3
        <3> QED
            BY <1>3, <2>1, LessIsAnOrder
    <2>3. n \in upTo(n) /\ n \notin upTo(m)
        <3>1. ~Less(key[n], key[n])
            BY <2>1, LessIsAnOrder
        <3>2. ~Less(key[n], key[m])
            BY <1>3, <2>1, <3>1, LessIsAnOrder
        <3>3. n # m
            BY <1>3, <3>1
        <3> QED
            BY <3>2, <3>3
    <2>4. place[m] = Cardinality(upTo(m)) /\ place[n] = Cardinality(upTo(n))
        BY DEF Rank
    <2>5. IsFiniteSet(upTo(m)) /\ IsFiniteSet(upTo(n))
        BY <1>2
    <2> HIDE DEF upTo, place
    <2>6. Cardinality(upTo(m)) < Cardinality(upTo(n))
        <3>1. Cardinality(upTo(m)) \in Nat /\ Cardinality(upTo(n)) \in Nat
            BY <2>5, FS_CardinalityType
        <3>2. Cardinality(upTo(m)) <= Cardinality(upTo(n))
            BY <2>2, <2>5, FS_Subset
        <3>3. Cardinality(upTo(m)) # Cardinality(upTo(n))
            BY <2>2, <2>3, <2>5, FS_Subset
        <3> QED
            BY <3>1, <3>2, <3>3
    <2> QED
        BY <2>4, <2>6
<1>4. ASSUME NEW m \in N, NEW n \in N, place[m] = place[n] PROVE m = n
    <2> SUFFICES ASSUME m # n PROVE FALSE
        OBVIOUS
    <2>1. key[m] # key[n] /\ key[m] \in [1..L -> Int] /\ key[n] \in [1..L -> Int]
        OBVIOUS
    <2>2. Less(key[m], key[n]) \/ Less(key[n], key[m])
        BY <2>1, LessIsAnOrder
    <2>3. place[m] < place[n] \/ place[n] < place[m]
        <3> HIDE DEF place
        <3> QED
            BY <1>3, <2>2
    <2>4. place[m] \in 1..size /\ place[n] \in 1..size /\ size \in Nat
        BY <1>1, <1>2
    <2> HIDE DEF place, size
    <2> QED
        BY <1>4, <2>3, <2>4
<1>5. place \in Surjection(N, 1..size)
    <2>1. place \in [N -> 1..size]
        BY <1>2
    <2> HIDE DEF place, size
    <2>2. place \in Injection(N, 1..size)
        BY <1>4, <2>1 DEF Injection, IsInjective
    <2> QED
        BY <1>1, <2>2, FS_Injection DEF size
<1>6. ASSUME NEW i \in 1..size
      PROVE  ByKey(N, key)[i] \in N /\ place[ByKey(N, key)[i]] = i
    <2>1. \E n \in N : place[n] = i
        <3> HIDE DEF place, size
        <3> QED
            BY <1>5 DEF Surjection
    <2>2. ByKey(N, key)[i] = CHOOSE n \in N : Rank(N, key, n) = i
        BY DEF ByKey
    <2> QED
        BY <2>1, <2>2
<1>7. ByKey(N, key) \in [1..size -> N]
    <2>1. ByKey(N, key) = [i \in 1..size |-> ByKey(N, key)[i]]
        BY DEF ByKey
    <2> QED
        BY <1>6, <2>1
<1>8. ASSUME NEW n \in N PROVE \E i \in 1..size : ByKey(N, key)[i] = n
    <2> DEFINE i == place[n]
    <2>1. i \in 1..size
        BY <1>2
    <2> HIDE DEF i
    <2>2. ByKey(N, key)[i] \in N /\ place[ByKey(N, key)[i]] = place[n]
        BY <1>6, <2>1 DEF i
    <2>3. ByKey(N, key)[i] = n
        <3> HIDE DEF place
        <3> QED
            BY <1>4, <2>2
    <2> QED
        BY <2>1, <2>3
<1> QED
    BY <1>1, <1>7, <1>8

\* What is taken are the elements at the positions, each of them.
LEMMA TakenElements ==
    ASSUME NEW seq, NEW N, IsFiniteSet(N), NEW L \in Nat, NEW key \in [N -> [1..L -> Int]],
           \A i, j \in N : key[i] = key[j] => i = j
    PROVE  /\ ToSet(Taken(seq, N, key)) = {seq[n] : n \in N}
           /\ Cardinality(N) \in Nat /\ DOMAIN Taken(seq, N, key) = 1..Cardinality(N)
<1> DEFINE order == ByKey(N, key)
           size == Cardinality(N)
<1>1. order \in [1..size -> N] /\ (\A n \in N : \E i \in 1..size : order[i] = n) /\ size \in Nat
    BY EveryPositionHasAPlace
<1>2. Taken(seq, N, key) = [i \in 1..size |-> seq[order[i]]]
    BY DEF Taken
<1> HIDE DEF order, size
<1>3. ToSet(Taken(seq, N, key)) = {seq[order[i]] : i \in 1..size}
    BY <1>2 DEF ToSet
<1>4. {seq[order[i]] : i \in 1..size} = {seq[n] : n \in N}
    BY <1>1
<1> QED
    BY <1>1, <1>2, <1>3, <1>4 DEF size

LEMMA OnlyElements ==
    ASSUME NEW seq, NEW n \in Nat, NEW N, N \subseteq 1..n
    PROVE  /\ ToSet(Only(seq, N)) = {seq[i] : i \in N}
           /\ \E k \in Nat : DOMAIN Only(seq, N) = 1..k
<1> DEFINE key == [i \in N |-> <<i>>]
<1>1. IsFiniteSet(N)
    <2>1. IsFiniteSet(1..n)
        BY FS_Interval
    <2> QED
        BY <2>1, FS_Subset
<1>2. ASSUME NEW i \in N PROVE key[i] \in [1..1 -> Int] /\ key[i][1] = i
    OBVIOUS
<1>3. key \in [N -> [1..1 -> Int]] /\ \A i, j \in N : key[i] = key[j] => i = j
    BY <1>2
<1> HIDE DEF key
<1>4. /\ ToSet(Taken(seq, N, key)) = {seq[i] : i \in N}
      /\ Cardinality(N) \in Nat /\ DOMAIN Taken(seq, N, key) = 1..Cardinality(N)
    <2> DEFINE L == 1
    <2>1. L \in Nat /\ key \in [N -> [1..L -> Int]]
        BY <1>3
    <2> HIDE DEF L
    <2> QED
        BY ONLY <1>1, <1>3, <2>1, TakenElements
<1>5. Only(seq, N) = Taken(seq, N, key)
    BY DEF Only, key
<1> QED
    BY <1>4, <1>5

\* A sort loses nothing and makes nothing up.
Sorted(seq, k) == Taken(seq, DOMAIN seq, [i \in DOMAIN seq |-> Append(k[i], i)])

LEMMA SortedElements ==
    ASSUME NEW seq, NEW n \in Nat, DOMAIN seq = 1..n, NEW L \in Nat, NEW k,
           \A i \in 1..n : k[i] \in [1..L -> Int]
    PROVE  /\ ToSet(Sorted(seq, k)) = ToSet(seq) /\ DOMAIN Sorted(seq, k) = 1..n
           /\ Cardinality(DOMAIN seq) \in Nat
<1> DEFINE N == DOMAIN seq
           key == [i \in N |-> Append(k[i], i)]
<1>1. IsFiniteSet(N) /\ Cardinality(N) = n
    BY FS_Interval
<1>2. ASSUME NEW i \in N PROVE key[i] \in [1..(L + 1) -> Int] /\ key[i][L + 1] = i
    <2>1. k[i] \in Seq(Int) /\ Len(k[i]) = L
        OBVIOUS
    <2>2. i \in Int
        OBVIOUS
    <2>3. /\ Append(k[i], i) \in Seq(Int) /\ Len(Append(k[i], i)) = L + 1
          /\ Append(k[i], i)[L + 1] = i
        BY <2>1, <2>2, AppendProperties
    <2>4. key[i] = Append(k[i], i)
        OBVIOUS
    <2> HIDE DEF key
    <2> QED
        BY <2>3, <2>4, LenProperties
<1>3. /\ key \in [N -> [1..(L + 1) -> Int]] /\ L + 1 \in Nat
      /\ \A i, j \in N : key[i] = key[j] => i = j
    <2> DEFINE at(i) == key[i][L + 1]
    <2>1. \A i, j \in N : key[i] = key[j] => at(i) = at(j)
        OBVIOUS
    <2>2. \A i \in N : at(i) = i
        BY <1>2
    <2> HIDE DEF at
    <2>3. \A i, j \in N : key[i] = key[j] => i = j
        BY <2>1, <2>2
    <2>4. key = [i \in N |-> key[i]] /\ \A i \in N : key[i] \in [1..(L + 1) -> Int]
        BY <1>2
    <2> HIDE DEF key, N
    <2>5. key \in [N -> [1..(L + 1) -> Int]]
        BY <2>4
    <2> QED
        BY <2>3, <2>5
<1> HIDE DEF key, N
<1>4. /\ ToSet(Taken(seq, N, key)) = {seq[i] : i \in N}
      /\ DOMAIN Taken(seq, N, key) = 1..Cardinality(N)
    BY <1>1, <1>3, TakenElements
<1>5. {seq[i] : i \in N} = ToSet(seq)
    BY DEF N, ToSet
<1> QED
    BY <1>1, <1>4, <1>5 DEF N, key, Sorted

\* A sequence of sequences, one after the other, holds what they hold.
LEMMA FlatElements ==
    ASSUME NEW n \in Nat, NEW S, NEW seqs \in [1..n -> Seq(S)]
    PROVE  /\ FlattenSeq(seqs) \in Seq(S)
           /\ \A x : x \in ToSet(FlattenSeq(seqs)) <=> \E i \in 1..n : x \in ToSet(seqs[i])
<1> DEFINE isFlat(k, g) == g = [i \in 1..k |-> IF i = 1 THEN seqs[i] ELSE g[i - 1] \o seqs[i]]
           flat(k) == CHOOSE g : isFlat(k, g)
<1>1. seqs \in Seq(Seq(S)) /\ Len(seqs) = n
    OBVIOUS
<1>2. ASSUME NEW k \in 1..n, NEW g, isFlat(k, g), NEW i \in 1..k
      PROVE  g[i] = IF i = 1 THEN seqs[i] ELSE g[i - 1] \o seqs[i]
    <2> DEFINE G == [j \in 1..k |-> IF j = 1 THEN seqs[j] ELSE g[j - 1] \o seqs[j]]
    <2>1. g[i] = G[i]
        BY <1>2
    <2> QED
        BY <2>1
<1>3. \A k \in 1..n : \E g : isFlat(k, g)
    <2> DEFINE bad == {k \in 1..n : ~\E g : isFlat(k, g)}
               k == Min(bad)
    <2> HIDE DEF isFlat
    <2> SUFFICES ASSUME bad # {} PROVE FALSE
        OBVIOUS
    <2>1. k \in bad /\ \A m \in bad : k <= m
        <3>1. bad \subseteq Nat
            OBVIOUS
        <3> HIDE DEF bad
        <3> QED
            BY <3>1, LeastIsOneOfThem
    <2> HIDE DEF k
    <2>2. CASE k = 1
        <3> DEFINE g == [i \in 1..1 |-> seqs[1]]
        <3>1. g = [i \in 1..1 |-> IF i = 1 THEN seqs[i] ELSE g[i - 1] \o seqs[i]]
            OBVIOUS
        <3>2. isFlat(1, g)
            <4> HIDE DEF g
            <4> QED
                BY <3>1 DEF isFlat
        <3> HIDE DEF g
        <3> QED
            BY <2>1, <2>2, <3>2
    <2>3. CASE k # 1
        <3>1. k \in 2..n /\ k - 1 \in 1..n /\ k - 1 \notin bad
            <4>1. k \in 2..n
                BY <2>1, <2>3
            <4>2. k - 1 \in 1..n /\ ~(k <= k - 1)
                BY <4>1
            <4> QED
                BY <2>1, <4>1, <4>2
        <3>2. PICK h : isFlat(k - 1, h)
            BY <3>1
        <3> DEFINE g == [i \in 1..k |-> IF i = k THEN h[k - 1] \o seqs[k] ELSE h[i]]
                   G == [i \in 1..k |-> IF i = 1 THEN seqs[i] ELSE g[i - 1] \o seqs[i]]
        <3>3. ASSUME NEW i \in 1..k PROVE g[i] = G[i]
            <4>1. CASE i = k
                <5>1. k - 1 \in 1..k /\ k \in 1..k /\ k - 1 # k /\ k # 1
                    BY <3>1
                <5>2. g[k - 1] = h[k - 1]
                    BY <5>1
                <5>3. g[k] = h[k - 1] \o seqs[k]
                    BY <5>1
                <5>4. G[k] = g[k - 1] \o seqs[k]
                    <6> HIDE DEF g
                    <6> QED
                        BY <5>1
                <5> QED
                    BY <4>1, <5>2, <5>3, <5>4
            <4>2. CASE i # k
                <5>1. i \in 1..(k - 1)
                    BY <3>1, <4>2
                <5>2. h[i] = IF i = 1 THEN seqs[i] ELSE h[i - 1] \o seqs[i]
                    BY <1>2, <3>1, <3>2, <5>1
                <5>3. i # 1 => i - 1 \in 1..k /\ i - 1 # k
                    BY <3>1, <5>1
                <5> QED
                    BY <4>2, <5>2, <5>3
            <4> QED
                BY <4>1, <4>2
        <3>4. g = G
            <4>1. g = [i \in 1..k |-> g[i]] /\ G = [i \in 1..k |-> G[i]]
                OBVIOUS
            <4> HIDE DEF g, G
            <4> QED
                BY <3>3, <4>1
        <3>5. isFlat(k, g)
            <4> HIDE DEF g
            <4> QED
                BY <3>4 DEF isFlat
        <3> QED
            <4> HIDE DEF g
            <4> QED
                BY <2>1, <3>5
    <2> QED
        BY <2>2, <2>3
<1>4. ASSUME NEW k \in 1..n, NEW g, isFlat(k, g)
      PROVE  \A i \in 1..k : /\ g[i] \in Seq(S)
                             /\ \A x : x \in ToSet(g[i]) <=> \E j \in 1..i : x \in ToSet(seqs[j])
    <2> DEFINE good(i) == /\ g[i] \in Seq(S)
                          /\ \A x : x \in ToSet(g[i]) <=> \E j \in 1..i : x \in ToSet(seqs[j])
               bad == {i \in 1..k : ~good(i)}
               i == Min(bad)
    <2> SUFFICES ASSUME bad # {} PROVE FALSE
        OBVIOUS
    <2>1. i \in bad /\ \A m \in bad : i <= m
        <3>1. bad \subseteq Nat
            OBVIOUS
        <3> HIDE DEF bad
        <3> QED
            BY <3>1, LeastIsOneOfThem
    <2> HIDE DEF i
    <2>2. i \in 1..k /\ g[i] = IF i = 1 THEN seqs[i] ELSE g[i - 1] \o seqs[i]
        <3>1. i \in 1..k
            BY <2>1
        <3> HIDE DEF isFlat
        <3> QED
            BY <1>2, <1>4, <3>1
    <2>3. seqs[i] \in Seq(S)
        BY <2>2
    <2>4. CASE i = 1
        <3>1. good(i)
            BY <2>2, <2>3, <2>4
        <3> QED
            BY <2>1, <3>1
    <2>5. CASE i # 1
        <3>1. i - 1 \in 1..k /\ i - 1 \notin bad
            <4>1. i - 1 \in 1..k /\ ~(i <= i - 1)
                BY <2>2, <2>5
            <4> HIDE DEF bad
            <4> QED
                BY <2>1, <4>1
        <3>2. good(i - 1)
            BY <3>1
        <3> DEFINE p == g[i - 1]
                   q == seqs[i]
        <3>3. p \in Seq(S) /\ q \in Seq(S) /\ g[i] = p \o q
            BY <2>2, <2>3, <2>5, <3>2
        <3>4. p \o q \in Seq(S) /\ \A x : x \in ToSet(p \o q) <=> x \in ToSet(p) \/ x \in ToSet(q)
            <4> HIDE DEF p, q
            <4>1. /\ p \o q \in Seq(S) /\ Len(p \o q) = Len(p) + Len(q)
                  /\ \A m \in 1..(Len(p) + Len(q)) :
                        (p \o q)[m] = IF m <= Len(p) THEN p[m] ELSE q[m - Len(p)]
                BY <3>3, ConcatProperties
            <4>2. /\ Len(p) \in Nat /\ Len(q) \in Nat /\ DOMAIN p = 1..Len(p)
                  /\ DOMAIN q = 1..Len(q) /\ DOMAIN (p \o q) = 1..(Len(p) + Len(q))
                BY <3>3, <4>1, LenProperties
            <4>3. \A m \in 1..Len(p) : (p \o q)[m] = p[m] /\ m \in 1..(Len(p) + Len(q))
                BY <4>1, <4>2
            <4>4. \A m \in 1..Len(q) : /\ (p \o q)[Len(p) + m] = q[m]
                                       /\ Len(p) + m \in 1..(Len(p) + Len(q))
                BY <4>1, <4>2
            <4>5. \A m \in 1..(Len(p) + Len(q)) : m \in 1..Len(p) \/ m - Len(p) \in 1..Len(q)
                BY <4>2
            <4>6. ASSUME NEW m \in DOMAIN (p \o q)
                  PROVE  (p \o q)[m] \in ToSet(p) \cup ToSet(q)
                <5>1. CASE m \in 1..Len(p)
                    BY <4>2, <4>3, <5>1 DEF ToSet
                <5>2. CASE m - Len(p) \in 1..Len(q)
                    <6>1. Len(p) + (m - Len(p)) = m
                        BY <4>2, <4>6
                    <6>2. (p \o q)[m] = q[m - Len(p)]
                        BY <4>4, <5>2, <6>1
                    <6> QED
                        BY <4>2, <5>2, <6>2 DEF ToSet
                <5> QED
                    BY <4>2, <4>5, <4>6, <5>1, <5>2
            <4>7. ToSet(p) \subseteq ToSet(p \o q)
                BY <4>2, <4>3 DEF ToSet
            <4>8. ToSet(q) \subseteq ToSet(p \o q)
                BY <4>2, <4>4 DEF ToSet
            <4>9. ToSet(p \o q) \subseteq ToSet(p) \cup ToSet(q)
                BY <4>6 DEF ToSet
            <4> QED
                BY <4>1, <4>7, <4>8, <4>9
        <3>5. ASSUME NEW x
              PROVE  x \in ToSet(g[i]) <=> \E j \in 1..i : x \in ToSet(seqs[j])
            <4>1. x \in ToSet(p) <=> \E j \in 1..(i - 1) : x \in ToSet(seqs[j])
                BY <3>2
            <4>2. x \in ToSet(g[i]) <=> x \in ToSet(p) \/ x \in ToSet(q)
                BY <3>3, <3>4
            <4>3. 1..i = 1..(i - 1) \cup {i}
                BY <2>2
            <4> QED
                BY <4>1, <4>2, <4>3
        <3>6. good(i)
            BY <3>3, <3>4, <3>5
        <3> QED
            BY <2>1, <3>6
    <2> QED
        BY <2>4, <2>5
<1>5. CASE n = 0
    <2>1. FlattenSeq(seqs) = seqs
        BY <1>1, <1>5 DEF FlattenSeq
    <2> QED
        BY <1>1, <1>5, <2>1 DEF ToSet
<1>6. CASE n # 0
    <2>1. n \in 1..n
        BY <1>6
    <2>2. FlattenSeq(seqs) = flat(n)[n]
        BY <1>1, <1>6 DEF FlattenSeq
    <2>3. isFlat(n, flat(n))
        BY <1>3, <2>1
    <2> HIDE DEF flat, isFlat
    <2> QED
        BY <1>4, <2>1, <2>2, <2>3
<1> QED
    BY <1>5, <1>6

-----------------------------------------------------------------------------
(* What a run lists.                                                        *)

LEMMA FunctionsAreSequences ==
    ASSUME NEW k \in Nat, NEW S, NEW f \in [1..k -> S]
    PROVE  f \in Seq(S) /\ Len(f) = k
OBVIOUS

LEMMA WalkElements ==
    ASSUME NEW root, NEW target
    PROVE  /\ \A f : f \in ToSet(WalkTree(root, target)) <=>
                        f \in ToSet(Tree) /\ f.mutated /\ Visits(root, target, f)
           /\ \E k \in Nat : DOMAIN WalkTree(root, target) = 1..k
<1> DEFINE N == {i \in DOMAIN Tree : Tree[i].mutated /\ Visits(root, target, Tree[i])}
<1>1. Len(Tree) \in Nat /\ DOMAIN Tree = 1..Len(Tree) /\ N \subseteq 1..Len(Tree)
    BY TreeAssumption
<1>2. \A f : f \in {Tree[i] : i \in N} <=> f \in ToSet(Tree) /\ f.mutated /\ Visits(root, target, f)
    BY DEF ToSet
<1>3. WalkTree(root, target) = Only(Tree, N)
    BY DEF WalkTree
<1> HIDE DEF N
<1> QED
    BY <1>1, <1>2, <1>3, OnlyElements

\* A file as found under a target.
Item(target, f) == [file |-> f, module |-> ModuleDir(target)]

LEMMA DiscoveredElements ==
    ASSUME runConfig \in RunConfigs, NEW root
    PROVE  /\ \A d : d \in ToSet(Discovered(root)) <=>
                  \E t \in DOMAIN runConfig.targets, f \in ToSet(Tree) :
                      /\ f.mutated /\ Visits(root, runConfig.targets[t], f)
                      /\ d = Item(runConfig.targets[t], f)
           /\ \E n \in Nat : DOMAIN Discovered(root) = 1..n
<1> DEFINE targets == runConfig.targets
           n == Len(targets)
           walked(t) == WalkTree(root, targets[t])
           items(t) == [i \in DOMAIN walked(t) |-> Item(targets[t], walked(t)[i])]
           all == [t \in DOMAIN targets |-> items(t)]
           S == {Item(targets[t], f) : t \in DOMAIN targets, f \in ToSet(Tree)}
<1>1. n \in Nat /\ DOMAIN targets = 1..n
    BY SelectionAssumption, LenProperties
<1>2. Discovered(root) = FlattenSeq(all)
    BY DEF Discovered, Item
<1>3. ASSUME NEW t \in DOMAIN targets
      PROVE  /\ items(t) \in Seq(S)
             /\ \A d : d \in ToSet(items(t)) <=>
                    \E f \in ToSet(Tree) : /\ f.mutated /\ Visits(root, targets[t], f)
                                           /\ d = Item(targets[t], f)
    <2> DEFINE w == walked(t)
    <2>1. PICK k \in Nat : DOMAIN w = 1..k
        BY WalkElements
    <2>2. \A f : f \in ToSet(w) <=> f \in ToSet(Tree) /\ f.mutated /\ Visits(root, targets[t], f)
        BY WalkElements
    <2> HIDE DEF w
    <2>3. items(t) = [i \in 1..k |-> Item(targets[t], w[i])]
        BY <2>1 DEF w
    <2>4. \A i \in 1..k : w[i] \in ToSet(Tree)
        BY <2>1, <2>2 DEF ToSet
    <2>5. [i \in 1..k |-> Item(targets[t], w[i])] \in [1..k -> S]
        BY <1>3, <2>4
    <2>6. items(t) \in Seq(S)
        <3> HIDE DEF S, items
        <3> QED
            BY <2>3, <2>5, FunctionsAreSequences
    <2>7. ToSet(items(t)) = {Item(targets[t], w[i]) : i \in 1..k}
        BY <2>3 DEF ToSet
    <2>8. ToSet(w) = {w[i] : i \in 1..k}
        BY <2>1 DEF ToSet
    <2>9. \A d : d \in ToSet(items(t)) <=>
                     \E f \in ToSet(w) : d = Item(targets[t], f)
        <3> HIDE DEF items
        <3> QED
            BY <2>7, <2>8
    <2> QED
        <3> HIDE DEF items, S
        <3> QED
            BY <2>2, <2>6, <2>9
<1>4. all \in [1..n -> Seq(S)] /\ \A t \in 1..n : all[t] = items(t)
    <2> HIDE DEF items, S
    <2> QED
        BY <1>1, <1>3
<1> HIDE DEF items, S, all
<1>5. /\ FlattenSeq(all) \in Seq(S)
      /\ \A d : d \in ToSet(FlattenSeq(all)) <=> \E t \in 1..n : d \in ToSet(all[t])
    BY <1>1, <1>4, FlatElements
<1>6. \E k \in Nat : DOMAIN Discovered(root) = 1..k
    BY <1>2, <1>5, LenProperties
<1>7. ASSUME NEW d
      PROVE  d \in ToSet(Discovered(root)) <=>
                  \E t \in DOMAIN targets, f \in ToSet(Tree) :
                      f.mutated /\ Visits(root, targets[t], f) /\ d = Item(targets[t], f)
    BY <1>1, <1>2, <1>3, <1>4, <1>5
<1> QED
    BY <1>6, <1>7

LEMMA GeneratedElements ==
    ASSUME runConfig \in RunConfigs, NEW root
    PROVE  /\ \A m : m \in ToSet(GenerateMutants(root)) <=>
                  \E d \in ToSet(Discovered(root)) : \E x \in ToSet(d.file.mutants) :
                      m = MutantOf(root, d, x)
           /\ \E n \in Nat : DOMAIN GenerateMutants(root) = 1..n
<1> DEFINE found == Discovered(root)
           made(i) == [j \in DOMAIN found[i].file.mutants |->
                          MutantOf(root, found[i], found[i].file.mutants[j])]
           all == [i \in DOMAIN found |-> made(i)]
           S == UNION {{MutantOf(root, d, x) : x \in ToSet(d.file.mutants)} : d \in ToSet(found)}
<1>1. PICK n \in Nat : DOMAIN found = 1..n
    BY DiscoveredElements
<1>2. \A i \in 1..n : found[i] \in ToSet(found) /\ found[i].file \in ToSet(Tree)
    <2>1. \A i \in 1..n : found[i] \in ToSet(found)
        BY <1>1 DEF ToSet
    <2>2. \A d \in ToSet(found) : d.file \in ToSet(Tree)
        BY DiscoveredElements DEF Item
    <2> QED
        BY <2>1, <2>2
<1>3. GenerateMutants(root) = FlattenSeq(all)
    BY DEF GenerateMutants
<1> HIDE DEF found
<1>4. ASSUME NEW i \in 1..n
      PROVE  /\ made(i) \in Seq(S)
             /\ \A m : m \in ToSet(made(i)) <=>
                   \E x \in ToSet(found[i].file.mutants) : m = MutantOf(root, found[i], x)
    <2> DEFINE ms == found[i].file.mutants
               k == Len(ms)
    <2>1. k \in Nat /\ DOMAIN ms = 1..k
        BY <1>2, TreeAssumption
    <2> HIDE DEF k, ms
    <2>2. made(i) = [j \in 1..k |-> MutantOf(root, found[i], ms[j])]
        BY <2>1 DEF ms
    <2>3. ToSet(ms) = {ms[j] : j \in 1..k}
        BY <2>1 DEF ToSet
    <2>4. \A j \in 1..k : MutantOf(root, found[i], ms[j]) \in S
        BY <1>2, <2>3 DEF ms
    <2>5. [j \in 1..k |-> MutantOf(root, found[i], ms[j])] \in [1..k -> S]
        <3> HIDE DEF S
        <3> QED
            BY <2>4
    <2>6. made(i) \in Seq(S)
        <3> HIDE DEF S, made
        <3> QED
            BY <2>1, <2>2, <2>5, FunctionsAreSequences
    <2>7. ToSet(made(i)) = {MutantOf(root, found[i], ms[j]) : j \in 1..k}
        <3> HIDE DEF made
        <3> QED
            BY <2>2 DEF ToSet
    <2> QED
        <3> HIDE DEF made, S
        <3> QED
            BY <2>3, <2>6, <2>7 DEF ms
<1>5. all \in [1..n -> Seq(S)] /\ \A i \in 1..n : all[i] = made(i)
    <2> HIDE DEF made, S
    <2> QED
        BY <1>1, <1>4
<1> HIDE DEF made, S, all
<1>6. /\ FlattenSeq(all) \in Seq(S)
      /\ \A m : m \in ToSet(FlattenSeq(all)) <=> \E i \in 1..n : m \in ToSet(all[i])
    BY <1>5, FlatElements
<1>7. \E k \in Nat : DOMAIN GenerateMutants(root) = 1..k
    BY <1>3, <1>6, LenProperties
<1>8. ToSet(found) = {found[i] : i \in 1..n}
    BY <1>1 DEF ToSet
<1>9. ASSUME NEW m
      PROVE  m \in ToSet(GenerateMutants(root)) <=>
                  \E d \in ToSet(found) : \E x \in ToSet(d.file.mutants) : m = MutantOf(root, d, x)
    <2>1. m \in ToSet(GenerateMutants(root)) <=> \E i \in 1..n : m \in ToSet(made(i))
        BY <1>3, <1>5, <1>6
    <2>2. m \in ToSet(GenerateMutants(root)) <=>
              \E i \in 1..n : \E x \in ToSet(found[i].file.mutants) : m = MutantOf(root, found[i], x)
        BY <1>4, <2>1
    <2> QED
        BY <1>8, <2>2
<1> QED
    BY <1>7, <1>9 DEF found

-----------------------------------------------------------------------------
(* What a run keeps of what it lists.                                       *)

OfTree(ms) == \A m \in ToSet(ms) : \E f \in ToSet(Tree) : m.of \in ToSet(f.mutants)

LEMMA RanksAreVectors ==
    ASSUME NEW m, NEW g \in ToSet(Tree), m.of \in ToSet(g.mutants)
    PROVE  IDRank(m) \in [1..2 -> Int]
<1> DEFINE f == CHOOSE f \in DOMAIN Tree : \E i \in DOMAIN Tree[f].mutants : Tree[f].mutants[i] = m.of
           i == CHOOSE i \in DOMAIN Tree[f].mutants : Tree[f].mutants[i] = m.of
<1>1. \E h \in DOMAIN Tree : \E j \in DOMAIN Tree[h].mutants : Tree[h].mutants[j] = m.of
    BY DEF ToSet
<1>2. f \in DOMAIN Tree /\ \E j \in DOMAIN Tree[f].mutants : Tree[f].mutants[j] = m.of
    BY <1>1
<1>3. IDRank(m) = <<f, i>>
    BY DEF IDRank
<1> HIDE DEF f
<1>4. i \in DOMAIN Tree[f].mutants
    BY <1>2
<1> HIDE DEF i
<1>5. f \in Int
    BY <1>2, TreeAssumption
<1>6. i \in Int
    <2>1. Tree[f] \in ToSet(Tree)
        BY <1>2 DEF ToSet
    <2>2. Len(Tree[f].mutants) \in Nat /\ DOMAIN Tree[f].mutants = 1..Len(Tree[f].mutants)
        BY <2>1, TreeAssumption
    <2> QED
        BY <1>4, <2>2
<1> QED
    BY <1>3, <1>5, <1>6

LEMMA TakenIsASequence ==
    ASSUME NEW seq, NEW N, NEW key, Cardinality(N) \in Nat
    PROVE  Taken(seq, N, key) \in Seq(ToSet(Taken(seq, N, key)))
<1> DEFINE size == Cardinality(N)
           order == ByKey(N, key)
           taken == [i \in 1..size |-> seq[order[i]]]
<1>1. Taken(seq, N, key) = taken
    BY DEF Taken
<1>2. taken \in [1..size -> ToSet(taken)]
    BY DEF ToSet
<1> HIDE DEF taken, size
<1> QED
    BY <1>1, <1>2, FunctionsAreSequences DEF size

LEMMA SortedByIDElements ==
    ASSUME NEW ms, NEW n \in Nat, DOMAIN ms = 1..n, OfTree(ms)
    PROVE  /\ ToSet(SortedBy(ms, IDRank)) = ToSet(ms)
           /\ DOMAIN SortedBy(ms, IDRank) = 1..n
           /\ SortedBy(ms, IDRank) \in Seq(ToSet(ms))
<1> DEFINE k == [i \in DOMAIN ms |-> IDRank(ms[i])]
           key == [i \in DOMAIN ms |-> Append(k[i], i)]
<1>1. \A i \in 1..n : k[i] \in [1..2 -> Int]
    <2> SUFFICES ASSUME NEW i \in 1..n PROVE IDRank(ms[i]) \in [1..2 -> Int]
        OBVIOUS
    <2>1. ms[i] \in ToSet(ms)
        BY DEF ToSet
    <2> QED
        BY <2>1, RanksAreVectors DEF OfTree
<1>2. SortedBy(ms, IDRank) = Sorted(ms, k) /\ Sorted(ms, k) = Taken(ms, DOMAIN ms, key)
    <2>1. key = [i \in DOMAIN ms |-> Append(IDRank(ms[i]), i)]
        OBVIOUS
    <2>2. SortedBy(ms, IDRank) = Taken(ms, DOMAIN ms, key)
        <3> HIDE DEF key
        <3> QED
            BY <2>1 DEF SortedBy
    <2> QED
        BY <2>2 DEF Sorted
<1> HIDE DEF k, key
<1>3. ToSet(Sorted(ms, k)) = ToSet(ms) /\ DOMAIN Sorted(ms, k) = 1..n /\ Cardinality(DOMAIN ms) \in Nat
    BY <1>1, SortedElements
<1> QED
    BY <1>2, <1>3, TakenIsASequence

LEMMA ScheduledElements ==
    ASSUME NEW ms, NEW n \in Nat, DOMAIN ms = 1..n, OfTree(ms)
    PROVE  /\ ToSet(ScheduleMutants(ms)) = ToSet(ms)
           /\ ScheduleMutants(ms) \in Seq(ToSet(ms))
<1> DEFINE priority(m) == <<RecommendationPriority(m), TimeoutRiskPriority(m),
                            PlatformSensitivityPriority(m)>>
           k == [i \in DOMAIN ms |-> priority(ms[i]) \o IDRank(ms[i])]
           key == [i \in DOMAIN ms |-> Append(k[i], i)]
<1>1. CASE ~runConfig.budget
    BY <1>1, SortedByIDElements DEF ScheduleMutants
<1>2. CASE runConfig.budget
    <2>1. \A i \in 1..n : k[i] \in [1..5 -> Int]
        <3> SUFFICES ASSUME NEW i \in 1..n
                     PROVE  priority(ms[i]) \o IDRank(ms[i]) \in [1..5 -> Int]
            OBVIOUS
        <3>1. ms[i] \in ToSet(ms)
            BY DEF ToSet
        <3>2. IDRank(ms[i]) \in [1..2 -> Int]
            BY <3>1, RanksAreVectors DEF OfTree
        <3>3. IDRank(ms[i]) \in Seq(Int) /\ Len(IDRank(ms[i])) = 2
            BY <3>2, FunctionsAreSequences
        <3>4. /\ RecommendationPriority(ms[i]) \in Int /\ TimeoutRiskPriority(ms[i]) \in Int
              /\ PlatformSensitivityPriority(ms[i]) \in Int
            BY DEF RecommendationPriority, TimeoutRiskPriority, PlatformSensitivityPriority
        <3>5. priority(ms[i]) \in Seq(Int) /\ Len(priority(ms[i])) = 3
            BY <3>4
        <3> HIDE DEF priority
        <3> DEFINE p == priority(ms[i])
                   q == IDRank(ms[i])
        <3>6. p \in Seq(Int) /\ q \in Seq(Int) /\ Len(p) = 3 /\ Len(q) = 2
            BY <3>3, <3>5
        <3> HIDE DEF p, q
        <3>7. p \o q \in Seq(Int) /\ Len(p \o q) = 5
            <4>1. p \o q \in Seq(Int) /\ Len(p \o q) = Len(p) + Len(q)
                BY <3>6, ConcatProperties
            <4> QED
                BY <3>6, <4>1
        <3>8. p \o q \in [1..5 -> Int]
            BY <3>7, LenProperties
        <3> QED
            BY <3>8 DEF p, q
    <2>2. ScheduleMutants(ms) = Sorted(ms, k) /\ Sorted(ms, k) = Taken(ms, DOMAIN ms, key)
        <3>1. key = [i \in DOMAIN ms |-> Append(priority(ms[i]) \o IDRank(ms[i]), i)]
            OBVIOUS
        <3>2. ScheduleMutants(ms) = Taken(ms, DOMAIN ms, key)
            <4> HIDE DEF key
            <4> QED
                BY <1>2, <3>1 DEF ScheduleMutants, SortedBy
        <3> QED
            BY <3>2 DEF Sorted
    <2> HIDE DEF k, key
    <2>3. ToSet(Sorted(ms, k)) = ToSet(ms) /\ Cardinality(DOMAIN ms) \in Nat
        <3> DEFINE L == 5
        <3>1. /\ L \in Nat /\ n \in Nat /\ DOMAIN ms = 1..n
              /\ \A i \in 1..n : k[i] \in [1..L -> Int]
            BY <2>1
        <3> HIDE DEF L
        <3>2. ToSet(Sorted(ms, k)) = ToSet(ms) /\ DOMAIN Sorted(ms, k) = 1..n
              /\ Cardinality(DOMAIN ms) \in Nat
            BY ONLY <3>1, SortedElements
        <3> QED
            BY <3>2
    <2> QED
        BY <2>2, <2>3, TakenIsASequence
<1> QED
    BY <1>1, <1>2

\* Limits leave out, and leave out nothing when there is none.
LEMMA LimitedElements ==
    ASSUME NEW ms, NEW n \in Nat, DOMAIN ms = 1..n
    PROVE  /\ ToSet(WithinFiles(ms)) \subseteq ToSet(ms)
           /\ ToSet(WithinPackages(ms)) \subseteq ToSet(ms)
           /\ runConfig.maxFiles = 0 => WithinFiles(ms) = ms
           /\ runConfig.maxPerPackage = 0 => WithinPackages(ms) = ms
           /\ \E k \in Nat : DOMAIN WithinFiles(ms) = 1..k
           /\ \E k \in Nat : DOMAIN WithinPackages(ms) = 1..k
<1> DEFINE First(f) == Min({i \in DOMAIN ms : ms[i].file = f})
           NthFile(f) == Cardinality({ms[i].file : i \in 1..First(f)})
           inFiles == {i \in DOMAIN ms : NthFile(ms[i].file) <= runConfig.maxFiles}
           Nth(i) == Cardinality({j \in 1..i : ms[j].package = ms[i].package})
           inPackages == {i \in DOMAIN ms : Nth(i) <= runConfig.maxPerPackage}
<1>1. WithinFiles(ms) = IF runConfig.maxFiles = 0 THEN ms ELSE Only(ms, inFiles)
    BY DEF WithinFiles
<1>2. WithinPackages(ms) = IF runConfig.maxPerPackage = 0 THEN ms ELSE Only(ms, inPackages)
    BY DEF WithinPackages
<1>3. inFiles \subseteq 1..n /\ inPackages \subseteq 1..n
    OBVIOUS
<1> HIDE DEF inFiles, inPackages
<1>4. ASSUME NEW N, N \subseteq 1..n
      PROVE  ToSet(Only(ms, N)) \subseteq ToSet(ms) /\ \E k \in Nat : DOMAIN Only(ms, N) = 1..k
    <2>1. /\ ToSet(Only(ms, N)) = {ms[i] : i \in N}
          /\ \E k \in Nat : DOMAIN Only(ms, N) = 1..k
        BY <1>4, OnlyElements
    <2>2. {ms[i] : i \in N} \subseteq ToSet(ms)
        BY <1>4 DEF ToSet
    <2> QED
        BY <2>1, <2>2
<1> QED
    BY <1>1, <1>2, <1>3, <1>4

LEMMA SlicedElements ==
    ASSUME runConfig \in RunConfigs, NEW s, NEW ms, NEW n \in Nat, DOMAIN ms = 1..n, OfTree(ms)
    PROVE  LET sliced == ApplySlicing(s, ms)
           IN  /\ \A m \in ToSet(sliced) : m \in ToSet(ms) /\ Ours(s, m)
               /\ NoLimit => \A m \in ToSet(ms) : Ours(s, m) => m \in ToSet(sliced)
               /\ \E k \in Nat : DOMAIN sliced = 1..k
<1> DEFINE ordered == SortedBy(ms, IDRank)
           ours == {i \in DOMAIN ordered :
                       runConfig.count = 0 \/ ShardForKey(SliceGroupKey(ordered[i])) = s}
           kept == Only(ordered, ours)
<1>1. ToSet(ordered) = ToSet(ms) /\ DOMAIN ordered = 1..n
    BY SortedByIDElements
<1>2. ApplySlicing(s, ms) = WithinPackages(WithinFiles(kept))
    BY DEF ApplySlicing
<1>3. runConfig.count \in Nat
    BY SelectionAssumption
<1>4. \A i \in 1..n : i \in ours <=> Ours(s, ordered[i])
    <2> HIDE DEF ordered
    <2> QED
        BY <1>1, <1>3 DEF Ours
<1>5. ours \subseteq 1..n
    BY <1>1
<1> HIDE DEF ordered, ours
<1>6. ToSet(kept) = {ordered[i] : i \in ours} /\ \E k \in Nat : DOMAIN kept = 1..k
    BY <1>5, OnlyElements
<1>7. ToSet(ordered) = {ordered[i] : i \in 1..n}
    BY <1>1 DEF ToSet
<1>8. \A m : m \in ToSet(kept) <=> m \in ToSet(ms) /\ Ours(s, m)
    BY <1>1, <1>4, <1>5, <1>6, <1>7
<1> HIDE DEF kept
<1>9. PICK k \in Nat : DOMAIN kept = 1..k
    BY <1>6
<1>10. /\ ToSet(WithinFiles(kept)) \subseteq ToSet(kept)
       /\ runConfig.maxFiles = 0 => WithinFiles(kept) = kept
       /\ \E j \in Nat : DOMAIN WithinFiles(kept) = 1..j
    BY <1>9, LimitedElements
<1> DEFINE files == WithinFiles(kept)
<1>11. PICK j \in Nat : DOMAIN files = 1..j
    BY <1>10
<1> HIDE DEF files
<1>12. /\ ToSet(WithinPackages(files)) \subseteq ToSet(files)
       /\ runConfig.maxPerPackage = 0 => WithinPackages(files) = files
       /\ \E i \in Nat : DOMAIN WithinPackages(files) = 1..i
    BY <1>11, LimitedElements
<1> QED
    BY <1>2, <1>8, <1>10, <1>12 DEF NoLimit, files

LEMMA CutElements ==
    ASSUME NEW S, NEW ms \in Seq(S)
    PROVE  /\ ToSet(Cut(ms)) \subseteq ToSet(ms)
           /\ runConfig.maxMutants = 0 => Cut(ms) = ms
<1>1. Len(ms) \in Nat /\ DOMAIN ms = 1..Len(ms)
    BY LenProperties
<1>2. CASE runConfig.maxMutants \in 1..Len(ms)
    <2> DEFINE k == runConfig.maxMutants
               cut == SubSeq(ms, 1, k)
    <2>1. \A i \in 1..k : ms[i] \in ToSet(ms)
        BY <1>1, <1>2 DEF ToSet
    <2>2. k \in Int /\ k # 0
        BY <1>1, <1>2
    <2>3. cut \in Seq(ToSet(ms))
        <3> HIDE DEF k
        <3> QED
            BY <2>1, <2>2, SubSeqProperties
    <2> HIDE DEF cut
    <2>4. ToSet(cut) \subseteq ToSet(ms)
        <3>1. DOMAIN cut = 1..Len(cut) /\ \A i \in 1..Len(cut) : cut[i] \in ToSet(ms)
            BY <2>3, LenProperties, ElementOfSeq
        <3> QED
            BY <3>1 DEF ToSet
    <2> QED
        BY <1>2, <2>2, <2>4 DEF Cut, cut
<1>3. CASE ~(runConfig.maxMutants \in 1..Len(ms))
    BY <1>3 DEF Cut
<1> QED
    BY <1>2, <1>3

\* A run keeps nothing it has not listed and nothing of another shard, and without
\* limits everything of its own.
LEMMA SelectedElements ==
    ASSUME runConfig \in RunConfigs, NEW s, NEW ms, NEW n \in Nat, DOMAIN ms = 1..n, OfTree(ms)
    PROVE  LET selected == Cut(ScheduleMutants(ApplySlicing(s, ms)))
           IN  /\ \A m \in ToSet(selected) : m \in ToSet(ms) /\ Ours(s, m)
               /\ NoLimit => \A m \in ToSet(ms) : Ours(s, m) => m \in ToSet(selected)
<1> DEFINE sliced == ApplySlicing(s, ms)
           scheduled == ScheduleMutants(sliced)
<1>1. /\ \A m \in ToSet(sliced) : m \in ToSet(ms) /\ Ours(s, m)
      /\ NoLimit => \A m \in ToSet(ms) : Ours(s, m) => m \in ToSet(sliced)
    BY SlicedElements
<1>2. PICK k \in Nat : DOMAIN sliced = 1..k
    BY SlicedElements
<1> HIDE DEF sliced
<1>3. OfTree(sliced)
    BY <1>1 DEF OfTree
<1>4. ToSet(scheduled) = ToSet(sliced) /\ scheduled \in Seq(ToSet(sliced))
    BY <1>2, <1>3, ScheduledElements
<1> HIDE DEF scheduled
<1>5. ToSet(Cut(scheduled)) \subseteq ToSet(scheduled) /\ (runConfig.maxMutants = 0 => Cut(scheduled) = scheduled)
    BY <1>4, CutElements
<1> QED
    BY <1>1, <1>4, <1>5 DEF sliced, scheduled, NoLimit

-----------------------------------------------------------------------------
(* What a mutation is called, and the group it is in.                       *)

LEMMA GreatestIsOneOfThem ==
    ASSUME NEW n \in Nat, NEW T, T \subseteq 0..n, T # {}
    PROVE  Max(T) \in T
<1> DEFINE rest == {k \in 0..n : n - k \in T}
           k == Min(rest)
<1>1. PICK x \in T : TRUE
    OBVIOUS
<1>2. n - x \in 0..n /\ n - (n - x) = x
    BY <1>1
<1>3. n - x \in rest /\ rest \subseteq Nat
    BY <1>1, <1>2
<1>4. k \in rest /\ \A j \in rest : k <= j
    <2> HIDE DEF rest
    <2> QED
        BY <1>3, LeastIsOneOfThem
<1> HIDE DEF k
<1>5. k \in 0..n /\ n - k \in T
    BY <1>4
<1>6. \A y \in T : y <= n - k
    <2> SUFFICES ASSUME NEW y \in T PROVE y <= n - k
        OBVIOUS
    <2>1. y \in 0..n /\ n - y \in 0..n /\ n - (n - y) = y
        OBVIOUS
    <2>2. n - y \in rest
        BY <2>1
    <2>3. k <= n - y
        BY <1>4, <2>2
    <2> HIDE DEF rest
    <2> QED
        BY <1>5, <2>1, <2>3
<1> QED
    <2>1. \A y \in T : n - k >= y
        BY <1>5, <1>6
    <2> QED
        BY <1>5, <2>1 DEF Max

LEMMA WhatFollows ==
    ASSUME NEW S, NEW p \in Seq(S), NEW q \in Seq(S)
    PROVE  SubSeq(p \o q, Len(p) + 1, Len(p \o q)) = q
<1> DEFINE pq == p \o q
           rest == SubSeq(pq, Len(p) + 1, Len(pq))
<1>1. Len(p) \in Nat /\ Len(q) \in Nat
    OBVIOUS
<1>2. /\ pq \in Seq(S) /\ Len(pq) = Len(p) + Len(q)
      /\ \A i \in 1 .. Len(p) + Len(q) : pq[i] = IF i <= Len(p) THEN p[i] ELSE q[i - Len(p)]
    BY ConcatProperties
<1> HIDE DEF pq
<1>3. \A i \in Len(p) + 1 .. Len(pq) : pq[i] \in S
    <2>1. \A i \in 1..Len(pq) : pq[i] \in S
        BY <1>2, ElementOfSeq
    <2> QED
        BY <1>1, <1>2, <2>1
<1>4. /\ rest \in Seq(S) /\ Len(rest) = IF Len(p) + 1 <= Len(pq) THEN Len(pq) - (Len(p) + 1) + 1 ELSE 0
      /\ \A i \in 1 .. Len(pq) - (Len(p) + 1) + 1 : rest[i] = pq[Len(p) + 1 + i - 1]
    <2>1. Len(p) + 1 \in Int /\ Len(pq) \in Int
        BY <1>1, <1>2
    <2> QED
        BY <1>3, <2>1, SubSeqProperties
<1> HIDE DEF rest
<1>5. Len(rest) = Len(q)
    BY <1>1, <1>2, <1>4
<1>6. ASSUME NEW i \in 1..Len(rest) PROVE rest[i] = q[i]
    <2>1. i \in 1 .. Len(pq) - (Len(p) + 1) + 1 /\ Len(p) + 1 + i - 1 = Len(p) + i
        BY <1>1, <1>2, <1>5
    <2>2. Len(p) + i \in 1 .. Len(p) + Len(q) /\ ~(Len(p) + i <= Len(p)) /\ Len(p) + i - Len(p) = i
        BY <1>1, <1>5
    <2>3. rest[i] = pq[Len(p) + i]
        BY <1>4, <2>1
    <2> QED
        BY <1>2, <2>2, <2>3
<1>7. rest = q
    BY <1>4, <1>5, <1>6, SeqEqual
<1> QED
    BY <1>7 DEF rest, pq

LEMMA ModulesHaveLengths ==
    ASSUME NEW target \in Paths
    PROVE  Len(ModuleDir(target)) \in Nat
<1> DEFINE n == Len(target)
           above == {k \in 0..n : SubSeq(target, 1, k) \in Modules}
<1>1. n \in Nat
    BY LenProperties DEF Paths
<1>2. ModuleDir(target) = IF above = {} THEN target ELSE SubSeq(target, 1, Max(above))
    BY DEF ModuleDir
<1>3. CASE above = {}
    BY <1>1, <1>2, <1>3
<1>4. CASE above # {}
    <2> DEFINE k == Max(above)
    <2>1. above \subseteq 0..n
        OBVIOUS
    <2>2. k \in above
        <3> HIDE DEF above
        <3> QED
            BY <1>1, <1>4, <2>1, GreatestIsOneOfThem
    <2> HIDE DEF k
    <2>3. k \in 0..n /\ k \in Int
        BY <2>2
    <2>4. \A i \in 1..k : target[i] \in STRING
        <3>1. \A i \in 1..n : target[i] \in STRING
            BY ElementOfSeq DEF Paths
        <3> QED
            BY <1>1, <2>3, <3>1
    <2>5. SubSeq(target, 1, k) \in Seq(STRING)
        BY <2>3, <2>4, SubSeqProperties
    <2>6. Len(SubSeq(target, 1, k)) \in Nat
        BY <2>5, LenProperties
    <2> HIDE DEF above
    <2> QED
        BY <1>2, <1>4, <2>6 DEF k
<1> QED
    BY <1>3, <1>4

\* What is known of an item under a target, and of the tree.
LEMMA ItemsAreOfTree ==
    ASSUME runConfig \in RunConfigs, NEW s \in Shards, NEW d \in ToSet(Discovered(runConfig.roots[s]))
    PROVE  /\ d.file \in ToSet(Tree) /\ d.file.dir \in Paths /\ d.file.name \in STRING
           /\ Len(d.module) \in Nat
           /\ runConfig.roots[s] \in Paths
<1>1. PICK t \in DOMAIN runConfig.targets, f \in ToSet(Tree) : d = Item(runConfig.targets[t], f)
    BY DiscoveredElements
<1>2. d.file = f /\ d.module = ModuleDir(runConfig.targets[t])
    BY <1>1 DEF Item
<1>3. runConfig.targets[t] \in Paths
    <2>1. runConfig.targets \in Seq(Paths)
        BY SelectionAssumption
    <2> QED
        BY <1>1, <2>1, LenProperties, ElementOfSeq
<1>4. Len(d.module) \in Nat
    BY <1>2, <1>3, ModulesHaveLengths
<1>5. f.dir \in Paths /\ f.name \in STRING
    BY <1>1, TreeAssumption
<1>6. runConfig.roots[s] \in Paths
    <2>1. runConfig.roots \in Seq(Paths \ {<<>>})
        BY SelectionAssumption
    <2> QED
        BY <2>1, LenProperties, ElementOfSeq DEF Shards
<1> QED
    BY <1>1, <1>2, <1>4, <1>5, <1>6

\* A mutation is told by what no path of a machine changes.
Package(d) == SubSeq(d.file.dir, Len(d.module) + 1, Len(d.file.dir))
PathOf(d) == d.file.dir \o <<d.file.name>>
Named(d, x) == [rel |-> Package(d) \o <<d.file.name>>, line |-> x.line, op |-> x.op, span |-> x.span,
               diff |-> PathOf(d)]

LEMMA MutationsAreTold ==
    ASSUME runConfig \in RunConfigs, NEW s \in Shards, NEW d \in ToSet(Discovered(runConfig.roots[s])),
           NEW x
    PROVE  Mutation(s, MutantOf(runConfig.roots[s], d, x).id) = Named(d, x)
<1> DEFINE root == runConfig.roots[s]
           dir == d.file.dir
           last == d.file.name
           name == <<last>>
           S == STRING
           id == MutantOf(root, d, x).id
           rel == Package(d) \o name
<1>1. root \in Seq(S) /\ dir \in Seq(S) /\ last \in S
    BY ItemsAreOfTree DEF Paths
<1>4. id = [rel |-> rel, line |-> x.line, op |-> x.op, span |-> x.span, diff |-> (root \o dir) \o name]
    BY DEF MutantOf, StableMutantIdentity, Package
<1> HIDE DEF id, rel, root, dir, last, S
<1>2. name \in Seq(S)
    BY <1>1
<1> HIDE DEF name
<1>3. dir \o name \in Seq(S)
    BY <1>1, <1>2, ConcatProperties
<1>5. (root \o dir) \o name = root \o (dir \o name)
    BY <1>1, <1>2, ConcatAssociative
<1> DEFINE path == dir \o name
<1>6. SubSeq(root \o path, Len(root) + 1, Len(root \o path)) = path
    <2> HIDE DEF path
    <2> QED
        BY <1>1, <1>3, WhatFollows DEF path
<1>7. id.diff = root \o path
    BY <1>4, <1>5
<1> HIDE DEF path
<1>8. Mutation(s, id) = [id EXCEPT !.diff = path]
    BY <1>6, <1>7 DEF Mutation, root
<1>9. Mutation(s, id) = [rel |-> rel, line |-> x.line, op |-> x.op, span |-> x.span, diff |-> path]
    BY <1>4, <1>8
<1> QED
    BY <1>9 DEF Named, PathOf, id, rel, path, name, last, dir, root

\* What is told of a mutation is enough to tell the file, the mutant and the package.
LEMMA ToldApart ==
    ASSUME runConfig \in RunConfigs, NEW s \in Shards, NEW t \in Shards,
           NEW d \in ToSet(Discovered(runConfig.roots[s])), NEW x \in ToSet(d.file.mutants),
           NEW e \in ToSet(Discovered(runConfig.roots[t])), NEW y \in ToSet(e.file.mutants),
           Named(d, x) = Named(e, y)
    PROVE  d.file = e.file /\ x = y /\ Package(d) = Package(e)
<1> DEFINE S == STRING
           p == d.file.dir
           q == e.file.dir
           m == d.file.name
           n == e.file.name
           u == Package(d)
           v == Package(e)
<1>1. /\ d.file \in ToSet(Tree) /\ p \in Seq(S) /\ m \in S /\ Len(d.module) \in Nat
      /\ e.file \in ToSet(Tree) /\ q \in Seq(S) /\ n \in S /\ Len(e.module) \in Nat
    BY ItemsAreOfTree DEF Paths
<1>2. p \o <<m>> = q \o <<n>> /\ u \o <<m>> = v \o <<n>>
      /\ x.line = y.line /\ x.op = y.op /\ x.span = y.span
    BY DEF Named, PathOf
<1>3. u = SubSeq(p, Len(d.module) + 1, Len(p)) /\ v = SubSeq(q, Len(e.module) + 1, Len(q))
    BY DEF Package
<1> HIDE DEF S, p, q, m, n, u, v
<1>4. p = q /\ m = n
    <2>1. p \o <<m>> = Append(p, m) /\ q \o <<n>> = Append(q, n)
        BY <1>1, AppendIsConcat
    <2>2. Append(p, m) = Append(q, n)
        BY <1>2, <2>1
    <2> QED
        BY <1>1, <2>2, AppendInjective
<1>5. u \in Seq(S) /\ v \in Seq(S)
    <2>1. ASSUME NEW w \in Seq(S), NEW k \in Nat PROVE SubSeq(w, k + 1, Len(w)) \in Seq(S)
        <3>1. Len(w) \in Nat /\ \A i \in 1..Len(w) : w[i] \in S
            BY LenProperties, ElementOfSeq
        <3>2. k + 1 \in Int /\ Len(w) \in Int /\ \A i \in k + 1 .. Len(w) : w[i] \in S
            BY <3>1
        <3> QED
            BY <3>2, SubSeqProperties
    <2> QED
        BY <1>1, <1>3, <2>1
<1>6. u = v
    <2>1. u \o <<m>> = Append(u, m) /\ v \o <<n>> = Append(v, n)
        BY <1>1, <1>5, AppendIsConcat
    <2>2. Append(u, m) = Append(v, n)
        BY <1>2, <2>1
    <2> QED
        BY <1>1, <1>5, <2>2, AppendInjective
<1>7. d.file = e.file
    BY <1>1, <1>4, TreeAssumption DEF p, q, m, n
<1>8. x = y
    BY <1>1, <1>2, <1>7, TreeAssumption
<1> QED
    BY <1>6, <1>7, <1>8 DEF u, v

LEMMA RootsAlikeOrGroupsAlike ==
    ASSUME runConfig \in RunConfigs, SameNames, NEW s \in Shards, NEW t \in Shards,
           NEW d \in ToSet(Discovered(runConfig.roots[s])), NEW x \in ToSet(d.file.mutants),
           NEW e \in ToSet(Discovered(runConfig.roots[t])), NEW y \in ToSet(e.file.mutants),
           Named(d, x) = Named(e, y)
    PROVE  SliceGroupKey(MutantOf(runConfig.roots[s], d, x)) =
               SliceGroupKey(MutantOf(runConfig.roots[t], e, y))
<1> DEFINE m == MutantOf(runConfig.roots[s], d, x)
           n == MutantOf(runConfig.roots[t], e, y)
<1>1. d.file = e.file /\ x = y /\ Package(d) = Package(e)
    BY ToldApart
<1>2. m.of = n.of /\ m.package = n.package
    BY <1>1 DEF MutantOf, Package
<1>3. CASE runConfig.roots[s] = runConfig.roots[t]
    <2>1. /\ m.file = n.file
          /\ m.id = n.id
        BY <1>1, <1>3 DEF MutantOf, StableMutantIdentity, Package
    <2> HIDE DEF m, n
    <2>2. SliceGroupKey(m) = SliceGroupKey(n)
        BY <1>2, <2>1 DEF SliceGroupKey
    <2> QED
        BY <2>2 DEF m, n
<1>4. CASE \/ EffectiveSliceBy \in {"package", "operator"}
           \/ EffectiveSliceBy = "function" /\ AllInFunctions
    <2>0. m.of = x /\ d.file \in ToSet(Tree)
        BY ItemsAreOfTree DEF MutantOf
    <2> HIDE DEF m, n
    <2>1. EffectiveSliceBy = "package" => SliceGroupKey(m) = SliceGroupKey(n)
        BY <1>2 DEF SliceGroupKey
    <2>2. EffectiveSliceBy = "operator" => SliceGroupKey(m) = SliceGroupKey(n)
        BY <1>2 DEF SliceGroupKey
    <2>3. EffectiveSliceBy = "function" /\ AllInFunctions => SliceGroupKey(m) = SliceGroupKey(n)
        <3>1. AllInFunctions => m.of.function # None
            BY <2>0 DEF AllInFunctions
        <3> QED
            BY <1>2, <3>1 DEF SliceGroupKey
    <2> QED
        BY <1>4, <2>1, <2>2, <2>3 DEF m, n
<1> QED
    BY <1>3, <1>4 DEF SameNames

\* Equal mutations are of one group, on whichever machines they are listed.
LEMMA SameMutationSameKey ==
    ASSUME runConfig \in RunConfigs, SameNames, NEW s \in Shards, NEW t \in Shards,
           NEW m \in ListedBy(s), NEW n \in ListedBy(t), Mutation(s, m.id) = Mutation(t, n.id)
    PROVE  SliceGroupKey(m) = SliceGroupKey(n)
<1>1. PICK d \in ToSet(Discovered(runConfig.roots[s])) : \E x \in ToSet(d.file.mutants) :
          m = MutantOf(runConfig.roots[s], d, x)
    BY GeneratedElements DEF ListedBy
<1>2. PICK x \in ToSet(d.file.mutants) : m = MutantOf(runConfig.roots[s], d, x)
    BY <1>1
<1>3. PICK e \in ToSet(Discovered(runConfig.roots[t])) : \E y \in ToSet(e.file.mutants) :
          n = MutantOf(runConfig.roots[t], e, y)
    BY GeneratedElements DEF ListedBy
<1>4. PICK y \in ToSet(e.file.mutants) : n = MutantOf(runConfig.roots[t], e, y)
    BY <1>3
<1>5. Named(d, x) = Named(e, y)
    BY <1>2, <1>4, MutationsAreTold
<1> QED
    BY <1>2, <1>4, <1>5, RootsAlikeOrGroupsAlike

\* A walk below a root that is not left out goes where the walk below another goes.
LEMMA VisitsAlike ==
    ASSUME runConfig \in RunConfigs, SameNames, NEW s \in Shards, NEW t \in Shards,
           NEW target \in Paths, NEW f, Visits(runConfig.roots[s], target, f)
    PROVE  Visits(runConfig.roots[t], target, f)
<1> DEFINE r == runConfig.roots[s]
           q == runConfig.roots[t]
           S == STRING
<1>1. r \in Seq(S) \ {<<>>} /\ q \in Seq(S) \ {<<>>} /\ target \in Seq(S)
    <2>1. runConfig.roots \in Seq(Paths \ {<<>>})
        BY SelectionAssumption
    <2> QED
        BY <2>1, LenProperties, ElementOfSeq DEF Shards, Paths
<1>2. CASE r = q
    BY <1>2
<1>3. CASE Last(r) \notin Excluded /\ Last(q) \notin Excluded
    <2> HIDE DEF r, q, S
    <2>1. ASSUME NEW root \in Seq(S) \ {<<>>}
          PROVE  Last(root \o target) = IF target = <<>> THEN Last(root) ELSE Last(target)
        <3>1. Len(root) \in Nat \ {0} /\ Len(target) \in Nat /\ (target # <<>> => Len(target) # 0)
            BY <1>1, EmptySeq, LenProperties
        <3>2. CASE target = <<>>
            BY <3>2, ConcatEmptySeq
        <3>3. CASE target # <<>>
            <4> DEFINE k == Len(root) + Len(target)
            <4>1. k \in 1..k /\ ~(k <= Len(root)) /\ k - Len(root) = Len(target)
                BY <3>1, <3>3
            <4>2. /\ Len(root \o target) = k
                  /\ \A i \in 1..k : (root \o target)[i] =
                         IF i <= Len(root) THEN root[i] ELSE target[i - Len(root)]
                BY <1>1, ConcatProperties
            <4> HIDE DEF k
            <4>3. (root \o target)[k] = target[Len(target)]
                BY <4>1, <4>2
            <4> QED
                BY <3>3, <4>2, <4>3 DEF Last
        <3> QED
            BY <3>2, <3>3
    <2>2. Last(r \o target) \notin Excluded
        BY DEF Visits, r
    <2>3. Last(q \o target) \notin Excluded
        BY <1>1, <1>3, <2>1, <2>2
    <2> QED
        BY <2>3 DEF Visits, q
<1> QED
    BY <1>2, <1>3 DEF SameNames

\* A mutation that one machine lists is listed by all, in the same group.
LEMMA ListedByAll ==
    ASSUME runConfig \in RunConfigs, SameNames, NEW s \in Shards, NEW t \in Shards,
           NEW m \in ListedBy(s)
    PROVE  \E n \in ListedBy(t) : /\ Mutation(t, n.id) = Mutation(s, m.id)
                                  /\ SliceGroupKey(n) = SliceGroupKey(m)
<1> DEFINE r == runConfig.roots[s]
           q == runConfig.roots[t]
<1>1. PICK d \in ToSet(Discovered(r)) : \E x \in ToSet(d.file.mutants) : m = MutantOf(r, d, x)
    BY GeneratedElements DEF ListedBy
<1>2. PICK x \in ToSet(d.file.mutants) : m = MutantOf(r, d, x)
    BY <1>1
<1>3. d \in ToSet(Discovered(q))
    <2>1. PICK i \in DOMAIN runConfig.targets, f \in ToSet(Tree) :
              f.mutated /\ Visits(r, runConfig.targets[i], f) /\ d = Item(runConfig.targets[i], f)
        BY DiscoveredElements
    <2>2. runConfig.targets[i] \in Paths
        <3>1. runConfig.targets \in Seq(Paths)
            BY SelectionAssumption
        <3> QED
            BY <3>1, LenProperties, ElementOfSeq
    <2>3. Visits(q, runConfig.targets[i], f)
        BY <2>1, <2>2, VisitsAlike
    <2> QED
        BY <2>1, <2>3, DiscoveredElements
<1> DEFINE n == MutantOf(q, d, x)
<1>4. n \in ListedBy(t)
    BY <1>2, <1>3, GeneratedElements DEF ListedBy
<1>5. Mutation(t, n.id) = Named(d, x) /\ Mutation(s, m.id) = Named(d, x)
    BY <1>2, <1>3, MutationsAreTold
<1> HIDE DEF n
<1>6. SliceGroupKey(m) = SliceGroupKey(n)
    BY <1>4, <1>5, SameMutationSameKey
<1> QED
    BY <1>4, <1>5, <1>6

-----------------------------------------------------------------------------
(* What a run has selected of what it lists.                                *)

LEMMA ListsAreOfTree == runConfig \in RunConfigs => \A root : OfTree(GenerateMutants(root))
<1> SUFFICES ASSUME runConfig \in RunConfigs, NEW root, NEW m \in ToSet(GenerateMutants(root))
             PROVE  \E f \in ToSet(Tree) : m.of \in ToSet(f.mutants)
    BY DEF OfTree
<1>1. PICK d \in ToSet(Discovered(root)) : \E x \in ToSet(d.file.mutants) : m = MutantOf(root, d, x)
    BY GeneratedElements
<1>2. d.file \in ToSet(Tree)
    BY DiscoveredElements DEF Item
<1> QED
    BY <1>1, <1>2 DEF MutantOf

LEMMA KeysStartHashed == SelectionInit => KeysAreHashed /\ \A s \in Shards : SelectedAsListed(s)
<1> SUFFICES ASSUME SelectionInit PROVE KeysAreHashed /\ \A s \in Shards : SelectedAsListed(s)
    OBVIOUS
<1>1. /\ runConfig \in RunConfigs
      /\ slot \in [AllKeys(runConfig) ->
                       0..(IF runConfig.count = 0 THEN 0 ELSE runConfig.count - 1)]
      /\ runAt = [s \in Shards |-> "begin"]
    BY DEF SelectionInit
<1>2. ASSUME NEW s \in Shards PROVE SelectedAsListed(s)
    BY <1>1 DEF SelectedAsListed
<1>3. ASSUME runConfig.count > 0, NEW s \in Shards, NEW m \in ListedBy(s)
      PROVE  ShardForKey(SliceGroupKey(m)) \in 1..runConfig.count
    <2> DEFINE key == SliceGroupKey(m)
    <2>1. key \in AllKeys(runConfig)
        BY DEF AllKeys, ListedBy, Shards
    <2> HIDE DEF key
    <2>2. runConfig.count \in Nat
        BY <1>1, SelectionAssumption
    <2>3. slot[key] \in 0..(runConfig.count - 1)
        BY <1>1, <1>3, <2>1, <2>2
    <2>4. slot[key] + 1 \in 1..runConfig.count
        BY <1>3, <2>2, <2>3
    <2> QED
        BY <2>4 DEF ShardForKey, key
<1> QED
    BY <1>1, <1>2, <1>3 DEF KeysAreHashed

\* The tree, the configuration and the hash of a group are the same at every step.
LEMMA ListsStay ==
    ASSUME runConfig' = runConfig, slot' = slot
    PROVE  /\ KeysAreHashed => KeysAreHashed'
           /\ \A root : GenerateMutants(root)' = GenerateMutants(root)
           /\ \A s : ListedBy(s)' = ListedBy(s)
           /\ \A s, m : Ours(s, m)' <=> Ours(s, m)
           /\ NoLimit' <=> NoLimit
<1>1. \A root : Discovered(root)' = Discovered(root)
    BY DEF Discovered, WalkTree, Visits, Excluded, ModuleDir
<1>2. ASSUME NEW root PROVE GenerateMutants(root)' = GenerateMutants(root)
    <2> DEFINE made(found) == FlattenSeq([i \in DOMAIN found |->
                                  [j \in DOMAIN found[i].file.mutants |->
                                      MutantOf(root, found[i], found[i].file.mutants[j])]])
    <2>1. GenerateMutants(root) = made(Discovered(root))
        BY DEF GenerateMutants
    <2>2. GenerateMutants(root)' = made(Discovered(root)')
        BY DEF GenerateMutants, MutantOf, StableMutantIdentity
    <2> HIDE DEF made
    <2> QED
        BY <1>1, <2>1, <2>2
<1>3. ASSUME NEW s PROVE ListedBy(s)' = ListedBy(s)
    BY <1>2 DEF ListedBy
<1>4. ASSUME NEW m PROVE ShardForKey(SliceGroupKey(m))' = ShardForKey(SliceGroupKey(m))
    <2>1. SliceGroupKey(m)' = SliceGroupKey(m)
        BY DEF SliceGroupKey, EffectiveSliceBy
    <2> QED
        BY <2>1 DEF ShardForKey
<1>5. ASSUME NEW s, NEW m PROVE Ours(s, m)' <=> Ours(s, m)
    BY <1>4 DEF Ours
<1>6. NoLimit' <=> NoLimit
    BY DEF NoLimit
<1>7. KeysAreHashed => KeysAreHashed'
    BY <1>3, <1>4 DEF KeysAreHashed, Shards
<1> QED
    BY <1>2, <1>3, <1>5, <1>6, <1>7

LEMMA SelectedStep == SelectionInv /\ [SelectionNext]_selectionVars =>
                          (KeysAreHashed /\ \A s \in Shards : SelectedAsListed(s))'
<1> SUFFICES ASSUME SelectionInv, [SelectionNext]_selectionVars
             PROVE  (KeysAreHashed /\ \A s \in Shards : SelectedAsListed(s))'
    OBVIOUS
<1>1. runConfig' = runConfig /\ slot' = slot
    BY DEF SelectionNext, selectionVars, DiscoverMutants, SelectMutants, LoadQuarantine, RunMutants,
           Tick
<1>2. KeysAreHashed' /\ runConfig \in RunConfigs /\ Shards' = Shards
    BY <1>1, ListsStay DEF SelectionInv, KeysAreHashed, Shards
<1>3. /\ DOMAIN runAt = Shards /\ DOMAIN mutants = Shards
      /\ \A s \in Shards : SelectedAsListed(s)
    BY DEF SelectionInv, ExcusesInv, SelectionTypeOK
\* A run that lists nothing and selects nothing in a step.
<1>4. ASSUME NEW t \in Shards, mutants'[t] = mutants[t],
             runAt'[t] = runAt[t] \/ (runAt[t] = "quarantine" /\ runAt'[t] \in {"decide", "failed"})
                                  \/ (runAt[t] = "decide" /\ runAt'[t] = "done")
      PROVE  SelectedAsListed(t)'
    <2>1. runAt'[t] = "slice" => mutants'[t] = GenerateMutants(runConfig.roots[t])'
        BY <1>1, <1>3, <1>4, ListsStay DEF SelectedAsListed
    <2>2. ASSUME runAt'[t] \in {"quarantine", "decide", "done"}
          PROVE  /\ \A m \in ToSet(mutants'[t]) : m \in ListedBy(t)' /\ Ours(t, m)'
                 /\ NoLimit' => \A m \in ListedBy(t)' : Ours(t, m)' => m \in ToSet(mutants'[t])
        <3>1. runAt[t] \in {"quarantine", "decide", "done"}
            BY <1>4, <2>2
        <3>2. /\ \A m \in ToSet(mutants[t]) : m \in ListedBy(t) /\ Ours(t, m)
              /\ NoLimit => \A m \in ListedBy(t) : Ours(t, m) => m \in ToSet(mutants[t])
            BY <1>3, <3>1 DEF SelectedAsListed
        <3> QED
            BY <1>1, <1>4, <3>2, ListsStay
    <2> QED
        BY <2>1, <2>2 DEF SelectedAsListed, ToSet
<1>5. ASSUME NEW s \in Shards, DiscoverMutants(s), NEW t \in Shards PROVE SelectedAsListed(t)'
    <2>1. CASE t = s
        <3>1. runAt'[t] = "slice" /\ mutants'[t] = GenerateMutants(runConfig.roots[t])
            BY <1>3, <1>5, <2>1 DEF DiscoverMutants, Move
        <3> QED
            BY <1>1, <3>1, ListsStay DEF SelectedAsListed
    <2>2. CASE t # s
        BY <1>3, <1>4, <1>5, <2>2 DEF DiscoverMutants, Move
    <2> QED
        BY <2>1, <2>2
<1>6. ASSUME NEW s \in Shards, SelectMutants(s), NEW t \in Shards PROVE SelectedAsListed(t)'
    <2>1. CASE t = s
        <3> DEFINE ms == GenerateMutants(runConfig.roots[s])
                   selected == Cut(ScheduleMutants(ApplySlicing(s, ms)))
        <3>1. runAt[s] = "slice" /\ runAt'[t] = "quarantine"
            BY <1>3, <1>6, <2>1 DEF SelectMutants, Move
        <3>2. mutants'[t] = selected
            <4>1. mutants[s] = ms
                BY <1>3, <3>1 DEF SelectedAsListed
            <4>2. mutants'[t] = Cut(ScheduleMutants(ApplySlicing(s, mutants[s])))
                BY <1>3, <1>6, <2>1 DEF SelectMutants
            <4> QED
                BY <4>1, <4>2
        <3>3. PICK n \in Nat : DOMAIN ms = 1..n
            BY <1>2, GeneratedElements
        <3>4. OfTree(ms) /\ ListedBy(s) = ToSet(ms)
            BY <1>2, ListsAreOfTree DEF ListedBy
        <3> HIDE DEF ms
        <3>5. /\ \A m \in ToSet(selected) : m \in ToSet(ms) /\ Ours(s, m)
              /\ NoLimit => \A m \in ToSet(ms) : Ours(s, m) => m \in ToSet(selected)
            BY <1>2, <3>3, <3>4, SelectedElements
        <3> HIDE DEF selected
        <3>6. /\ \A m \in ToSet(mutants'[t]) : m \in ListedBy(t)' /\ Ours(t, m)'
              /\ NoLimit' => \A m \in ListedBy(t)' : Ours(t, m)' => m \in ToSet(mutants'[t])
            BY <1>1, <2>1, <3>2, <3>4, <3>5, ListsStay
        <3> QED
            BY <3>1, <3>6 DEF SelectedAsListed, ToSet
    <2>2. CASE t # s
        BY <1>3, <1>4, <1>6, <2>2 DEF SelectMutants, Move
    <2> QED
        BY <2>1, <2>2
<1>7. ASSUME NEW s \in Shards, LoadQuarantine(s) \/ RunMutants(s), NEW t \in Shards
      PROVE  SelectedAsListed(t)'
    BY <1>3, <1>4, <1>7 DEF LoadQuarantine, RunMutants, Move
<1>8. ASSUME Tick \/ UNCHANGED selectionVars, NEW t \in Shards PROVE SelectedAsListed(t)'
    BY <1>4, <1>8 DEF Tick, selectionVars
<1> QED
    BY <1>2, <1>5, <1>6, <1>7, <1>8 DEF SelectionNext

LEMMA SelectionStarts == SelectionInit => SelectionInv
BY ExcusesStart, KeysStartHashed DEF SelectionInv

LEMMA SelectionStep == SelectionInv /\ [SelectionNext]_selectionVars => SelectionInv'
BY ExcusesStep, SelectedStep DEF SelectionInv

\* Of any number of runs: what each of them has read, listed, selected and decided.
THEOREM SelectionInvariant == SelectionSpec => []SelectionInv
BY SelectionStarts, SelectionStep, PTL DEF SelectionSpec

LEMMA ExcusesFollow == SelectionInv => ExcusesAreAccountable
<1> SUFFICES ASSUME SelectionInv, NEW s \in Shards, Done(s), NEW i \in DOMAIN results[s]
             PROVE  LET r == results[s][i]
                        ofIt == {e \in QuarantineFile : e.id = r.id}
                    IN  /\ r.verdict = "quarantined" => \E e \in ofIt : Accountable(e) /\ InForce(e, s)
                        /\ r.verdict = "ignored" =>
                              \E rule \in ToSet(Rules) : rule.action = "suppress"
                                  /\ SuppressionRuleMatches(rule, mutants[s][i])
                        /\ r.verdict = "run" => ~runConfig.quarantine \/ \A e \in ofIt : e.expires <= now
    BY DEF ExcusesAreAccountable
<1>1. results[s][i].id = mutants[s][i].id /\ results[s][i].verdict = Verdict(s, mutants[s][i])
    <2>1. results[s] = [j \in DOMAIN mutants[s] |->
                          [id |-> mutants[s][j].id, verdict |-> Verdict(s, mutants[s][j])]]
        BY DEF SelectionInv, ExcusesInv, DecidedAsRead
    <2>2. i \in DOMAIN mutants[s]
        BY ONLY <2>1, i \in DOMAIN results[s]
    <2> QED
        BY ONLY <2>1, <2>2
<1>2. PICK t \in 0..now : started[s] <= t /\ active[s] = InForceAt(t)
    BY DEF SelectionInv, ExcusesInv, ReadWhileRunning, Done
<1>3. started[s] \in Nat /\ now \in Nat
    BY DEF SelectionInv, ExcusesInv, SelectionTypeOK
<1> DEFINE id == results[s][i].id
<1>4. CASE results[s][i].verdict = "quarantined"
    <2>1. id \in InForceAt(t)
        BY <1>1, <1>2, <1>4 DEF Verdict
    <2>2. PICK e \in QuarantineFile : e.id = id /\ runConfig.quarantine /\ e.expires > t
        BY <2>1 DEF InForceAt
    <2>3. Accountable(e)
        BY <2>2 DEF SelectionInv, ExcusesInv, ReadWhileRunning, Done
    <2>4. InForce(e, s)
        BY <1>2, <1>3, <2>2, EntriesExpire DEF InForce
    <2> QED
        BY <1>4, <2>2, <2>3, <2>4
<1>5. CASE results[s][i].verdict = "ignored"
    <2>1. SuppressedResult(mutants[s][i])
        BY <1>1, <1>5 DEF Verdict
    <2> QED
        BY <1>5, <2>1, StrongestOfRules DEF SuppressedResult, ToSet
<1>6. CASE results[s][i].verdict = "run"
    <2>1. id \notin InForceAt(t)
        BY <1>1, <1>2, <1>6 DEF Verdict
    <2>2. ASSUME runConfig.quarantine, NEW e \in QuarantineFile, e.id = id PROVE e.expires <= now
        <3>1. ~(e.expires > t)
            BY <2>1, <2>2 DEF InForceAt
        <3> QED
            BY <1>2, <1>3, <3>1, EntriesExpire
    <2> QED
        BY <1>6, <2>2
<1> QED
    BY <1>4, <1>5, <1>6

\* Of any number of runs, of any trees, files of quarantine and rules, and whenever each
\* of them reads the file.
THEOREM ExcusesAccountable == SelectionSpec => []ExcusesAreAccountable
BY SelectionInvariant, ExcusesFollow, PTL

\* The shards part what they list: one key has one shard, and that shard lists it too.
LEMMA PartitionFollows == SelectionInv => ShardsPartition
<1> SUFFICES ASSUME SelectionInv, runConfig.count > 0, SameNames
             PROVE  /\ \A s, t \in Shards :
                          s # t /\ Done(s) /\ Done(t) => Decided(s) \cap Decided(t) = {}
                    /\ NoLimit /\ runConfig.count = Len(runConfig.roots) /\ (\A s \in Shards : Done(s)) =>
                          \A s \in Shards :
                              ListedMutations(s) \subseteq UNION {Decided(t) : t \in Shards}
    BY DEF ShardsPartition
<1>1. runConfig \in RunConfigs
    BY DEF SelectionInv, KeysAreHashed
<1>2. ASSUME NEW s \in Shards, Done(s)
      PROVE  Decided(s) = {Mutation(s, m.id) : m \in ToSet(mutants[s])}
    <2>1. results[s] = [i \in DOMAIN mutants[s] |->
                           [id |-> mutants[s][i].id, verdict |-> Verdict(s, mutants[s][i])]]
        BY <1>2 DEF SelectionInv, ExcusesInv, DecidedAsRead
    <2>2. DOMAIN results[s] = DOMAIN mutants[s]
          /\ \A i \in DOMAIN mutants[s] : results[s][i].id = mutants[s][i].id
        BY ONLY <2>1
    <2>3. Decided(s) = {Mutation(s, mutants[s][i].id) : i \in DOMAIN mutants[s]}
        BY <2>2 DEF Decided
    <2>4. ToSet(mutants[s]) = {mutants[s][i] : i \in DOMAIN mutants[s]}
        BY DEF ToSet
    <2> QED
        BY <2>3, <2>4
<1>3. ASSUME NEW s \in Shards, Done(s)
      PROVE  /\ \A m \in ToSet(mutants[s]) : m \in ListedBy(s) /\ ShardForKey(SliceGroupKey(m)) = s
             /\ NoLimit => \A m \in ListedBy(s) :
                    ShardForKey(SliceGroupKey(m)) = s => m \in ToSet(mutants[s])
    BY <1>3 DEF SelectionInv, SelectedAsListed, Done, Ours
<1>4. ASSUME NEW s \in Shards, NEW t \in Shards, s # t, Done(s), Done(t),
             NEW id \in Decided(s), id \in Decided(t)
      PROVE  FALSE
    <2>1. PICK m \in ToSet(mutants[s]) : id = Mutation(s, m.id)
        BY <1>2, <1>4
    <2>2. PICK n \in ToSet(mutants[t]) : id = Mutation(t, n.id)
        BY <1>2, <1>4
    <2>3. m \in ListedBy(s) /\ ShardForKey(SliceGroupKey(m)) = s
        BY <1>3, <1>4
    <2>4. n \in ListedBy(t) /\ ShardForKey(SliceGroupKey(n)) = t
        BY <1>3, <1>4
    <2>5. SliceGroupKey(m) = SliceGroupKey(n)
        <3>1. Mutation(s, m.id) = Mutation(t, n.id) /\ m \in ListedBy(s) /\ n \in ListedBy(t)
            BY <2>1, <2>2, <2>3, <2>4
        <3> QED
            BY <1>1, <3>1, SameMutationSameKey
    <2> QED
        BY <1>4, <2>3, <2>4, <2>5
<1>5. ASSUME NoLimit, runConfig.count = Len(runConfig.roots), \A s \in Shards : Done(s),
             NEW s \in Shards, NEW m \in ListedBy(s)
      PROVE  \E t \in Shards : Mutation(s, m.id) \in Decided(t)
    <2> DEFINE t == ShardForKey(SliceGroupKey(m))
    <2>1. t \in Shards
        <3>1. t \in 1..runConfig.count
            BY DEF SelectionInv, KeysAreHashed
        <3>2. runConfig.roots \in Seq(Paths \ {<<>>})
            BY <1>1, SelectionAssumption
        <3>3. DOMAIN runConfig.roots = 1..Len(runConfig.roots)
            BY <3>2, LenProperties
        <3> QED
            BY <1>5, <3>1, <3>3 DEF Shards
    <2> HIDE DEF t
    <2>2. PICK n \in ListedBy(t) : /\ Mutation(t, n.id) = Mutation(s, m.id)
                                   /\ SliceGroupKey(n) = SliceGroupKey(m)
        BY <1>1, <2>1, ListedByAll
    <2>3. n \in ToSet(mutants[t])
        BY <1>3, <1>5, <2>1, <2>2 DEF t
    <2>4. Mutation(s, m.id) \in Decided(t)
        BY <1>2, <1>5, <2>1, <2>2, <2>3
    <2> QED
        BY <2>1, <2>4
<1> QED
    BY <1>4, <1>5 DEF ListedMutations

\* Of any tree, any number of machines, wherever they hold it, and any configuration of
\* targets, limits and order: no mutation is decided by two shards, and without limits
\* each is decided by one.
THEOREM ShardsAlwaysPartition == SelectionSpec => []ShardsPartition
BY SelectionInvariant, PartitionFollows, PTL
=============================================================================
