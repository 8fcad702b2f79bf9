---------------------------- MODULE Helpers_proofs ----------------------------
(***************************************************************************)
(* Proofs about the helpers of releases and of hosted waves: Release,      *)
(* Upgrade and Wave, for any targets, attempts, repositories and reports.  *)
(***************************************************************************)
EXTENDS Release, Upgrade, Wave, FiniteSetTheorems, WellFoundedInduction,
        TLAPS

-----------------------------------------------------------------------------
(* Sums over finite sets, by a least set of which the sum would be wrong.   *)

\* A set of numbers has a least one.
LEMMA LeastNumber ==
    ASSUME NEW T, T \subseteq Nat, T # {}
    PROVE  \E n \in T : \A m \in T : ~(m < n)
<1> DEFINE less == {p \in Nat \X Nat : p[1] < p[2]}
<1>1. IsWellFoundedOn(less, Nat)
    BY NatLessThanWellFounded DEF OpToRel
<1>2. ASSUME NEW n \in T, NEW m \in T, m < n PROVE <<m, n>> \in less
    BY <1>2
<1> HIDE DEF less
<1>3. \E n \in T : \A m \in T : ~(<<m, n>> \in less)
    BY <1>1, WFMin
<1> QED
    BY <1>2, <1>3

\* Of sets some of which are bad there is a bad one without a bad proper subset.
LEMMA LeastBadSet ==
    ASSUME NEW S, IsFiniteSet(S), NEW Bad, Bad \subseteq SUBSET S, Bad # {}
    PROVE  \E V \in Bad : \A W \in SUBSET V : W # V => W \notin Bad
<1> DEFINE sizes == {Cardinality(V) : V \in Bad}
<1>1. \A V \in Bad : IsFiniteSet(V) /\ Cardinality(V) \in Nat
    BY FS_Subset, FS_CardinalityType
<1>2. sizes \subseteq Nat /\ sizes # {}
    BY <1>1
<1>3. PICK n \in sizes : \A m \in sizes : ~(m < n)
    <2> HIDE DEF sizes
    <2> QED
        BY <1>2, LeastNumber
<1>4. PICK V \in Bad : Cardinality(V) = n
    BY <1>3
<1>5. ASSUME NEW W \in SUBSET V, W # V, W \in Bad PROVE FALSE
    <2>1. Cardinality(W) < Cardinality(V)
        BY <1>1, <1>5, FS_Subset
    <2> QED
        BY <1>3, <1>4, <1>5, <2>1
<1> QED
    BY <1>4, <1>5

\* The function by which a sum is defined: the value at one element of a set and
\* the sum of the others.
IsSum(f, S, g) ==
    g = [s \in SUBSET S |-> IF s = {} THEN 0
                            ELSE LET x == CHOOSE x \in s : TRUE IN f[x] + g[s \ {x}]]

LEMMA SumByChoice ==
    ASSUME NEW f, NEW S
    PROVE  SumFunctionOnSet(f, S) = (CHOOSE g : IsSum(f, S, g))[S]
BY DEF SumFunctionOnSet, FoldFunctionOnSet, MapThenFoldSet, IsSum

LEMMA IsSumStep ==
    ASSUME NEW f, NEW S, NEW g, IsSum(f, S, g), NEW s \in SUBSET S
    PROVE  /\ s = {} => g[s] = 0
           /\ s # {} => g[s] = f[CHOOSE x \in s : TRUE] + g[s \ {CHOOSE x \in s : TRUE}]
<1> DEFINE G == [t \in SUBSET S |-> IF t = {} THEN 0
                            ELSE LET x == CHOOSE x \in t : TRUE IN f[x] + g[t \ {x}]]
<1>1. g = G
    BY DEF IsSum
<1>2. g[s] = G[s]
    BY <1>1
<1>3. G[s] = IF s = {} THEN 0 ELSE LET x == CHOOSE x \in s : TRUE IN f[x] + g[s \ {x}]
    OBVIOUS
<1> QED
    BY <1>2, <1>3

\* The sum of a set does not depend on the larger set by which it is defined.
LEMMA SumsOfASetAgree ==
    ASSUME NEW f, NEW S, NEW T, NEW g, NEW h, IsSum(f, S, g), IsSum(f, T, h),
           NEW U, U \subseteq S, U \subseteq T, IsFiniteSet(U)
    PROVE  g[U] = h[U]
<1> DEFINE Bad == {V \in SUBSET U : g[V] # h[V]}
<1>1. CASE Bad # {}
    <2>1. PICK V \in Bad : \A W \in SUBSET V : W # V => W \notin Bad
        <3>1. Bad \subseteq SUBSET U
            OBVIOUS
        <3> HIDE DEF Bad
        <3> QED
            BY <1>1, <3>1, LeastBadSet
    <2>2. CASE V = {}
        BY <2>1, <2>2, IsSumStep
    <2>3. CASE V # {}
        <3> DEFINE x == CHOOSE x \in V : TRUE
        <3>1. x \in V /\ V \in SUBSET S /\ V \in SUBSET T
            BY <2>3
        <3>2. ASSUME NEW A, NEW k, IsSum(f, A, k), V \in SUBSET A
              PROVE  k[V] = f[x] + k[V \ {x}]
            BY <2>3, <3>2, IsSumStep
        <3>4. g[V] = f[x] + g[V \ {x}] /\ h[V] = f[x] + h[V \ {x}]
            BY <3>1, <3>2
        <3>3. V \ {x} \notin Bad /\ V \ {x} \in SUBSET U
            BY <2>1, <3>1
        <3> QED
            BY <3>3, <3>4
    <2> QED
        BY <2>2, <2>3
<1>2. CASE Bad = {}
    BY <1>2
<1> QED
    BY <1>1, <1>2

\* Every finite set has a sum.
LEMMA SumsExist ==
    ASSUME NEW f, NEW S, IsFiniteSet(S)
    PROVE  \E g : IsSum(f, S, g)
<1> DEFINE sum(T) == (CHOOSE g : IsSum(f, T, g))[T]
           Bad == {V \in SUBSET S : ~\E g : IsSum(f, V, g)}
<1>1. CASE Bad # {}
    <2>1. PICK V \in Bad : \A W \in SUBSET V : W # V => W \notin Bad
        <3>1. Bad \subseteq SUBSET S
            OBVIOUS
        <3> HIDE DEF Bad
        <3> QED
            BY <1>1, <3>1, LeastBadSet
    <2> DEFINE G == [s \in SUBSET V |-> IF s = {} THEN 0
                            ELSE LET x == CHOOSE x \in s : TRUE IN f[x] + sum(s \ {x})]
    <2>2. ASSUME NEW W \in SUBSET V, W # V PROVE IsSum(f, W, CHOOSE g : IsSum(f, W, g))
        BY <2>1, <2>2
    <2> HIDE DEF sum
    <2>3. ASSUME NEW W \in SUBSET V, W # V PROVE G[W] = sum(W)
        <3> DEFINE g == CHOOSE g : IsSum(f, W, g)
                   x == CHOOSE x \in W : TRUE
                   h == CHOOSE h : IsSum(f, W \ {x}, h)
        <3>1. IsSum(f, W, g)
            BY <2>2, <2>3
        <3>2. CASE W = {}
            <4>1. g[W] = 0
                <5> HIDE DEF g, x, h
                <5> QED
                    BY <3>1, <3>2, IsSumStep
            <4> QED
                BY <3>2, <4>1 DEF sum
        <3>3. CASE W # {}
            <4>1. x \in W /\ W \ {x} \in SUBSET V /\ W \ {x} # V
                BY <3>3
            <4>2. g[W] = f[x] + g[W \ {x}]
                BY <3>1, <3>3, IsSumStep
            <4>3. IsSum(f, W \ {x}, h)
                BY <2>2, <4>1
            <4>4. IsFiniteSet(W \ {x})
                BY <2>1, FS_Subset
            <4>5. g[W \ {x}] = h[W \ {x}]
                <5> HIDE DEF g, h, x
                <5> QED
                    BY <3>1, <4>3, <4>4, SumsOfASetAgree
            <4>6. G[W] = f[x] + sum(W \ {x})
                BY <3>3
            <4> QED
                BY <4>2, <4>5, <4>6 DEF sum
        <3> QED
            BY <3>2, <3>3
    <2>4. IsSum(f, V, G)
        <3> DEFINE x(s) == CHOOSE x \in s : TRUE
        <3>1. ASSUME NEW s \in SUBSET V, s # {} PROVE G[s \ {x(s)}] = sum(s \ {x(s)})
            <4>1. x(s) \in s
                BY <3>1
            <4> QED
                BY <2>3, <4>1
        <3>2. \A s \in SUBSET V : (IF s = {} THEN 0 ELSE f[x(s)] + G[s \ {x(s)}])
                                 = (IF s = {} THEN 0 ELSE f[x(s)] + sum(s \ {x(s)}))
            <4> HIDE DEF x, G
            <4> QED
                BY <3>1
        <3>3. [s \in SUBSET V |-> IF s = {} THEN 0 ELSE f[x(s)] + G[s \ {x(s)}]]
              = [s \in SUBSET V |-> IF s = {} THEN 0 ELSE f[x(s)] + sum(s \ {x(s)})]
            <4> HIDE DEF x, G
            <4> QED
                BY <3>2
        <3>4. G = [s \in SUBSET V |-> IF s = {} THEN 0 ELSE f[x(s)] + sum(s \ {x(s)})]
            OBVIOUS
        <3>5. G = [s \in SUBSET V |-> IF s = {} THEN 0 ELSE f[x(s)] + G[s \ {x(s)}]]
            <4> HIDE DEF x, G
            <4> QED
                BY <3>3, <3>4
        <3> QED
            <4> HIDE DEF G
            <4> QED
                BY <3>5 DEF IsSum
    <2> QED
        BY <2>4
<1>2. CASE Bad = {}
    BY <1>2
<1> QED
    BY <1>1, <1>2

LEMMA SumChosenOut ==
    ASSUME NEW f, NEW S, IsFiniteSet(S)
    PROVE  /\ SumFunctionOnSet(f, {}) = 0
           /\ S # {} => LET x == CHOOSE x \in S : TRUE
                        IN  SumFunctionOnSet(f, S) = f[x] + SumFunctionOnSet(f, S \ {x})
<1>1. ASSUME NEW T, IsFiniteSet(T)
      PROVE  /\ IsSum(f, T, CHOOSE g : IsSum(f, T, g))
             /\ SumFunctionOnSet(f, T) = (CHOOSE g : IsSum(f, T, g))[T]
    BY <1>1, SumsExist, SumByChoice
<1>2. SumFunctionOnSet(f, {}) = 0
    <2>1. IsFiniteSet({})
        BY FS_EmptySet
    <2> DEFINE g == CHOOSE g : IsSum(f, {}, g)
    <2>2. IsSum(f, {}, g) /\ SumFunctionOnSet(f, {}) = g[{}]
        BY <1>1, <2>1
    <2> HIDE DEF g
    <2> QED
        BY <2>2, IsSumStep
<1>3. ASSUME S # {}
      PROVE  LET x == CHOOSE x \in S : TRUE
             IN  SumFunctionOnSet(f, S) = f[x] + SumFunctionOnSet(f, S \ {x})
    <2> DEFINE x == CHOOSE x \in S : TRUE
               g == CHOOSE g : IsSum(f, S, g)
               h == CHOOSE h : IsSum(f, S \ {x}, h)
    <2>1. IsFiniteSet(S \ {x})
        BY FS_Subset
    <2>2. IsSum(f, S, g) /\ SumFunctionOnSet(f, S) = g[S]
        BY <1>1
    <2>3. IsSum(f, S \ {x}, h) /\ SumFunctionOnSet(f, S \ {x}) = h[S \ {x}]
        BY <1>1, <2>1
    <2>4. g[S] = f[x] + g[S \ {x}]
        <3>1. ASSUME NEW k, IsSum(f, S, k) PROVE k[S] = f[x] + k[S \ {x}]
            BY <1>3, <3>1, IsSumStep
        <3> QED
            BY <2>2, <3>1
    <2>5. g[S \ {x}] = h[S \ {x}]
        <3> HIDE DEF g, h, x
        <3> QED
            BY <2>1, <2>2, <2>3, SumsOfASetAgree
    <2> QED
        BY <2>2, <2>3, <2>4, <2>5
<1> QED
    BY <1>2, <1>3

\* A sum of numbers is a number.
LEMMA SumsOfNumbers ==
    ASSUME NEW f, NEW S, IsFiniteSet(S), \A x \in S : f[x] \in Nat
    PROVE  SumFunctionOnSet(f, S) \in Nat
<1> DEFINE Bad == {V \in SUBSET S : SumFunctionOnSet(f, V) \notin Nat}
<1>1. CASE Bad # {}
    <2>1. PICK V \in Bad : \A W \in SUBSET V : W # V => W \notin Bad
        <3>1. Bad \subseteq SUBSET S
            OBVIOUS
        <3> HIDE DEF Bad
        <3> QED
            BY <1>1, <3>1, LeastBadSet
    <2>2. IsFiniteSet(V)
        BY FS_Subset
    <2> DEFINE x == CHOOSE x \in V : TRUE
    <2>3. V # {} => SumFunctionOnSet(f, V) = f[x] + SumFunctionOnSet(f, V \ {x})
        BY <2>2, SumChosenOut
    <2>4. V # {} => x \in V
        OBVIOUS
    <2>5. SumFunctionOnSet(f, {}) = 0
        BY <2>2, SumChosenOut
    <2> HIDE DEF x
    <2>6. CASE V # {}
        <3>1. V \ {x} \in SUBSET V /\ V \ {x} # V
            BY <2>4, <2>6
        <3>2. f[x] \in Nat /\ SumFunctionOnSet(f, V \ {x}) \in Nat
            BY <2>1, <2>4, <2>6, <3>1
        <3> QED
            BY <2>1, <2>3, <2>6, <3>2
    <2> QED
        BY <2>1, <2>5, <2>6, 0 \in Nat
<1>2. CASE Bad = {}
    BY <1>2
<1> QED
    BY <1>1, <1>2

\* Any element may be taken out of a sum.
LEMMA SumTakenOut ==
    ASSUME NEW f, NEW S, IsFiniteSet(S), \A x \in S : f[x] \in Nat, NEW y \in S
    PROVE  SumFunctionOnSet(f, S) = f[y] + SumFunctionOnSet(f, S \ {y})
<1> DEFINE sum(T) == SumFunctionOnSet(f, T)
           Bad == {V \in SUBSET S : ~\A z \in V : sum(V) = f[z] + sum(V \ {z})}
<1>1. CASE Bad # {}
    <2>1. PICK V \in Bad : \A W \in SUBSET V : W # V => W \notin Bad
        <3>1. Bad \subseteq SUBSET S
            OBVIOUS
        <3> HIDE DEF Bad
        <3> QED
            BY <1>1, <3>1, LeastBadSet
    <2>2. PICK z \in V : ~(sum(V) = f[z] + sum(V \ {z}))
        BY <2>1
    <2> DEFINE x == CHOOSE x \in V : TRUE
    <2>3. x \in V
        BY <2>2
    <2>4. ASSUME NEW W \in SUBSET V PROVE sum(W) \in Nat
        <3>1. IsFiniteSet(W)
            BY FS_Subset
        <3> QED
            BY <3>1, SumsOfNumbers
    <2>5. sum(V) = f[x] + sum(V \ {x})
        <3>1. IsFiniteSet(V)
            BY FS_Subset
        <3> QED
            BY <2>2, <3>1, SumChosenOut
    <2> HIDE DEF sum, x
    <2>6. x # z
        BY <2>2, <2>5
    <2>7. sum(V \ {x}) = f[z] + sum((V \ {x}) \ {z})
        <3>1. V \ {x} \notin Bad /\ V \ {x} \in SUBSET S /\ z \in V \ {x}
            BY <2>1, <2>3, <2>6
        <3> QED
            BY <3>1
    <2>8. sum(V \ {z}) = f[x] + sum((V \ {z}) \ {x})
        <3>1. V \ {z} \notin Bad /\ V \ {z} \in SUBSET S /\ x \in V \ {z}
            BY <2>1, <2>2, <2>3, <2>6
        <3> QED
            BY <3>1
    <2>9. (V \ {x}) \ {z} = (V \ {z}) \ {x}
        OBVIOUS
    <2>10. f[x] \in Nat /\ f[z] \in Nat /\ sum((V \ {z}) \ {x}) \in Nat
        BY <2>2, <2>3, <2>4
    <2>11. sum(V) = f[x] + (f[z] + sum((V \ {z}) \ {x}))
        BY <2>5, <2>7, <2>9
    <2>12. sum(V) = f[z] + (f[x] + sum((V \ {z}) \ {x}))
        BY <2>10, <2>11
    <2> QED
        BY <2>2, <2>8, <2>12
<1>2. CASE Bad = {}
    BY <1>2
<1> QED
    BY <1>1, <1>2

\* A sum over some of the elements is that over all of them if the others count
\* nothing; sums of what agrees agree.
LEMMA SumsAgree ==
    ASSUME NEW f, NEW S, IsFiniteSet(S), \A x \in S : f[x] \in Nat,
           NEW g, NEW T, T \subseteq S, \A x \in T : g[x] = f[x], \A x \in S \ T : f[x] = 0
    PROVE  SumFunctionOnSet(f, S) = SumFunctionOnSet(g, T)
<1> DEFINE Bad == {V \in SUBSET S : SumFunctionOnSet(f, V) # SumFunctionOnSet(g, V \cap T)}
<1>1. CASE Bad # {}
    <2>1. PICK V \in Bad : \A W \in SUBSET V : W # V => W \notin Bad
        <3>1. Bad \subseteq SUBSET S
            OBVIOUS
        <3> HIDE DEF Bad
        <3> QED
            BY <1>1, <3>1, LeastBadSet
    <2>2. IsFiniteSet(V) /\ IsFiniteSet(V \cap T)
        BY FS_Subset
    <2>3. CASE V = {}
        <3>1. SumFunctionOnSet(f, {}) = 0 /\ SumFunctionOnSet(g, {}) = 0
            BY <2>2, SumChosenOut
        <3>2. V \cap T = {}
            BY <2>3
        <3> QED
            BY <2>1, <2>3, <3>1, <3>2
    <2>4. ASSUME NEW y \in V PROVE FALSE
        <3>1. SumFunctionOnSet(f, V) = f[y] + SumFunctionOnSet(f, V \ {y})
            BY <2>2, SumTakenOut
        <3>2. SumFunctionOnSet(f, V \ {y}) = SumFunctionOnSet(g, (V \ {y}) \cap T)
            BY <2>1
        <3>3. SumFunctionOnSet(f, V \ {y}) \in Nat
            <4>1. IsFiniteSet(V \ {y})
                BY <2>2, FS_Subset
            <4> QED
                BY <4>1, SumsOfNumbers
        <3>4. CASE y \in T
            <4>1. \A x \in V \cap T : g[x] \in Nat
                OBVIOUS
            <4>2. SumFunctionOnSet(g, V \cap T) = g[y] + SumFunctionOnSet(g, (V \cap T) \ {y})
                BY <2>2, <3>4, <4>1, SumTakenOut
            <4>3. (V \cap T) \ {y} = (V \ {y}) \cap T
                OBVIOUS
            <4> QED
                BY <2>1, <3>1, <3>2, <3>4, <4>2, <4>3
        <3>5. CASE y \notin T
            <4>1. V \cap T = (V \ {y}) \cap T /\ f[y] = 0
                BY <3>5
            <4>2. SumFunctionOnSet(f, V) = SumFunctionOnSet(f, V \ {y})
                BY <3>1, <3>3, <4>1
            <4> QED
                BY <2>1, <3>2, <4>1, <4>2
        <3> QED
            BY <3>4, <3>5
    <2> QED
        BY <2>3, <2>4
<1>2. CASE Bad = {}
    <2>1. S \cap T = T /\ S \in SUBSET S
        OBVIOUS
    <2>2. SumFunctionOnSet(f, S) = SumFunctionOnSet(g, S \cap T)
        BY <1>2
    <2> QED
        BY <2>1, <2>2
<1> QED
    BY <1>1, <1>2

\* What is counted in two parts adds up.
LEMMA SumsAdd ==
    ASSUME NEW f, NEW g, NEW h, NEW S, IsFiniteSet(S),
           \A x \in S : f[x] \in Nat /\ g[x] \in Nat /\ h[x] = f[x] + g[x]
    PROVE  SumFunctionOnSet(f, S) + SumFunctionOnSet(g, S) = SumFunctionOnSet(h, S)
<1> DEFINE sum(k, T) == SumFunctionOnSet(k, T)
           Bad == {V \in SUBSET S : sum(f, V) + sum(g, V) # sum(h, V)}
<1>1. CASE Bad # {}
    <2>1. PICK V \in Bad : \A W \in SUBSET V : W # V => W \notin Bad
        <3>1. Bad \subseteq SUBSET S
            OBVIOUS
        <3> HIDE DEF Bad
        <3> QED
            BY <1>1, <3>1, LeastBadSet
    <2>2. IsFiniteSet(V)
        BY FS_Subset
    <2>3. CASE V = {}
        <3>1. sum(f, {}) = 0 /\ sum(g, {}) = 0 /\ sum(h, {}) = 0
            BY <2>2, SumChosenOut
        <3> HIDE DEF sum
        <3> QED
            BY <2>1, <2>3, <3>1
    <2>4. ASSUME NEW y \in V PROVE FALSE
        <3>1. \A x \in V : f[x] \in Nat /\ g[x] \in Nat /\ h[x] \in Nat
            OBVIOUS
        <3>2. /\ sum(f, V) = f[y] + sum(f, V \ {y})
              /\ sum(g, V) = g[y] + sum(g, V \ {y})
              /\ sum(h, V) = h[y] + sum(h, V \ {y})
            BY <2>2, <3>1, SumTakenOut
        <3>3. sum(f, V \ {y}) \in Nat /\ sum(g, V \ {y}) \in Nat
            <4>1. IsFiniteSet(V \ {y})
                BY <2>2, FS_Subset
            <4> QED
                BY <3>1, <4>1, SumsOfNumbers
        <3> HIDE DEF sum
        <3>4. sum(f, V \ {y}) + sum(g, V \ {y}) = sum(h, V \ {y})
            BY <2>1
        <3>5. f[y] \in Nat /\ g[y] \in Nat /\ h[y] = f[y] + g[y]
            OBVIOUS
        <3>6. sum(f, V) + sum(g, V) = sum(h, V)
            BY <3>2, <3>3, <3>4, <3>5
        <3> QED
            BY <2>1, <3>6
    <2> QED
        BY <2>3, <2>4
<1>2. CASE Bad = {}
    BY <1>2
<1> QED
    BY <1>1, <1>2

\* What is counted kind by kind is counted once.
LEMMA CountedByKind ==
    ASSUME NEW F, IsFiniteSet(F), NEW K, IsFiniteSet(K), NEW m, \A x \in F : m[x] \in K,
           NEW count, \A k \in K : count[k] = Cardinality({x \in F : m[x] = k})
    PROVE  Cardinality(F) = SumFunctionOnSet(count, K)
<1> DEFINE of(V) == {x \in F : m[x] \in V}
           Bad == {V \in SUBSET K : Cardinality(of(V)) # SumFunctionOnSet(count, V)}
<1>1. CASE Bad # {}
    <2>1. PICK V \in Bad : \A W \in SUBSET V : W # V => W \notin Bad
        <3>1. Bad \subseteq SUBSET K
            OBVIOUS
        <3> HIDE DEF Bad
        <3> QED
            BY <1>1, <3>1, LeastBadSet
    <2>2. IsFiniteSet(V)
        BY FS_Subset
    <2>3. CASE V = {}
        <3>1. SumFunctionOnSet(count, {}) = 0
            BY <2>2, SumChosenOut
        <3>2. of({}) = {}
            OBVIOUS
        <3>3. Cardinality({}) = 0
            BY FS_EmptySet
        <3> QED
            BY <2>1, <2>3, <3>1, <3>2, <3>3
    <2>4. ASSUME NEW k \in V PROVE FALSE
        <3>1. ASSUME NEW W PROVE IsFiniteSet({x \in F : m[x] \in W}) /\ IsFiniteSet({x \in F : m[x] = W})
            BY FS_Subset
        <3>2. ASSUME NEW j \in V PROVE count[j] \in Nat
            <4>1. Cardinality({x \in F : m[x] = j}) \in Nat
                BY <3>1, FS_CardinalityType
            <4>2. count[j] = Cardinality({x \in F : m[x] = j})
                OBVIOUS
            <4> QED
                BY <4>1, <4>2
        <3>3. SumFunctionOnSet(count, V) = count[k] + SumFunctionOnSet(count, V \ {k})
            BY <2>2, <3>2, SumTakenOut
        <3>4. Cardinality(of(V \ {k})) = SumFunctionOnSet(count, V \ {k})
            BY <2>1
        <3> DEFINE A == of(V \ {k})
                   B == {x \in F : m[x] = k}
        <3>5. of(V) = A \cup B /\ A \cap B = {}
            OBVIOUS
        <3>6. IsFiniteSet(A) /\ IsFiniteSet(B)
            BY <3>1
        <3>7. count[k] = Cardinality(B)
            OBVIOUS
        <3> HIDE DEF A, B
        <3>8. Cardinality(A \cup B) = Cardinality(A) + Cardinality(B) - Cardinality(A \cap B)
            BY <3>6, FS_Union
        <3>9. Cardinality(A) \in Nat /\ Cardinality(B) \in Nat /\ Cardinality(A \cap B) = 0
            BY <3>5, <3>6, FS_CardinalityType, FS_EmptySet
        <3>10. Cardinality(A \cup B) = Cardinality(B) + Cardinality(A)
            BY <3>8, <3>9
        <3> QED
            BY <2>1, <3>3, <3>4, <3>5, <3>7, <3>10 DEF A
    <2> QED
        BY <2>3, <2>4
<1>2. CASE Bad = {}
    <2>1. of(K) = F /\ K \in SUBSET K
        OBVIOUS
    <2> QED
        BY <1>2, <2>1
<1> QED
    BY <1>1, <1>2
-----------------------------------------------------------------------------
(* The upgrade.                                                             *)

\* The files and what has been read of them, step by step (runUpgradeSmokeWorkflow).
THEOREM UpgradeInvariant == UpgradeSpec => []UpgradeInv
<1> USE DEF None
<1>1. UpgradeInit => UpgradeInv
    BY DEF UpgradeInit, UpgradeInv, FilesInTurn, ReadInTurn, AfterUpdate, AfterSummary,
           AfterSurvivors, AfterRun, AfterCompare, AfterDiff
<1>2. UpgradeInv /\ [UpgradeNext]_upgradeVars => UpgradeInv'
    <2> SUFFICES ASSUME UpgradeInv, [UpgradeNext]_upgradeVars PROVE UpgradeInv'
        OBVIOUS
    <2> USE DEF UpgradeInv, FilesInTurn, ReadInTurn, AfterUpdate, AfterSummary,
                AfterSurvivors, AfterRun, AfterCompare, AfterDiff, Works, ExitsWell, UpgradeGoto
    <2>1. CASE Prepare
        BY <2>1 DEF Prepare
    <2>2. CASE ExtractPrevious
        BY <2>2 DEF ExtractPrevious
    <2>3. CASE PreviousRun
        BY <2>3 DEF PreviousRun, Run
    <2>4. CASE BaselineUpdate
        BY <2>4 DEF BaselineUpdate, Run
    <2>5. CASE ReportSummary
        BY <2>5 DEF ReportSummary, Run, Reads
    <2>6. CASE ReportSurvivors
        BY <2>6 DEF ReportSurvivors, Run, Reads
    <2>7. CASE CurrentRun
        BY <2>7 DEF CurrentRun, Run
    <2>8. CASE BaselineCompare
        BY <2>8 DEF BaselineCompare, Run, Reads
    <2>9. CASE BaselineDiff
        BY <2>9 DEF BaselineDiff, Run, Reads
    <2>10. CASE BaselineAccept
        BY <2>10 DEF BaselineAccept, Run
    <2>11. CASE BaselinePromote
        BY <2>11 DEF BaselinePromote, Run
    <2>12. CASE UNCHANGED upgradeVars
        BY <2>12 DEF upgradeVars
    <2> QED
        BY <2>1, <2>2, <2>3, <2>4, <2>5, <2>6, <2>7, <2>8, <2>9, <2>10, <2>11, <2>12
           DEF UpgradeNext
<1> QED
    BY <1>1, <1>2, PTL DEF UpgradeSpec

LEMMA PairsOfThePrevious ==
    ASSUME NEW S, NEW names, \A what \in names : <<what, "previous">> \in S
    PROVE  (names \X {"previous"}) \subseteq S
OBVIOUS

\* No upgrade is reported as verified unless the current binary has read the report
\* and the baseline of the previous release, whichever command is flawed
\* (runUpgradeSmokeWorkflow).
THEOREM VerifiedUpgradesReadOldReleases == UpgradeSpec => []VerifiedUpgradeReadOldRelease
<1>1. UpgradeInv => VerifiedUpgradeReadOldRelease
    <2> SUFFICES ASSUME UpgradeInv, upgradeAt = "passed",
                        \A s \in {"report summary", "report survivors"} : Works(s)
                 PROVE  ({"report", "survivors", "compare", "diff"} \X {"previous"}) \subseteq read
        BY DEF VerifiedUpgradeReadOldRelease
    <2>1. \A what \in {"report", "survivors", "compare", "diff"} : <<what, "previous">> \in read
        BY DEF UpgradeInv, ReadInTurn, AfterSummary, AfterSurvivors, AfterRun, AfterCompare,
               AfterDiff
    <2> QED
        BY <2>1, PairsOfThePrevious
<1> QED
    BY <1>1, UpgradeInvariant, PTL

-----------------------------------------------------------------------------
(* The wave.                                                                *)

\* What is asked for, or else named by the repository, is served, and so is the
\* action (resolveGoVersion).
LEMMA ResolvedServes ==
    ASSUME NEW v \in JobVersions
    PROVE  /\ ResolveGoVersion(v.requested, v) \in Nat
           /\ Serves([v EXCEPT !.resolved = ResolveGoVersion(v.requested, v)])
<1>1. v.requested \in Nat /\ v.toolchain \in Nat /\ v.go \in Nat /\ ActionMin \in Nat
    BY WaveAssumption DEF JobVersions
<1> QED
    BY <1>1 DEF JobVersions, ResolveGoVersion, GoModVersion, MaxGo, Serves

\* A job that has not ended keeps the summary from being built.
LEMMA JobsEndFirst ==
    ASSUME WaveInv, NEW r \in Repos, waveAt[r] # "ended", waveSummary' = waveSummary
    PROVE  SummaryIsLast' /\ SummaryCountsWhatRan'
<1>1. waveSummary' = Missing
    BY DEF WaveInv, SummaryIsLast
<1>2. Missing.is # "file"
    BY DEF Missing, None
<1> QED
    BY <1>1, <1>2 DEF SummaryIsLast, SummaryCountsWhatRan

\* A run that ends leaves what its report directory tells of it (cmd/cervomut,
\* finalizeStructuredFailure).
LEMMA LeaveStep ==
    ASSUME WaveInv, NEW r \in Repos, NEW end, NEW files, Leave(r, end, files), Left(end, files)
    PROVE  WaveInv'
<1> USE DEF WaveTypeOK, Leave, WaveGoto
<1>1. WaveTypeOK'
    BY DEF WaveInv, WaveSteps
<1>2. ASSUME NEW q \in Repos
      PROVE  Resolved(q)' /\ ReportsTellOfRuns(q)' /\ ResultsTellOfRuns(q)'
    <2>1. CASE q = r
        <3>1. ran'[q] = end /\ reportDir'[q] = files
            BY <2>1 DEF WaveInv
        <3>2. ReportsTellOfRuns(q)'
            BY <3>1 DEF ReportsTellOfRuns, Left, Tells, Readable
        <3>3. waveAt'[q] = "extract" /\ waveAt[q] = "run" /\ result'[q] = result[q] /\ go'[q] = go[q]
            BY <2>1 DEF WaveInv
        <3>4. result[q] = Missing
            BY <2>1, <3>3 DEF WaveInv, ResultsTellOfRuns
        <3> QED
            BY <3>2, <3>3, <3>4 DEF WaveInv, Resolved, ResultsTellOfRuns, Serves
    <2>2. CASE q # r
        <3>1. /\ waveAt'[q] = waveAt[q] /\ ran'[q] = ran[q] /\ reportDir'[q] = reportDir[q]
              /\ result'[q] = result[q] /\ go'[q] = go[q]
            BY <1>2, <2>2 DEF WaveInv
        <3>2. Resolved(q) /\ ReportsTellOfRuns(q) /\ ResultsTellOfRuns(q)
            BY DEF WaveInv
        <3> QED
            BY <3>1, <3>2 DEF Resolved, ReportsTellOfRuns, ResultsTellOfRuns, Serves, Left, Tells,
                              Readable, CountsItsRun
    <2> QED
        BY <2>1, <2>2
<1>3. SummaryIsLast' /\ SummaryCountsWhatRan'
    BY JobsEndFirst
<1> QED
    BY <1>1, <1>2, <1>3 DEF WaveInv

\* The verdicts a checkpoint leaves are of mutants, and it tells of no failure.
LEMMA CheckpointsTell ==
    ASSUME NEW checkpoint \in Checkpoints
    PROVE  /\ Behind(checkpoint).killed \subseteq Mutants
           /\ Behind(checkpoint).survived \subseteq Mutants
           /\ \/ Tells(checkpoint, Behind(checkpoint), None)
              \/ checkpoint = Missing /\ Behind(checkpoint) = Empty
<1>1. CASE checkpoint = Missing
    BY <1>1 DEF Behind, Empty
<1>2. CASE checkpoint # Missing
    <2>1. PICK verdicts \in WaveReports : checkpoint = WholeFile(Report(verdicts, None))
        BY <1>2 DEF Checkpoints
    <2>2. /\ Behind(checkpoint).killed = verdicts.killed
          /\ Behind(checkpoint).survived = verdicts.survived
        BY <1>2, <2>1 DEF Behind, Verdicts, WholeFile, Report
    <2>3. Tells(checkpoint, Behind(checkpoint), None)
        BY <2>1, <2>2 DEF Tells, Readable, WholeFile, Report
    <2> QED
        BY <2>2, <2>3, WaveAssumption
<1> QED
    BY <1>1, <1>2

\* A file that is torn makes the helper fail.
LEMMA TornFilesFail ==
    ASSUME NEW files, files.full = TornReport \/ files.debug = "torn"
    PROVE  WaveResultFails(files)
BY DEF WaveResultFails, SelectReport, TornReport, Missing, None

\* A failure that met no report names itself in its own, or else in the debug file.
LEMMA FailWithoutReportStep ==
    ASSUME WaveInv, NEW r \in Repos, FailWithoutReport(r)
    PROVE  WaveInv'
<1>0. PICK kind \in Kinds, checkpoint \in Checkpoints :
        \E debug \in Tried(kind, "torn", None),
           full \in Tried(WholeFile(Report(Empty, kind)), TornReport, Missing) :
          Leave(r, Ran("failed", IF full = Missing THEN Behind(checkpoint) ELSE Empty, FALSE,
                       IF Readable(full) \/ debug = kind THEN kind ELSE None),
                [full |-> full, partial |-> checkpoint, debug |-> debug, ledger |-> None])
    BY DEF FailWithoutReport
<1>1. PICK debug \in Tried(kind, "torn", None),
           full \in Tried(WholeFile(Report(Empty, kind)), TornReport, Missing) :
        Leave(r, Ran("failed", IF full = Missing THEN Behind(checkpoint) ELSE Empty, FALSE,
                     IF Readable(full) \/ debug = kind THEN kind ELSE None),
              [full |-> full, partial |-> checkpoint, debug |-> debug, ledger |-> None])
    BY <1>0
<1> DEFINE report == IF full = Missing THEN Behind(checkpoint) ELSE Empty
           named == IF Readable(full) \/ debug = kind THEN kind ELSE None
           end == Ran("failed", report, FALSE, named)
           files == [full |-> full, partial |-> checkpoint, debug |-> debug, ledger |-> None]
<1>2. /\ end.report = report /\ ~end.whole /\ end.whole \in BOOLEAN /\ end.named = named
      /\ files.full = full /\ files.partial = checkpoint /\ files.debug = debug
    BY DEF Ran
<1>3. named \in Kinds \cup {None} /\ kind # None
    BY WaveAssumption
<1>4. report.killed \subseteq Mutants /\ report.survived \subseteq Mutants
    BY CheckpointsTell DEF Empty
<1>5. CASE full = TornReport \/ debug = "torn"
    <2>1. WaveResultFails(files)
        BY <1>2, <1>5, TornFilesFail
    <2> HIDE DEF end, files
    <2>2. Left(end, files)
        BY <1>2, <1>3, <1>4, <2>1 DEF Left
    <2> QED
        BY <1>1, <2>2, LeaveStep DEF end, files
<1>6. CASE full = WholeFile(Report(Empty, kind))
    <2>1. Readable(full) /\ full # Missing
        BY <1>6 DEF Readable, WholeFile, Missing, None
    <2>2. named = kind /\ report = Empty
        BY <2>1
    <2>3. Tells(full, Empty, kind)
        BY <1>6, <2>1 DEF Tells, WholeFile, Report, Empty
    <2> HIDE DEF end, files, report, named
    <2>4. Left(end, files)
        BY <1>2, <1>3, <1>4, <2>2, <2>3 DEF Left
    <2> QED
        BY <1>1, <2>4, LeaveStep DEF end, files, report, named
<1>7. CASE full = Missing /\ debug \in {kind, None}
    <2>1. ~Readable(full)
        BY <1>7 DEF Readable, Missing, None
    <2>2. named = debug /\ report = Behind(checkpoint)
        BY <1>3, <1>7, <2>1
    <2> HIDE DEF end, files, report, named
    <2>3. Left(end, files)
        BY <1>2, <1>3, <1>4, <1>7, <2>2, CheckpointsTell DEF Left
    <2> QED
        BY <1>1, <2>3, LeaveStep DEF end, files, report, named
<1> QED
    BY <1>5, <1>6, <1>7 DEF Tried

\* A failure after the report keeps it.
LEMMA FailAfterReportStep ==
    ASSUME WaveInv, NEW r \in Repos, FailAfterReport(r)
    PROVE  WaveInv'
<1>0. PICK kind \in Kinds, checkpoint \in Checkpoints, report \in WaveReports :
        \E debug \in Tried(kind, "torn", None), ledger \in {"torn", None} :
          Leave(r, Ran("failed", report, TRUE, IF debug = kind THEN kind ELSE None),
                [full |-> WholeFile(Report(report, None)), partial |-> checkpoint,
                 debug |-> debug, ledger |-> ledger])
    BY DEF FailAfterReport
<1>1. PICK debug \in Tried(kind, "torn", None), ledger \in {"torn", None} :
        Leave(r, Ran("failed", report, TRUE, IF debug = kind THEN kind ELSE None),
              [full |-> WholeFile(Report(report, None)), partial |-> checkpoint,
               debug |-> debug, ledger |-> ledger])
    BY <1>0
<1> DEFINE named == IF debug = kind THEN kind ELSE None
           end == Ran("failed", report, TRUE, named)
           files == [full |-> WholeFile(Report(report, None)), partial |-> checkpoint,
                     debug |-> debug, ledger |-> ledger]
<1>2. /\ end.report = report /\ end.whole /\ end.whole \in BOOLEAN /\ end.named = named
      /\ files.full = WholeFile(Report(report, None)) /\ files.debug = debug
    BY DEF Ran
<1>3. named \in Kinds \cup {None} /\ report.killed \subseteq Mutants /\ report.survived \subseteq Mutants
    BY WaveAssumption
<1>4. Tells(WholeFile(Report(report, None)), report, None)
    BY DEF Tells, Readable, WholeFile, Report
<1>5. debug = "torn" => WaveResultFails(files)
    BY <1>2, TornFilesFail
<1>6. debug # "torn" => named = debug
    BY DEF Tried
<1> HIDE DEF end, files, named
<1>7. Left(end, files)
    BY <1>2, <1>3, <1>4, <1>5, <1>6 DEF Left
<1> QED
    BY <1>1, <1>7, LeaveStep DEF end, files, named

\* A kill leaves the report whole, torn or not at all.
LEMMA KillRunStep ==
    ASSUME WaveInv, NEW r \in Repos, KillRun(r)
    PROVE  WaveInv'
<1>1. PICK checkpoint \in Checkpoints :
        \/ \E full \in {Missing, TornReport} :
              Leave(r, Ran("killed", Behind(checkpoint), FALSE, None),
                    [full |-> full, partial |-> checkpoint, debug |-> None, ledger |-> None])
        \/ \E report \in WaveReports, ledger \in {"torn", None} :
              Leave(r, Ran("killed", report, TRUE, None),
                    [full |-> WholeFile(Report(report, None)), partial |-> checkpoint,
                     debug |-> None, ledger |-> ledger])
    BY DEF KillRun
<1>2. ASSUME NEW full \in {Missing, TornReport},
             Leave(r, Ran("killed", Behind(checkpoint), FALSE, None),
                   [full |-> full, partial |-> checkpoint, debug |-> None, ledger |-> None])
      PROVE  WaveInv'
    <2> DEFINE end == Ran("killed", Behind(checkpoint), FALSE, None)
               files == [full |-> full, partial |-> checkpoint, debug |-> None, ledger |-> None]
    <2>1. /\ end.report = Behind(checkpoint) /\ ~end.whole /\ end.whole \in BOOLEAN
          /\ end.named = None
          /\ files.full = full /\ files.partial = checkpoint /\ files.debug = None
        BY DEF Ran
    <2>2. full = TornReport => WaveResultFails(files)
        BY <2>1, TornFilesFail
    <2> HIDE DEF end, files
    <2>3. Left(end, files)
        BY <2>1, <2>2, CheckpointsTell DEF Left
    <2> QED
        BY <1>2, <2>3, LeaveStep DEF end, files
<1>3. ASSUME NEW report \in WaveReports, NEW ledger \in {"torn", None},
             Leave(r, Ran("killed", report, TRUE, None),
                   [full |-> WholeFile(Report(report, None)), partial |-> checkpoint,
                    debug |-> None, ledger |-> ledger])
      PROVE  WaveInv'
    <2>1. Left(Ran("killed", report, TRUE, None),
               [full |-> WholeFile(Report(report, None)), partial |-> checkpoint,
                debug |-> None, ledger |-> ledger])
        BY WaveAssumption DEF Ran, Left, Tells, Readable, WholeFile, Report
    <2> QED
        BY <1>3, <2>1, LeaveStep
<1> QED
    BY <1>1, <1>2, <1>3

\* Every survivor of a report is in a unit, and there are no more units than survivors.
LEMMA TriageAddsUp ==
    ASSUME NEW report, report.survived \subseteq Mutants
    PROVE  LET t == Triage(report)
           IN  /\ t.entries = Cardinality(report.survived) /\ t.entries \in Nat
               /\ t.units \in Nat /\ t.collapsed \in Nat
               /\ t.units + t.collapsed = t.entries
<1> DEFINE S == report.survived
           units == {Unit(m) : m \in S}
           f == [m \in S |-> Unit(m)]
<1>1. IsFiniteSet(S)
    BY WaveAssumption, FS_Subset
<1>2. f \in Surjection(S, units)
    BY DEF Surjection
<1>3. IsFiniteSet(units) /\ Cardinality(units) <= Cardinality(S)
    <2> HIDE DEF f, units, S
    <2> QED
        BY <1>1, <1>2, FS_Surjection
<1>4. Cardinality(units) \in Nat /\ Cardinality(S) \in Nat
    BY <1>1, <1>3, FS_CardinalityType
<1>5. /\ Triage(report).entries = Cardinality(S) /\ Triage(report).units = Cardinality(units)
      /\ Triage(report).collapsed = Cardinality(S) - Cardinality(units)
    BY DEF Triage
<1> HIDE DEF S, units
<1> QED
    BY <1>3, <1>4, <1>5 DEF S

\* A result that is made counts the report its run left, and names its failure
\* (selectWaveReport, buildWaveResult).
LEMMA ResultsCount ==
    ASSUME NEW end, NEW files, Left(end, files), ~WaveResultFails(files)
    PROVE  CountsItsRun(WaveResult(files), end)
<1> DEFINE w == WaveResult(files)
<1> USE DEF None
<1>1. Cardinality({}) = 0 /\ Empty.killed = {} /\ Empty.survived = {}
    BY FS_EmptySet DEF Empty
<1>2. /\ Cardinality(end.report.killed) \in Nat /\ Cardinality(end.report.survived) \in Nat
      /\ end.report.survived \subseteq Mutants
    BY WaveAssumption, FS_Subset, FS_CardinalityType DEF Left
<1>3. ASSUME NEW kind \in {"full", "partial"}, NEW file, SelectReport(files) = <<kind, file>>,
             NEW failure, Tells(file, end.report, failure)
      PROVE  /\ w.kind = kind /\ w.failure = IF failure # None THEN failure ELSE files.debug
             /\ w.killed = Cardinality(end.report.killed)
             /\ w.survived = Cardinality(end.report.survived)
             /\ w.triage.entries = w.survived
             /\ w.triage.units \in Nat /\ w.triage.collapsed \in Nat
             /\ w.triage.units + w.triage.collapsed = w.triage.entries
    <2>1. file.report.killed = end.report.killed /\ file.report.survived = end.report.survived
          /\ file.report.failure = failure
        BY <1>3 DEF Tells
    <2>2. /\ w.kind = kind /\ w.failure = IF failure # None THEN failure ELSE files.debug
          /\ w.killed = Cardinality(end.report.killed)
          /\ w.survived = Cardinality(end.report.survived)
          /\ w.triage = Triage(file.report)
        BY <1>3, <2>1 DEF WaveResult
    <2>3. file.report.survived \subseteq Mutants
        BY <1>2, <2>1
    <2> QED
        BY <2>1, <2>2, <2>3, TriageAddsUp
<1> HIDE DEF w
<1>4. CASE end.whole /\ Tells(files.full, end.report, None) /\ files.debug = end.named
    <2>1. SelectReport(files) = <<"full", files.full>>
        BY <1>4 DEF SelectReport, Tells, Readable, Missing
    <2>2. end.named \in Kinds \cup {None}
        BY DEF Left
    <2> QED
        BY <1>2, <1>3, <1>4, <2>1, <2>2 DEF CountsItsRun, w
<1>5. CASE /\ ~end.whole /\ end.report = Empty /\ end.named # None
           /\ Tells(files.full, Empty, end.named)
    <2>1. SelectReport(files) = <<"full", files.full>>
        BY <1>5 DEF SelectReport, Tells, Readable, Missing
    <2>2. end.named \in Kinds
        BY <1>5 DEF Left
    <2> QED
        BY <1>2, <1>3, <1>5, <2>1, <2>2 DEF CountsItsRun, w
<1>6. CASE ~end.whole /\ files.full = Missing /\ files.debug = end.named
    <2>1. end.named \in Kinds \cup {None}
        BY DEF Left
    <2>2. CASE Tells(files.partial, end.report, None)
        <3>1. SelectReport(files) = <<"partial", files.partial>>
            BY <1>6, <2>2 DEF SelectReport, Tells, Readable, Missing
        <3> QED
            BY <1>2, <1>3, <1>6, <2>1, <2>2, <3>1 DEF CountsItsRun, w
    <2>3. CASE files.partial = Missing /\ end.report = Empty
        <3>1. SelectReport(files) = <<"missing", Missing>>
            BY <1>6, <2>3 DEF SelectReport
        <3>2. /\ w.kind = "missing" /\ w.failure = files.debug /\ w.killed = 0
              /\ w.survived = 0 /\ w.triage = NoTriage
            BY <3>1 DEF WaveResult, w
        <3> QED
            BY <1>1, <1>6, <2>1, <2>3, <3>2 DEF CountsItsRun, NoTriage, w
    <2>4. ~Tells(files.full, Empty, end.named)
        BY <1>6 DEF Tells, Readable, Missing, None
    <2> QED
        BY <1>6, <2>2, <2>3, <2>4 DEF Left
<1> QED
    BY <1>4, <1>5, <1>6 DEF Left

\* What reads like a result counts the report its run left (selectWaveReport,
\* buildWaveResult).
LEMMA ExtractStep ==
    ASSUME WaveInv, NEW r \in Repos, Extract(r)
    PROVE  WaveInv'
<1> USE DEF WaveTypeOK, Extract, WaveGoto
<1>1. WaveTypeOK'
    BY DEF WaveInv, WaveSteps
<1>2. ASSUME NEW q \in Repos
      PROVE  Resolved(q)' /\ ReportsTellOfRuns(q)' /\ ResultsTellOfRuns(q)'
    <2>1. CASE q = r
        <3>1. /\ waveAt'[q] = "ended" /\ go'[q] = go[q] /\ ran'[q] = ran[q] /\ Serves(go[q])
              /\ Left(ran[q], reportDir[q])
            BY <2>1 DEF WaveInv, Resolved, ReportsTellOfRuns
        <3>2. Readable(result'[q]) => CountsItsRun(result'[q].report, ran[q])
            <4>1. CASE WaveResultFails(reportDir[r])
                BY <2>1, <4>1 DEF WaveInv, Readable, TornReport
            <4>2. CASE ~WaveResultFails(reportDir[r])
                <5>1. result'[q].report = WaveResult(reportDir[q])
                    BY <2>1, <4>2 DEF WaveInv, WholeFile
                <5> QED
                    BY <2>1, <3>1, <4>2, <5>1, ResultsCount
            <4> QED
                BY <4>1, <4>2
        <3> QED
            BY <3>1, <3>2 DEF Resolved, ReportsTellOfRuns, ResultsTellOfRuns, Serves, Readable,
                              CountsItsRun
    <2>2. CASE q # r
        <3>1. /\ waveAt'[q] = waveAt[q] /\ ran'[q] = ran[q] /\ reportDir'[q] = reportDir[q]
              /\ result'[q] = result[q] /\ go'[q] = go[q]
            BY <1>2, <2>2 DEF WaveInv
        <3>2. Resolved(q) /\ ReportsTellOfRuns(q) /\ ResultsTellOfRuns(q)
            BY DEF WaveInv
        <3> QED
            BY <3>1, <3>2 DEF Resolved, ReportsTellOfRuns, ResultsTellOfRuns, Serves, Left, Tells,
                              Readable, CountsItsRun
    <2> QED
        BY <2>1, <2>2
<1>3. SummaryIsLast' /\ SummaryCountsWhatRan'
    BY JobsEndFirst
<1> QED
    BY <1>1, <1>2, <1>3 DEF WaveInv

\* The totals of results that can all be read are those of the runs
\* (accumulateWaveAggregate).
LEMMA AggregateCounts ==
    ASSUME WaveInv, \A r \in Uploaded : Readable(result[r])
    PROVE  LET named(k) == {r \in Uploaded : ran[r].named = k}
               a == Aggregate(Uploaded)
               t == SummaryTriage(Uploaded)
           IN  /\ a.killed = SumFunctionOnSet([r \in Repos |-> Cardinality(ran[r].report.killed)],
                                              Uploaded)
               /\ a.survived = SumFunctionOnSet([r \in Repos |-> Cardinality(ran[r].report.survived)],
                                                Uploaded)
               /\ \A k \in Kinds : a.kinds[k] = Cardinality(named(k))
               /\ a.failed = SumFunctionOnSet(a.kinds, Kinds)
               /\ a.reports + a.missing = a.selected
               /\ t.entries = a.survived
               /\ t.units + t.collapsed = t.entries
<1> DEFINE named(k) == {r \in Uploaded : ran[r].named = k}
           a == Aggregate(Uploaded)
           t == SummaryTriage(Uploaded)
           w(r) == result[r].report
           killed == [r \in Uploaded |-> w(r).killed]
           survived == [r \in Uploaded |-> w(r).survived]
           entries == [r \in Uploaded |-> w(r).triage.entries]
           units == [r \in Uploaded |-> w(r).triage.units]
           collapsed == [r \in Uploaded |-> w(r).triage.collapsed]
           wasKilled == [r \in Repos |-> Cardinality(ran[r].report.killed)]
           didSurvive == [r \in Repos |-> Cardinality(ran[r].report.survived)]
           failed == {r \in Uploaded : w(r).failure # None}
           missing == {r \in Uploaded : w(r).kind = "missing"}
<1>1. Uploaded \subseteq Repos /\ IsFiniteSet(Uploaded)
    BY WaveAssumption, FS_Subset DEF Uploaded
<1>2. \A r \in Uploaded : CountsItsRun(w(r), ran[r])
    BY DEF WaveInv, ResultsTellOfRuns, Uploaded
<1>3. /\ a.killed = SumFunctionOnSet(killed, Uploaded)
      /\ a.survived = SumFunctionOnSet(survived, Uploaded)
      /\ t.entries = SumFunctionOnSet(entries, Uploaded)
      /\ t.units = SumFunctionOnSet(units, Uploaded)
      /\ t.collapsed = SumFunctionOnSet(collapsed, Uploaded)
    BY DEF Aggregate, SummaryTriage, Total
<1>4. /\ a.selected = Cardinality(Uploaded) /\ a.missing = Cardinality(missing)
      /\ a.reports = Cardinality(Uploaded \ missing) /\ a.failed = Cardinality(failed)
      /\ a.kinds = [k \in Kinds |-> Cardinality({r \in failed : w(r).failure = k})]
    BY DEF Aggregate
<1>5. failed \subseteq Uploaded /\ missing \subseteq Uploaded
    OBVIOUS
<1> HIDE DEF a, t
<1>6. a.killed = SumFunctionOnSet(wasKilled, Uploaded)
    <2>1. /\ \A r \in Uploaded : killed[r] \in Nat
          /\ \A r \in Uploaded : wasKilled[r] = killed[r]
        BY <1>1, <1>2 DEF CountsItsRun
    <2> HIDE DEF killed, wasKilled
    <2> QED
        BY <1>1, <1>3, <2>1, SumsAgree
<1>7. a.survived = SumFunctionOnSet(didSurvive, Uploaded)
    <2>1. /\ \A r \in Uploaded : survived[r] \in Nat
          /\ \A r \in Uploaded : didSurvive[r] = survived[r]
        BY <1>1, <1>2 DEF CountsItsRun
    <2> HIDE DEF survived, didSurvive
    <2> QED
        BY <1>1, <1>3, <2>1, SumsAgree
<1>8. \A k \in Kinds : a.kinds[k] = Cardinality(named(k))
    <2>1. ASSUME NEW k \in Kinds PROVE {r \in failed : w(r).failure = k} = named(k)
        BY <1>2, WaveAssumption DEF CountsItsRun
    <2> QED
        BY <1>4, <2>1
<1>9. a.failed = SumFunctionOnSet(a.kinds, Kinds)
    <2> DEFINE m == [r \in failed |-> w(r).failure]
    <2>1. \A r \in failed : m[r] \in Kinds
        BY <1>2 DEF CountsItsRun
    <2>2. \A k \in Kinds : a.kinds[k] = Cardinality({r \in failed : m[r] = k})
        <3>1. ASSUME NEW k \in Kinds
              PROVE  {r \in failed : m[r] = k} = {r \in failed : w(r).failure = k}
            OBVIOUS
        <3> QED
            BY <1>4, <3>1
    <2>3. IsFiniteSet(failed)
        BY <1>1, <1>5, FS_Subset
    <2>4. IsFiniteSet(Kinds) /\ a.failed = Cardinality(failed)
        BY <1>4, WaveAssumption
    <2> DEFINE count == a.kinds
    <2> HIDE DEF failed, m, count
    <2>5. Cardinality(failed) = SumFunctionOnSet(count, Kinds)
        BY <2>1, <2>2, <2>3, <2>4, CountedByKind DEF count
    <2> QED
        BY <2>4, <2>5 DEF count
<1>10. a.reports + a.missing = a.selected
    <2>1. Uploaded \cap missing = missing
        BY <1>5
    <2>2. Cardinality(Uploaded \ missing) = Cardinality(Uploaded) - Cardinality(missing)
        <3> HIDE DEF missing
        <3> QED
            BY <1>1, <2>1, FS_Difference
    <2>3. Cardinality(Uploaded) \in Nat /\ Cardinality(missing) \in Nat
        BY <1>1, <1>5, FS_Subset, FS_CardinalityType
    <2> QED
        BY <1>4, <2>2, <2>3
<1>11. t.entries = a.survived
    <2>1. /\ \A r \in Uploaded : entries[r] \in Nat
          /\ \A r \in Uploaded : survived[r] = entries[r]
        BY <1>2 DEF CountsItsRun
    <2> HIDE DEF survived, entries
    <2> QED
        BY <1>1, <1>3, <2>1, SumsAgree
<1>12. t.units + t.collapsed = t.entries
    <2>1. \A r \in Uploaded : /\ units[r] \in Nat /\ collapsed[r] \in Nat
                              /\ entries[r] = units[r] + collapsed[r]
        BY <1>2 DEF CountsItsRun
    <2> HIDE DEF units, collapsed, entries
    <2> QED
        BY <1>1, <1>3, <2>1, SumsAdd
<1> QED
    BY <1>6, <1>7, <1>8, <1>9, <1>10, <1>11, <1>12 DEF a, t

\* The summary is built once, and changes nothing it is built from.
LEMMA SummarizeStep ==
    ASSUME WaveInv, Summarize
    PROVE  WaveInv'
<1>1. WaveTypeOK' /\ SummaryIsLast'
    BY DEF WaveInv, WaveTypeOK, SummaryIsLast, Summarize
<1>2. \A r \in Repos : Resolved(r)' /\ ReportsTellOfRuns(r)' /\ ResultsTellOfRuns(r)'
    BY DEF WaveInv, Summarize, Resolved, ReportsTellOfRuns, ResultsTellOfRuns, Readable, Serves,
           Left, Tells, CountsItsRun
<1>3. SummaryCountsWhatRan'
    <2>1. CASE Uploaded # {} /\ \A r \in Uploaded : Readable(result[r])
        <3>1. /\ waveSummary'.aggregate = Aggregate(Uploaded)
              /\ waveSummary'.triage = SummaryTriage(Uploaded)
              /\ result' = result /\ ran' = ran /\ Uploaded' = Uploaded
            BY <2>1 DEF Summarize, Uploaded
        <3> QED
            BY <2>1, <3>1, AggregateCounts DEF SummaryCountsWhatRan
    <2>2. CASE ~(Uploaded # {} /\ \A r \in Uploaded : Readable(result[r]))
        BY <2>2 DEF Summarize, SummaryCountsWhatRan, TornReport
    <2> QED
        BY <2>1, <2>2
<1> QED
    BY <1>1, <1>2, <1>3 DEF WaveInv

\* Versions, reports, results and the summary of a wave, for any repositories and
\* reports, and whatever is killed or lost.
THEOREM WaveInvariant == WaveSpec => []WaveInv
<1>1. WaveInit => WaveInv
    <2> SUFFICES ASSUME WaveInit PROVE WaveInv
        OBVIOUS
    <2>1. WaveTypeOK
        BY DEF WaveInit, WaveTypeOK, WaveSteps, JobVersions
    <2>2. \A r \in Repos : Resolved(r) /\ ReportsTellOfRuns(r) /\ ResultsTellOfRuns(r)
        BY DEF WaveInit, Resolved, ReportsTellOfRuns, ResultsTellOfRuns
    <2>3. SummaryIsLast /\ SummaryCountsWhatRan
        BY DEF WaveInit, SummaryIsLast, SummaryCountsWhatRan, Missing, None
    <2> QED
        BY <2>1, <2>2, <2>3 DEF WaveInv
<1>2. WaveInv /\ [WaveNext]_waveVars => WaveInv'
    <2> SUFFICES ASSUME WaveInv, [WaveNext]_waveVars PROVE WaveInv'
        OBVIOUS
    <2>1. ASSUME NEW r \in Repos, Resolve(r) PROVE WaveInv'
        <3>1. go[r] \in JobVersions
            BY DEF WaveInv, WaveTypeOK
        <3>2. go'[r] = [go[r] EXCEPT !.resolved = ResolveGoVersion(go[r].requested, go[r])]
            BY <2>1 DEF Resolve, WaveInv, WaveTypeOK
        <3>3. Serves(go'[r]) /\ go'[r] \in JobVersions
            BY <3>1, <3>2, ResolvedServes DEF JobVersions
        <3>4. WaveTypeOK'
            BY <2>1, <3>3 DEF Resolve, WaveGoto, WaveInv, WaveTypeOK, WaveSteps
        <3>5. \A q \in Repos : Resolved(q)' /\ ReportsTellOfRuns(q)' /\ ResultsTellOfRuns(q)'
            BY <2>1, <3>3 DEF Resolve, WaveGoto, WaveInv, WaveTypeOK, Resolved, ReportsTellOfRuns,
                              ResultsTellOfRuns
        <3>6. SummaryIsLast' /\ SummaryCountsWhatRan'
            BY <2>1, JobsEndFirst DEF Resolve
        <3> QED
            BY <3>4, <3>5, <3>6 DEF WaveInv
    <2>2. ASSUME NEW r \in Repos, Complete(r) PROVE WaveInv'
        <3>1. PICK report \in WaveReports, checkpoint \in Checkpoints :
                  Leave(r, Ran("completed", report, TRUE, None),
                        [full |-> WholeFile(Report(report, None)), partial |-> checkpoint,
                         debug |-> None, ledger |-> None])
            BY <2>2 DEF Complete
        <3> DEFINE files == [full |-> WholeFile(Report(report, None)), partial |-> checkpoint,
                             debug |-> None, ledger |-> None]
        <3>2. Left(Ran("completed", report, TRUE, None), files)
            BY WaveAssumption DEF Ran, Left, Tells, Readable, WholeFile, Report
        <3> QED
            BY <3>1, <3>2, LeaveStep
    <2>3. ASSUME NEW r \in Repos, FailWithoutReport(r) PROVE WaveInv'
        BY <2>3, FailWithoutReportStep
    <2>4. ASSUME NEW r \in Repos, FailAfterReport(r) \/ KillRun(r) PROVE WaveInv'
        BY <2>4, FailAfterReportStep, KillRunStep
    <2>5. ASSUME NEW r \in Repos, Extract(r) PROVE WaveInv'
        BY <2>5, ExtractStep
    <2>6. ASSUME NEW r \in Repos, LoseRunner(r) PROVE WaveInv'
        <3>1. WaveTypeOK'
            BY <2>6 DEF LoseRunner, WaveGoto, WaveInv, WaveTypeOK, WaveSteps
        <3>2. \A q \in Repos : Resolved(q)' /\ ReportsTellOfRuns(q)' /\ ResultsTellOfRuns(q)'
            BY <2>6 DEF LoseRunner, WaveGoto, WaveInv, WaveTypeOK, Resolved, ReportsTellOfRuns,
                        ResultsTellOfRuns
        <3>3. SummaryIsLast' /\ SummaryCountsWhatRan'
            BY <2>6, JobsEndFirst DEF LoseRunner
        <3> QED
            BY <3>1, <3>2, <3>3 DEF WaveInv
    <2>7. CASE Summarize
        BY <2>7, SummarizeStep
    <2>8. CASE UNCHANGED waveVars
        BY <2>8 DEF waveVars, WaveInv, WaveTypeOK, Resolved, ReportsTellOfRuns, ResultsTellOfRuns,
                    Readable, Serves, Left, Tells, CountsItsRun, SummaryIsLast, SummaryCountsWhatRan,
                    Uploaded
    <2> QED
        BY <2>1, <2>2, <2>3, <2>4, <2>5, <2>6, <2>7, <2>8 DEF WaveNext, FailRun
<1> QED
    BY <1>1, <1>2, PTL DEF WaveSpec

\* The summary of every wave counts what its runs left: the verdicts of each once, also
\* of those that failed or were killed after their report, each failure that was named
\* and each survivor's unit once (selectWaveReport, buildWaveResult,
\* accumulateWaveAggregate).
THEOREM SummariesAlwaysCount == WaveSpec => []SummaryCountsWhatRan
<1>1. WaveInv => SummaryCountsWhatRan
    BY DEF WaveInv
<1> QED
    BY <1>1, WaveInvariant, PTL

\* A result that reads like that of a clean, full run is of one whose engine wrote its
\* report whole, with a Go version that serves the action and the repository, in every
\* wave (failureFromDebugFile, finalizeStructuredFailure, resolveGoVersion).
THEOREM CleanResultsAreAlwaysEarned == WaveSpec => []CleanResultsAreOfWholeReports
<1>1. WaveInv => CleanResultsAreOfWholeReports
    <2> SUFFICES ASSUME WaveInv, NEW r \in Repos, result[r] # Missing, Readable(result[r]),
                        result[r].report.kind = "full", result[r].report.failure = None
                 PROVE  ran[r].whole /\ Serves(go[r])
        BY DEF CleanResultsAreOfWholeReports, Uploaded, Serves
    <2> QED
        BY DEF WaveInv, Resolved, ResultsTellOfRuns, CountsItsRun
<1> QED
    BY <1>1, WaveInvariant, PTL
-----------------------------------------------------------------------------
(* The release.                                                             *)

\* Three different runners are all there are: a matrix of three that is consumed names
\* every one (verifyCompatibilityMatrixJob).
LEMMA MatricesNameAllRunners ==
    ASSUME NEW matrix, MatrixHolds(matrix)
    PROVE  /\ {matrix[i].os : i \in 1..Len(matrix)} = Runners
           /\ \A i \in 1..Len(matrix) : matrix[i].go = Go
<1>1. Cardinality(Runners) = 3
    <2>1. Cardinality({"ubuntu"}) = 1 /\ IsFiniteSet({"ubuntu"})
        BY FS_Singleton
    <2>2. Cardinality({"ubuntu", "windows"}) = 2 /\ IsFiniteSet({"ubuntu", "windows"})
        <3>1. {"ubuntu", "windows"} = {"ubuntu"} \cup {"windows"}
            OBVIOUS
        <3> QED
            BY <2>1, <3>1, FS_AddElement
    <2>3. Runners = {"ubuntu", "windows"} \cup {"macos"}
        BY DEF Runners
    <2> QED
        BY <2>2, <2>3, FS_AddElement
<1>2. Len(matrix) = 3
    BY <1>1 DEF MatrixHolds
<1>3. /\ matrix[1].os \in Runners
      /\ matrix[2].os \in Runners \ {matrix[1].os}
      /\ matrix[3].os \in Runners \ {matrix[1].os, matrix[2].os}
    BY <1>2 DEF MatrixHolds
<1>4. {matrix[i].os : i \in 1..3} = Runners
    BY <1>3 DEF Runners
<1>5. \A i \in 1..Len(matrix) : matrix[i].go = Go
    BY DEF MatrixHolds
<1> QED
    BY <1>2, <1>4, <1>5

\* Both smoke steps run verify-install, and nothing else does: two of them are both
\* (verifyJobRunCountContaining).
LEMMA TwoSmokesAreBoth ==
    ASSUME InstallSteps >= 2
    PROVE  HasStep("install-smoke") /\ HasStep("archive-smoke")
<1> DEFINE smokes == tagged.steps \cap {"install-smoke", "archive-smoke"}
<1>1. Cardinality(smokes) >= 2
    BY DEF InstallSteps
<1>2. /\ Cardinality({"install-smoke"}) = 1 /\ IsFiniteSet({"install-smoke"})
      /\ Cardinality({"archive-smoke"}) = 1 /\ IsFiniteSet({"archive-smoke"})
    BY FS_Singleton
<1>3. ASSUME smokes \subseteq {"install-smoke"} PROVE FALSE
    <2>1. Cardinality(smokes) <= 1 /\ Cardinality(smokes) \in Nat
        BY <1>2, <1>3, FS_Subset, FS_CardinalityType
    <2> HIDE DEF smokes
    <2> QED
        BY <1>1, <2>1
<1>4. ASSUME smokes \subseteq {"archive-smoke"} PROVE FALSE
    <2>1. Cardinality(smokes) <= 1 /\ Cardinality(smokes) \in Nat
        BY <1>2, <1>4, FS_Subset, FS_CardinalityType
    <2> HIDE DEF smokes
    <2> QED
        BY <1>1, <2>1
<1> QED
    BY <1>3, <1>4 DEF HasStep

\* A workflow that holds verify-compat and passes it holds every step that is looked
\* for (verifyReleaseWorkflow).
LEMMA CompatFindsLostSteps ==
    ASSUME HasStep("verify-compat"), Runs("verify-compat", CompatHolds)
    PROVE  CompatHolds /\ WorkflowSteps \subseteq tagged.steps
<1>1. CompatHolds
    BY DEF HasStep, Runs
<1> QED
    BY <1>1, TwoSmokesAreBoth DEF CompatHolds, ReleaseWorkflowHolds, HasStep, WorkflowSteps

\* What the step that verifies the release looks at tells the version
\* (verifyReleaseAlignment).
LEMMA VerifiedTreesTellVersion ==
    ASSUME Verified
    PROVE  TellsVersion
<1>1. \A p \in Pins : tagged.pins[p] = {"this"}
    BY DEF Verified, AlignmentHolds, PinsHold, Pins
<1> QED
    BY <1>1 DEF Verified, TellsVersion, AlignmentHolds, MarkerHolds, NoteHolds, Headings

\* What the steps before the publish step have checked makes the tree sound as far as
\* the workflow has kept them.
LEMMA CheckedTreesAreSound ==
    ASSUME Checked, jobAt \in AfterArchive
    PROVE  /\ tagged.changelog = "text"
           /\ HasStep("verify-compat") =>
                 WorkflowSteps \subseteq tagged.steps /\ SmokedEverywhere /\ TellsVersion /\ BinaryWorks
           /\ HasStep("verify-release") => TellsVersion
           /\ HasStep("install-smoke") \/ HasStep("archive-smoke") => BinaryWorks
<1>1. /\ Runs("verify-compat", CompatHolds) /\ Runs("install-smoke", SmokeHolds)
      /\ Runs("archive-smoke", SmokeHolds) /\ NotesBuilt
      /\ HasStep("verify-release") => Verified
    BY DEF Checked, AfterArchive, AfterVerify, AfterNotes, AfterInstall, AfterCompat
<1>2. HasStep("install-smoke") \/ HasStep("archive-smoke") => BinaryWorks
    BY <1>1 DEF HasStep, Runs, SmokeHolds, BinaryWorks
<1>3. HasStep("verify-release") => TellsVersion
    BY <1>1, VerifiedTreesTellVersion
<1>4. ASSUME HasStep("verify-compat")
      PROVE  WorkflowSteps \subseteq tagged.steps /\ SmokedEverywhere
    <2>1. CompatHolds /\ WorkflowSteps \subseteq tagged.steps
        BY <1>1, <1>4, CompatFindsLostSteps
    <2>2. MatrixHolds(tagged.matrix) /\ MatrixHolds(tagged.testMatrix)
        BY <2>1 DEF CompatHolds, TestWorkflowHolds, ReleaseWorkflowHolds
    <2>3. SmokedEverywhere
        BY <2>2, MatricesNameAllRunners DEF SmokedEverywhere
    <2> QED
        BY <2>1, <2>3
<1> QED
    BY <1>1, <1>2, <1>3, <1>4 DEF NotesBuilt, HasStep, WorkflowSteps
-----------------------------------------------------------------------------
(* The steps of a release job.                                              *)

DistIsRecord == dist = [archives |-> dist.archives, sums |-> dist.sums, notes |-> dist.notes,
                        manifest |-> dist.manifest]

\* The checks passed stay passed, since a job does not change its tree.
LEMMA ChecksStayPassed ==
    ASSUME tagged' = tagged
    PROVE  /\ \A step : HasStep(step)' = HasStep(step)
           /\ Runs("verify-compat", CompatHolds)' = Runs("verify-compat", CompatHolds)
           /\ Runs("install-smoke", SmokeHolds)' = Runs("install-smoke", SmokeHolds)
           /\ Runs("archive-smoke", SmokeHolds)' = Runs("archive-smoke", SmokeHolds)
           /\ NotesBuilt' = NotesBuilt /\ NoteHolds' = NoteHolds /\ AlignmentHolds' = AlignmentHolds
           /\ SmokedEverywhere' = SmokedEverywhere /\ TellsVersion' = TellsVersion
           /\ BinaryWorks' = BinaryWorks
BY DEF Runs, HasStep, CompatHolds, DocHolds, TestWorkflowHolds, ReleaseWorkflowHolds,
       InstallSteps, SmokeHolds, NotesBuilt, NoteHolds, AlignmentHolds, WaveHolds, PinsHold,
       MarkerHolds, SmokedEverywhere, TellsVersion, BinaryWorks

\* What an upload says of the tree stays so while nothing else is uploaded.
LEMMA UploadsStaySound ==
    ASSUME ReleaseInv, tagged' = tagged, published' = published
    PROVE  UploadedTreesAreSound'
BY ChecksStayPassed DEF ReleaseInv, UploadedTreesAreSound

\* The archives stay verified while dist/ and the tree are left alone.
LEMMA ArchivesStayVerified ==
    ASSUME tagged' = tagged, dist' = dist
    PROVE  Verified' = Verified
<1>1. \A t \in ReleaseTargets : ArchiveHolds(t)' = ArchiveHolds(t)
    BY DEF ArchiveHolds, Listed
<1> QED
    BY <1>1, ChecksStayPassed DEF Verified

\* A step before the publish step leaves alone what earlier attempts have published.
LEMMA StepsBeforePublish ==
    ASSUME ReleaseInv, NEW step, NEW holds, JobGoto(step, holds), Checked', DistIsRecord',
           jobAt \notin {"publish", "done", "failed"}, step # "done"
    PROVE  ReleaseInv'
<1>1. tagged' = tagged /\ attempt' = attempt /\ published' = published /\ jobAt' \in {step, "failed"}
    BY DEF JobGoto
<1>2. UploadedTreesAreSound'
    BY <1>1, UploadsStaySound
<1>3. PublishedInTurn'
    BY <1>1 DEF ReleaseInv, PublishedInTurn
<1> QED
    BY <1>1, <1>2, <1>3 DEF ReleaseInv, DistIsRecord

\* The step that verifies the release has seen every archive to be whole and listed,
\* and has written their bytes into the manifest.
LEMMA VerifyReleaseStep ==
    ASSUME ReleaseInv, VerifyRelease
    PROVE  ReleaseInv'
<1> DEFINE holds == /\ NoteHolds /\ NotesHold(dist.notes) /\ AlignmentHolds
                    /\ \A t \in ReleaseTargets : ArchiveHolds(t)
<1>1. /\ JobGoto("archive", Runs("verify-release", holds)) /\ jobAt = "verify"
      /\ dist' = IF HasStep("verify-release") /\ holds
                 THEN [dist EXCEPT !.manifest = [t \in ReleaseTargets |-> dist.archives[t].bytes]]
                 ELSE dist
    BY DEF VerifyRelease
<1>2. DistIsRecord' /\ dist'.archives = dist.archives /\ dist'.sums = dist.sums
    BY <1>1 DEF ReleaseInv, DistIsRecord
<1>3. tagged' = tagged /\ jobAt' \in {"archive", "failed"}
    BY <1>1 DEF JobGoto
<1>4. jobAt' = "archive" /\ HasStep("verify-release") => Verified'
    <2> SUFFICES ASSUME jobAt' = "archive", HasStep("verify-release") PROVE Verified'
        OBVIOUS
    <2>1. holds
        BY <1>1 DEF JobGoto, Runs, HasStep
    <2>2. \A t \in ReleaseTargets : ArchiveHolds(t)' /\ dist'.manifest[t] = dist'.archives[t].bytes
        BY <1>1, <1>2, <2>1 DEF ReleaseInv, ArchiveHolds, Listed
    <2>3. NoteHolds' /\ AlignmentHolds'
        BY <1>3, <2>1, ChecksStayPassed
    <2> QED
        BY <2>2, <2>3 DEF Verified
<1>5. Checked'
    BY <1>1, <1>3, <1>4, ChecksStayPassed
       DEF ReleaseInv, Checked, AfterCompat, AfterInstall, AfterNotes, AfterVerify, AfterArchive
<1> HIDE DEF holds
<1> QED
    BY <1>1, <1>2, <1>5, StepsBeforePublish

\* An asset replaces that of an earlier attempt; after the last one the job is done.
LEMMA UploadStep ==
    ASSUME ReleaseInv, NEW a \in Assets, Upload(a)
    PROVE  ReleaseInv'
<1>1. /\ jobAt = "publish" /\ tagged' = tagged /\ attempt' = attempt /\ dist' = dist
      /\ published' = [published EXCEPT ![a] = Content(a)]
      /\ jobAt' = IF \A b \in DistFiles : published'[b] # <<>> /\ published'[b][1] = attempt
                  THEN "done" ELSE "publish"
    BY ReleaseAssumption DEF Upload, Content, Assets
<1>2. UploadedTreesAreSound'
    BY <1>1, CheckedTreesAreSound, ChecksStayPassed DEF ReleaseInv, AfterArchive, UploadedTreesAreSound
<1>3. Checked'
    BY <1>1, ArchivesStayVerified, ChecksStayPassed
       DEF ReleaseInv, Checked, AfterCompat, AfterInstall, AfterNotes, AfterVerify, AfterArchive
<1>4. PublishedInTurn'
    <2>1. \A b \in Assets : Content(b)' = Content(b)
        BY <1>1 DEF Content
    <2>2. Content(a) # <<>> /\ Content(a)[1] = attempt
        BY DEF Content
    <2>3. \A b \in Assets : published'[b] = IF b = a THEN Content(a) ELSE published[b]
        BY <1>1 DEF ReleaseInv, PublishedInTurn
    <2>4. DistFiles' = DistFiles
        BY <1>1 DEF DistFiles
    <2> QED
        BY <1>1, <2>1, <2>2, <2>3, <2>4 DEF ReleaseInv, PublishedInTurn
<1> QED
    BY <1>1, <1>2, <1>3, <1>4 DEF ReleaseInv

\* What the job has checked, built and published, for any targets and attempts, and
\* whichever jobs are lost.
THEOREM ReleaseInvariant == ReleaseSpec => []ReleaseInv
<1>1. ReleaseInit => ReleaseInv
    <2> SUFFICES ASSUME ReleaseInit PROVE ReleaseInv
        OBVIOUS
    <2>1. dist = [archives |-> dist.archives, sums |-> dist.sums, notes |-> dist.notes,
                  manifest |-> dist.manifest]
        BY DEF ReleaseInit, NoDist
    <2>2. Checked
        BY DEF ReleaseInit, Checked, AfterCompat, AfterInstall, AfterNotes, AfterVerify, AfterArchive
    <2>3. PublishedInTurn /\ UploadedTreesAreSound /\ attempt \in Nat \ {0}
        BY DEF ReleaseInit, PublishedInTurn, UploadedTreesAreSound
    <2> QED
        BY <2>1, <2>2, <2>3 DEF ReleaseInv
<1>2. ReleaseInv /\ [ReleaseNext]_releaseVars => ReleaseInv'
    <2> SUFFICES ASSUME ReleaseInv, [ReleaseNext]_releaseVars PROVE ReleaseInv'
        OBVIOUS
    <2> USE DEF AfterCompat, AfterInstall, AfterNotes, AfterVerify, AfterArchive
    <2>1. CASE VerifyCompat
        <3>1. JobGoto("install", Runs("verify-compat", CompatHolds)) /\ dist' = dist
            BY <2>1 DEF VerifyCompat
        <3>2. Checked'
            BY <3>1, ChecksStayPassed DEF JobGoto, Checked, ReleaseInv
        <3> QED
            BY <2>1, <3>1, <3>2, StepsBeforePublish DEF VerifyCompat, ReleaseInv, DistIsRecord
    <2>2. CASE GoInstall
        <3>1. /\ JobGoto("notes", Runs("install-smoke", HasStep("go-install") /\ SmokeHolds))
              /\ dist' = dist
            BY <2>2 DEF GoInstall
        <3>2. Checked'
            BY <2>2, <3>1, ChecksStayPassed DEF GoInstall, JobGoto, Checked, ReleaseInv, Runs
        <3> QED
            BY <2>2, <3>1, <3>2, StepsBeforePublish DEF GoInstall, ReleaseInv, DistIsRecord
    <2>3. CASE Notes
        <3>1. Checked' /\ DistIsRecord'
            BY <2>3, ChecksStayPassed DEF Notes, JobGoto, Checked, ReleaseInv, DistIsRecord
        <3> QED
            BY <2>3, <3>1, StepsBeforePublish DEF Notes
    <2>4. CASE Build
        <3>1. JobGoto("verify", TRUE) /\ jobAt = "build" /\ DistIsRecord'
            BY <2>4 DEF Build, ReleaseInv, DistIsRecord
        <3>2. Checked'
            BY <3>1, ChecksStayPassed DEF JobGoto, Checked, ReleaseInv
        <3> QED
            BY <3>1, <3>2, StepsBeforePublish
    <2>5. CASE ArchiveSmoke
        <3> DEFINE holds == Runs("archive-smoke", InstalledFrom(dist.archives[Smoked]) /\ SmokeHolds)
        <3>1. JobGoto("publish", holds) /\ jobAt = "archive" /\ dist' = dist
            BY <2>5 DEF ArchiveSmoke
        <3>2. tagged' = tagged /\ jobAt' \in {"publish", "failed"}
            BY <3>1 DEF JobGoto
        <3>3. jobAt' = "publish" => Runs("archive-smoke", SmokeHolds)
            BY <3>1 DEF JobGoto, Runs
        <3>4. Checked'
            BY <3>1, <3>2, <3>3, ArchivesStayVerified, ChecksStayPassed DEF Checked, ReleaseInv
        <3> HIDE DEF holds
        <3> QED
            BY <3>1, <3>4, StepsBeforePublish DEF ReleaseInv, DistIsRecord
    <2>6. CASE Lose
        <3>1. /\ jobAt' = "failed" /\ tagged' = tagged /\ attempt' = attempt /\ dist' = dist
              /\ published' = published
            BY <2>6 DEF Lose, JobGoto
        <3>2. \A a \in Assets : Content(a)' = Content(a)
            BY <3>1 DEF Content
        <3>3. PublishedInTurn' /\ Checked'
            BY <2>6, <3>1, <3>2 DEF Lose, ReleaseInv, PublishedInTurn, Checked
        <3> QED
            BY <3>1, <3>3, UploadsStaySound DEF ReleaseInv
    <2>7. CASE Rerun
        <3>1. /\ jobAt' = "compat" /\ tagged' = tagged /\ attempt' = attempt + 1 /\ dist' = NoDist
              /\ published' = published
            BY <2>7 DEF Rerun
        <3>2. PublishedInTurn' /\ Checked'
            BY <3>1 DEF ReleaseInv, PublishedInTurn, Checked
        <3>3. DistIsRecord'
            BY <3>1 DEF DistIsRecord, NoDist
        <3> QED
            BY <3>1, <3>2, <3>3, UploadsStaySound DEF ReleaseInv, DistIsRecord
    <2>8. CASE UNCHANGED releaseVars
        <3>1. \A a \in Assets : Content(a)' = Content(a)
            BY <2>8 DEF Content, releaseVars
        <3>2. tagged' = tagged /\ dist' = dist /\ jobAt' = jobAt /\ attempt' = attempt
              /\ published' = published
            BY <2>8 DEF releaseVars
        <3>3. DistFiles' = DistFiles
            BY <3>2 DEF DistFiles
        <3>4. PublishedInTurn' /\ Checked'
            BY <3>1, <3>2, <3>3, ArchivesStayVerified, ChecksStayPassed
               DEF ReleaseInv, PublishedInTurn, Checked
        <3> QED
            BY <3>2, <3>4, UploadsStaySound DEF ReleaseInv
    <2> QED
        BY <2>1, <2>2, <2>3, <2>4, <2>5, <2>6, <2>7, <2>8, VerifyReleaseStep, UploadStep
           DEF ReleaseNext
<1> QED
    BY <1>1, <1>2, PTL DEF ReleaseSpec

\* Once a job has published, the public archives are those that the public sums and
\* the public manifest name, and whole, for any targets and any number of attempts
\* that were lost before, as long as the tree's workflow has kept verify-compat or
\* verify-release (cmdVerifyRelease, verifyArchiveContents, verifyReleaseWorkflow).
THEOREM PublishedSetsAreOneBuild == ReleaseSpec => []PublishedSetIsOneBuild
<1>1. ReleaseInv => PublishedSetIsOneBuild
    <2> SUFFICES ASSUME ReleaseInv, jobAt = "done", NEW t \in ReleaseTargets,
                        HasStep("verify-compat") \/ HasStep("verify-release")
                 PROVE  /\ published[t][2].bytes = published["SHA256SUMS"][2][t]
                        /\ published[t][2].bytes = published["manifest"][2][t]
                        /\ StageFiles \subseteq published[t][2].files
        BY DEF PublishedSetIsOneBuild
    <2>1. Verified
        BY CompatFindsLostSteps
           DEF ReleaseInv, Checked, AfterCompat, AfterInstall, AfterNotes, AfterVerify, AfterArchive,
               HasStep, WorkflowSteps
    <2>2. DistFiles = Assets
        <3>1. \A u \in ReleaseTargets : dist.archives[u] # NoArchive
            BY <2>1 DEF Verified, ArchiveHolds
        <3>2. dist.manifest[t] # 0
            BY <2>1 DEF Verified, ArchiveHolds, Listed, Hash
        <3>3. dist.manifest # NoDist.manifest
            BY <3>2 DEF NoDist
        <3> QED
            BY <3>1, <3>3 DEF DistFiles, Assets
    <2>3. \A a \in Assets : published[a] = Content(a)
        BY <2>2 DEF ReleaseInv, PublishedInTurn
    <2>4. /\ published[t][2] = dist.archives[t]
          /\ published["SHA256SUMS"][2] = dist.sums /\ published["manifest"][2] = dist.manifest
        BY <2>3, ReleaseAssumption DEF Assets, Content
    <2> QED
        BY <2>1, <2>4 DEF Verified, ArchiveHolds, Hash, ContentsHold
<1> QED
    BY <1>1, ReleaseInvariant, PTL

\* Whatever flaws the tagged tree has, and whichever of its own checks its workflow
\* has lost, an upload says that the tree passes what the remaining steps look at;
\* as long as verify-compat is among them, that the tree has lost no step and is
\* sound (verifyReleaseWorkflow, verifyCompatibilityMatrixJob,
\* verifyReleaseAlignment, cmdVerifyInstall).  The proof uses no property of the
\* trees that the runs tag.
THEOREM UploadsAreOfSoundTrees == ReleaseSpec => []UploadedTreesAreSound
<1>1. ReleaseInv => UploadedTreesAreSound
    BY DEF ReleaseInv
<1> QED
    BY <1>1, ReleaseInvariant, PTL
=============================================================================
