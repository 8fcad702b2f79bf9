------------------------------ MODULE Pool_proofs ------------------------------
(***************************************************************************)
(* Proofs about the pool commands.  PoolRun: for every corpus, filter,     *)
(* thresholds and reports, and any number of sessions, kills and edits of  *)
(* the corpus.  Comparison: for every list of tools, targets, modes and    *)
(* counts, and any number of sessions and kills.                           *)
(***************************************************************************)
EXTENDS PoolRun, Comparison, CommandRunner, FiniteSetTheorems, SequenceTheorems, TLAPS

(* The entries of a session, and how they are counted. *)

\* The entries of a session are a sequence, whatever is asked for.
LEMMA EntriesAreASequence ==
    /\ Len(Entries) \in Nat
    /\ DOMAIN Entries = 1..Len(Entries)
    /\ Entries = [i \in 1..Len(Entries) |-> Entries[i]]
<1> DEFINE wanted == {n \in 1..Len(Corpus) : Asked = {} \/ Corpus[n] \in Asked}
           count == Cardinality(wanted)
           Nth(n) == CHOOSE i \in wanted : Cardinality({j \in wanted : j <= i}) = n
           last == IF Limit \in 1..(count - 1) THEN Limit ELSE count
           S == {Corpus[Nth(n)] : n \in 1..last}
<1>1. Len(Corpus) \in Nat
    BY PoolRunAssumption
<1>2. IsFiniteSet(wanted)
    <2>1. IsFiniteSet(1..Len(Corpus))
        BY <1>1, FS_Interval
    <2>2. wanted \in SUBSET (1..Len(Corpus))
        OBVIOUS
    <2> QED
        BY <2>1, <2>2, FS_Subset
<1>3. count \in Nat
    BY <1>2, FS_CardinalityType
<1>4. last \in Nat
    BY <1>3
<1>5. Entries = [n \in 1..last |-> Corpus[Nth(n)]]
    BY DEF Entries, FilterEntries
<1> HIDE DEF last, Nth
<1>6. Entries \in [1..last -> S]
    BY <1>5
<1>7. Entries \in Seq(S)
    BY <1>4, <1>6, SeqDef
<1> HIDE DEF S
<1> QED
    BY <1>7

\* When no row failed and none had an error, all have passed.
LEMMA AllHavePassed ==
    ASSUME NEW rs \in Seq(Rows), ~(Having("fail", rs) + Errored(rs) > 0)
    PROVE  \A i \in 1..Len(rs) : rs[i].status = "pass"
<1> DEFINE With(status) == {i \in 1..Len(rs) : rs[i].status = status}
<1>1. Len(rs) \in Nat
    OBVIOUS
<1>2. IsFiniteSet(1..Len(rs)) /\ Cardinality(1..Len(rs)) = Len(rs)
    <2> DEFINE last == Len(rs)
    <2>1. 1 \in Int /\ last \in Int
        BY <1>1
    <2> HIDE DEF last
    <2>2. IsFiniteSet(1..last) /\ Cardinality(1..last) = IF 1 > last THEN 0 ELSE last - 1 + 1
        BY <2>1, FS_Interval
    <2>3. last \in Nat
        BY <1>1 DEF last
    <2>4. IsFiniteSet(1..last) /\ Cardinality(1..last) = last
        BY <2>2, <2>3
    <2> QED
        BY <2>4 DEF last
<1>3. \A status : IsFiniteSet(With(status)) /\ Cardinality(With(status)) <= Len(rs)
    BY <1>2, FS_Subset
<1>4. \A status : Cardinality(With(status)) \in Nat
    BY <1>3, FS_CardinalityType
<1>5. Having("pass", rs) = Cardinality(With("pass")) /\ Having("fail", rs) = Cardinality(With("fail"))
    BY DEF Having
<1>6. Cardinality(With("pass")) = Len(rs)
    <2> HIDE DEF With
    <2> QED
        BY <1>1, <1>3, <1>4, <1>5 DEF Errored
<1>7. With("pass") = 1..Len(rs)
    <2>1. With("pass") \in SUBSET (1..Len(rs))
        OBVIOUS
    <2> HIDE DEF With
    <2> QED
        BY <1>2, <1>6, <2>1, FS_Subset
<1> QED
    BY <1>7

\* The numbers that have a lower bound are none below zero.
LEMMA MeasuredAreNaturals ==
    ASSUME NEW r \in Reports \cup FailedReports, NEW seconds \in Nat
    PROVE  /\ Metrics(r, seconds).executed \in Nat
           /\ Metrics(r, seconds).perSecond \in Nat
           /\ \A n \in AtMost \cup AtLeast : Metrics(r, seconds)[n] \in Int
<1> DEFINE ran == {i \in 1..Len(r.mutants) : r.mutants[i] \in Executed}
<1>1. r.executed \in Int /\ Len(r.mutants) \in Nat
    BY PoolRunAssumption
<1>2. Cardinality(ran) \in Nat
    <2>1. IsFiniteSet(1..Len(r.mutants))
        BY <1>1, FS_Interval
    <2>2. ran \in SUBSET (1..Len(r.mutants))
        OBVIOUS
    <2> QED
        BY <2>1, <2>2, FS_Subset, FS_CardinalityType
<1>3. ExecutedMutants(r) \in Nat
    <2>1. ExecutedMutants(r) = OrElse(r.executed, Cardinality(ran))
        BY DEF ExecutedMutants
    <2> HIDE DEF ran
    <2> QED
        BY <1>1, <1>2, <2>1 DEF OrElse
<1>4. \A n \in Nat : MutantsPerSecond(n, seconds) \in Nat
    BY DEF MutantsPerSecond
<1>5. r.peak \in Int
    BY PoolRunAssumption
<1> QED
    BY <1>3, <1>4, <1>5 DEF Metrics, AtMost, AtLeast

-----------------------------------------------------------------------------
(* What the session knows of the entry it is at.                            *)

Directory == [head : Heads, full : Files, partial : Files]

LEMMA AtEntry ==
    ASSUME PoolInv, NEW e \in ToSet(Corpus), NEW s \in Stages \cup {"record"}, AtStep(e, s)
    PROVE  /\ at[2] = s /\ at[1] \in 1..Len(Entries) /\ e = Entries[at[1]] /\ at # NoStep
           /\ row \in Rows /\ row.name = e /\ dir[e] \in Directory /\ session \in Nat
           /\ ref[e] \in Refs /\ kind \in {"benchmark", "smoke"}
<1>1. at[2] = s /\ at[1] \in 1..Len(Entries) /\ e = Entries[at[1]]
    BY DEF AtStep
<1>2. at # NoStep
    BY <1>1 DEF NoStep, None, Stages
<1>3. row \in Rows /\ row.name = e
    BY <1>1 DEF PoolInv, Making
<1>4. /\ dir[e] \in Directory /\ session \in Nat /\ ref[e] \in Refs
      /\ kind \in {"benchmark", "smoke"}
    BY DEF PoolInv, PoolTypeOK, Directory
<1> QED
    BY <1>1, <1>2, <1>3, <1>4

\* A step within an entry changes neither the order nor the rows before it.
LEMMA WithinEntry ==
    ASSUME PoolInv, at # NoStep, at[1] \in 1..Len(Entries),
           NEW step \in Stages \cup {"record"}, at' = <<at[1], step>>,
           UNCHANGED <<kind, ref, session, rows, resumed, summary, end>>,
           dir' \in [ToSet(Corpus) -> Directory], Making', Staged'
    PROVE  PoolInv'
<1>1. PoolTypeOK'
    BY DEF PoolInv, PoolTypeOK, Directory
<1>2. at' # NoStep
    BY DEF NoStep, None, Stages
<1>3. InOrder'
    BY <1>2 DEF PoolInv, InOrder
<1>4. AllHonest'
    BY DEF PoolInv, AllHonest, Honest
<1>5. PassesAreEarned' /\ SmokeTellsOwnRuns'
    BY DEF PoolInv, PassesAreEarned, SmokeTellsOwnRuns, PassesAreOfOwnRuns,
           SuccessPassedEveryEntry, Recorded
<1> QED
    BY <1>1, <1>3, <1>4, <1>5 DEF PoolInv

\* A new row.
LEMMA NewRows ==
    ASSUME NEW e \in ToSet(Corpus), ref[e] \in Refs, session \in Nat
    PROVE  /\ NewRow(e) \in Rows /\ NewRow(e).name = e /\ NewRow(e).ref = ref[e]
           /\ NewRow(e).status = "error" /\ NewRow(e).session = session
           /\ NewRow(e).exits.mutation = -1
BY DEF NewRow, Rows, Heads, Files

\* What a step may write into a row.
LEMMA RowFields ==
    ASSUME NEW r \in Rows
    PROVE  /\ \A c \in {"pending", "ok", "existing", "failed"} :
                 [r EXCEPT !.clone = c] \in Rows
           /\ \A h \in Heads : [r EXCEPT !.head = h] \in Rows
           /\ \A x \in {-1, 0, 1} : [r EXCEPT !.exits.baseline = x] \in Rows
           /\ \A x \in {-1, 0, 1} : [r EXCEPT !.exits.dry = x] \in Rows
           /\ \A x \in {-1, 0, 1}, n \in Nat :
                 [r EXCEPT !.exits.mutation = x, !.seconds = n] \in Rows
           /\ \A f \in Files : [r EXCEPT !.report = f] \in Rows
           /\ [r EXCEPT !.resumed = TRUE] \in Rows
<1> HIDE DEF Files, Heads
<1>1. /\ \A c \in {"pending", "ok", "existing", "failed"} : [r EXCEPT !.clone = c] \in Rows
      /\ \A h \in Heads : [r EXCEPT !.head = h] \in Rows
      /\ \A f \in Files : [r EXCEPT !.report = f] \in Rows
      /\ [r EXCEPT !.resumed = TRUE] \in Rows
    BY DEF Rows
<1>2. r.exits \in [{"baseline", "dry", "mutation"} -> {-1, 0, 1}]
    BY DEF Rows
<1>3. \A x \in {-1, 0, 1} : [r EXCEPT !.exits.baseline = x] \in Rows
    BY <1>2 DEF Rows
<1>4. \A x \in {-1, 0, 1} : [r EXCEPT !.exits.dry = x] \in Rows
    BY <1>2 DEF Rows
<1>5. \A x \in {-1, 0, 1}, n \in Nat : [r EXCEPT !.exits.mutation = x, !.seconds = n] \in Rows
    BY <1>2 DEF Rows
<1> QED
    BY <1>1, <1>3, <1>4, <1>5

-----------------------------------------------------------------------------
(* One lemma for each step within an entry.                                 *)

LEMMA StartEntryStep ==
    ASSUME PoolInv, NEW e \in ToSet(Corpus), StartEntry(e)
    PROVE  PoolInv'
<1> USE DEF StartEntry
<1>1. at[1] \in 1..Len(Entries) /\ e = Entries[at[1]] /\ at[2] = "start" /\ at # NoStep
    BY DEF AtStep, NoStep, None
<1>2. ref[e] \in Refs /\ session \in Nat /\ resumed \in Seq(Rows)
    BY DEF PoolInv, PoolTypeOK
<1>3. dir' \in [ToSet(Corpus) -> Directory]
    BY DEF PoolInv, PoolTypeOK, Directory
<1>4. CASE row' = NewRow(e) /\ Goto("clone")
    <2>1. /\ row' \in Rows /\ row'.name = e /\ row'.ref = ref[e] /\ row'.status = "error"
          /\ row'.session = session /\ row'.exits.mutation = -1
        BY <1>2, <1>4, NewRows
    <2>2. at' = <<at[1], "clone">>
        BY <1>4 DEF Goto
    <2>3. Making'
        BY <1>1, <2>1, <2>2 DEF Making, Stages
    <2>4. Staged'
        BY <2>2 DEF Staged, Stages
    <2> QED
        BY <1>1, <1>3, <2>2, <2>3, <2>4, WithinEntry DEF Stages
<1>5. ASSUME NEW i \in Resumed(e), row' = [resumed[i] EXCEPT !.resumed = TRUE], Goto("record")
      PROVE  PoolInv'
    <2>1. i \in 1..Len(resumed) /\ resumed[i] \in Rows /\ resumed[i].name = e
        BY <1>2, <1>5 DEF Resumed
    <2>2. row' \in Rows
        BY <1>5, <2>1, RowFields
    <2>3. \A f \in DOMAIN resumed[i] \ {"resumed"} : row'[f] = resumed[i][f]
        BY <1>5
    <2>4. /\ row'.name = e /\ row'.exits = resumed[i].exits /\ row'.status = resumed[i].status
          /\ row'.ref = resumed[i].ref /\ row'.report = resumed[i].report
          /\ row'.session = resumed[i].session /\ row'.seconds = resumed[i].seconds
        BY <2>1, <1>5 DEF Rows
    <2>5. Honest(resumed[i])
        BY <2>1 DEF PoolInv, AllHonest
    <2>6. Honest(row')
        BY <2>1, <2>4, <2>5 DEF Honest, Earned, OfOwnRun
    <2>7. at' = <<at[1], "record">>
        BY <1>5 DEF Goto
    <2>8. Making'
        BY <1>1, <2>2, <2>4, <2>6, <2>7 DEF Making, Stages, Honest
    <2>9. Staged'
        BY <2>7 DEF Staged, Stages
    <2> QED
        BY <1>1, <1>3, <2>7, <2>8, <2>9, WithinEntry
<1> QED
    BY <1>4, <1>5

LEMMA EnsureCloneStep ==
    ASSUME PoolInv, NEW e \in ToSet(Corpus), EnsureClone(e)
    PROVE  PoolInv'
<1> USE DEF EnsureClone
<1>1. /\ at[2] = "clone" /\ at[1] \in 1..Len(Entries) /\ e = Entries[at[1]] /\ at # NoStep
      /\ row \in Rows /\ row.name = e /\ dir[e] \in Directory
    BY AtEntry DEF Stages
<1>2. /\ row.session = session /\ row.status = "error" /\ row.ref = ref[e]
      /\ row.exits.mutation = -1
    BY <1>1 DEF PoolInv, Making, Stages
<1>3. dir \in [ToSet(Corpus) -> Directory]
    BY DEF PoolInv, PoolTypeOK, Directory
<1>4. PICK c \in {"ok", "existing", "failed"} : row' = [row EXCEPT !.clone = c]
    BY DEF PoolInv, PoolTypeOK
<1>5. row' \in Rows
    BY <1>1, <1>4, RowFields
<1>6. /\ row'.name = e /\ row'.exits = row.exits /\ row'.status = row.status
      /\ row'.ref = row.ref /\ row'.session = row.session
    BY <1>1, <1>4 DEF Rows
<1>7. dir' \in [ToSet(Corpus) -> Directory]
    BY <1>3 DEF Directory, Heads
<1>8. CASE Goto("checkout") /\ dir'[e].head # None
    <2>1. at' = <<at[1], "checkout">>
        BY <1>8 DEF Goto
    <2>2. Making'
        BY <1>1, <1>2, <1>5, <1>6, <2>1 DEF Making, Stages
    <2>3. Staged'
        BY <1>6, <1>8, <2>1 DEF Staged, Stages
    <2> QED
        BY <1>1, <1>7, <2>1, <2>2, <2>3, WithinEntry DEF Stages
<1>9. CASE Goto("record")
    <2>1. at' = <<at[1], "record">>
        BY <1>9 DEF Goto
    <2>2. Making'
        BY <1>1, <1>2, <1>5, <1>6, <2>1 DEF Making, Stages, Honest, Earned, OfOwnRun
    <2>3. Staged'
        BY <2>1 DEF Staged, Stages
    <2> QED
        BY <1>1, <1>7, <2>1, <2>2, <2>3, WithinEntry
<1>10. dir' = [dir EXCEPT ![e].head = "main"] => dir'[e].head # None
    BY <1>3 DEF Directory, None
<1> QED
    BY <1>8, <1>9, <1>10

LEMMA EnsureCheckoutStep ==
    ASSUME PoolInv, NEW e \in ToSet(Corpus), EnsureCheckout(e)
    PROVE  PoolInv'
<1> USE DEF EnsureCheckout
<1>1. /\ at[2] = "checkout" /\ at[1] \in 1..Len(Entries) /\ e = Entries[at[1]] /\ at # NoStep
      /\ row \in Rows /\ row.name = e /\ dir[e] \in Directory /\ ref[e] \in Refs
    BY AtEntry DEF Stages
<1>2. /\ row.session = session /\ row.status = "error" /\ row.ref = ref[e]
      /\ row.exits.mutation = -1 /\ dir[e].head # None
    BY <1>1 DEF PoolInv, Making, Staged, Stages
<1>3. dir \in [ToSet(Corpus) -> Directory]
    BY DEF PoolInv, PoolTypeOK, Directory
<1>4. CASE Fails(e) /\ dir' = dir
    <2>1. at' = <<at[1], "record">> /\ row' = row
        BY <1>4 DEF Goto, Fails
    <2>2. Making'
        BY <1>1, <1>2, <2>1 DEF Making, Stages, Honest, Earned, OfOwnRun
    <2>3. Staged'
        BY <2>1 DEF Staged, Stages
    <2> QED
        BY <1>1, <1>3, <1>4, <2>1, <2>2, <2>3, WithinEntry
<1>5. ASSUME NEW head \in Heads, row' = [row EXCEPT !.head = head], Goto("baseline"),
             dir' \in [ToSet(Corpus) -> Directory], dir'[e].head # None,
             kind = "benchmark" /\ ref[e] # None => dir'[e].head = ref[e]
      PROVE  PoolInv'
    <2>1. at' = <<at[1], "baseline">>
        BY <1>5 DEF Goto
    <2>2. row' \in Rows
        BY <1>1, <1>5, RowFields
    <2>3. /\ row'.name = e /\ row'.exits = row.exits /\ row'.status = row.status
          /\ row'.ref = row.ref /\ row'.session = row.session
        BY <1>1, <1>5 DEF Rows
    <2>4. Making'
        BY <1>1, <1>2, <2>1, <2>2, <2>3 DEF Making, Stages
    <2>5. Staged'
        BY <1>2, <1>5, <2>1, <2>3 DEF Staged, Stages
    <2> QED
        BY <1>1, <1>5, <2>1, <2>4, <2>5, WithinEntry DEF Stages
<1>6. CASE /\ kind = "smoke" \/ ref[e] = None
           /\ dir' = dir /\ row' = [row EXCEPT !.head = dir[e].head] /\ Goto("baseline")
    <2>1. dir[e].head \in Heads
        BY <1>1 DEF Directory
    <2> QED
        BY <1>2, <1>3, <1>5, <1>6, <2>1
<1>7. CASE /\ kind = "benchmark" /\ ref[e] # None /\ dir[e].head # "broken"
           /\ dir' = [dir EXCEPT ![e].head = ref[e]]
           /\ row' = [row EXCEPT !.head = ref[e]] /\ Goto("baseline")
    <2>1. ref[e] \in Heads
        BY <1>1 DEF Heads
    <2>2. dir' \in [ToSet(Corpus) -> Directory] /\ dir'[e].head = ref[e]
        BY <1>3, <1>7, <2>1 DEF Directory
    <2> QED
        BY <1>5, <1>7, <2>1, <2>2
<1> QED
    BY <1>4, <1>6, <1>7

LEMMA RunBaselineStep ==
    ASSUME PoolInv, NEW e \in ToSet(Corpus), RunBaseline(e)
    PROVE  PoolInv'
<1> USE DEF RunBaseline
<1>1. /\ at[2] = "baseline" /\ at[1] \in 1..Len(Entries) /\ e = Entries[at[1]] /\ at # NoStep
      /\ row \in Rows /\ row.name = e /\ dir[e] \in Directory
    BY AtEntry DEF Stages
<1>2. /\ row.session = session /\ row.status = "error" /\ row.ref = ref[e]
      /\ row.exits.mutation = -1 /\ dir[e].head # None
      /\ kind = "benchmark" /\ row.ref # None => dir[e].head = row.ref
    BY <1>1 DEF PoolInv, Making, Staged, Stages
<1>3. dir' \in [ToSet(Corpus) -> Directory]
    BY DEF PoolInv, PoolTypeOK, Directory
<1>4. PICK exit \in {0, 1} : Exits(e, exit, "dry") /\ row' = [row EXCEPT !.exits.baseline = exit]
    OBVIOUS
<1>5. row' \in Rows
    BY <1>1, <1>4, RowFields
<1>6. /\ row'.name = e /\ row'.exits.mutation = -1 /\ row'.exits.baseline = exit
      /\ row'.status = row.status /\ row'.ref = row.ref /\ row'.session = row.session
    BY <1>1, <1>2, <1>4 DEF Rows
<1>7. PICK step \in {"dry", "record"} :
         /\ at' = <<at[1], step>>
         /\ step = "dry" => (exit = 0 \/ kind # "benchmark") /\ (exit = 0 => dir[e].head # "broken")
    BY <1>4 DEF Exits, Goto
<1>8. Making'
    BY <1>1, <1>2, <1>5, <1>6, <1>7 DEF Making, Stages, Honest, Earned, OfOwnRun
<1>9. Staged'
    BY <1>2, <1>6, <1>7 DEF Staged, Stages
<1> QED
    BY <1>1, <1>3, <1>7, <1>8, <1>9, WithinEntry DEF Stages

\* A report of a failure is left where there was none.
LEMMA FailureLeftIsTyped ==
    ASSUME NEW e \in ToSet(Corpus), dir \in [ToSet(Corpus) -> Directory], session \in Nat
    PROVE  /\ FailureLeft(e) \in [ToSet(Corpus) -> Directory]
           /\ FailureLeft(e)[e].head = dir[e].head
<1>1. Failure \in Files
    BY DEF Failure, Files
<1> HIDE DEF Files
<1> QED
    BY <1>1 DEF FailureLeft, Directory

LEMMA RunDryRunStep ==
    ASSUME PoolInv, NEW e \in ToSet(Corpus), RunDryRun(e)
    PROVE  PoolInv'
<1> USE DEF RunDryRun
<1>1. /\ at[2] = "dry" /\ at[1] \in 1..Len(Entries) /\ e = Entries[at[1]] /\ at # NoStep
      /\ row \in Rows /\ row.name = e /\ session \in Nat
    BY AtEntry DEF Stages
<1>2. /\ row.session = session /\ row.status = "error" /\ row.ref = ref[e]
      /\ row.exits.mutation = -1 /\ dir[e].head # None
      /\ kind = "benchmark" => /\ row.ref # None => dir[e].head = row.ref
                               /\ row.exits.baseline = 0 /\ dir[e].head # "broken"
    BY <1>1 DEF PoolInv, Making, Staged, Stages
<1>3. dir \in [ToSet(Corpus) -> Directory]
    BY DEF PoolInv, PoolTypeOK, Directory
<1>4. PICK exit \in {0, 1} : /\ Exits(e, exit, "mutation")
                             /\ row' = [row EXCEPT !.exits.dry = exit]
                             /\ dir' = IF exit = 0 THEN dir ELSE FailureLeft(e)
    OBVIOUS
<1>5. row' \in Rows
    BY <1>1, <1>4, RowFields
<1>6. /\ row'.name = e /\ row'.exits.mutation = -1 /\ row'.exits.dry = exit
      /\ row'.exits.baseline = row.exits.baseline
      /\ row'.status = row.status /\ row'.ref = row.ref /\ row'.session = row.session
    BY <1>1, <1>2, <1>4 DEF Rows
<1>7. dir' \in [ToSet(Corpus) -> Directory] /\ dir'[e].head = dir[e].head
    BY <1>1, <1>3, <1>4, FailureLeftIsTyped
<1>8. PICK step \in {"mutation", "record"} :
         at' = <<at[1], step>> /\ (step = "mutation" => exit = 0 \/ kind # "benchmark")
    BY <1>4 DEF Exits, Goto
<1>9. Making'
    BY <1>1, <1>2, <1>5, <1>6, <1>8 DEF Making, Stages, Honest, Earned, OfOwnRun
<1>10. Staged'
    BY <1>2, <1>6, <1>7, <1>8 DEF Staged, Stages
<1> QED
    BY <1>1, <1>7, <1>8, <1>9, <1>10, WithinEntry DEF Stages

LEMMA RunMutationStep ==
    ASSUME PoolInv, NEW e \in ToSet(Corpus), RunMutation(e)
    PROVE  PoolInv'
<1> USE DEF RunMutation
<1>1. /\ at[2] = "mutation" /\ at[1] \in 1..Len(Entries) /\ e = Entries[at[1]] /\ at # NoStep
      /\ row \in Rows /\ row.name = e /\ session \in Nat /\ dir[e] \in Directory
    BY AtEntry DEF Stages
<1>2. /\ row.session = session /\ row.status = "error" /\ row.ref = ref[e]
      /\ dir[e].head # None
      /\ kind = "benchmark" => /\ row.ref # None => dir[e].head = row.ref
                               /\ row.exits.baseline = 0 /\ dir[e].head # "broken"
                               /\ row.exits.dry = 0
    BY <1>1 DEF PoolInv, Making, Staged, Stages
<1>3. dir \in [ToSet(Corpus) -> Directory]
    BY DEF PoolInv, PoolTypeOK, Directory
<1>4. PICK exit \in {0, 1}, seconds \in Seconds :
         \E r \in IF exit = 0 THEN Reports ELSE FailedReports :
            LET own == [is |-> "report", by |-> session, head |-> dir[e].head, says |-> r]
            IN  /\ Exits(e, exit, "report")
                /\ row' = [row EXCEPT !.exits.mutation = exit, !.seconds = seconds]
                /\ dir' \in IF exit = 0 THEN {[dir EXCEPT ![e].full = own]}
                            ELSE {dir, FailureLeft(e), [dir EXCEPT ![e].full = own],
                                  [dir EXCEPT ![e].full = [is |-> TornFile]],
                                  [dir EXCEPT ![e].partial = own]}
    OBVIOUS
<1>5. PICK r \in Reports \cup FailedReports :
         LET own == [is |-> "report", by |-> session, head |-> dir[e].head, says |-> r]
         IN  /\ Exits(e, exit, "report")
             /\ row' = [row EXCEPT !.exits.mutation = exit, !.seconds = seconds]
             /\ dir' \in IF exit = 0 THEN {[dir EXCEPT ![e].full = own]}
                         ELSE {dir, FailureLeft(e), [dir EXCEPT ![e].full = own],
                               [dir EXCEPT ![e].full = [is |-> TornFile]],
                               [dir EXCEPT ![e].partial = own]}
    BY <1>4
<1> DEFINE own == [is |-> "report", by |-> session, head |-> dir[e].head, says |-> r]
<1>6. own \in Files /\ [is |-> TornFile] \in Files
    BY <1>1 DEF Files, Directory
<1>7. own.is = "report" /\ own.by = session /\ own.head = dir[e].head
    OBVIOUS
<1>8. /\ dir' \in [ToSet(Corpus) -> Directory] /\ dir'[e].head = dir[e].head
      /\ exit = 0 => dir'[e].full = own
    <2> HIDE DEF own, Files
    <2>1. /\ FailureLeft(e) \in [ToSet(Corpus) -> Directory]
          /\ FailureLeft(e)[e].head = dir[e].head
        BY <1>1, <1>3, FailureLeftIsTyped
    <2>2. dir' \in IF exit = 0 THEN {[dir EXCEPT ![e].full = own]}
                  ELSE {dir, FailureLeft(e), [dir EXCEPT ![e].full = own],
                        [dir EXCEPT ![e].full = [is |-> TornFile]],
                        [dir EXCEPT ![e].partial = own]}
        BY <1>5 DEF own
    <2>3. \A f \in Files : /\ [dir EXCEPT ![e].full = f] \in [ToSet(Corpus) -> Directory]
                          /\ [dir EXCEPT ![e].full = f][e].head = dir[e].head
                          /\ [dir EXCEPT ![e].full = f][e].full = f
                          /\ [dir EXCEPT ![e].partial = f] \in [ToSet(Corpus) -> Directory]
                          /\ [dir EXCEPT ![e].partial = f][e].head = dir[e].head
        BY <1>3 DEF Directory
    <2>4. CASE exit = 0
        <3>1. dir' = [dir EXCEPT ![e].full = own]
            BY <2>2, <2>4
        <3> QED
            BY <1>6, <2>3, <3>1
    <2>5. CASE exit # 0
        <3>1. CASE dir' \in {dir, FailureLeft(e)}
            BY <1>3, <2>1, <2>5, <3>1
        <3>2. CASE dir' = [dir EXCEPT ![e].full = own]
            BY <1>6, <2>3, <2>5, <3>2
        <3>3. CASE dir' = [dir EXCEPT ![e].full = [is |-> TornFile]]
            BY <1>6, <2>3, <2>5, <3>3
        <3>4. CASE dir' = [dir EXCEPT ![e].partial = own]
            BY <1>6, <2>3, <2>5, <3>4
        <3> QED
            BY <2>2, <2>5, <3>1, <3>2, <3>3, <3>4
    <2> QED
        BY <2>4, <2>5
<1>9. row' \in Rows
    <2>1. seconds \in Nat
        BY PoolRunAssumption
    <2> QED
        BY <1>1, <1>5, <2>1, RowFields
<1>10. /\ row'.name = e /\ row'.exits.mutation = exit /\ row'.exits.dry = row.exits.dry
       /\ row'.exits.baseline = row.exits.baseline
       /\ row'.status = row.status /\ row'.ref = row.ref /\ row'.session = row.session
    BY <1>1, <1>5 DEF Rows
<1>11. PICK step \in {"report", "record"} :
          /\ at' = <<at[1], step>>
          /\ step = "report" => exit = 0 \/ kind # "benchmark"
          /\ step = "record" => kind = "benchmark"
    BY <1>5 DEF Exits, Goto
<1> HIDE DEF own
<1>12. Making'
    BY <1>1, <1>2, <1>9, <1>10, <1>11 DEF Making, Stages, Honest, Earned
<1>13. Staged'
    BY <1>2, <1>7, <1>8, <1>10, <1>11 DEF Staged, Stages
<1> QED
    BY <1>1, <1>8, <1>11, <1>12, <1>13, WithinEntry DEF Stages

\* A report that is judged to pass has earned it.
LEMMA JudgedRows ==
    ASSUME row \in Rows, NEW e \in ToSet(Corpus), row.name = e,
           NEW report \in Files, report.is = "report", report.by = row.session,
           report.head \notin {None, "broken"}, row.ref # None => report.head = row.ref,
           row.exits.baseline = 0, row.exits.dry = 0, row.exits.mutation = 0
    PROVE  Judged(e, report) \in Rows /\ Judged(e, report).name = e /\ Earned(Judged(e, report))
<1> DEFINE m == Metrics(report.says, row.seconds)
           checks == EvaluateThresholds(m, Thresholds[e])
           status == IF \E c \in checks : ~c.pass THEN "fail" ELSE "pass"
           r == Judged(e, report)
<1>1. r = [row EXCEPT !.report = report, !.checks = checks, !.status = status]
    BY DEF Judged
<1>2. report.says \in Reports \cup FailedReports
    BY DEF Files, NoReport, TornFile, None
<1>3. row.seconds \in Nat
    BY DEF Rows
<1>4. /\ m.executed \in Nat /\ m.perSecond \in Nat
      /\ \A n \in AtMost \cup AtLeast : m[n] \in Int
    BY <1>2, <1>3, MeasuredAreNaturals
<1> HIDE DEF m
<1>5. checks \in SUBSET [name : AtMost \cup AtLeast, pass : BOOLEAN]
    <2> DEFINE within(n) == IF n \in AtMost THEN m[n] <= Thresholds[e][n]
                                            ELSE m[n] >= Thresholds[e][n]
    <2>1. ASSUME NEW n \in AtMost \cup AtLeast PROVE within(n) \in BOOLEAN
        <3>1. m[n] \in Int /\ Thresholds[e][n] \in Int
            BY <1>4, PoolRunAssumption
        <3>2. \A x, y \in Int : (x <= y) \in BOOLEAN /\ (x >= y) \in BOOLEAN
            OBVIOUS
        <3>3. CASE n \in AtMost
            BY <3>1, <3>2, <3>3
        <3>4. CASE n \notin AtMost
            BY <3>1, <3>2, <3>4
        <3> QED
            BY <3>3, <3>4
    <2>2. checks = {[name |-> n, pass |-> within(n)] :
                      n \in {n \in AtMost \cup AtLeast : Thresholds[e][n] > 0}}
        BY DEF EvaluateThresholds
    <2> HIDE DEF within, checks
    <2>3. ASSUME NEW c \in checks PROVE c \in [name : AtMost \cup AtLeast, pass : BOOLEAN]
        <3>1. PICK n \in AtMost \cup AtLeast : c = [name |-> n, pass |-> within(n)]
            BY <2>2, <2>3
        <3> QED
            BY <2>1, <3>1
    <2> QED
        BY <2>3
<1>6. status \in {"pass", "fail"}
    OBVIOUS
<1>7. status = "pass" =>
         /\ \A n \in AtMost : Thresholds[e][n] > 0 => m[n] <= Thresholds[e][n]
         /\ \A n \in AtLeast : Thresholds[e][n] > 0 => m[n] >= Thresholds[e][n]
    <2> SUFFICES ASSUME status = "pass",
                        NEW n \in AtMost \cup AtLeast, Thresholds[e][n] > 0
                 PROVE  IF n \in AtMost THEN m[n] <= Thresholds[e][n]
                                        ELSE m[n] >= Thresholds[e][n]
        BY DEF AtMost, AtLeast
    <2> DEFINE within == IF n \in AtMost THEN m[n] <= Thresholds[e][n]
                                         ELSE m[n] >= Thresholds[e][n]
    <2>1. [name |-> n, pass |-> within] \in checks
        BY DEF EvaluateThresholds
    <2> QED
        BY <2>1
<1>8. \A n \in AtLeast : m[n] >= Thresholds[e][n] \/ Thresholds[e][n] > 0
    BY <1>4, PoolRunAssumption DEF AtLeast
<1> HIDE DEF checks, status
<1>9. r \in Rows
    BY <1>1, <1>5, <1>6 DEF Rows
<1>10. /\ r.name = e /\ r.status = status /\ r.report = report /\ r.seconds = row.seconds
       /\ r.exits = row.exits /\ r.session = row.session /\ r.ref = row.ref
    BY <1>1 DEF Rows
<1>11. row.exits = [s \in {"baseline", "dry", "mutation"} |-> 0]
    BY DEF Rows
<1>12. Metrics(r.report.says, r.seconds) = m
    BY <1>10 DEF m
<1> HIDE DEF r
<1>13. Earned(r)
    BY <1>7, <1>8, <1>10, <1>11, <1>12 DEF Earned
<1> QED
    BY <1>9, <1>10, <1>13 DEF r

\* A session that stops keeps the rows it has, or none.
LEMMA Stopping ==
    ASSUME PoolInv, at # NoStep, NEW how, how # "ok", Stop(how),
           UNCHANGED <<kind, ref, session, summary>>,
           dir' \in [ToSet(Corpus) -> Directory], rows' \in {rows, <<>>}
    PROVE  PoolInv'
<1> USE DEF Stop
<1>1. PoolTypeOK'
    <2>1. rows' \in Seq(Rows) /\ resumed' \in Seq(Rows)
        BY EmptySeq DEF PoolInv, PoolTypeOK
    <2> QED
        BY <2>1 DEF PoolInv, PoolTypeOK, Directory
<1>2. InOrder' /\ Making' /\ Staged'
    BY DEF InOrder, Making, Staged, NoStep, Stages, None
<1>3. AllHonest'
    BY DEF PoolInv, AllHonest, Honest
<1>4. Recorded' \subseteq Recorded
    <2>1. ToSet(rows') \subseteq ToSet(rows)
        BY DEF ToSet
    <2> QED
        BY <2>1 DEF Recorded
<1>5. PassesAreEarned' /\ SmokeTellsOwnRuns'
    <2>1. end' # "ok" /\ kind' = kind
        OBVIOUS
    <2>2. \A r \in Recorded' : Earned(r) /\ (kind = "smoke" => OfOwnRun(r))
        BY <1>4 DEF PoolInv, PassesAreEarned, SmokeTellsOwnRuns, PassesAreOfOwnRuns
    <2> QED
        BY <2>1, <2>2 DEF PassesAreEarned, SmokeTellsOwnRuns, PassesAreOfOwnRuns,
                          SuccessPassedEveryEntry
<1> QED
    BY <1>1, <1>2, <1>3, <1>5 DEF PoolInv

LEMMA ApplyReportStep ==
    ASSUME PoolInv, NEW e \in ToSet(Corpus), ApplyReport(e)
    PROVE  PoolInv'
<1> USE DEF ApplyReport
<1>1. /\ at[2] = "report" /\ at[1] \in 1..Len(Entries) /\ e = Entries[at[1]] /\ at # NoStep
      /\ row \in Rows /\ row.name = e /\ session \in Nat /\ dir[e] \in Directory
      /\ kind \in {"benchmark", "smoke"}
    BY AtEntry DEF Stages
<1>2. /\ row.session = session /\ row.status = "error"
      /\ dir[e].head # None
      /\ kind = "benchmark" => /\ row.ref # None => dir[e].head = row.ref
                               /\ row.exits.baseline = 0 /\ dir[e].head # "broken"
                               /\ row.exits.dry = 0 /\ row.exits.mutation = 0
      /\ row.exits.mutation = 0 =>
            dir[e].full.is = "report" /\ dir[e].full.by = session /\ dir[e].full.head = dir[e].head
    BY <1>1 DEF PoolInv, Making, Staged, Stages
<1>3. dir' \in [ToSet(Corpus) -> Directory]
    BY DEF PoolInv, PoolTypeOK, Directory
<1>4. dir[e].full \in Files
    BY <1>1 DEF Directory
<1>5. ASSUME row' \in Rows, row'.name = e, Honest(row'), Goto("record"), UNCHANGED <<end, resumed>>
      PROVE  PoolInv'
    <2>1. at' = <<at[1], "record">>
        BY <1>5 DEF Goto
    <2>2. Making'
        BY <1>1, <1>5, <2>1 DEF Making, Stages, Honest
    <2>3. Staged'
        BY <2>1 DEF Staged, Stages
    <2> QED
        BY <1>1, <1>3, <1>5, <2>1, <2>2, <2>3, WithinEntry
<1>6. CASE kind = "smoke" /\ Found(e).is = TornFile
    <2>1. Stop("error")
        BY <1>6
    <2> QED
        BY <1>1, <1>3, <2>1, Stopping
<1>7. CASE kind = "smoke" /\ Found(e).is # TornFile
    <2>1. /\ row' = [row EXCEPT !.report = dir[e].full] /\ Goto("record")
          /\ UNCHANGED <<end, resumed>>
        BY <1>7 DEF Found
    <2>2. row' \in Rows
        BY <1>1, <1>4, <2>1, RowFields
    <2>3. /\ row'.name = e /\ row'.exits = row.exits /\ row'.status = row.status
          /\ row'.report = dir[e].full /\ row'.session = row.session
        BY <1>1, <2>1 DEF Rows
    <2>4. Honest(row')
        BY <1>2, <2>3 DEF Honest, Earned, OfOwnRun
    <2> QED
        BY <1>5, <2>1, <2>2, <2>3, <2>4
<1>8. CASE kind = "benchmark"
    <2>1. Found(e) = dir[e].full /\ Found(e).is = "report"
        BY <1>2, <1>8 DEF Found, NoReport, None
    <2>2. row' = Judged(e, dir[e].full) /\ Goto("record") /\ UNCHANGED <<end, resumed>>
        BY <1>8, <2>1
    <2>3. row' \in Rows /\ row'.name = e /\ Earned(row')
        <3>1. /\ dir[e].full.is = "report" /\ dir[e].full.by = row.session
              /\ dir[e].full.head \notin {None, "broken"}
              /\ row.ref # None => dir[e].full.head = row.ref
            BY <1>2, <1>8
        <3> QED
            BY <1>1, <1>2, <1>4, <1>8, <2>2, <3>1, JudgedRows
    <2> QED
        BY <1>5, <1>8, <2>2, <2>3 DEF Honest
<1> QED
    BY <1>1, <1>6, <1>7, <1>8

\* What a session and its summary have recorded.
LEMMA RecordedRows ==
    PoolTypeOK' /\ AllHonest' /\ kind' = kind => \A r \in Recorded' : Honest(r)
<1> SUFFICES ASSUME PoolTypeOK', AllHonest', kind' = kind, NEW r \in Recorded'
             PROVE  Honest(r)
    OBVIOUS
<1>1. CASE r \in ToSet(rows')
    <2>1. rows' \in Seq(Rows)
        BY DEF PoolTypeOK
    <2>2. PICK i \in DOMAIN rows' : r = rows'[i]
        BY <1>1 DEF ToSet
    <2> QED
        BY <2>1, <2>2 DEF AllHonest, Honest
<1>2. CASE summary' # TornFile /\ r \in ToSet(summary')
    <2>1. summary' \in Seq(Rows)
        BY <1>2 DEF PoolTypeOK
    <2>2. PICK i \in DOMAIN summary' : r = summary'[i]
        BY <1>2 DEF ToSet
    <2> QED
        BY <1>2, <2>1, <2>2 DEF AllHonest, Honest
<1> QED
    BY <1>1, <1>2 DEF Recorded

LEMMA RecordStep ==
    ASSUME PoolInv, NEW e \in ToSet(Corpus), Record(e)
    PROVE  PoolInv'
<1> USE DEF Record
<1>1. /\ at[2] = "record" /\ at[1] \in 1..Len(Entries) /\ e = Entries[at[1]] /\ at # NoStep
      /\ row \in Rows /\ row.name = e
    BY AtEntry
<1>2. Honest(row)
    BY <1>1 DEF PoolInv, Making
<1>3. /\ rows \in Seq(Rows) /\ Len(rows) = at[1] - 1 /\ end = None
      /\ \A i \in 1..Len(rows) : rows[i].name = Entries[i]
    BY <1>1 DEF PoolInv, PoolTypeOK, InOrder
<1>4. \A i \in 1..Len(rows) : Honest(rows[i])
    BY DEF PoolInv, AllHonest
<1>5. CASE /\ at' = <<at[1] + 1, "start">> /\ UNCHANGED <<end, resumed>>
           /\ rows' = Append(rows, row)
           /\ summary' = IF kind = "benchmark" THEN rows' ELSE summary
    <2>1. /\ rows' \in Seq(Rows) /\ Len(rows') = at[1]
          /\ \A i \in 1..Len(rows') : rows'[i].name = Entries[i] /\ Honest(rows'[i])
        BY <1>1, <1>2, <1>3, <1>4, <1>5
    <2>2. at' # NoStep
        BY <1>1, <1>5 DEF NoStep, None
    <2>3. PoolTypeOK'
        BY <1>1, <1>5, <2>1, EntriesAreASequence DEF PoolInv, PoolTypeOK
    <2>4. InOrder'
        BY <1>1, <1>3, <1>5, <2>1 DEF InOrder
    <2>5. AllHonest'
        BY <1>5, <2>1 DEF PoolInv, AllHonest, Honest
    <2>6. Making' /\ Staged'
        BY <1>5 DEF Making, Staged, Stages
    <2>7. PassesAreEarned' /\ SmokeTellsOwnRuns'
        <3>1. \A r \in Recorded' : Honest(r)
            BY <2>3, <2>5, RecordedRows
        <3>2. end' = None /\ kind' = kind
            BY <1>3, <1>5
        <3> QED
            BY <3>1, <3>2 DEF PassesAreEarned, SmokeTellsOwnRuns, PassesAreOfOwnRuns,
                              SuccessPassedEveryEntry, Honest, None
    <2> QED
        BY <2>3, <2>4, <2>5, <2>6, <2>7 DEF PoolInv
<1>6. CASE kind = "benchmark" /\ summary' = TornFile /\ Stop("killed") /\ rows' = <<>>
    <2> USE DEF Stop
    <2>1. PoolTypeOK'
        BY <1>6 DEF PoolInv, PoolTypeOK
    <2>2. InOrder' /\ Making' /\ Staged'
        BY <1>6 DEF InOrder, Making, Staged, NoStep, Stages, None
    <2>3. AllHonest'
        BY <1>6 DEF AllHonest
    <2>4. Recorded' = {}
        BY <1>6 DEF Recorded, ToSet
    <2>5. PassesAreEarned' /\ SmokeTellsOwnRuns'
        BY <1>6, <2>4 DEF PassesAreEarned, SmokeTellsOwnRuns, PassesAreOfOwnRuns,
                          SuccessPassedEveryEntry
    <2> QED
        BY <2>1, <2>2, <2>3, <2>5 DEF PoolInv
<1> QED
    BY <1>5, <1>6

-----------------------------------------------------------------------------
(* The steps of a session as a whole.                                       *)

LEMMA OpenStep ==
    ASSUME PoolInv, Open
    PROVE  PoolInv'
<1> USE DEF Open
<1>1. /\ PoolTypeOK /\ AllHonest
      /\ rows' = <<>> /\ UNCHANGED <<kind, ref, dir, summary>> /\ session' \in Nat
    BY DEF PoolInv, PoolTypeOK
<1>2. CASE Stop("error")
    <2>1. at' = NoStep /\ resumed' = <<>> /\ end' = "error"
        BY <1>2 DEF Stop
    <2>2. PoolTypeOK'
        BY <1>1, <2>1 DEF PoolTypeOK
    <2>3. InOrder' /\ Making' /\ Staged'
        BY <2>1 DEF InOrder, Making, Staged, NoStep, Stages, None
    <2>4. AllHonest'
        BY <1>1, <2>1 DEF AllHonest, Honest
    <2>5. PassesAreEarned' /\ SmokeTellsOwnRuns'
        BY <1>1, <2>1, <2>2, <2>4, RecordedRows
           DEF PassesAreEarned, SmokeTellsOwnRuns, PassesAreOfOwnRuns, SuccessPassedEveryEntry,
               Honest
    <2> QED
        BY <2>2, <2>3, <2>4, <2>5 DEF PoolInv
<1>3. CASE /\ at' = <<1, "start">> /\ end' = None
           /\ resumed' = <<>> \/ (summary # TornFile /\ resumed' = summary)
    <2>1. PoolTypeOK'
        <3>1. rows' \in Seq(Rows) /\ resumed' \in Seq(Rows)
            BY <1>1, <1>3, EmptySeq DEF PoolTypeOK
        <3>2. at' \in (1..(Len(Entries) + 1)) \X {"start"}
            BY <1>3, EntriesAreASequence
        <3> QED
            BY <1>1, <3>1, <3>2 DEF PoolTypeOK
    <2>2. InOrder' /\ Making' /\ Staged'
        BY <1>1, <1>3 DEF InOrder, Making, Staged, Stages
    <2>3. AllHonest'
        BY <1>1, <1>3 DEF AllHonest, Honest
    <2>4. PassesAreEarned' /\ SmokeTellsOwnRuns'
        BY <1>1, <1>3, <2>1, <2>3, RecordedRows
           DEF PassesAreEarned, SmokeTellsOwnRuns, PassesAreOfOwnRuns, SuccessPassedEveryEntry,
               Honest, None
    <2> QED
        BY <2>1, <2>2, <2>3, <2>4 DEF PoolInv
<1> QED
    BY <1>2, <1>3

LEMMA FinishStep ==
    ASSUME PoolInv, Finish
    PROVE  PoolInv'
<1> USE DEF Finish
<1>1. /\ rows \in Seq(Rows) /\ Len(rows) = Len(Entries)
      /\ \A i \in 1..Len(rows) : rows[i].name = Entries[i]
    <2>1. at # NoStep
        BY EntriesAreASequence DEF NoStep, None
    <2> QED
        BY <2>1, EntriesAreASequence DEF PoolInv, PoolTypeOK, InOrder
<1>2. /\ at' = NoStep /\ resumed' = <<>> /\ summary' = rows
      /\ UNCHANGED <<kind, ref, session, rows, dir>>
    BY DEF Stop
<1>3. PoolTypeOK'
    BY <1>1, <1>2 DEF PoolInv, PoolTypeOK
<1>4. InOrder' /\ Making' /\ Staged'
    BY <1>2 DEF InOrder, Making, Staged, NoStep, Stages, None
<1>5. AllHonest'
    BY <1>2 DEF PoolInv, AllHonest, Honest
<1>6. SuccessPassedEveryEntry'
    <2> SUFFICES ASSUME kind = "benchmark", end' = "ok"
                 PROVE  /\ Len(rows) = Len(Entries) /\ summary' = rows
                        /\ \A i \in 1..Len(rows) :
                              rows[i].name = Entries[i] /\ rows[i].status = "pass"
        BY <1>2 DEF SuccessPassedEveryEntry
    <2>1. ~(Having("fail", rows) + Errored(rows) > 0)
        BY DEF Stop
    <2> QED
        BY <1>1, <1>2, <2>1, AllHavePassed
<1>7. [i \in 1..Len(summary') |-> summary'[i].name] = Entries
    BY <1>1, <1>2, EntriesAreASequence
<1>8. PassesAreEarned' /\ SmokeTellsOwnRuns'
    <2>1. \A r \in Recorded' : Honest(r)
        BY <1>2, <1>3, <1>5, RecordedRows
    <2> QED
        BY <1>2, <1>6, <1>7, <2>1
           DEF PassesAreEarned, SmokeTellsOwnRuns, PassesAreOfOwnRuns, Honest
<1> QED
    BY <1>3, <1>4, <1>5, <1>8 DEF PoolInv

LEMMA KillSessionStep ==
    ASSUME PoolInv, KillSession
    PROVE  PoolInv'
<1> USE DEF KillSession
<1>1. dir \in [ToSet(Corpus) -> Directory]
    BY DEF PoolInv, PoolTypeOK, Directory
<1>2. dir' \in [ToSet(Corpus) -> Directory]
    BY <1>1 DEF Directory, Heads
<1> QED
    BY <1>2, Stopping

LEMMA EditCorpusStep ==
    ASSUME PoolInv, NEW e \in ToSet(Corpus), EditCorpus(e)
    PROVE  PoolInv'
<1> USE DEF EditCorpus
<1>1. PoolTypeOK'
    BY DEF PoolInv, PoolTypeOK
<1>2. InOrder' /\ Making' /\ Staged'
    BY DEF InOrder, Making, Staged, NoStep, Stages, None
<1>3. AllHonest'
    BY DEF PoolInv, AllHonest, Honest
<1>4. PassesAreEarned' /\ SmokeTellsOwnRuns'
    BY DEF PoolInv, PassesAreEarned, SmokeTellsOwnRuns, PassesAreOfOwnRuns,
           SuccessPassedEveryEntry, Recorded
<1> QED
    BY <1>1, <1>2, <1>3, <1>4 DEF PoolInv

LEMMA Stuttering == PoolInv /\ UNCHANGED poolVars => PoolInv'
BY DEF PoolInv, PoolTypeOK, InOrder, AllHonest, Honest, Making, Staged, PassesAreEarned,
       SmokeTellsOwnRuns, PassesAreOfOwnRuns, SuccessPassedEveryEntry, Recorded, poolVars

-----------------------------------------------------------------------------
(* The theorems.                                                            *)

\* The inductive invariant of benchmarks and smokes: what the row in the making
\* tells of its clone and its report, and what every recorded row tells of its run
\* (benchmarkSession.run, RunSmoke).
THEOREM PoolInvariant == PoolSpec => []PoolInv
<1>1. PoolInit => PoolInv
    <2> SUFFICES ASSUME PoolInit PROVE PoolInv
        OBVIOUS
    <2> USE DEF PoolInit
    <2>1. PoolTypeOK
        BY PoolRunAssumption DEF PoolTypeOK, Heads, Files
    <2>2. InOrder /\ Making /\ Staged /\ AllHonest
        BY DEF InOrder, Making, Staged, AllHonest, NoStep, Stages, None
    <2>3. Recorded = {}
        BY DEF Recorded, ToSet
    <2>4. PassesAreEarned /\ SmokeTellsOwnRuns
        BY <2>3 DEF PassesAreEarned, SmokeTellsOwnRuns, PassesAreOfOwnRuns,
                    SuccessPassedEveryEntry, None
    <2> QED
        BY <2>1, <2>2, <2>4 DEF PoolInv
<1>2. PoolInv /\ [PoolNext]_poolVars => PoolInv'
    <2> SUFFICES ASSUME PoolInv, [PoolNext]_poolVars PROVE PoolInv'
        OBVIOUS
    <2>1. CASE Open \/ Finish \/ KillSession \/ UNCHANGED poolVars
        BY <2>1, OpenStep, FinishStep, KillSessionStep, Stuttering
    <2>2. ASSUME NEW e \in ToSet(Corpus),
                 \/ StartEntry(e) \/ EnsureClone(e) \/ EnsureCheckout(e) \/ RunBaseline(e)
                 \/ RunDryRun(e) \/ RunMutation(e) \/ ApplyReport(e) \/ Record(e)
                 \/ EditCorpus(e)
          PROVE  PoolInv'
        BY <2>2, StartEntryStep, EnsureCloneStep, EnsureCheckoutStep, RunBaselineStep,
           RunDryRunStep, RunMutationStep, ApplyReportStep, RecordStep, EditCorpusStep
    <2> QED
        BY <2>1, <2>2 DEF PoolNext
<1> QED
    BY <1>1, <1>2, PTL DEF PoolSpec

\* No entry passes, and no benchmark succeeds, on less than runs of its own, on the
\* ref asked for and within the thresholds, for any corpus, filter and thresholds
\* and whatever earlier sessions left behind (runEntry, resultForEntry, finish).
THEOREM PassesAreAlwaysEarned == PoolSpec => []PassesAreEarned
<1>1. PoolInv => PassesAreEarned
    BY DEF PoolInv
<1> QED
    BY <1>1, PoolInvariant, PTL

\* What a smoke tells of a repository whose run succeeded was found by that run,
\* and its summary has a row for each repository, in order (RunSmoke).
THEOREM SmokesTellOwnRuns == PoolSpec => []SmokeTellsOwnRuns
<1>1. PoolInv => SmokeTellsOwnRuns
    BY DEF PoolInv
<1> QED
    BY <1>1, PoolInvariant, PTL

-----------------------------------------------------------------------------
(* Comparison *)

(* Rows, and what the parsers make of counts. *)

LEMMA ListsGrow ==
    ASSUME NEW list, IsList(list), NEW r
    PROVE  /\ IsList(Append(list, r))
           /\ Len(Append(list, r)) = Len(list) + 1
           /\ \A i \in 1..Len(list) : Append(list, r)[i] = list[i]
           /\ Append(list, r)[Len(list) + 1] = r
<1> DEFINE S == {list[i] : i \in 1..Len(list)} \cup {r}
<1>1. list \in [1..Len(list) -> S] /\ Len(list) \in Nat
    BY DEF IsList
<1>2. list \in Seq(S)
    BY <1>1, SeqDef
<1>3. r \in S
    OBVIOUS
<1> HIDE DEF S
<1>4. /\ Append(list, r) \in Seq(S) /\ Len(Append(list, r)) = Len(list) + 1
      /\ \A i \in 1..Len(list) : Append(list, r)[i] = list[i]
      /\ Append(list, r)[Len(list) + 1] = r
    BY <1>2, <1>3, AppendProperties
<1> DEFINE longer == Append(list, r)
<1> HIDE DEF longer
<1>5. longer \in Seq(S) /\ Len(longer) = Len(list) + 1
    BY <1>4 DEF longer
<1>6. IsList(longer)
    BY <1>1, <1>5, LenProperties DEF IsList
<1>7. IsList(Append(list, r))
    BY <1>6 DEF longer
<1> QED
    BY <1>4, <1>7

LEMMA HonestRowsGrow ==
    ASSUME NEW list, HonestRows(list), NEW r, HonestRow(r)
    PROVE  HonestRows(Append(list, r))
<1>1. IsList(list)
    BY DEF HonestRows
<1>2. \A i \in 1..Len(Append(list, r)) : i \in 1..Len(list) \/ i = Len(list) + 1
    BY <1>1, ListsGrow DEF IsList
<1> QED
    BY <1>1, <1>2, ListsGrow DEF HonestRows

LEMMA NoRowsAreHonest == HonestRows(<<>>)
BY DEF HonestRows, IsList

\* A tool has been given counts without a decided mutant only when the parser warns of
\* it or, for Gremlins, has a status for it (denominatorHealth, ParseGremlins).
LEMMA ParsersWarn ==
    ASSUME NEW t \in {"cervomut", "gremlins", "gomu", "go-mutesting"}, NEW c \in Counts,
           Parse(t, c).counts.killed + Parse(t, c).counts.survived = 0,
           Sum(Parse(t, c).counts) > 0
    PROVE  \/ "no_effective_mutants" \in Parse(t, c).warnings
           \/ t = "gremlins" /\ Parse(t, c).status # "ok"
<1>1. c \in [killed : Nat, survived : Nat, notCovered : Nat, timedOut : Nat, errors : Nat]
    BY ComparisonAssumption
<1> DEFINE d == [c EXCEPT !.notCovered = 0]
<1>2. /\ d.killed = c.killed /\ d.survived = c.survived /\ d.notCovered = 0
      /\ d.timedOut = c.timedOut /\ d.errors = c.errors
    BY <1>1
<1>3. \A n, total, status :
          total \in Nat /\ total > 0 /\ n.killed + n.survived = 0 =>
              "no_effective_mutants" \in Parsed(n, total, status).warnings
    BY DEF Parsed, DenominatorWarnings
<1>4. \A n, total, status : Parsed(n, total, status).counts = n
                            /\ Parsed(n, total, status).status = status
    BY DEF Parsed
<1>5. Sum(c) \in Nat /\ Sum(d) \in Nat /\ Sum(d) <= Sum(c)
    BY <1>1, <1>2 DEF Sum
<1>6. CASE t = "cervomut"
    BY <1>3, <1>4, <1>5, <1>6 DEF Parse, ParseCervo
<1>7. CASE t = "gremlins"
    <2>1. c.killed + c.survived = 0
        BY <1>4, <1>7 DEF Parse, ParseGremlins
    <2>2. Parse(t, c).status # "ok"
        BY <1>1, <1>4, <1>7, <2>1 DEF Parse, ParseGremlins
    <2> QED
        BY <1>7, <2>2
<1>8. CASE t = "gomu"
    <2>1. Parse(t, c) = Parsed(d, Sum(c), "ok")
        BY <1>8 DEF Parse, ParseGomu
    <2> HIDE DEF d
    <2> QED
        BY <1>3, <1>4, <1>5, <2>1
<1>9. CASE t = "go-mutesting"
    <2>1. CASE Sum(c) > 0
        BY <1>3, <1>4, <1>5, <1>9, <2>1 DEF Parse, ParseGoMutesting
    <2>2. CASE ~(Sum(c) > 0)
        <3>1. Parse(t, c).counts = Zero
            BY <1>4, <1>9, <2>2 DEF Parse, ParseGoMutesting
        <3> QED
            BY <3>1 DEF Zero, Sum
    <2> QED
        BY <2>1, <2>2
<1> QED
    BY <1>6, <1>7, <1>8, <1>9

(* The row of a tool. *)

\* However a tool ends, a full report it leaves is of this session.
LEMMA EndsAreOfThisSession ==
    ASSUME NEW t \in ToSet(Tools), HonestFiles(toolFiles[t]), comparison \in Nat,
           NEW ending \in Ends(t)
    PROVE  /\ HonestFiles(ending.files)
           /\ \/ ending.files.full = NoToolReport
              \/ \E c \in Counts : ending.files.full = OwnReport(c)
              \/ ending.files.full = TornReportOfTool
<1> DEFINE before == BeforeRun(t)
           full == {[before EXCEPT !.full = OwnReport(c)] : c \in Counts}
           torn == [before EXCEPT !.full = TornReportOfTool]
           partial == {[before EXCEPT !.partial = OwnReport(c)] : c \in Counts}
<1>1. /\ before = [full |-> NoToolReport, partial |-> toolFiles[t].partial]
      /\ toolFiles[t].partial \in PartialReports
    BY DEF BeforeRun, HonestFiles
<1>2. \/ ending \in Endings({0}, full, {None})
      \/ ending \in Endings({1, 124, 125, 126}, {before}, {None})
      \/ ending \in Endings({124}, {torn}, {None})
      \/ ending \in Endings({124, 126}, partial, {None})
      \/ ending \in Endings({0, 1}, {before}, {None, "panic:", "No results to report"})
    BY DEF Ends
<1> HIDE DEF before, full, torn, partial
<1>3. \A exits, fs, logs : ending \in Endings(exits, fs, logs) => ending.files \in fs
    BY DEF Endings
<1>4. ending.files \in full \/ ending.files = before \/ ending.files = torn \/ ending.files \in partial
    BY <1>2, <1>3
<1>5. CASE ending.files \in full
    <2>1. PICK c \in Counts : ending.files = [before EXCEPT !.full = OwnReport(c)]
        BY <1>5 DEF full
    <2>2. ending.files = [full |-> OwnReport(c), partial |-> toolFiles[t].partial]
        BY <1>1, <2>1
    <2> QED
        BY <1>1, <2>2 DEF HonestFiles
<1>6. CASE ending.files = before
    BY <1>1, <1>6 DEF HonestFiles
<1>7. CASE ending.files = torn
    <2>1. ending.files = [full |-> TornReportOfTool,
                       partial |-> toolFiles[t].partial]
        BY <1>1, <1>7 DEF torn
    <2> QED
        BY <1>1, <2>1 DEF HonestFiles
<1>8. CASE ending.files \in partial
    <2>1. PICK c \in Counts : ending.files = [before EXCEPT !.partial = OwnReport(c)]
        BY <1>8 DEF partial
    <2>2. ending.files = [full |-> NoToolReport, partial |-> OwnReport(c)]
        BY <1>1, <2>1
    <2>3. OwnReport(c) \in PartialReports
        BY DEF PartialReports, OwnReport
    <2> QED
        BY <2>2, <2>3 DEF HonestFiles
<1> QED
    BY <1>4, <1>5, <1>6, <1>7, <1>8

\* Without mutants the parsers of gomu and of go-mutesting count none.
LEMMA HalfReportsCountNothing ==
    ASSUME NEW t \in {"gomu", "go-mutesting"}
    PROVE  Sum(Parse(t, Zero).counts) = 0
<1>1. Sum(Zero) = 0 /\ [Zero EXCEPT !.notCovered = 0] = Zero
    BY DEF Sum, Zero
<1>2. \A n, total, status : Parsed(n, total, status).counts = n
    BY DEF Parsed
<1>3. CASE t = "gomu"
    BY <1>1, <1>2, <1>3 DEF Parse, ParseGomu
<1>4. CASE t = "go-mutesting"
    BY <1>1, <1>2, <1>4 DEF Parse, ParseGoMutesting
<1> QED
    BY <1>3, <1>4

LEMMA ReportsDiffer ==
    ASSUME NEW c
    PROVE  /\ OwnReport(c) # NoToolReport /\ OwnReport(c).is # Torn
           /\ OwnReport(c).by = comparison /\ OwnReport(c).counts = c
           /\ TornReportOfTool # NoToolReport /\ TornReportOfTool.is = Torn
           /\ TornReportOfTool.by = comparison /\ TornReportOfTool.counts = Zero
<1>1. OwnReport(c).is = "report" /\ NoToolReport.is = None /\ TornReportOfTool.is = Torn
    BY DEF OwnReport, NoToolReport, TornReportOfTool
<1> QED
    BY <1>1 DEF OwnReport, TornReportOfTool, Torn, None

\* What a row says of a tool's report: whose it is, and the parser's counts.
LEMMA RowTellsOfReport ==
    ASSUME NEW t, NEW ending
    PROVE  LET r == Row(t, ending)
               m == ParseToolMetrics(t, ending.files)
           IN  /\ r.of = m.of /\ r.partial = m.partial /\ r.session = comparison
               /\ r.counts = m.parsed.counts /\ r.warnings = m.parsed.warnings
               /\ r.status = ClassifyCompareStatus(t, ending, m)
               /\ r.target = target /\ r.effective = EffectiveTarget(t) /\ r.mode = TargetMode(t)
<1> DEFINE m == ParseToolMetrics(t, ending.files)
<1> HIDE DEF m
<1>1. Row(t, ending) =
        [tool |-> t, target |-> target, effective |-> EffectiveTarget(t), mode |-> TargetMode(t),
         status |-> ClassifyCompareStatus(t, ending, m), partial |-> m.partial,
         of |-> m.of, session |-> comparison, total |-> m.parsed.total,
         counts |-> m.parsed.counts, score |-> m.parsed.score,
         warnings |-> m.parsed.warnings]
    BY DEF Row, m
<1> QED
    BY <1>1 DEF m

\* The targets and the mode of a row: what is not named at all has no target in the
\* manifest either.
LEMMA RowsNameTargets ==
    ASSUME NEW t, target # "" \/ EffectiveTarget(t) # ""
    PROVE  EffectiveTarget(t) # "" /\ TargetMode(t) # ""
BY DEF EffectiveTarget, ComparisonTarget, TargetMode

\* The report that is parsed.
LEMMA MetricsOfReport ==
    ASSUME NEW t, NEW fs
    PROVE  LET chosen == Chosen(t, fs)
               m == ParseToolMetrics(t, fs)
           IN  /\ m.partial = chosen.partial
               /\ chosen.report # NoToolReport =>
                      m.of = chosen.report.by /\ m.parsed = Parse(t, chosen.report.counts)
               /\ chosen.report = NoToolReport => m.of = 0 /\ Sum(m.parsed.counts) = 0
<1> DEFINE chosen == Chosen(t, fs)
           none == [Parsed(Zero, 0, "") EXCEPT !.warnings = {}]
<1>1. Sum(none.counts) = 0
    BY DEF Parsed, Sum, Zero
<1> HIDE DEF chosen, none
<1>2. ParseToolMetrics(t, fs) =
        [of |-> IF chosen.report = NoToolReport THEN 0 ELSE chosen.report.by,
         partial |-> chosen.partial,
         parsed |-> IF chosen.report = NoToolReport THEN none
                    ELSE Parse(t, chosen.report.counts)]
    BY DEF ParseToolMetrics, chosen, none
<1> QED
    BY <1>1, <1>2 DEF chosen

LEMMA RowIsHonest ==
    ASSUME NEW t \in ToSet(Tools), HonestFiles(toolFiles[t]), comparison \in Nat,
           NEW ending \in Ends(t), ~ParseFails(t, ending.files)
    PROVE  HonestRow(Row(t, ending))
<1> DEFINE chosen == Chosen(t, ending.files)
           m == ParseToolMetrics(t, ending.files)
           r == Row(t, ending)
<1>1. t \in {"cervomut", "gremlins", "gomu", "go-mutesting"}
    BY ComparisonAssumption DEF ToSet
<1>2. /\ r.of = m.of /\ r.partial = m.partial /\ r.session = comparison
      /\ r.counts = m.parsed.counts /\ r.warnings = m.parsed.warnings
      /\ r.status = ClassifyCompareStatus(t, ending, m)
      /\ r.target = target /\ r.effective = EffectiveTarget(t) /\ r.mode = TargetMode(t)
    BY RowTellsOfReport
<1>3. r.target # "" \/ r.effective # "" => r.target = target /\ r.effective # "" /\ r.mode # ""
    BY <1>2, RowsNameTargets
<1>4. /\ m.partial = chosen.partial
      /\ chosen.report # NoToolReport =>
             m.of = chosen.report.by /\ m.parsed = Parse(t, chosen.report.counts)
      /\ chosen.report = NoToolReport => m.of = 0 /\ Sum(m.parsed.counts) = 0
    BY MetricsOfReport
<1> HIDE DEF m, r
<1>5. /\ chosen.partial =>
             t = "cervomut" /\ chosen.report = ending.files.partial /\ chosen.report # NoToolReport
      /\ ~chosen.partial => chosen.report = ending.files.full
      /\ chosen.partial \in BOOLEAN
    BY DEF Chosen
<1>6. ~(t \in {"cervomut", "gremlins"} /\ chosen.report.is = Torn)
    BY DEF ParseFails
<1> HIDE DEF chosen
<1>7. /\ HonestFiles(ending.files)
      /\ \/ ending.files.full = NoToolReport
         \/ \E c \in Counts : ending.files.full = OwnReport(c)
         \/ ending.files.full = TornReportOfTool
    BY EndsAreOfThisSession
<1>8. CASE chosen.partial
    <2>1. chosen.report \in [is : {"report"}, by : Nat, counts : Counts]
        BY <1>5, <1>7, <1>8 DEF HonestFiles, PartialReports
    <2>2. t = "cervomut" /\ chosen.report.counts \in Counts
          /\ m.parsed = Parse(t, chosen.report.counts)
        BY <1>4, <1>5, <1>8, <2>1
    <2>3. m.parsed.counts.killed + m.parsed.counts.survived = 0 /\ Sum(m.parsed.counts) > 0 =>
              "no_effective_mutants" \in m.parsed.warnings
        BY <2>2, ParsersWarn
    <2> QED
        BY <1>2, <1>3, <1>4, <1>8, <2>3 DEF HonestRow, r
<1>9. CASE ~chosen.partial /\ ending.files.full = NoToolReport
    <2>1. m.of = 0 /\ Sum(m.parsed.counts) = 0
        BY <1>4, <1>5, <1>9
    <2>2. r.of = 0 /\ ~(Sum(r.counts) > 0)
        BY <1>2, <2>1
    <2> QED
        BY <1>3, <2>2 DEF HonestRow, r
<1>10. CASE ~chosen.partial /\ \E c \in Counts : ending.files.full = OwnReport(c)
    <2>1. PICK c \in Counts : chosen.report = OwnReport(c)
        BY <1>5, <1>10
    <2>2. ending.files.full # NoToolReport
        BY <1>5, <1>10, <2>1, ReportsDiffer
    <2>3. m.of = comparison /\ m.parsed = Parse(t, c)
        BY <1>4, <2>1, ReportsDiffer
    <2>4. ASSUME m.parsed.counts.killed + m.parsed.counts.survived = 0, Sum(m.parsed.counts) > 0
          PROVE  r.status # "ok" \/ "no_effective_mutants" \in r.warnings
        <3>1. \/ "no_effective_mutants" \in m.parsed.warnings
              \/ t = "gremlins" /\ m.parsed.status # "ok"
            BY <1>1, <2>3, <2>4, ParsersWarn
        <3>2. t = "gremlins" /\ m.parsed.status # "ok" => ClassifyCompareStatus(t, ending, m) # "ok"
            BY <2>2 DEF ClassifyCompareStatus
        <3> QED
            BY <1>2, <3>1, <3>2
    <2> QED
        BY <1>2, <1>3, <2>3, <2>4 DEF HonestRow, r
<1>11. CASE ~chosen.partial /\ ending.files.full = TornReportOfTool
    <2>1. /\ chosen.report # NoToolReport /\ chosen.report.is = Torn
          /\ chosen.report.by = comparison /\ chosen.report.counts = Zero
        BY <1>5, <1>11, ReportsDiffer
    <2>2. t \in {"gomu", "go-mutesting"}
        BY <1>1, <1>6, <2>1
    <2>3. m.of = comparison /\ Sum(m.parsed.counts) = 0
        BY <1>4, <2>1, <2>2, HalfReportsCountNothing
    <2>4. r.of = r.session /\ ~(Sum(r.counts) > 0)
        BY <1>2, <2>3
    <2> QED
        BY <1>3, <2>4 DEF HonestRow, r
<1> QED
    BY <1>7, <1>8, <1>9, <1>10, <1>11

LEMMA MissingRepoIsHonest == HonestRow(MissingRepo)
<1>1. Sum(Zero) = 0
    BY DEF Sum, Zero
<1> QED
    BY <1>1 DEF HonestRow, MissingRepo

(* The invariant. *)

\* Rows that are honest stay so: the target is never changed.
LEMMA HonestListsStay ==
    ASSUME target' = target
    PROVE  /\ HonestRows(toolRows) /\ toolRows' = toolRows => HonestRows(toolRows)'
           /\ toolSummary # Torn /\ HonestRows(toolSummary) /\ toolRows' = toolSummary
                  => HonestRows(toolRows)'
           /\ \A r : HonestRows(Append(toolRows, r)) /\ toolRows' = Append(toolRows, r)
                         => HonestRows(toolRows)'
           /\ HonestRows(toolSummary) /\ toolSummary' = toolSummary => HonestRows(toolSummary)'
           /\ HonestRows(toolRows)' /\ toolSummary' = toolRows' => HonestRows(toolSummary)'
           /\ HonestRows(study.rows) /\ study' = study => HonestRows(study.rows)'
           /\ HonestRows(toolRows) /\ study'.rows = toolRows => HonestRows(study.rows)'
BY DEF HonestRows, HonestRow

LEMMA Appended ==
    ASSUME ComparisonInv, target' = target, NEW r, HonestRow(r), NEW next, Append1(r, next)
    PROVE  HonestRows(toolRows)' /\ (toolSummary' # Torn => HonestRows(toolSummary)')
<1>1. HonestRows(Append(toolRows, r))
    BY HonestRowsGrow DEF ComparisonInv
<1>2. toolRows' = Append(toolRows, r) /\ (toolSummary' = toolRows' \/ toolSummary' = Torn)
    BY DEF Append1
<1> QED
    BY <1>1, <1>2, HonestListsStay

\* What the rows and the study need while neither is written.
LEMMA RowsUntouched ==
    ASSUME ComparisonInv, UNCHANGED <<target, toolSummary, study>>
    PROVE  /\ toolSummary' # Torn => HonestRows(toolSummary)'
           /\ study' # NoToolReport =>
                  HonestRows(study.rows)' /\ study' = BuildCompareStudy(study'.rows)
           /\ UNCHANGED toolRows => HonestRows(toolRows)'
BY HonestListsStay DEF ComparisonInv

LEMMA StudyUntouched ==
    ASSUME ComparisonInv, UNCHANGED <<target, study>>
    PROVE  study' # NoToolReport =>
               HonestRows(study.rows)' /\ study' = BuildCompareStudy(study'.rows)
BY HonestListsStay DEF ComparisonInv

LEMMA FilesUntouched ==
    ASSUME ComparisonInv, UNCHANGED toolFiles
    PROVE  DOMAIN toolFiles' = ToSet(Tools) /\ \A t \in ToSet(Tools) : HonestFiles(toolFiles'[t])
BY DEF ComparisonInv

LEMMA RunToolKeepsInv ==
    ASSUME ComparisonInv, NEW t \in ToSet(Tools), RunTool(t)
    PROVE  ComparisonInv'
<1>1. PICK ending \in Ends(t) :
          /\ toolFiles' = [toolFiles EXCEPT ![t] = ending.files]
          /\ IF ParseFails(t, ending.files)
             THEN toolAt' = 0 /\ UNCHANGED <<toolRows, toolSummary>>
             ELSE Append1(Row(t, ending), toolAt + 1)
    BY DEF RunTool
<1>2. UNCHANGED <<target, comparison, study>>
    BY DEF RunTool
<1>3. HonestFiles(toolFiles[t]) /\ comparison \in Nat /\ DOMAIN toolFiles = ToSet(Tools)
      /\ \A u \in ToSet(Tools) : HonestFiles(toolFiles[u])
    BY DEF ComparisonInv
<1>4. HonestFiles(ending.files)
    BY <1>3, EndsAreOfThisSession
<1>5. DOMAIN toolFiles' = ToSet(Tools) /\ \A u \in ToSet(Tools) : HonestFiles(toolFiles'[u])
    <2>1. DOMAIN toolFiles' = ToSet(Tools) /\ toolFiles'[t] = ending.files
          /\ \A u \in ToSet(Tools) : u # t => toolFiles'[u] = toolFiles[u]
        BY <1>1, <1>3
    <2> QED
        BY <1>3, <1>4, <2>1
<1>6. HonestRows(toolRows)' /\ (toolSummary' # Torn => HonestRows(toolSummary)')
    <2>1. CASE ParseFails(t, ending.files)
        BY <1>1, <1>2, <2>1, RowsUntouched
    <2>2. CASE ~ParseFails(t, ending.files)
        <3>1. HonestRow(Row(t, ending))
            BY <1>3, <2>2, RowIsHonest
        <3> QED
            BY <1>1, <1>2, <2>2, <3>1, Appended
    <2> QED
        BY <2>1, <2>2
<1>7. study' # NoToolReport =>
          HonestRows(study.rows)' /\ study' = BuildCompareStudy(study'.rows)
    BY <1>2, StudyUntouched
<1> QED
    BY <1>2, <1>3, <1>5, <1>6, <1>7 DEF ComparisonInv

LEMMA ComparisonStep == ComparisonInv /\ [ComparisonNext]_comparisonVars => ComparisonInv'
<1> SUFFICES ASSUME ComparisonInv, [ComparisonNext]_comparisonVars
             PROVE  ComparisonInv'
    OBVIOUS
<1>1. CASE OpenComparison
    <2>1. comparison' \in Nat /\ UNCHANGED <<target, toolFiles, toolSummary, study>>
        BY <1>1 DEF OpenComparison, ComparisonInv
    <2>2. HonestRows(toolRows)'
        <3>1. CASE resume' /\ toolSummary # Torn
            BY <1>1, <2>1, <3>1, HonestListsStay DEF OpenComparison, ComparisonInv
        <3>2. CASE ~(resume' /\ toolSummary # Torn)
            <4>1. toolRows' = <<>>
                BY <1>1, <3>2 DEF OpenComparison
            <4> QED
                BY <4>1 DEF HonestRows, IsList
        <3> QED
            BY <3>1, <3>2
    <2> QED
        BY <2>1, <2>2, RowsUntouched, FilesUntouched DEF ComparisonInv
<1>2. CASE RecordMissing
    <2>1. Append1(MissingRepo, Len(Tools) + 1) /\ UNCHANGED <<target, comparison, toolFiles, study>>
        BY <1>2 DEF RecordMissing
    <2>2. HonestRows(toolRows)' /\ (toolSummary' # Torn => HonestRows(toolSummary)')
        BY <2>1, MissingRepoIsHonest, Appended
    <2>3. comparison' \in Nat
        BY <2>1 DEF ComparisonInv
    <2> QED
        BY <2>1, <2>2, <2>3, StudyUntouched, FilesUntouched DEF ComparisonInv
<1>3. CASE Close
    <2>1. /\ toolSummary' = toolRows' /\ study' = BuildCompareStudy(toolRows)
          /\ UNCHANGED <<target, comparison, toolFiles, toolRows>>
        BY <1>3 DEF Close
    <2>2. study'.rows = toolRows
        BY <2>1 DEF BuildCompareStudy
    <2>3. HonestRows(toolRows)' /\ HonestRows(toolSummary)' /\ HonestRows(study.rows)'
        BY <2>1, <2>2, HonestListsStay DEF ComparisonInv
    <2>4. study' = BuildCompareStudy(study'.rows) /\ comparison' \in Nat
        BY <2>1, <2>2 DEF ComparisonInv
    <2> QED
        BY <2>1, <2>3, <2>4, FilesUntouched DEF ComparisonInv
<1>4. CASE \E t \in ToSet(Tools) : RunTool(t)
    BY <1>4, RunToolKeepsInv
<1>5. CASE \/ KillComparison \/ Clone \/ UNCHANGED comparisonVars
           \/ \E t \in ToSet(Tools) : SkipTool(t)
    <2>1. UNCHANGED <<target, comparison, toolFiles, toolRows, toolSummary, study>>
        BY <1>5 DEF KillComparison, Clone, SkipTool, comparisonVars
    <2>2. comparison' \in Nat
        BY <2>1 DEF ComparisonInv
    <2> QED
        BY <2>1, <2>2, RowsUntouched, FilesUntouched DEF ComparisonInv
<1> QED
    BY <1>1, <1>2, <1>3, <1>4, <1>5 DEF ComparisonNext

\* In whichever sessions, and with whichever modes, the rows of a comparison were
\* made: each has the manifest's target or none, is of the report of its own session
\* unless that was partial, and says when its counts are of no use.
THEOREM ComparisonInvariant == ComparisonSpec => []ComparisonInv
<1>1. ComparisonInit => ComparisonInv
    <2> SUFFICES ASSUME ComparisonInit PROVE ComparisonInv
        OBVIOUS
    <2>1. HonestRows(toolRows) /\ toolSummary = Torn /\ study = NoToolReport /\ comparison \in Nat
        BY NoRowsAreHonest DEF ComparisonInit
    <2>2. DOMAIN toolFiles = ToSet(Tools) /\ \A t \in ToSet(Tools) : HonestFiles(toolFiles[t])
        BY DEF ComparisonInit, HonestFiles, PartialReports
    <2> QED
        BY <2>1, <2>2 DEF ComparisonInv
<1> QED
    BY <1>1, ComparisonStep, PTL DEF ComparisonSpec

\* The counts of a full report are never those an earlier session left.
THEOREM FullRowsAreAlwaysFresh == ComparisonSpec => []FullRowsAreFresh
<1>1. ComparisonInv => FullRowsAreFresh
    BY DEF ComparisonInv, HonestRows, HonestRow, FullRowsAreFresh
<1> QED
    BY <1>1, ComparisonInvariant, PTL

\* The rows of a study with one value have it all.
LEMMA OneValue ==
    ASSUME NEW S, IsFiniteSet(S), Cardinality(S) <= 1, NEW x \in S, NEW y \in S
    PROVE  x = y
<1>1. Cardinality(S) = 0 => S = {}
    BY FS_EmptySet
<1>2. Cardinality(S) \in Nat
    BY FS_CardinalityType
<1>3. Cardinality(S) = 1
    BY <1>1, <1>2
<1> QED
    BY <1>3, FS_Singleton

LEMMA RowsAreFinite ==
    ASSUME NEW list, IsList(list)
    PROVE  /\ IsFiniteSet(ToSet(list))
           /\ \A r \in ToSet(list) : \E i \in 1..Len(list) : r = list[i]
<1>1. ToSet(list) = {list[i] : i \in 1..Len(list)}
    BY DEF ToSet, IsList
<1>2. IsFiniteSet(1..Len(list))
    <2>1. Len(list) \in Int /\ 1 \in Int
        BY DEF IsList
    <2> QED
        BY <2>1, FS_Interval
<1> DEFINE f == [i \in 1..Len(list) |-> list[i]]
<1>3. f \in Surjection(1..Len(list), ToSet(list))
    BY <1>1 DEF Surjection
<1> QED
    BY <1>1, <1>2, <1>3, FS_Surjection

THEOREM FairStudiesAreFair == ComparisonSpec => []StudiesAreFair
<1>1. ComparisonInv => StudiesAreFair
    <2> SUFFICES ASSUME ComparisonInv, study # NoToolReport
                 PROVE  LET rs == ToSet(study.rows)
                        IN  /\ study.repo.label = "apples_to_apples" =>
                                  \A r, s \in rs : /\ r.effective = s.effective /\ r.mode = s.mode
                                                   /\ r.effective = target
                            /\ \A r \in rs :
                                  /\ r.warnings \subseteq study.repo.warnings
                                  /\ r.counts.killed + r.counts.survived = 0 /\ Sum(r.counts) > 0 =>
                                         r.status # "ok"
                                         \/ "no_effective_mutants" \in study.repo.warnings
        BY DEF StudiesAreFair
    <2> DEFINE rs == ToSet(study.rows)
    <2>1. HonestRows(study.rows) /\ study.repo = BuildCompareStudyRepo(rs)
        <3>1. HonestRows(study.rows) /\ study = BuildCompareStudy(study.rows)
            BY DEF ComparisonInv
        <3>2. BuildCompareStudy(study.rows).repo = BuildCompareStudyRepo(rs)
            BY DEF BuildCompareStudy
        <3> QED
            BY <3>1, <3>2
    <2>2. IsFiniteSet(rs) /\ \A r \in rs : HonestRow(r)
        BY <2>1, RowsAreFinite DEF HonestRows
    <2> HIDE DEF rs
    <2>3. ASSUME NEW r \in rs
          PROVE  r.warnings \subseteq study.repo.warnings
        BY <2>1 DEF BuildCompareStudyRepo
    <2>4. ASSUME NEW r \in rs, r.counts.killed + r.counts.survived = 0, Sum(r.counts) > 0
          PROVE  r.status # "ok" \/ "no_effective_mutants" \in study.repo.warnings
        BY <2>2, <2>3, <2>4 DEF HonestRow
    <2>5. ASSUME study.repo.label = "apples_to_apples", NEW r \in rs, NEW s \in rs
          PROVE  r.effective = s.effective /\ r.mode = s.mode /\ r.effective = target
        <3>1. BuildComparability(rs).apples /\ BuildComparability(rs).manifest
            BY <2>1, <2>5 DEF BuildCompareStudyRepo
        <3> DEFINE named == {q \in rs : q.target # "" \/ q.effective # ""}
                   Effective(q) == IF q.effective = "" THEN q.target ELSE q.effective
                   Mode(q) == IF q.mode = "" THEN "manifest" ELSE q.mode
                   modes == {Mode(q) : q \in named}
        <3>2. named = rs /\ (\A q \in named : q.target = Effective(q)) /\ Cardinality(modes) <= 1
            BY <3>1 DEF BuildComparability
        <3>3. \A q \in rs : q.target = target /\ q.effective = target /\ Mode(q) = q.mode
            BY <2>2, <3>2 DEF HonestRow
        <3>4. r.mode \in modes /\ s.mode \in modes
            BY <3>2, <3>3
        <3>5. IsFiniteSet(modes)
            <4> DEFINE f == [q \in rs |-> Mode(q)]
            <4>1. f \in Surjection(rs, modes)
                BY <3>2 DEF Surjection
            <4> HIDE DEF f
            <4> QED
                BY <2>2, <4>1, FS_Surjection
        <3> HIDE DEF modes
        <3>6. r.mode = s.mode
            BY <3>2, <3>4, <3>5, OneValue
        <3> QED
            BY <3>3, <3>6
    <2> QED
        BY <2>3, <2>4, <2>5 DEF rs
<1> QED
    BY <1>1, ComparisonInvariant, PTL

-----------------------------------------------------------------------------
(* CommandRunner: a test command under the limits of the pool.              *)

\* A new run satisfies the invariant.
LEMMA InitHolds == Init => IInv
<1> SUFFICES ASSUME Init
             PROVE  IInv
  OBVIOUS
<1>1. TypeOK
  <2>1. /\ tick \in BOOLEAN
        /\ grown \in BOOLEAN
        /\ waited \in BOOLEAN
        /\ overdue \in BOOLEAN
        /\ cancelled \in BOOLEAN
    BY Zenon DEF Init
  <2>2. failures \in 0 .. MaxFailures
    BY FailuresAssumption DEF Init
  <2>3. QED
    BY <2>1, <2>2, Zenon DEF Init, TypeOK, None
<1>2. QED
  BY <1>1
  DEF Init, IInv, ExitCodeTellsWhy, NothingLeftRunning, LogIsOfThisCommand, TimedOut,
      OutOfMemory, None

\* Up to the start of the command.
LEMMA StartingHolds ==
  ASSUME IInv, Enter \/ Wait \/ Launch
  PROVE  IInv'
<1> USE FailuresAssumption
    DEF IInv, TypeOK, ExitCodeTellsWhy, NothingLeftRunning, LogIsOfThisCommand, OwnCodes,
        TimedOut, NotStarted, OutOfMemory, Answers, None, OverLimit, envVars, Return,
        ReturnLogged
<1>1. CASE Enter
  BY <1>1 DEF Enter
<1>2. CASE Wait
  BY <1>2 DEF Wait
<1>3. CASE Launch
  BY <1>3 DEF Launch
<1>4. QED
  BY <1>1, <1>2, <1>3

\* The command, its environment and the goroutine that waits for it.
LEMMA EnvironmentHolds ==
  ASSUME IInv, EndProcess \/ Reaped \/ Tick \/ UseMemory \/ PassDeadline \/ Cancel
  PROVE  IInv'
<1>1. ASSUME UseMemory
      PROVE  /\ free' \in {"plenty", "little", "critical"}
             /\ grown' \in BOOLEAN /\ (grown => grown')
             /\ UNCHANGED <<pc, answer, process, code, waitCh, tick, waited, overdue,
                            cancelled, failures, log, cause>>
  BY <1>1, Zenon DEF UseMemory, IInv, TypeOK
<1>2. ASSUME PassDeadline
      PROVE  /\ waited' \in BOOLEAN
             /\ overdue' \in BOOLEAN /\ (overdue => overdue')
             /\ UNCHANGED <<pc, answer, process, code, waitCh, tick, free, grown,
                            cancelled, failures, log, cause>>
  BY <1>2, Zenon DEF PassDeadline, IInv, TypeOK
<1> USE DEF IInv, TypeOK, ExitCodeTellsWhy, NothingLeftRunning, LogIsOfThisCommand,
        OwnCodes, TimedOut, NotStarted, OutOfMemory, Answers, None, OverLimit, envVars,
        Alive
<1>3. CASE EndProcess
  BY <1>3 DEF EndProcess
<1>4. CASE Reaped
  BY <1>4 DEF Reaped
<1>5. CASE Tick
  BY <1>5 DEF Tick
<1>6. CASE UseMemory
  BY <1>1, <1>6
<1>7. CASE PassDeadline
  BY <1>2, <1>7
<1>8. CASE Cancel
  BY <1>8 DEF Cancel
<1>9. QED
  BY <1>3, <1>4, <1>5, <1>6, <1>7, <1>8

\* The select loop and the reaping of a killed command.
LEMMA SelectHolds ==
  ASSUME IInv, TakeEnd \/ TakeTick \/ TakeCancel \/ Reap
  PROVE  IInv'
<1>1. ASSUME TakeTick
      PROVE  /\ pc = "select"
             /\ tick' \in BOOLEAN
             /\ UNCHANGED <<answer, code, waitCh, free, grown, waited, overdue, cancelled,
                            log>>
  BY <1>1, Zenon DEF TakeTick, envVars
<1>2. ASSUME TakeTick
      PROVE  \/ UNCHANGED <<pc, process, cause>>
             \/ overdue /\ Kill(TimedOut)
             \/ (Watches \/ OverLimit) /\ Kill(OutOfMemory)
  BY <1>2, Zenon DEF TakeTick
<1>3. ASSUME TakeTick
      PROVE  failures' \in 0 .. MaxFailures
  <2>1. failures' = failures \/ (failures < MaxFailures /\ failures' = failures + 1)
    BY <1>3, Zenon DEF TakeTick
  <2>2. QED
    BY <2>1, FailuresAssumption DEF IInv, TypeOK
<1>4. ASSUME TakeTick, NEW why, Kill(why)
      PROVE  /\ process' \in {"ended", "killed"} /\ (process = "ended" => process' = "ended")
             /\ (process' = "ended" => process = "ended")
             /\ pc' = "reap" /\ cause' = why
  BY <1>1, <1>4 DEF Kill, Alive, IInv
<1> USE DEF IInv, TypeOK, ExitCodeTellsWhy, NothingLeftRunning, LogIsOfThisCommand,
        OwnCodes, TimedOut, NotStarted, OutOfMemory, Answers, None, OverLimit
<1>5. CASE TakeEnd
  BY <1>5 DEF TakeEnd, envVars, Return, ReturnLogged
<1>6. CASE TakeTick
  <2>1. CASE UNCHANGED <<pc, process, cause>>
    BY <1>1, <1>3, <1>6, <2>1
  <2>2. CASE overdue /\ Kill(TimedOut)
    BY <1>1, <1>3, <1>4, <1>6, <2>2
  <2>3. CASE (Watches \/ OverLimit) /\ Kill(OutOfMemory)
    BY <1>1, <1>3, <1>4, <1>6, <2>3
  <2>4. QED
    BY <1>2, <1>6, <2>1, <2>2, <2>3
<1>7. CASE TakeCancel
  BY <1>7 DEF TakeCancel, envVars, Kill, Alive
<1>8. CASE Reap
  BY <1>8 DEF Reap, envVars, Return, ReturnLogged
<1>9. QED
  BY <1>5, <1>6, <1>7, <1>8

LEMMA StutterHolds ==
  ASSUME IInv, UNCHANGED vars
  PROVE  IInv'
  BY DEF vars, envVars, IInv, TypeOK, ExitCodeTellsWhy, NothingLeftRunning,
         LogIsOfThisCommand, OverLimit

\* The inductive invariant of the runner: how far the process is, that the channel
\* holds how it ended, and that a kill has its reason.
THEOREM RunnerInvariant == Spec => []IInv
<1>1. IInv /\ [Next]_vars => IInv'
  BY StartingHolds, EnvironmentHolds, SelectHolds, StutterHolds
  DEF Next, RunnerStep, Returned
<1>2. QED
  BY InitHolds, <1>1, PTL DEF Spec

\* The exit code of a guarded command says what became of it, whichever of its
\* end, its deadline, its memory and its cancellation came first.
THEOREM ExitCodesTellWhy == Spec => []ExitCodeTellsWhy
<1>1. IInv => ExitCodeTellsWhy
  BY DEF IInv
<1>2. QED
  BY RunnerInvariant, <1>1, PTL

\* Run leaves no command running, on any path it returns on.
THEOREM CommandsAreStopped == Spec => []NothingLeftRunning
<1>1. IInv => NothingLeftRunning
  BY DEF IInv
<1>2. QED
  BY RunnerInvariant, <1>1, PTL

\* A log that is read after Run belongs to the command that was run.
THEOREM LogsAreFresh == Spec => []LogIsOfThisCommand
<1>1. IInv => LogIsOfThisCommand
  BY DEF IInv
<1>2. QED
  BY RunnerInvariant, <1>1, PTL

=============================================================================
