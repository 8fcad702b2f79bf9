------------------------ MODULE ResumableRun_proofs ------------------------
(***************************************************************************)
(* What holds of every sequence of killed, resumed and edited runs, for    *)
(* any number of mutants and edits and any command lines.                  *)
(***************************************************************************)
EXTENDS ResumableRun, TLAPS

(* The results that the actions make. *)

\* A result with a status is no missing one.
LEMMA NamedResults ==
  /\ NoResult.status = None
  /\ \A r : r.status # None => r # NoResult
<1>1. NoResult.status = None
  BY DEF NoResult, Result
<1> QED BY <1>1

\* Status of a result that no test has given.
Untested == {None, "ignored", "pending_budget", "error"}

LEMMA UntestedResults ==
  ASSUME TypeOK, NEW s \in Untested, NEW m
  PROVE  /\ Result(s, None, source, TRUE) \in Results
         /\ Result(s, None, source, TRUE).origin = source
         /\ Vouched(Result(s, None, source, TRUE), m)
         /\ Effective(Result(s, None, source, TRUE)) \notin Outcomes
         /\ s # None => Result(s, None, source, TRUE) # NoResult
<1> DEFINE r == Result(s, None, source, TRUE)
<1>1. /\ r.status = s /\ r.previous = None /\ r.origin = source /\ r.ended = TRUE
      /\ r = [status |-> s, previous |-> None, origin |-> source, ended |-> TRUE]
  BY DEF Result
<1>2. source \in 0 .. source /\ s \in Status \cup {None, "error"}
  BY SizesAssumption DEF TypeOK, Versions, Status, Untested
<1>3. r \in Results
  BY <1>1, <1>2 DEF Results
<1>4. s \notin Outcomes /\ s # "cached"
  BY DEF Untested, Outcomes, None
<1>5. Effective(r) \notin Outcomes /\ Vouched(r, m)
  BY <1>1, <1>4 DEF Vouched, Effective
<1> QED
  BY <1>1, <1>3, <1>5, NamedResults

LEMMA NoResultIsVouched ==
  ASSUME TypeOK, NEW m
  PROVE  NoResult \in Results /\ Vouched(NoResult, m)
<1>1. /\ NoResult.status = None /\ None \notin Outcomes \cup {"cached"}
      /\ NoResult = [status |-> None, previous |-> None, origin |-> 0, ended |-> TRUE]
  BY DEF NoResult, Result, None, Outcomes
<1>2. 0 \in 0 .. source
  BY SizesAssumption DEF TypeOK, Versions
<1> QED
  BY <1>1, <1>2 DEF Vouched, Effective, Results

\* The result of a test.
LEMMA TestedResults ==
  ASSUME TypeOK, NEW s \in Outcomes, NEW ended \in BOOLEAN
  PROVE  /\ Result(s, None, source, ended) \in Results
         /\ Result(s, None, source, ended).origin = source
         /\ Result(s, None, source, ended).ended = ended
         /\ Effective(Result(s, None, source, ended)) = s
         /\ Result(s, None, source, ended) # NoResult
<1> DEFINE r == Result(s, None, source, ended)
<1>1. /\ r.status = s /\ r.previous = None /\ r.origin = source /\ r.ended = ended
      /\ r = [status |-> s, previous |-> None, origin |-> source, ended |-> ended]
  BY DEF Result
<1>2. source \in 0 .. source /\ s \in Status /\ s # None /\ s # "cached"
  BY SizesAssumption DEF TypeOK, Versions, Status, Outcomes, Tested, None
<1>3. r \in Results
  BY <1>1, <1>2 DEF Results
<1> QED
  BY <1>1, <1>2, <1>3, NamedResults DEF Effective

\* Reusing a result keeps what is vouched for: a verdict becomes the previous
\* status, and what was reused before says nothing of a verdict any more.
LEMMA ReusedResults ==
  ASSUME NEW r \in Results
  PROVE  /\ Reuse(r) \in Results
         /\ Reuse(r).origin = r.origin /\ Reuse(r).ended = r.ended
         /\ Effective(Reuse(r)) \in Outcomes => Effective(Reuse(r)) = Effective(r)
         /\ Reuse(r) # NoResult
<1>1. /\ Reuse(r).status = "cached" /\ Reuse(r).previous = r.status
      /\ Reuse(r).origin = r.origin /\ Reuse(r).ended = r.ended
  BY DEF Reuse, Results
<1>2. Reuse(r) \in Results
  BY DEF Reuse, Results, Status
<1>3. "cached" \notin Outcomes /\ "cached" # None
  BY DEF Outcomes, None
<1> QED
  BY <1>1, <1>2, <1>3, NamedResults DEF Effective

\* A stored result that is taken from the cache counts as one of this source.
LEMMA RecalledResults ==
  ASSUME TypeOK, NEW e \in Results
  PROVE  LET r == [Reuse(e) EXCEPT !.origin = source] IN
         /\ r \in Results /\ r.origin = source /\ r.ended = e.ended
         /\ r.status = "cached" /\ r # NoResult
         /\ Effective(r) \in Outcomes => Effective(r) = Effective(e)
<1> DEFINE r == [Reuse(e) EXCEPT !.origin = source]
<1>1. /\ Reuse(e) \in Results
      /\ Reuse(e).status = "cached" /\ Reuse(e).ended = e.ended
      /\ Effective(Reuse(e)) \in Outcomes => Effective(Reuse(e)) = Effective(e)
  BY ReusedResults DEF Reuse, Results
<1>2. source \in 0 .. source
  BY SizesAssumption DEF TypeOK, Versions
<1>3. /\ r \in Results /\ r.origin = source /\ r.ended = Reuse(e).ended
      /\ r.status = Reuse(e).status /\ r.previous = Reuse(e).previous
  BY <1>1, <1>2 DEF Results
<1>4. Effective(r) = Effective(Reuse(e))
  BY <1>3 DEF Effective
<1>5. r # NoResult
  BY <1>1, <1>3, NamedResults DEF None
<1> QED
  BY <1>1, <1>3, <1>4, <1>5

\* An empty list of results, and a report that is not there.
LEMMA EmptyResults ==
  ASSUME TypeOK
  PROVE  /\ Nothing \in [Mutants -> Results]
         /\ NoReport \in Reports
         /\ \A m \in Mutants : /\ Nothing[m] = NoResult /\ NoReport.results[m] = NoResult
                               /\ Vouched(Nothing[m], m) /\ Vouched(NoReport.results[m], m)
<1>1. Nothing \in [Mutants -> Results] /\ \A m \in Mutants : Nothing[m] = NoResult
  BY NoResultIsVouched DEF Nothing
<1>2. NoReport.results = Nothing
  BY DEF NoReport
<1>3. 0 \in 0 .. source
  BY SizesAssumption DEF TypeOK, Versions
<1>4. NoReport \in Reports
  BY <1>1, <1>3 DEF NoReport, Reports
<1> QED
  BY <1>1, <1>2, <1>4, NoResultIsVouched

\* Steps that leave the source alone leave the types alone.
LEMMA SameTypes ==
  ASSUME source' = source
  PROVE  Results' = Results /\ Reports' = Reports
BY DEF Results, Reports

-----------------------------------------------------------------------------
(* Steps within a run. *)

\* A mutant that was waiting gets a result.
LEMMA ReadyHolds ==
  ASSUME IInv, Running, NEW m \in Mutants, NEW r \in Results, r # NoResult,
         r.origin = source, Ready(m, r),
         UNCHANGED <<source, keyed, report, replacing, command, phase, reused, fresh,
                     failing, expired>>,
         observed' \in [Mutants -> SUBSET Outcomes],
         \A k \in Mutants : observed[k] \subseteq observed'[k],
         r.ended /\ Effective(r) \in Outcomes => Effective(r) \in observed'[m],
         cache' = cache \/ cache' = [cache EXCEPT ![<<m, command>>] = r]
  PROVE  IInv'
<1>1. /\ ready \in [Mutants -> Results] /\ command \in Commands
      /\ cache \in [Mutants \X Commands -> Results]
  BY DEF IInv, TypeOK
<1>2. /\ ready' \in [Mutants -> Results] /\ ready'[m] = r
      /\ \A k \in Mutants \ {m} : ready'[k] = ready[k]
      /\ todo' = todo \ {m}
  BY <1>1 DEF Ready
<1>3. /\ cache' \in [Mutants \X Commands -> Results]
      /\ \A k \in Mutants, c \in Commands :
           cache'[<<k, c>>] = cache[<<k, c>>] \/ (k = m /\ cache'[<<k, c>>] = r)
  BY <1>1
<1>4. TypeOK'
  BY <1>2, <1>3, SameTypes DEF IInv, TypeOK
<1>5. Covered'
  BY <1>2 DEF IInv, Covered, Running, Has
<1>6. DoneIsComplete'
  BY DEF DoneIsComplete, Running
<1>7. Dated'
  <2>1. r.origin >= keyed[m]
    BY SizesAssumption DEF IInv, TypeOK, Versions
  <2>2. \A k \in Mutants, c \in Commands :
          Has(cache', <<k, c>>) => cache'[<<k, c>>].origin >= keyed[k]
    BY <1>3, <2>1 DEF IInv, Dated, Has
  <2> QED
    BY <1>2, <2>2 DEF IInv, Dated, Running, Has
<1>8. AllVouched'
  <2> DEFINE Now(x, k) ==
        x.origin >= keyed[k] /\ x.ended /\ Effective(x) \in Outcomes
          => Effective(x) \in observed'[k]
  <2> SUFFICES ASSUME NEW k \in Mutants
               PROVE  /\ \A results \in {reused, ready', fresh, report.results,
                                         replacing.results} : Now(results[k], k)
                      /\ \A c \in Commands : Now(cache'[<<k, c>>], k)
    BY DEF AllVouched, Vouched, Effective
  <2>1. \A x : Vouched(x, k) => Now(x, k)
    BY DEF Vouched
  <2>2. k = m => Now(r, k)
    OBVIOUS
  <2>3. /\ \A results \in {reused, ready, fresh, report.results, replacing.results} :
             Vouched(results[k], k)
        /\ \A c \in Commands : Vouched(cache[<<k, c>>], k)
    BY DEF IInv, AllVouched
  <2> HIDE DEF Now
  <2>4. \A c \in Commands : Now(cache'[<<k, c>>], k)
    BY <1>3, <2>1, <2>2, <2>3
  <2>5. Now(ready'[k], k)
    BY <1>2, <2>1, <2>2, <2>3
  <2> QED
    BY <2>1, <2>3, <2>4, <2>5
<1> QED
  BY <1>4, <1>5, <1>6, <1>7, <1>8 DEF IInv

LEMMA DecideHolds ==
  ASSUME IInv, NEW m \in Mutants, Decide(m)
  PROVE  IInv'
<1>1. PICK s \in {"ignored", "pending_budget"} : Ready(m, Result(s, None, source, TRUE))
  BY DEF Decide
<1> DEFINE r == Result(s, None, source, TRUE)
<1>2. /\ TypeOK /\ Running
      /\ UNCHANGED <<source, keyed, report, replacing, cache, observed, command, phase,
                     reused, fresh, failing, expired>>
  BY DEF Decide, MayTake, IInv
<1>3. /\ r \in Results /\ r.origin = source /\ r # NoResult /\ Effective(r) \notin Outcomes
  BY <1>2, UntestedResults DEF Untested, None
<1>4. r.ended /\ Effective(r) \in Outcomes => Effective(r) \in observed'[m]
  BY <1>3
<1>5. observed' \in [Mutants -> SUBSET Outcomes]
  BY <1>2 DEF TypeOK
<1> HIDE DEF r
<1> QED
  BY <1>1, <1>2, <1>3, <1>4, <1>5, ReadyHolds DEF r

LEMMA HitCacheHolds ==
  ASSUME IInv, NEW m \in Mutants, HitCache(m)
  PROVE  IInv'
<1> DEFINE e == cache[<<m, command>>]
           r == [Reuse(e) EXCEPT !.origin = source]
<1>1. /\ Ready(m, r) /\ TypeOK /\ Running
      /\ UNCHANGED <<source, keyed, report, replacing, cache, observed, command, phase,
                     reused, fresh, failing, expired>>
  BY DEF HitCache, MustRun, MayTake, IInv
<1>2. e \in Results /\ e.origin >= keyed[m] /\ Vouched(e, m)
  BY DEF HitCache, IInv, TypeOK, Dated, AllVouched
<1> HIDE DEF e
<1>3. /\ r \in Results /\ r.origin = source /\ r # NoResult
      /\ r.ended = e.ended
      /\ Effective(r) \in Outcomes => Effective(r) = Effective(e)
  BY <1>1, <1>2, RecalledResults
<1>4. r.ended /\ Effective(r) \in Outcomes => Effective(r) \in observed[m]
  BY <1>2, <1>3 DEF Vouched
<1>5. observed' \in [Mutants -> SUBSET Outcomes]
  BY <1>1 DEF TypeOK
<1> HIDE DEF r
<1> QED
  BY <1>1, <1>3, <1>4, <1>5, ReadyHolds

LEMMA TestHolds ==
  ASSUME IInv, NEW m \in Mutants, Test(m)
  PROVE  IInv'
<1>1. PICK s \in Outcomes :
        LET r == Result(s, None, source, TRUE) IN
        /\ Ready(m, r)
        /\ Store(m, r)
        /\ observed' = [observed EXCEPT ![m] = @ \cup {s}]
  BY DEF Test
<1> DEFINE r == Result(s, None, source, TRUE)
<1>2. /\ TypeOK /\ Running /\ Ready(m, r) /\ Store(m, r)
      /\ UNCHANGED <<source, keyed, report, replacing, command, phase, reused, fresh,
                     failing, expired>>
  BY <1>1 DEF Test, MustRun, MayTake, IInv
<1>3. /\ r \in Results /\ r.origin = source /\ r # NoResult /\ Effective(r) = s
  BY <1>2, TestedResults
<1>4. /\ observed' \in [Mutants -> SUBSET Outcomes]
      /\ s \in observed'[m]
      /\ \A k \in Mutants : observed[k] \subseteq observed'[k]
  BY <1>1, <1>2 DEF TypeOK
<1> HIDE DEF r
<1>5. cache' = cache \/ cache' = [cache EXCEPT ![<<m, command>>] = r]
  BY <1>2 DEF Store
<1> QED
  BY <1>2, <1>3, <1>4, <1>5, ReadyHolds

\* A run that fails or is killed keeps nothing but its files.
LEMMA DropHolds ==
  ASSUME IInv, NEW end \in {"failed", "stopped"}, Drop(end),
         UNCHANGED <<source, keyed, report, cache, observed>>,
         replacing' \in {replacing, NoReport}, command' \in Commands
  PROVE  IInv'
<1>1. TypeOK
  BY DEF IInv
<1>2. TypeOK'
  BY <1>1, EmptyResults, SameTypes DEF Drop, TypeOK
<1>3. Covered' /\ DoneIsComplete'
  BY DEF Drop, Covered, DoneIsComplete, Running
<1>4. Dated'
  BY <1>1, EmptyResults DEF Drop, IInv, Dated, Running, Has
<1>5. AllVouched'
  <2>1. \A m \in Mutants : Vouched(Nothing[m], m) /\ Vouched(NoReport.results[m], m)
    BY <1>1, EmptyResults
  <2> QED
    BY <2>1 DEF Drop, IInv, AllVouched, Vouched
<1> QED
  BY <1>2, <1>3, <1>4, <1>5 DEF IInv

LEMMA FailMutantHolds ==
  ASSUME IInv, NEW m \in Mutants, FailMutant(m)
  PROVE  IInv'
<1>1. /\ TypeOK /\ Running /\ command \in Commands
      /\ UNCHANGED <<source, keyed, report, replacing, cache, observed, command>>
  BY DEF FailMutant, MustRun, MayTake, IInv, TypeOK
<1>2. CASE Drop("failed")
  BY <1>1, <1>2, DropHolds
<1>3. CASE Ready(m, Error(source)) /\ UNCHANGED <<phase, reused, fresh, failing, expired>>
  <2> DEFINE r == Error(source)
  <2>1. /\ r \in Results /\ r.origin = source /\ r # NoResult /\ Effective(r) \notin Outcomes
    BY <1>1, UntestedResults DEF Untested, Error, None
  <2>2. r.ended /\ Effective(r) \in Outcomes => Effective(r) \in observed'[m]
    BY <2>1
  <2>3. observed' \in [Mutants -> SUBSET Outcomes]
    BY <1>1 DEF TypeOK
  <2> HIDE DEF r
  <2> QED
    BY <1>1, <1>3, <2>1, <2>2, <2>3, ReadyHolds DEF r
<1> QED
  BY <1>2, <1>3 DEF FailMutant

LEMMA InterruptHolds ==
  ASSUME IInv, NEW m \in Mutants, Interrupt(m)
  PROVE  IInv'
<1>1. /\ TypeOK /\ Running
      /\ UNCHANGED <<source, keyed, report, replacing, observed, command, phase, reused,
                     fresh, failing, expired>>
  BY DEF Interrupt, MayTake, IInv
<1>2. observed' \in [Mutants -> SUBSET Outcomes]
  BY <1>1 DEF TypeOK
<1>3. CASE Ready(m, Error(source)) /\ UNCHANGED cache
  <2> DEFINE r == Error(source)
  <2>1. /\ r \in Results /\ r.origin = source /\ r # NoResult /\ Effective(r) \notin Outcomes
    BY <1>1, UntestedResults DEF Untested, Error, None
  <2>2. r.ended /\ Effective(r) \in Outcomes => Effective(r) \in observed'[m]
    BY <2>1
  <2> HIDE DEF r
  <2> QED
    BY <1>1, <1>2, <1>3, <2>1, <2>2, ReadyHolds DEF r
<1>4. CASE LET r == Result("killed", None, source, FALSE) IN Ready(m, r) /\ Store(m, r)
  <2> DEFINE r == Result("killed", None, source, FALSE)
  <2>1. r \in Results /\ r.origin = source /\ r # NoResult /\ r.ended = FALSE
    BY <1>1, TestedResults DEF Outcomes
  <2>2. Ready(m, r) /\ Store(m, r)
    BY <1>4
  <2> HIDE DEF r
  <2>3. cache' = cache \/ cache' = [cache EXCEPT ![<<m, command>>] = r]
    BY <2>2 DEF Store
  <2> QED
    BY <1>1, <1>2, <2>1, <2>2, <2>3, ReadyHolds
<1> QED
  BY <1>3, <1>4 DEF Interrupt

\* The report that is written names the source and holds results of it only.
LEMMA CollectHolds ==
  ASSUME IInv, NEW m \in Mutants, Collect(m)
  PROVE  IInv'
<1>1. /\ TypeOK /\ Running /\ Has(ready, m) /\ ready' = [ready EXCEPT ![m] = NoResult]
      /\ fresh' = IF IsError(ready[m]) THEN fresh ELSE [fresh EXCEPT ![m] = ready[m]]
      /\ failing' = (failing \/ IsError(ready[m]))
      /\ UNCHANGED <<source, keyed, cache, observed, command, phase, todo, reused, expired>>
      /\ Replace(Written(fresh'))
  BY DEF Collect, IInv
<1>2. /\ ready \in [Mutants -> Results] /\ fresh \in [Mutants -> Results]
      /\ NoResult \in Results
  BY <1>1, NoResultIsVouched DEF TypeOK
<1>3. /\ ready' \in [Mutants -> Results] /\ fresh' \in [Mutants -> Results]
      /\ \A k \in Mutants : ready'[k] = ready[k] \/ (k = m /\ ready'[k] = NoResult)
      /\ \A k \in Mutants : fresh'[k] = fresh[k] \/ (k = m /\ fresh'[k] = ready[k])
      /\ ~IsError(ready[m]) => fresh'[m] = ready[m]
  BY <1>1, <1>2
<1>4. /\ Written(fresh') = [fingerprint |-> source, results |-> fresh', exists |-> TRUE]
      /\ Written(fresh') \in Reports
  <2>1. source \in 0 .. source
    BY <1>1, SizesAssumption DEF TypeOK, Versions
  <2> QED
    BY <1>3, <2>1 DEF Written, Report, Reports
<1>5. {report', replacing'} \subseteq {report, replacing, NoReport, Written(fresh')}
  BY <1>1 DEF Replace
<1>6. {failing', expired'} \subseteq BOOLEAN
  BY <1>1 DEF TypeOK, IsError
<1>7. TypeOK'
  <2>1. {report', replacing'} \subseteq Reports
    BY <1>1, <1>4, <1>5, EmptyResults DEF TypeOK
  <2> QED
    BY <1>1, <1>3, <1>6, <2>1, SameTypes DEF TypeOK
<1>8. Covered'
  <2>1. ~failing' => ~failing /\ fresh'[m] = ready[m]
    BY <1>1, <1>3
  <2> SUFFICES ASSUME ~failing', NEW k \in Mutants
               PROVE  k \in todo \/ Has(reused, k) \/ Has(ready', k) \/ Has(fresh', k)
    BY <1>1 DEF Covered, Running, Has
  <2>2. k \in todo \/ Has(reused, k) \/ Has(ready, k) \/ Has(fresh, k)
    BY <1>1, <2>1 DEF IInv, Covered
  <2>3. CASE k = m
    BY <1>1, <2>1, <2>3 DEF Has
  <2>4. CASE k # m
    BY <1>3, <2>2, <2>4 DEF Has
  <2> QED
    BY <2>3, <2>4
<1>9. DoneIsComplete'
  BY <1>1 DEF DoneIsComplete, Running
<1>10. /\ \A k \in Mutants : /\ Has(fresh', k) => fresh'[k].origin = source
                             /\ Has(ready', k) => ready'[k].origin = source
  BY <1>1, <1>3 DEF IInv, Dated, Has
<1>11. Dated'
  <2>1. \A f \in {report', replacing'} : \A k \in Mutants :
          Has(f.results, k) => f.results[k].origin = f.fingerprint
    <3> DEFINE Named(f) == \A k \in Mutants :
                 f.results[k] # NoResult => f.results[k].origin = f.fingerprint
    <3>1. Named(report) /\ Named(replacing)
      BY DEF IInv, Dated, Has
    <3>2. Named(NoReport)
      BY <1>1, EmptyResults
    <3>3. Named(Written(fresh'))
      BY <1>4, <1>10 DEF Has
    <3> HIDE DEF Named
    <3>4. \A f \in {report', replacing'} : Named(f)
      BY <1>5, <3>1, <3>2, <3>3
    <3> QED
      BY <3>4 DEF Named, Has
  <2> QED
    BY <1>1, <1>10, <2>1 DEF IInv, Dated, Has
<1>12. AllVouched'
  <2>1. /\ \A k \in Mutants : Vouched(ready'[k], k) /\ Vouched(fresh'[k], k)
        /\ \A k \in Mutants : Vouched(NoReport.results[k], k)
    BY <1>1, <1>3, NoResultIsVouched, EmptyResults DEF IInv, AllVouched
  <2>2. \A f \in {report', replacing'} : \A k \in Mutants : Vouched(f.results[k], k)
    BY <1>4, <1>5, <2>1 DEF IInv, AllVouched
  <2> QED
    BY <1>1, <2>1, <2>2 DEF IInv, AllVouched, Vouched
<1> QED
  BY <1>7, <1>8, <1>9, <1>11, <1>12 DEF IInv

LEMMA RenameHolds == ASSUME IInv, Rename PROVE IInv'
<1>1. /\ TypeOK /\ report' \in {replacing, report} /\ replacing' = NoReport
      /\ UNCHANGED <<source, keyed, cache, observed, runVars>>
  BY DEF Rename, IInv
<1>2. TypeOK'
  BY <1>1, EmptyResults, SameTypes DEF TypeOK, runVars
<1>3. Covered' /\ DoneIsComplete'
  BY <1>1 DEF IInv, Covered, DoneIsComplete, Final, Running, Has, runVars
<1>4. Dated'
  BY <1>1, EmptyResults DEF IInv, Dated, Running, Has, runVars
<1>5. AllVouched'
  <2>1. \A m \in Mutants : Vouched(NoReport.results[m], m)
    BY <1>1, EmptyResults
  <2> QED
    BY <1>1, <2>1 DEF IInv, AllVouched, Vouched, runVars
<1> QED
  BY <1>2, <1>3, <1>4, <1>5 DEF IInv

-----------------------------------------------------------------------------
(* The start and the end of a run, and what happens between two.           *)

LEMMA BeginHolds ==
  ASSUME IInv, ~Running, NEW c \in Commands, NEW from \in [Mutants -> Results],
         NEW mode \in {"serial", "parallel"}, NEW remaining \in SUBSET Mutants,
         Begin(c, from, mode, remaining),
         \A m \in Mutants : Vouched(from[m], m),
         \A m \in Mutants : m \in remaining \/ Has(from, m)
  PROVE  IInv'
<1>1. /\ TypeOK /\ command' = c /\ reused' = from /\ ready' = Nothing /\ failing' = FALSE
      /\ phase' = mode /\ UNCHANGED <<source, keyed, report, replacing, cache, observed>>
  BY DEF Begin, IInv
<1>2. /\ todo' \subseteq Mutants /\ expired' \in BOOLEAN
      /\ fresh' \in [Mutants -> Results]
      /\ \A m \in Mutants : /\ Has(fresh', m) => fresh'[m].origin = source
                            /\ Vouched(fresh'[m], m)
                            /\ m \in remaining => m \in todo' \/ Has(fresh', m)
  <2>1. CASE todo' = remaining /\ fresh' = Nothing /\ expired' = FALSE
    BY <1>1, <2>1, EmptyResults DEF Has
  <2>2. CASE \E cut \in IF Budgeted THEN 1 .. N + 1 ELSE {N + 1} :
             /\ todo' = {m \in remaining \ Skipped : m < cut}
             /\ fresh' = [m \in Mutants |->
                            CASE m \in Skipped -> Result("ignored", None, source, TRUE)
                              [] m \in todo' -> NoResult
                              [] OTHER -> Result("pending_budget", None, source, TRUE)]
             /\ expired' = (cut # N + 1)
    <3>1. /\ todo' \subseteq Mutants \ Skipped /\ expired' \in BOOLEAN
          /\ fresh' = [m \in Mutants |->
                         CASE m \in Skipped -> Result("ignored", None, source, TRUE)
                           [] m \in todo' -> NoResult
                           [] OTHER -> Result("pending_budget", None, source, TRUE)]
      BY <2>2
    <3> DEFINE Decided == {Result("ignored", None, source, TRUE),
                           Result("pending_budget", None, source, TRUE)}
    <3>2. ASSUME NEW m \in Mutants
          PROVE  fresh'[m] \in Decided \/ (m \in todo' /\ fresh'[m] = NoResult)
      BY <3>1
    <3>3. \A r \in Decided :
            /\ r \in Results /\ r.origin = source /\ r # NoResult
            /\ \A m \in Mutants : Vouched(r, m)
      BY <1>1, UntestedResults DEF Untested, None
    <3>4. NoResult \in Results /\ \A m \in Mutants : Vouched(NoResult, m)
      BY <1>1, NoResultIsVouched
    <3> HIDE DEF Decided
    <3>5. /\ \A m \in Mutants : fresh'[m] \in Results
          /\ \A m \in Mutants : fresh'[m] # NoResult => fresh'[m].origin = source
          /\ \A m \in Mutants : Vouched(fresh'[m], m)
          /\ \A m \in Mutants : m \in todo' \/ fresh'[m] # NoResult
      BY <3>2, <3>3, <3>4
    <3>6. fresh' \in [Mutants -> Results]
      BY <3>1, <3>5
    <3> QED
      BY <3>1, <3>5, <3>6 DEF Has
  <2> QED
    BY <2>1, <2>2 DEF Begin
<1>3. TypeOK'
  BY <1>1, <1>2, EmptyResults, SameTypes DEF TypeOK
<1>4. Covered' /\ DoneIsComplete'
  BY <1>1, <1>2 DEF Covered, DoneIsComplete, Has
<1>5. Dated'
  BY <1>1, <1>2, EmptyResults DEF IInv, Dated, Has
<1>6. AllVouched'
  <2>1. \A m \in Mutants : Vouched(Nothing[m], m)
    BY <1>1, EmptyResults
  <2> QED
    BY <1>1, <1>2, <2>1 DEF IInv, AllVouched, Vouched
<1> QED
  BY <1>3, <1>4, <1>5, <1>6 DEF IInv

LEMMA StartAfreshHolds == ASSUME IInv, NEW c \in Commands, StartAfresh(c) PROVE IInv'
<1>1. /\ Nothing \in [Mutants -> Results]
      /\ \A m \in Mutants : Vouched(Nothing[m], m)
  BY EmptyResults DEF IInv
<1>2. Mode(c) \in {"serial", "parallel"}
  BY DEF Mode
<1> QED
  BY <1>1, <1>2, BeginHolds DEF StartAfresh

\* What a resumed run takes over.
LEMMA TakenOver ==
  ASSUME TypeOK, AllVouched
  PROVE  /\ ReuseAll(report.results) \in [Mutants -> Results]
         /\ \A m \in Mutants :
              /\ Vouched(ReuseAll(report.results)[m], m)
              /\ Has(ReuseAll(report.results), m) <=> Has(report.results, m)
              /\ Has(report.results, m) =>
                   ReuseAll(report.results)[m].origin = report.results[m].origin
<1> DEFINE old == report.results
           new == ReuseAll(old)
<1>1. old \in [Mutants -> Results] /\ \A m \in Mutants : Vouched(old[m], m)
  BY DEF TypeOK, Reports, AllVouched
<1>2. new = [m \in Mutants |-> IF Has(old, m) THEN Reuse(old[m]) ELSE NoResult]
  BY DEF ReuseAll
<1> HIDE DEF old, new
<1>3. ASSUME NEW m \in Mutants
      PROVE  /\ new[m] \in Results
             /\ Vouched(new[m], m)
             /\ Has(new, m) <=> Has(old, m)
             /\ Has(old, m) => new[m].origin = old[m].origin
  <2>1. CASE Has(old, m)
    <3>1. new[m] = Reuse(old[m]) /\ old[m] \in Results
      BY <1>1, <1>2, <2>1
    <3> QED
      BY <1>1, <2>1, <3>1, ReusedResults DEF Vouched, Has
  <2>2. CASE ~Has(old, m)
    <3>1. new[m] = NoResult
      BY <1>2, <2>2
    <3> QED
      BY <2>2, <3>1, NoResultIsVouched DEF Has
  <2> QED
    BY <2>1, <2>2
<1>4. new \in [Mutants -> Results]
  BY <1>2, <1>3
<1> QED
  BY <1>3, <1>4 DEF old, new

LEMMA StartResumedHolds == ASSUME IInv, NEW c \in Commands, StartResumed(c) PROVE IInv'
<1>1. /\ ~Running
      /\ Begin(c, ReuseAll(report.results), "serial", Mutants \ Completed(report.results))
  BY DEF StartResumed
<1>2. \A m \in Mutants : m \in Mutants \ Completed(report.results)
                           \/ Has(ReuseAll(report.results), m)
  BY TakenOver DEF IInv, Completed
<1>3. Mutants \ Completed(report.results) \in SUBSET Mutants
  OBVIOUS
<1> QED
  BY <1>1, <1>2, <1>3, TakenOver, BeginHolds DEF IInv

LEMMA FinishHolds == ASSUME IInv, Finish PROVE IInv'
<1>1. /\ TypeOK /\ Running /\ todo = {} /\ ready = Nothing
      /\ UNCHANGED <<source, keyed, report, replacing, cache, observed, command>>
  BY DEF Finish, Over, IInv
<1>2. CASE Drop("failed")
  BY <1>1, <1>2, DropHolds DEF TypeOK
<1>3. CASE ~failing /\ Succeed
  <2>1. phase' = "done" /\ UNCHANGED <<todo, reused, ready, fresh, failing, expired>>
    BY <1>3 DEF Succeed
  <2>2. TypeOK'
    BY <1>1, <2>1, SameTypes DEF TypeOK
  <2>3. \A m \in Mutants : Has(reused, m) \/ Has(fresh, m)
    BY <1>1, <1>3, EmptyResults DEF IInv, Covered, Has
  <2>4. Covered' /\ DoneIsComplete'
    BY <2>1, <2>3 DEF Covered, DoneIsComplete, Final, Running, Has
  <2>5. Dated' /\ AllVouched'
    BY <1>1, <2>1 DEF IInv, Dated, AllVouched, Running, Has, Vouched
  <2> QED
    BY <2>2, <2>4, <2>5 DEF IInv
<1> QED
  BY <1>2, <1>3 DEF Finish

\* Results of the mutants touched are older than their files, and the others stand.
LEMMA EditHolds == ASSUME IInv, NEW touched, Edit(touched) PROVE IInv'
<1>1. /\ TypeOK /\ ~Running /\ source' = source + 1 /\ source < MaxEdits
      /\ keyed' = [m \in Mutants |-> IF m \in touched THEN source' ELSE keyed[m]]
      /\ observed' = [m \in Mutants |-> IF m \in touched THEN {} ELSE observed[m]]
      /\ cache' = [key \in Mutants \X Commands |->
                     IF key[1] \in touched THEN NoResult ELSE cache[key]]
      /\ UNCHANGED <<report, replacing, runVars>>
  BY DEF Edit, Touch, IInv
<1>2. source \in Nat /\ source' \in Versions /\ 0 .. source \subseteq 0 .. source'
      /\ source' \in 0 .. source' /\ \A v \in 0 .. source : ~(v >= source')
  BY <1>1, SizesAssumption DEF TypeOK, Versions
<1>3. Results \subseteq Results' /\ Reports \subseteq Reports'
  <2>1. Results \subseteq Results'
    BY <1>2 DEF Results
  <2> QED
    BY <1>2, <2>1 DEF Reports
<1>4. \A m \in Mutants, c \in Commands :
        /\ m \in touched => cache'[<<m, c>>] = NoResult
        /\ m \notin touched => cache'[<<m, c>>] = cache[<<m, c>>]
  BY <1>1
<1>5. cache' \in [Mutants \X Commands -> Results']
  <2>1. NoResult \in Results /\ cache \in [Mutants \X Commands -> Results]
    BY <1>1, NoResultIsVouched DEF TypeOK
  <2> QED
    BY <1>1, <1>3, <2>1
<1>6. \A m \in Mutants : /\ m \in touched => keyed'[m] = source'
                         /\ m \notin touched => keyed'[m] = keyed[m] /\ observed'[m] = observed[m]
  BY <1>1
<1>7. TypeOK'
  <2>1. keyed' \in [Mutants -> 0 .. source']
    BY <1>1, <1>2 DEF TypeOK
  <2>2. observed' \in [Mutants -> SUBSET Outcomes]
    BY <1>1 DEF TypeOK
  <2> QED
    BY <1>1, <1>2, <1>3, <1>5, <2>1, <2>2 DEF TypeOK, runVars
<1>8. Covered' /\ DoneIsComplete'
  BY <1>1 DEF IInv, Covered, DoneIsComplete, Final, Running, Has, runVars
<1>9. Dated'
  BY <1>1, <1>4, <1>6 DEF IInv, Dated, Running, Has, runVars
<1>10. AllVouched'
  <2> DEFINE Now(x, m) ==
        x.origin >= keyed'[m] /\ x.ended /\ Effective(x) \in Outcomes
          => Effective(x) \in observed'[m]
  <2>1. ASSUME NEW m \in Mutants, NEW x \in Results, Vouched(x, m) PROVE Now(x, m)
    <3>1. CASE m \in touched
      BY <1>2, <1>6, <3>1 DEF Results
    <3>2. CASE m \notin touched
      BY <1>6, <2>1, <3>2 DEF Vouched
    <3> QED
      BY <3>1, <3>2
  <2>2. \A m \in Mutants : Now(NoResult, m)
    BY <1>1, <2>1, NoResultIsVouched
  <2> HIDE DEF Now
  <2>3. \A m \in Mutants, c \in Commands : Now(cache'[<<m, c>>], m)
    <3>1. \A m \in Mutants, c \in Commands :
            cache[<<m, c>>] \in Results /\ Vouched(cache[<<m, c>>], m)
      BY DEF IInv, TypeOK, AllVouched
    <3> QED
      BY <1>4, <2>1, <2>2, <3>1
  <2>4. \A m \in Mutants :
          \A results \in {reused, ready, fresh, report.results, replacing.results} :
            Now(results[m], m)
    <3>1. \A m \in Mutants :
            \A results \in {reused, ready, fresh, report.results, replacing.results} :
              results[m] \in Results /\ Vouched(results[m], m)
      BY DEF IInv, TypeOK, Reports, AllVouched
    <3> QED
      BY <2>1, <3>1
  <2> QED
    BY <1>1, <2>3, <2>4 DEF AllVouched, Vouched, Effective, Now, runVars
<1> QED
  BY <1>7, <1>8, <1>9, <1>10 DEF IInv

LEMMA OthersHold ==
  ASSUME IInv, Expire \/ UNCHANGED vars
  PROVE  IInv'
<1>1. /\ TypeOK /\ expired' \in BOOLEAN
      /\ UNCHANGED <<source, keyed, report, replacing, cache, observed, command, phase,
                     todo, reused, ready, fresh, failing>>
  BY DEF Expire, vars, runVars, IInv, TypeOK
<1>2. TypeOK'
  BY <1>1, SameTypes DEF TypeOK
<1> QED
  BY <1>1, <1>2 DEF IInv, Covered, DoneIsComplete, Final, Dated, AllVouched, Vouched,
                    Running, Has

LEMMA InitHolds == Init => IInv
<1> SUFFICES ASSUME Init PROVE IInv
  OBVIOUS
<1>1. source = 0 /\ source \in Versions /\ 0 \in 0 .. source
  BY SizesAssumption DEF Init, Versions
<1>2. /\ NoResult \in Results /\ NoResult.status = None
      /\ \A m : Vouched(NoResult, m)
  <2>1. /\ NoResult.status = None /\ None \notin Outcomes \cup {"cached"}
        /\ NoResult = [status |-> None, previous |-> None, origin |-> 0, ended |-> TRUE]
    BY DEF NoResult, Result, None, Outcomes
  <2> QED
    BY <1>1, <2>1 DEF Results, Vouched, Effective
<1>3. /\ Nothing \in [Mutants -> Results] /\ \A m \in Mutants : Nothing[m] = NoResult
      /\ NoReport = [fingerprint |-> 0, results |-> Nothing, exists |-> FALSE]
  BY <1>2 DEF Nothing, NoReport
<1>4. NoReport \in Reports /\ NoReport.results = Nothing
  BY <1>1, <1>3 DEF Reports
<1>5. EmptyCache \in [Mutants \X Commands -> Results]
      /\ \A key \in Mutants \X Commands : EmptyCache[key] = NoResult
  BY <1>2 DEF EmptyCache
<1>6. TypeOK
  BY <1>1, <1>3, <1>4, <1>5 DEF Init, TypeOK
<1>7. Covered /\ DoneIsComplete
  BY DEF Init, Covered, DoneIsComplete, Running
<1>8. Dated /\ AllVouched
  BY <1>2, <1>3, <1>4, <1>5 DEF Init, Dated, AllVouched, Running, Has
<1> QED
  BY <1>6, <1>7, <1>8 DEF IInv

-----------------------------------------------------------------------------
(* The theorems. *)

\* The invariant of every sequence of runs: each mutant of a run is accounted
\* for, fingerprints vouch for results of one source and keys for results of the
\* files they digest, and no verdict recorded since the files its key digests
\* changed is unobserved, wherever it is kept (cacheKey, checkPartialCompatibility).
THEOREM ResumptionInvariant == Spec => []IInv
<1>1. IInv /\ [Next]_vars => IInv'
  <2> SUFFICES ASSUME IInv, [Next]_vars PROVE IInv'
    OBVIOUS
  <2>1. ASSUME NEW c \in Commands, StartAfresh(c) \/ StartResumed(c) \/ RejectResume(c)
        PROVE  IInv'
    <3>1. CASE RejectResume(c)
      BY <3>1, DropHolds DEF RejectResume
    <3> QED
      BY <2>1, <3>1, StartAfreshHolds, StartResumedHolds
  <2>2. ASSUME NEW m \in Mutants,
               \/ Decide(m) \/ HitCache(m) \/ Test(m) \/ FailMutant(m) \/ Interrupt(m)
               \/ Collect(m)
        PROVE  IInv'
    BY <2>2, DecideHolds, HitCacheHolds, TestHolds, FailMutantHolds, InterruptHolds,
       CollectHolds
  <2>3. CASE Crash
    BY <2>3, DropHolds DEF Crash, IInv, TypeOK
  <2> QED
    BY <2>1, <2>2, <2>3, RenameHolds, FinishHolds, EditHolds, OthersHold DEF Next
<1> QED
  BY <1>1, InitHolds, PTL DEF Spec

\* A run that ends has a result for every mutant, after any number of kills and
\* resumes (runMutantsWithResume).
THEOREM FinishedRunsAreComplete == Spec => []DoneIsComplete
<1>1. IInv => DoneIsComplete
  BY DEF IInv
<1> QED
  BY <1>1, ResumptionInvariant, PTL

\* A verdict that is reported was observed by a test that ran with the files its key
\* digests as they are, however often it was reused and whatever other files were
\* edited since (cacheKey, getCached, loadPartialResults).
THEOREM ReportedVerdictsWereObserved == Spec => []VerdictsWereObserved
<1>1. IInv => VerdictsWereObserved
  BY DEF IInv, AllVouched, Vouched, VerdictsWereObserved, Final
<1> QED
  BY <1>1, ResumptionInvariant, PTL

\* A resumed run takes over results of the source as it is only
\* (checkPartialCompatibility).
THEOREM StaleResultsAreRejected == Spec => StaleResultsRejected
<1> DEFINE Fresh == ~Running /\ Running' =>
                      \A m \in Mutants : Has(reused', m) => reused'[m].origin = source
<1>1. ASSUME IInv, [Next]_vars PROVE Fresh
  <2> SUFFICES ASSUME ~Running, Running', NEW m \in Mutants, Has(reused', m)
               PROVE  reused'[m].origin = source
    OBVIOUS
  <2>1. ASSUME NEW c \in Commands, StartAfresh(c)
        PROVE  reused'[m].origin = source
    BY <1>1, <2>1, EmptyResults DEF StartAfresh, Begin, IInv, Has
  <2>2. ASSUME NEW c \in Commands, StartResumed(c)
        PROVE  reused'[m].origin = source
    <3>1. reused' = ReuseAll(report.results) /\ report.fingerprint = source
      BY <2>2 DEF StartResumed, Begin
    <3>2. Has(report.results, m) /\ reused'[m].origin = report.results[m].origin
      BY <1>1, <3>1, TakenOver DEF IInv, Has
    <3> QED
      BY <1>1, <3>1, <3>2 DEF IInv, Dated
  <2>3. \A c \in Commands : ~RejectResume(c)
    BY DEF RejectResume, Drop, Running
  <2>4. \A k \in Mutants : /\ ~Decide(k) /\ ~HitCache(k) /\ ~Test(k) /\ ~FailMutant(k)
                           /\ ~Interrupt(k) /\ ~Collect(k)
    BY DEF Decide, HitCache, Test, FailMutant, Interrupt, Collect, MustRun, MayTake
  <2>5. ~Rename /\ ~Finish /\ ~Crash
    BY DEF Rename, Finish, Over, Crash
  <2>6. (\A touched : ~Edit(touched)) /\ ~Expire /\ ~UNCHANGED vars
    BY DEF Edit, Touch, Expire, vars, runVars, Running
  <2> QED
    BY <1>1, <2>1, <2>2, <2>3, <2>4, <2>5, <2>6 DEF Next
<1> QED
  BY <1>1, ResumptionInvariant, PTL DEF Spec, StaleResultsRejected

-----------------------------------------------------------------------------
(* The runs keep the promise of ObservedRuns.                              *)

LEMMA ApartAtFirst == Init => Apart
BY DEF Init, Apart, Has, Nothing

LEMMA ReadyKeepsApart ==
  ASSUME TypeOK, Apart, NEW m \in Mutants, m \in todo, NEW r, Ready(m, r),
         UNCHANGED <<reused, fresh>>
  PROVE  Apart'
<1>1. /\ todo' = todo \ {m} /\ \A k \in Mutants \ {m} : ready'[k] = ready[k]
  BY DEF Ready, TypeOK
<1> QED
  BY <1>1 DEF Apart, Has

LEMMA EmptyKeepsApart == ASSUME TypeOK, NEW end, Drop(end) PROVE Apart'
BY EmptyResults DEF Drop, Apart, Has

LEMMA CollectKeepsApart ==
  ASSUME TypeOK, Apart, NEW m \in Mutants, Collect(m)
  PROVE  Apart'
<1>1. /\ Has(ready, m) /\ ready' = [ready EXCEPT ![m] = NoResult]
      /\ fresh' = IF IsError(ready[m]) THEN fresh ELSE [fresh EXCEPT ![m] = ready[m]]
      /\ UNCHANGED <<todo, reused>>
      /\ ready \in [Mutants -> Results] /\ fresh \in [Mutants -> Results]
  BY DEF Collect, TypeOK
<1>2. \A k \in Mutants \ {m} : ready'[k] = ready[k] /\ fresh'[k] = fresh[k]
  BY <1>1
<1>3. m \notin todo /\ ready'[m] = NoResult
  BY <1>1 DEF Apart
<1> QED
  BY <1>1, <1>2, <1>3 DEF Apart, Has

LEMMA BeginKeepsApart ==
  ASSUME TypeOK, NEW c, NEW from, NEW mode, NEW remaining \in SUBSET Mutants,
         Begin(c, from, mode, remaining),
         \A m \in remaining : ~Has(from, m)
  PROVE  Apart'
<1>1. reused' = from /\ \A m \in Mutants : ready'[m] = NoResult
  BY EmptyResults DEF Begin
<1>2. \A m \in todo' : m \in remaining /\ fresh'[m] = NoResult
  <2>1. CASE todo' = remaining /\ fresh' = Nothing
    BY <2>1, EmptyResults
  <2>2. CASE \E cut \in IF Budgeted THEN 1 .. N + 1 ELSE {N + 1} :
             /\ todo' = {m \in remaining \ Skipped : m < cut}
             /\ fresh' = [m \in Mutants |->
                            CASE m \in Skipped -> Result("ignored", None, source, TRUE)
                              [] m \in todo' -> NoResult
                              [] OTHER -> Result("pending_budget", None, source, TRUE)]
    <3>1. todo' \subseteq remaining \ Skipped
      BY <2>2
    <3>2. fresh' = [m \in Mutants |->
                      CASE m \in Skipped -> Result("ignored", None, source, TRUE)
                        [] m \in todo' -> NoResult
                        [] OTHER -> Result("pending_budget", None, source, TRUE)]
      BY <2>2
    <3> QED
      BY <3>1, <3>2
  <2> QED
    BY <2>1, <2>2 DEF Begin
<1> QED
  BY <1>1, <1>2 DEF Apart, Has

\* The arguments of the two ways to begin a run.
LEMMA Beginnings ==
  ASSUME IInv, NEW c \in Commands, StartAfresh(c) \/ StartResumed(c)
  PROVE  \E from \in [Mutants -> Results], mode \in {"serial", "parallel"},
            remaining \in SUBSET Mutants :
           /\ Begin(c, from, mode, remaining)
           /\ \A m \in remaining : ~Has(from, m)
<1>1. CASE StartAfresh(c)
  <2>1. Begin(c, Nothing, Mode(c), Mutants) /\ Mode(c) \in {"serial", "parallel"}
    BY <1>1 DEF StartAfresh, Mode
  <2>2. Nothing \in [Mutants -> Results] /\ \A m \in Mutants : ~Has(Nothing, m)
    BY EmptyResults DEF IInv, Has
  <2> QED
    BY <2>1, <2>2
<1>2. CASE StartResumed(c)
  <2> DEFINE from == ReuseAll(report.results)
             remaining == Mutants \ Completed(report.results)
  <2>1. Begin(c, from, "serial", remaining) /\ remaining \in SUBSET Mutants
    BY <1>2 DEF StartResumed
  <2>2. from \in [Mutants -> Results] /\ \A m \in remaining : ~Has(from, m)
    BY TakenOver DEF IInv, Completed
  <2> HIDE DEF from, remaining
  <2> QED
    BY <2>1, <2>2
<1> QED
  BY <1>1, <1>2

LEMMA StepsKeepApart == IInv /\ Apart /\ [Next]_vars => Apart'
<1> SUFFICES ASSUME IInv, Apart, [Next]_vars PROVE Apart'
  OBVIOUS
<1>1. TypeOK
  BY DEF IInv
<1>2. ASSUME NEW c \in Commands, StartAfresh(c) \/ StartResumed(c) \/ RejectResume(c)
      PROVE  Apart'
  <2>1. CASE RejectResume(c)
    BY <1>1, <2>1, EmptyKeepsApart DEF RejectResume
  <2> QED
    BY <1>1, <1>2, <2>1, Beginnings, BeginKeepsApart
<1>3. ASSUME NEW m \in Mutants,
             \/ Decide(m) \/ HitCache(m) \/ Test(m) \/ FailMutant(m) \/ Interrupt(m)
             \/ Collect(m)
      PROVE  Apart'
  <2>1. CASE FailMutant(m)
    BY <1>1, <2>1, EmptyKeepsApart, ReadyKeepsApart DEF FailMutant, MustRun, MayTake
  <2>2. CASE Collect(m)
    BY <1>1, <2>2, CollectKeepsApart
  <2>3. CASE Decide(m) \/ HitCache(m) \/ Test(m) \/ Interrupt(m)
    BY <1>1, <2>3, ReadyKeepsApart DEF Decide, HitCache, Test, Interrupt, MustRun, MayTake
  <2> QED
    BY <1>3, <2>1, <2>2, <2>3
<1>4. CASE Finish \/ Crash
  <2>1. CASE \E end : Drop(end)
    BY <1>1, <2>1, EmptyKeepsApart
  <2>2. CASE UNCHANGED <<todo, reused, ready, fresh>>
    BY <2>2 DEF Apart, Has
  <2> QED
    BY <1>4, <2>1, <2>2 DEF Finish, Succeed, Crash
<1>5. CASE Rename \/ (\E touched : Edit(touched)) \/ Expire \/ UNCHANGED vars
  BY <1>5 DEF Rename, Edit, Touch, Expire, vars, runVars, Apart, Has
<1> QED
  BY <1>2, <1>3, <1>4, <1>5 DEF Next

\* The words of the abstract specification.
LEMMA SameWords ==
  /\ Promise!None = None /\ Promise!Unseen = "unseen"
  /\ None # "unseen" /\ None \notin Outcomes /\ "unseen" \notin Outcomes
  /\ Promise!Undecided = [m \in Mutants |-> None]
BY DEF Promise!None, Promise!Unseen, Promise!Undecided, None, Outcomes

\* What a result says of a mutant whose keyed files are as they were since a version.
LEMMA Sayings ==
  ASSUME NEW since
  PROVE  /\ Promised(NoResult, since) = None
         /\ \A r : r # NoResult => Promised(r, since) # None
         /\ \A r : r # NoResult /\ ~(r.origin >= since /\ r.ended /\ Effective(r) \in Outcomes)
                     => Promised(r, since) = "unseen"
         /\ \A r : r # NoResult /\ r.origin >= since /\ r.ended /\ Effective(r) \in Outcomes
                     => Promised(r, since) = Effective(r)
BY SameWords DEF Promised

\* What is recorded after a step, and what is then given.
LEMMA RecordedNext ==
  /\ Given' = [m \in Mutants |-> Promised(Recorded'[m], keyed'[m])]
  /\ \A m \in Mutants :
       Recorded'[m] = IF fresh'[m] # NoResult THEN fresh'[m]
                      ELSE IF ready'[m] # NoResult /\ ~IsError(ready'[m]) THEN ready'[m]
                      ELSE reused'[m]
BY DEF Given, Recorded, Has, IsError

\* Where nothing is recorded anew, nothing is seen.
LEMMA Unnoticed ==
  ASSUME UNCHANGED <<keyed, observed>>, Shown' = Shown,
         \A m \in Mutants : Recorded'[m] = Recorded[m]
  PROVE  UNCHANGED Promise!vars
<1>1. Given' = Given
  BY RecordedNext DEF Given
<1> QED
  BY <1>1 DEF Promise!vars

\* A mutant that was waiting has an answer.
LEMMA Answered ==
  ASSUME IInv, Apart, Running, NEW m \in Mutants, m \in todo,
         NEW r, r # NoResult, ~IsError(r), Ready(m, r),
         UNCHANGED <<source, keyed, reused, fresh, phase>>
  PROVE  /\ Given[m] = None
         /\ Given' = [Given EXCEPT ![m] = Promised(r, keyed[m])]
         /\ Shown = "running" /\ Shown' = "running"
<1>1. ready'[m] = r /\ \A k \in Mutants \ {m} : ready'[k] = ready[k]
  BY DEF IInv, TypeOK, Ready
<1>2. /\ reused[m] = NoResult /\ ready[m] = NoResult /\ fresh[m] = NoResult
  BY DEF Apart, Has
<1>3. Recorded[m] = NoResult /\ Recorded'[m] = r
  <2>1. Recorded[m] = NoResult
    BY <1>2 DEF Recorded, Has
  <2> QED
    BY <1>1, <1>2, <2>1, RecordedNext
<1>4. \A k \in Mutants \ {m} : Recorded'[k] = Recorded[k]
  BY <1>1, RecordedNext DEF Recorded, Has
<1>5. Given[m] = None
  BY <1>3, Sayings DEF Given
<1>6. \A k \in Mutants : Given'[k] = IF k = m THEN Promised(r, keyed[m]) ELSE Given[k]
  BY <1>3, <1>4, RecordedNext DEF Given
<1>7. Given' = [k \in Mutants |-> Given'[k]] /\ Given = [k \in Mutants |-> Given[k]]
  BY RecordedNext DEF Given
<1> QED
  BY <1>5, <1>6, <1>7 DEF Shown, Running

\* What is vouched for says what is known.
LEMMA VouchedIsKnown ==
  ASSUME NEW m, NEW r, Vouched(r, m)
  PROVE  /\ Promised(r, keyed[m]) \in {None, "unseen"} \cup observed[m]
         /\ r # NoResult => Promised(r, keyed[m]) \in Promise!Known(m)
BY Sayings, SameWords DEF Vouched, Promise!Known

LEMMA RecallStep ==
  ASSUME IInv, Apart, Running, NEW m \in Mutants, m \in todo,
         NEW r, r # NoResult, ~IsError(r), Vouched(r, m), Ready(m, r),
         UNCHANGED <<source, keyed, reused, fresh, phase, observed>>
  PROVE  Promise!Next
<1>1. Promised(r, keyed[m]) \in Promise!Known(m)
  BY VouchedIsKnown
<1>2. /\ Given[m] = None /\ Given' = [Given EXCEPT ![m] = Promised(r, keyed[m])]
      /\ Shown = "running" /\ Shown' = "running"
  BY Answered
<1>3. Given'[m] = Promised(r, keyed[m])
  BY <1>2 DEF Given
<1>4. Promise!Recall(m)
  BY <1>1, <1>2, <1>3, SameWords DEF Promise!Recall
<1> QED
  BY <1>4 DEF Promise!Next

LEMMA ObserveStep == ASSUME IInv, Apart, NEW m \in Mutants, Test(m) PROVE Promise!Next
<1>1. PICK s \in Outcomes :
        /\ Ready(m, Result(s, None, source, TRUE))
        /\ observed' = [observed EXCEPT ![m] = @ \cup {s}]
  BY DEF Test
<1> DEFINE r == Result(s, None, source, TRUE)
<1>2. /\ Running /\ m \in todo /\ UNCHANGED <<source, keyed, reused, fresh, phase>>
  BY DEF Test, MustRun, MayTake
<1>3. /\ r # NoResult /\ r.origin = source /\ r.ended /\ Effective(r) = s
      /\ ~IsError(r)
  BY TestedResults DEF IInv, IsError, Result, Outcomes
<1>4. Promised(r, keyed[m]) = s
  <2>1. source >= keyed[m]
    BY SizesAssumption DEF IInv, TypeOK, Versions
  <2> QED
    BY <1>3, <2>1, Sayings
<1>5. Ready(m, r)
  BY <1>1
<1> HIDE DEF r
<1>6. /\ Given[m] = None /\ Given' = [Given EXCEPT ![m] = s]
      /\ Shown = "running" /\ Shown' = "running"
  BY <1>2, <1>3, <1>4, <1>5, Answered
<1>7. Promise!Observe(m)
  BY <1>1, <1>6, SameWords DEF Promise!Observe
<1> QED
  BY <1>7 DEF Promise!Next

\* Deciding a mutant, or finding it in the cache, recalls what is known.
LEMMA RecallSteps ==
  ASSUME IInv, Apart, NEW m \in Mutants, Decide(m) \/ HitCache(m)
  PROVE  Promise!Next
<1>1. CASE Decide(m)
  <2>1. PICK s \in {"ignored", "pending_budget"} : Ready(m, Result(s, None, source, TRUE))
    BY <1>1 DEF Decide
  <2> DEFINE r == Result(s, None, source, TRUE)
  <2>2. /\ Running /\ m \in todo /\ UNCHANGED <<source, keyed, reused, fresh, phase, observed>>
    BY <1>1 DEF Decide, MayTake
  <2>3. r # NoResult /\ ~IsError(r) /\ Vouched(r, m)
    BY UntestedResults DEF IInv, Untested, None, IsError, Result
  <2>4. Ready(m, r)
    BY <2>1
  <2> HIDE DEF r
  <2> QED
    BY <2>2, <2>3, <2>4, RecallStep
<1>2. CASE HitCache(m)
  <2> DEFINE e == cache[<<m, command>>]
             r == [Reuse(e) EXCEPT !.origin = source]
  <2>1. /\ Running /\ m \in todo /\ UNCHANGED <<source, keyed, reused, fresh, phase, observed>>
        /\ Ready(m, r)
    BY <1>2 DEF HitCache, MustRun, MayTake
  <2>2. e \in Results /\ e.origin >= keyed[m] /\ Vouched(e, m)
    BY <1>2 DEF HitCache, IInv, TypeOK, Dated, AllVouched
  <2> HIDE DEF e
  <2>3. r # NoResult /\ ~IsError(r) /\ Vouched(r, m)
    BY <2>2, RecalledResults DEF IInv, Vouched, IsError
  <2> HIDE DEF r
  <2> QED
    BY <2>1, <2>3, RecallStep
<1> QED
  BY <1>1, <1>2

\* A run that is over returns nothing, unless it has ended well.
LEMMA EndStep ==
  ASSUME IInv, NEW end \in {"failed", "stopped"}, Drop(end), UNCHANGED observed
  PROVE  Promise!Next
<1>1. \A m \in Mutants : fresh'[m] = NoResult /\ ready'[m] = NoResult /\ reused'[m] = NoResult
  BY EmptyResults DEF IInv, Drop
<1>2. \A m \in Mutants : Recorded'[m] = NoResult
  BY <1>1, RecordedNext
<1>3. Given' = [m \in Mutants |-> None]
  BY <1>2, RecordedNext, Sayings
<1>4. Shown' = end
  BY DEF Drop, Shown, Running
<1>5. Promise!End
  BY <1>3, <1>4, SameWords DEF Promise!End
<1> QED
  BY <1>5 DEF Promise!Next

\* An error is nothing that is seen before it ends the run.
LEMMA ErrorStep ==
  ASSUME IInv, Apart, Running, NEW m \in Mutants, m \in todo, Ready(m, Error(source)),
         UNCHANGED <<source, keyed, observed, reused, fresh, phase>>
  PROVE  UNCHANGED Promise!vars
<1>1. IsError(Error(source))
  BY DEF IsError, Error, Result
<1>2. ready'[m] = Error(source) /\ \A k \in Mutants \ {m} : ready'[k] = ready[k]
  BY DEF IInv, TypeOK, Ready
<1>3. ready[m] = NoResult
  BY DEF Apart, Has
<1>4. \A k \in Mutants : Recorded'[k] = Recorded[k]
  BY <1>1, <1>2, <1>3, RecordedNext DEF Recorded, Has
<1>5. Shown' = Shown
  BY DEF Shown, Running
<1> QED
  BY <1>4, <1>5, Unnoticed

LEMMA FailingSteps ==
  ASSUME IInv, Apart, NEW m \in Mutants, FailMutant(m) \/ Interrupt(m)
  PROVE  Promise!Next \/ UNCHANGED Promise!vars
<1>1. Running /\ m \in todo /\ UNCHANGED <<source, keyed, observed>>
  BY DEF FailMutant, Interrupt, MustRun, MayTake
<1>2. CASE Drop("failed")
  BY <1>1, <1>2, EndStep
<1>3. CASE Ready(m, Error(source)) /\ UNCHANGED <<phase, reused, fresh>>
  BY <1>1, <1>3, ErrorStep
<1>4. CASE Ready(m, Result("killed", None, source, FALSE)) /\ UNCHANGED <<phase, reused, fresh>>
  <2> DEFINE r == Result("killed", None, source, FALSE)
  <2>1. r # NoResult /\ r.ended = FALSE /\ ~IsError(r)
    BY TestedResults DEF IInv, Outcomes, IsError, Result
  <2>2. Vouched(r, m)
    BY <2>1 DEF Vouched
  <2>3. Ready(m, r)
    BY <1>4
  <2> HIDE DEF r
  <2> QED
    BY <1>1, <1>4, <2>1, <2>2, <2>3, RecallStep
<1> QED
  BY <1>2, <1>3, <1>4 DEF FailMutant, Interrupt

\* Recording a result changes nothing that is seen.
LEMMA CollectStep ==
  ASSUME IInv, Apart, NEW m \in Mutants, Collect(m)
  PROVE  UNCHANGED Promise!vars
<1>1. /\ Has(ready, m) /\ ready' = [ready EXCEPT ![m] = NoResult]
      /\ fresh' = IF IsError(ready[m]) THEN fresh ELSE [fresh EXCEPT ![m] = ready[m]]
      /\ UNCHANGED <<source, keyed, observed, phase, reused>>
      /\ ready \in [Mutants -> Results] /\ fresh \in [Mutants -> Results]
  BY DEF Collect, IInv, TypeOK
<1>2. \A k \in Mutants \ {m} : Recorded'[k] = Recorded[k]
  BY <1>1, RecordedNext DEF Recorded, Has
<1>3. ready[m] # NoResult /\ fresh[m] = NoResult /\ ready'[m] = NoResult
  BY <1>1 DEF Apart, Has
<1>4. Recorded'[m] = Recorded[m]
  <2>1. CASE IsError(ready[m])
    BY <1>1, <1>3, <2>1, RecordedNext DEF Recorded, Has
  <2>2. CASE ~IsError(ready[m])
    <3>1. fresh'[m] = ready[m]
      BY <1>1, <2>2
    <3> QED
      BY <1>3, <2>2, <3>1, RecordedNext DEF Recorded, Has
  <2> QED
    BY <2>1, <2>2
<1>5. Shown' = Shown
  BY <1>1 DEF Shown, Running
<1> QED
  BY <1>1, <1>2, <1>4, <1>5, Unnoticed

\* A run begins with what is known.
LEMMA BeginStep ==
  ASSUME IInv, NEW c \in Commands, StartAfresh(c) \/ StartResumed(c)
  PROVE  Promise!Next
<1>1. IInv'
  BY StartAfreshHolds, StartResumedHolds
<1>2. /\ ~Running /\ Running' /\ UNCHANGED <<source, keyed, observed>>
  BY DEF StartAfresh, StartResumed, Begin, Mode, Running
<1>3. \A m \in Mutants : /\ Vouched(reused'[m], m) /\ Vouched(ready'[m], m)
                         /\ Vouched(fresh'[m], m)
  BY <1>1, <1>2 DEF IInv, AllVouched, Vouched, Effective
<1>4. \A m \in Mutants : Recorded'[m] \in {reused'[m], ready'[m], fresh'[m]}
  BY RecordedNext
<1>5. \A m \in Mutants : Given'[m] \in {None, "unseen"} \cup observed[m]
  <2> SUFFICES ASSUME NEW m \in Mutants
               PROVE  Given'[m] \in {None, "unseen"} \cup observed[m]
    OBVIOUS
  <2>1. Vouched(Recorded'[m], m)
    BY <1>3, <1>4
  <2>2. Given'[m] = Promised(Recorded'[m], keyed[m])
    BY <1>2, RecordedNext
  <2> QED
    BY <2>1, <2>2, VouchedIsKnown
<1>6. Given' \in [Mutants -> {None, "unseen"} \cup UNION {observed[m] : m \in Mutants}]
  <2>1. Given' = [m \in Mutants |-> Given'[m]]
    BY RecordedNext
  <2> QED
    BY <1>5, <2>1
<1>7. Shown # "running" /\ Shown' = "running"
  BY <1>2 DEF Shown, Running, IInv, TypeOK
<1>8. Promise!Begin
  BY <1>2, <1>5, <1>6, <1>7, SameWords DEF Promise!Begin, Promise!Known
<1> QED
  BY <1>8 DEF Promise!Next

\* A run that ends well gives what it has recorded, and that is of every mutant.
LEMMA FinishStep == ASSUME IInv, Finish PROVE Promise!Next
<1>1. /\ Running /\ ready = Nothing /\ todo = {} /\ UNCHANGED <<source, keyed, observed>>
  BY DEF Finish, Over
<1>2. CASE Drop("failed")
  BY <1>1, <1>2, EndStep
<1>3. CASE ~failing /\ Succeed
  <2>1. /\ UNCHANGED <<reused, ready, fresh>> /\ phase' = "done"
        /\ \A m \in Mutants : ready[m] = NoResult
    BY <1>1, <1>3, EmptyResults DEF Succeed, IInv
  <2>2. \A m \in Mutants : Has(reused, m) \/ Has(fresh, m)
    BY <1>1, <1>3, <2>1 DEF IInv, Covered, Has
  <2>3. \A m \in Mutants : Recorded'[m] = Recorded[m] /\ Recorded[m] # NoResult
    BY <2>1, <2>2, RecordedNext DEF Recorded, Has
  <2>4. \A m \in Mutants : Given[m] # None
    BY <2>3, Sayings DEF Given
  <2>5. Given' = Given
    BY <1>1, <2>3, RecordedNext DEF Given
  <2>6. Shown = "running" /\ Shown' = "done"
    BY <1>1, <2>1 DEF Shown, Running
  <2>7. Promise!Succeed
    BY <1>1, <2>4, <2>5, <2>6, SameWords DEF Promise!Succeed
  <2> QED
    BY <2>7 DEF Promise!Next
<1> QED
  BY <1>2, <1>3 DEF Finish

\* No verdict on old files is one on the new, and the others stand.
LEMMA EditStep == ASSUME IInv, NEW touched \in Edits, Edit(touched) PROVE Promise!Next
<1>1. /\ ~Running /\ source' = source + 1
      /\ keyed' = [m \in Mutants |-> IF m \in touched THEN source' ELSE keyed[m]]
      /\ observed' = [m \in Mutants |-> IF m \in touched THEN {} ELSE observed[m]]
      /\ UNCHANGED <<phase, reused, ready, fresh>>
  BY DEF Edit, Touch, runVars
<1>2. \A m \in Mutants : Recorded'[m] = Recorded[m] /\ Recorded[m] \in Results
  BY <1>1, RecordedNext DEF Recorded, Has, IInv, TypeOK
<1>3. \A r \in Results : ~(r.origin >= source')
  <2>1. \A v \in 0 .. source : ~(v >= source')
    BY <1>1, SizesAssumption DEF IInv, TypeOK, Versions
  <2> QED
    BY <2>1 DEF Results
<1>4. \A m \in Mutants :
        Given'[m] = IF m \in touched /\ Given[m] # None THEN "unseen" ELSE Given[m]
  <2> SUFFICES ASSUME NEW m \in Mutants
               PROVE  Given'[m] = IF m \in touched /\ Given[m] # None THEN "unseen"
                                  ELSE Given[m]
    OBVIOUS
  <2>1. /\ Given'[m] = Promised(Recorded[m], keyed'[m])
        /\ Given[m] = Promised(Recorded[m], keyed[m])
        /\ keyed'[m] = IF m \in touched THEN source' ELSE keyed[m]
    BY <1>1, <1>2, RecordedNext DEF Given
  <2>2. CASE m \notin touched
    BY <2>1, <2>2
  <2>3. CASE m \in touched /\ Recorded[m] = NoResult
    BY <2>1, <2>3, Sayings
  <2>4. CASE m \in touched /\ Recorded[m] # NoResult
    <3>1. ~(Recorded[m].origin >= keyed'[m])
      BY <1>2, <1>3, <2>1, <2>4
    <3>2. Given'[m] = "unseen" /\ Given[m] # None
      BY <2>1, <2>4, <3>1, Sayings
    <3> QED
      BY <2>4, <3>2
  <2> QED
    BY <2>2, <2>3, <2>4
<1>5. Given' = [m \in Mutants |->
                  IF m \in touched /\ Given[m] # None THEN "unseen" ELSE Given[m]]
  BY <1>4, RecordedNext
<1>6. Shown # "running" /\ Shown' = Shown
  BY <1>1 DEF Shown, Running, IInv, TypeOK
<1>7. Promise!Edit(touched)
  BY <1>1, <1>5, <1>6, SameWords DEF Promise!Edit
<1>8. touched \in SUBSET Mutants
  BY EditsAssumption DEF Mutants
<1> QED
  BY <1>7, <1>8 DEF Promise!Next

LEMMA QuietSteps ==
  ASSUME IInv, Rename \/ Expire \/ UNCHANGED vars
  PROVE  UNCHANGED Promise!vars
<1>1. UNCHANGED <<source, keyed, observed, phase, reused, ready, fresh>>
  BY DEF Rename, Expire, vars, runVars
<1>2. \A m \in Mutants : Recorded'[m] = Recorded[m]
  BY <1>1, RecordedNext DEF Recorded, Has
<1>3. Shown' = Shown
  BY <1>1 DEF Shown, Running
<1> QED
  BY <1>1, <1>2, <1>3, Unnoticed

\* Runs that are killed, resumed, served by the cache and overtaken by edits keep
\* the promise of ObservedRuns: each step of them is one of its steps, or is not
\* seen (runMutantsWithResume, runMutant, writePartialResults).
THEOREM RunsKeepPromise == Spec => RefinesObservedRuns
<1>1. Init => Promise!Init
  <2> SUFFICES ASSUME Init PROVE Promise!Init
    OBVIOUS
  <2>1. \A m \in Mutants : Recorded[m] = NoResult
    BY DEF Init, Recorded, Has, Nothing
  <2>2. Given = [m \in Mutants |-> None] /\ Shown = "stopped"
    BY <2>1, Sayings DEF Given, Shown, Init, Running
  <2> QED
    BY <2>2, SameWords DEF Init, Promise!Init
<1>2. IInv /\ Apart /\ [Next]_vars => [Promise!Next]_(Promise!vars)
  <2> SUFFICES ASSUME IInv, Apart, [Next]_vars
               PROVE  Promise!Next \/ UNCHANGED Promise!vars
    OBVIOUS
  <2>1. ASSUME NEW c \in Commands, StartAfresh(c) \/ StartResumed(c) \/ RejectResume(c)
        PROVE  Promise!Next
    BY <2>1, BeginStep, EndStep DEF RejectResume
  <2>2. ASSUME NEW m \in Mutants,
               \/ Decide(m) \/ HitCache(m) \/ Test(m) \/ FailMutant(m) \/ Interrupt(m)
               \/ Collect(m)
        PROVE  Promise!Next \/ UNCHANGED Promise!vars
    BY <2>2, RecallSteps, ObserveStep, FailingSteps, CollectStep
  <2>3. CASE Crash
    BY <2>3, EndStep DEF Crash
  <2>4. CASE Rename \/ Expire \/ UNCHANGED vars
    BY <2>4, QuietSteps
  <2> QED
    BY <2>1, <2>2, <2>3, <2>4, FinishStep, EditStep DEF Next
<1> QED
  BY <1>1, <1>2, ApartAtFirst, StepsKeepApart, ResumptionInvariant, PTL
     DEF Spec, RefinesObservedRuns, Promise!Spec

=============================================================================
