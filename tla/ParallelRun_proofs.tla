------------------------- MODULE ParallelRun_proofs -------------------------
(***************************************************************************)
(* Proofs about ParallelRun for every number of mutants and any workers.   *)
(***************************************************************************)
EXTENDS ParallelRun, SequenceTheorems, TLAPS

(* Sequences of distinct elements, as the two channels are. *)

LEMMA AppendJobs ==
  ASSUME NEW s \in Seq(Mutants), NEW m \in Mutants, NEW t, t = Append(s, m),
         \A i, k \in DOMAIN s : s[i] = s[k] => i = k,
         m \notin Range(s)
  PROVE  /\ t \in Seq(Mutants)
         /\ \A i, k \in DOMAIN t : t[i] = t[k] => i = k
         /\ Range(t) = Range(s) \cup {m}
  BY DEF Range

LEMMA TailJobs ==
  ASSUME NEW s \in Seq(Mutants), s # <<>>, NEW t, t = Tail(s),
         \A i, k \in DOMAIN s : s[i] = s[k] => i = k
  PROVE  /\ Head(s) \in Mutants
         /\ Head(s) \in Range(s)
         /\ t \in Seq(Mutants)
         /\ \A i, k \in DOMAIN t : t[i] = t[k] => i = k
         /\ Range(t) = Range(s) \ {Head(s)}
<1>1. /\ Len(s) \in Nat \ {0}
      /\ DOMAIN s = 1 .. Len(s)
      /\ Head(s) = s[1]
      /\ t \in Seq(Mutants)
      /\ DOMAIN t = 1 .. Len(s) - 1
      /\ \A k \in DOMAIN t : t[k] = s[k + 1]
  BY HeadTailProperties, LenProperties, EmptySeq
<1>2. Head(s) \in Mutants /\ Head(s) \in Range(s)
  BY <1>1 DEF Range
<1>3. ASSUME NEW i \in DOMAIN t, NEW k \in DOMAIN t, t[i] = t[k]
      PROVE  i = k
  BY <1>1, <1>3
<1>4. ASSUME NEW k \in DOMAIN t
      PROVE  t[k] \in Range(s) \ {Head(s)}
  BY <1>1 DEF Range
<1>5. ASSUME NEW j \in DOMAIN s, s[j] # Head(s)
      PROVE  \E k \in DOMAIN t : t[k] = s[j]
  <2>1. j - 1 \in DOMAIN t /\ t[j - 1] = s[j]
    BY <1>1, <1>5
  <2> QED BY <2>1
<1> QED BY <1>1, <1>2, <1>3, <1>4, <1>5 DEF Range

LEMMA AppendDone ==
  ASSUME NEW s \in Seq(Items), NEW e \in Items, NEW t, t = Append(s, e),
         \A i, k \in DOMAIN s : s[i].index = s[k].index => i = k,
         e.index \notin Indices(s)
  PROVE  /\ t \in Seq(Items)
         /\ \A i, k \in DOMAIN t : t[i].index = t[k].index => i = k
         /\ Indices(t) = Indices(s) \cup {e.index}
<1>1. /\ Len(s) \in Nat
      /\ DOMAIN s = 1 .. Len(s)
      /\ t \in Seq(Items)
      /\ DOMAIN t = 1 .. Len(s) + 1
      /\ \A k \in DOMAIN s : t[k] = s[k]
      /\ t[Len(s) + 1] = e
  BY AppendProperties, LenProperties
<1>2. ASSUME NEW i \in DOMAIN t, NEW k \in DOMAIN t, t[i].index = t[k].index
      PROVE  i = k
  <2>1. CASE i \in DOMAIN s /\ k \in DOMAIN s
    BY <1>1, <1>2, <2>1
  <2>2. CASE i \notin DOMAIN s /\ k \notin DOMAIN s
    BY <1>1, <1>2, <2>2
  <2>3. CASE i \in DOMAIN s /\ k \notin DOMAIN s
    BY <1>1, <1>2, <2>3 DEF Indices
  <2>4. CASE i \notin DOMAIN s /\ k \in DOMAIN s
    BY <1>1, <1>2, <2>4 DEF Indices
  <2> QED BY <2>1, <2>2, <2>3, <2>4
<1>3. \A k \in DOMAIN t : k \in DOMAIN s \/ k = Len(s) + 1
  BY <1>1
<1>4. DOMAIN s \subseteq DOMAIN t /\ Len(s) + 1 \in DOMAIN t
  BY <1>1
<1>5. Indices(t) = Indices(s) \cup {e.index}
  BY <1>1, <1>3, <1>4 DEF Indices
<1> QED BY <1>1, <1>2, <1>5 DEF Indices

LEMMA TailDone ==
  ASSUME NEW s \in Seq(Items), s # <<>>, NEW t, t = Tail(s),
         \A i, k \in DOMAIN s : s[i].index = s[k].index => i = k
  PROVE  /\ Head(s) \in Items
         /\ Head(s).index \in Indices(s)
         /\ t \in Seq(Items)
         /\ \A i, k \in DOMAIN t : t[i].index = t[k].index => i = k
         /\ Indices(t) = Indices(s) \ {Head(s).index}
<1>1. /\ Len(s) \in Nat \ {0}
      /\ DOMAIN s = 1 .. Len(s)
      /\ Head(s) = s[1]
      /\ t \in Seq(Items)
      /\ DOMAIN t = 1 .. Len(s) - 1
      /\ \A k \in DOMAIN t : t[k] = s[k + 1]
  BY HeadTailProperties, LenProperties, EmptySeq
<1>2. Head(s) \in Items /\ Head(s).index \in Indices(s)
  BY <1>1 DEF Indices
<1>3. ASSUME NEW i \in DOMAIN t, NEW k \in DOMAIN t, t[i].index = t[k].index
      PROVE  i = k
  BY <1>1, <1>3
<1>4. ASSUME NEW k \in DOMAIN t
      PROVE  t[k].index \in Indices(s) \ {Head(s).index}
  BY <1>1 DEF Indices
<1>5. ASSUME NEW j \in DOMAIN s, s[j].index # Head(s).index
      PROVE  \E k \in DOMAIN t : t[k].index = s[j].index
  <2>1. j - 1 \in DOMAIN t /\ t[j - 1] = s[j]
    BY <1>1, <1>5
  <2> QED BY <2>1
<1> QED BY <1>1, <1>2, <1>3, <1>4, <1>5 DEF Indices

-----------------------------------------------------------------------------
(* Type correctness, one lemma per process. *)

LEMMA PreDecidedType ==
  \A m \in Mutants : PreDecided(m) \in Status \cup {None}
  BY DEF PreDecided, Status

LEMMA CallerKeepsType ==
  ASSUME TypeOK, CallerStep \/ CloseDone \/ Expire \/ CallerCancel
  PROVE  TypeOK'
<1> USE DEF TypeOK, dispatchVars, workerVars, collectVars, Busy
<1>1. CASE Dispatch
  <2>1. next' \in 1 .. N + 1
    BY <1>1, NAssumption DEF Dispatch, Mutants
  <2>2. Append(jobs, next) \in Seq(Mutants)
    BY <1>1, AppendProperties DEF Dispatch
  <2>3. results' \in [Mutants -> Status \cup {None}]
    BY <1>1, PreDecidedType DEF Dispatch
  <2> QED BY <1>1, <2>1, <2>2, <2>3 DEF Dispatch
<1>2. CASE CloseJobs
  BY <1>2 DEF CloseJobs
<1>3. CASE Collect
  <2>1. Head(done) \in Items /\ Tail(done) \in Seq(Items)
    BY <1>3, HeadTailProperties DEF Collect
  <2>2. Recorded(Head(done)) \in Status \cup {None}
    BY <2>1 DEF Recorded, Items
  <2>3. results' \in [Mutants -> Status \cup {None}]
    BY <1>3, <2>1, <2>2 DEF Collect, Items
  <2> QED BY <1>3, <2>1, <2>3 DEF Collect
<1>4. CASE Return
  BY <1>4 DEF Return
<1>5. CASE CloseDone
  BY <1>5 DEF CloseDone
<1>6. CASE Expire
  BY <1>6 DEF Expire
<1>7. CASE CallerCancel
  BY <1>7 DEF CallerCancel
<1> QED BY <1>1, <1>2, <1>3, <1>4, <1>5, <1>6, <1>7 DEF CallerStep

LEMMA WorkerKeepsType ==
  ASSUME TypeOK, NEW w \in Workers, WorkerStep(w)
  PROVE  TypeOK'
<1> USE DEF TypeOK, dispatchVars, collectVars, Busy, Step
<1>1. Status \subseteq Status \cup {Failed, None} /\ Tested \subseteq Status
      /\ None \notin Status /\ Failed # None
  BY DEF Status, Tested, None, Failed
<1>2. CASE Receive(w)
  <2>1. Head(jobs) \in Mutants /\ Tail(jobs) \in Seq(Mutants)
    BY <1>2, HeadTailProperties DEF Receive
  <2>2. Head(jobs) \in 0 .. N
    BY <2>1, NAssumption DEF Mutants
  <2>3. /\ pc' \in [Workers -> {"idle", "prepare", "test", "send", "exited"}]
        /\ outcome' \in [Workers -> Status \cup {Failed, None}]
        /\ \A v \in Workers : pc'[v] = "send" => outcome'[v] # None
    BY <1>1, <1>2 DEF Receive
  <2>4. job' \in [Workers -> 0 .. N] /\ \A v \in Busy' : job'[v] \in Mutants
    BY <1>2, <2>1, <2>2 DEF Receive
  <2> QED BY <1>2, <2>1, <2>3, <2>4 DEF Receive
<1>3. CASE Prepare(w)
  <2>1. {"not_covered", "cached"} \subseteq Status /\ None \notin {"not_covered", "cached"}
    BY DEF Status, None
  <2>2. /\ pc' \in [Workers -> {"idle", "prepare", "test", "send", "exited"}]
        /\ outcome' \in [Workers -> Status \cup {Failed, None}]
        /\ \A v \in Workers : pc'[v] = "send" => outcome'[v] # None
        /\ \A v \in Workers : pc'[v] \in {"prepare", "test", "send"} => job'[v] \in Mutants
    <3>1. PICK to \in {"send", "test"}, s \in Status \cup {Failed, None} :
             Step(w, to, s) /\ (to = "send" => s # None)
      BY <1>1, <1>3, <2>1 DEF Prepare
    <3>2. job' = job /\ job[w] \in Mutants
      BY <1>3 DEF Prepare
    <3> QED BY <3>1, <3>2
  <2> QED BY <1>1, <1>3, <2>1, <2>2 DEF Prepare
<1>4. CASE EndTest(w)
  BY <1>1, <1>4 DEF EndTest, Store
<1>5. CASE KillTest(w)
  <2>1. PICK s \in {"compile_error", "killed"} : Step(w, "send", s) /\ Store(job[w], s)
    BY <1>5 DEF KillTest
  <2>2. s \in Tested
    BY DEF Tested
  <2>3. w \in Busy /\ job[w] \in Mutants
    BY <1>5 DEF KillTest
  <2>4. cache' \in [Mutants -> Tested \cup {None}]
    BY <2>1, <2>2, <2>3 DEF Store
  <2>5. /\ pc' \in [Workers -> {"idle", "prepare", "test", "send", "exited"}]
        /\ outcome' \in [Workers -> Status \cup {Failed, None}]
        /\ \A v \in Workers : pc'[v] = "send" => outcome'[v] # None
    BY <1>1, <2>1, <2>2
  <2>6. job' = job /\ Busy' = Busy
    BY <1>5, <2>1 DEF KillTest
  <2> QED BY <1>5, <2>3, <2>4, <2>5, <2>6 DEF KillTest
<1>6. CASE Send(w)
  <2>1. [index |-> job[w], status |-> outcome[w]] \in Items
    BY <1>6 DEF Send, Items
  <2> QED BY <1>6, <2>1 DEF Send
<1>7. CASE Exit(w)
  BY <1>7 DEF Exit
<1> QED BY <1>2, <1>3, <1>4, <1>5, <1>6, <1>7 DEF WorkerStep

LEMMA InitType == Init => TypeOK
<1> SUFFICES ASSUME Init PROVE TypeOK
  OBVIOUS
<1>1. 1 \in 1 .. N + 1 /\ 0 \in 0 .. N
  BY NAssumption
<1>2. <<>> \in Seq(Mutants) /\ <<>> \in Seq(Items)
  BY EmptySeq
<1>3. cache \in [Mutants -> Tested \cup {None}]
  BY DEF Init, Tested
<1> QED BY <1>1, <1>2, <1>3 DEF Init, TypeOK, Busy

\* TypeOK holds throughout: every slot, channel and cache entry holds what its
\* Go type and the statuses of types.go allow.
THEOREM TypeCorrect == Spec => []TypeOK
<1>1. TypeOK /\ [Next]_vars => TypeOK'
  <2> SUFFICES ASSUME TypeOK, [Next]_vars PROVE TypeOK'
    OBVIOUS
  <2>1. CASE UNCHANGED vars
    BY <2>1 DEF vars, TypeOK, Busy
  <2>2. CASE Next
    BY <2>1, <2>2, CallerKeepsType, WorkerKeepsType DEF Next, Returned
  <2> QED BY <2>1, <2>2
<1> QED BY InitType, <1>1, PTL DEF Spec

-----------------------------------------------------------------------------
(* The places of the mutants: one lemma per action that moves one. *)

\* The conjuncts of IInv besides TypeOK.
Placed ==
  /\ NoMutantRunTwice
  /\ NoMutantLost
  /\ ChannelsCloseInOrder
  /\ SkippedNeverRun
  /\ phase = "ok" => ~firstErr

LEMMA IInvPlaced == IInv <=> TypeOK /\ Placed
  BY DEF IInv, Placed

LEMMA DispatchPlaces ==
  ASSUME TypeOK, Placed, Dispatch
  PROVE  Placed'
<1> USE DEF Placed
<1>1. /\ next \in Mutants /\ next \in Nat /\ next' = next + 1 /\ next # N + 1
      /\ UNCHANGED <<pc, job, done, doneClosed, jobsClosed, firstErr, phase>>
  BY NAssumption DEF Dispatch, dispatchVars, workerVars, Mutants
<1>2. Held' = Held /\ Sent' = Sent /\ Busy' = Busy
  BY <1>1 DEF Held, Sent, Busy
<1>3. next \notin InFlight \cup Decided
  BY <1>1 DEF NoMutantLost
<1>4. ~jobsClosed /\ \A w \in Workers : pc[w] # "exited"
  BY <1>1 DEF ChannelsCloseInOrder
<1>5. \A m \in Mutants : m \in Nat
  BY NAssumption DEF Mutants
<1>6. InFlight \subseteq Mutants
  <2>1. Queued \subseteq Mutants
    BY ElementOfSeq DEF Queued, TypeOK, Range
  <2>2. Held \subseteq Mutants
    BY DEF Held, TypeOK
  <2>3. \A k \in DOMAIN done : done[k] \in Items
    BY ElementOfSeq DEF TypeOK
  <2>4. Sent \subseteq Mutants
    BY <2>3 DEF Sent, Items, Indices
  <2> QED BY <2>1, <2>2, <2>4 DEF InFlight
<1>7. CASE PreDecided(next) # None
  <2>1. jobs' = jobs /\ results' = [results EXCEPT ![next] = PreDecided(next)]
    BY <1>7 DEF Dispatch
  <2>2. Queued' = Queued /\ InFlight' = InFlight
    BY <1>2, <2>1 DEF Queued, InFlight
  <2>3. Decided' = Decided \cup {next}
    BY <1>1, <1>7, <2>1 DEF Decided, TypeOK
  <2>4. NoMutantRunTwice'
    BY <1>1, <1>2, <1>3, <2>1, <2>2, <2>3 DEF NoMutantRunTwice
  <2>5. NoMutantLost'
    BY <1>1, <1>5, <1>6, <2>2, <2>3 DEF NoMutantLost, Decided
  <2> QED BY <1>1, <1>4, <2>1, <2>2, <2>4, <2>5
        DEF ChannelsCloseInOrder, SkippedNeverRun
<1>8. CASE PreDecided(next) = None
  <2>1. jobs' = Append(jobs, next) /\ results' = results
    BY <1>8 DEF Dispatch
  <2>2. next \notin Queued
    BY <1>3 DEF InFlight
  <2>3. /\ \A i, k \in DOMAIN jobs' : jobs'[i] = jobs'[k] => i = k
        /\ Queued' = Queued \cup {next}
    <3>1. /\ jobs \in Seq(Mutants)
          /\ \A i, k \in DOMAIN jobs : jobs[i] = jobs[k] => i = k
          /\ next \notin Range(jobs)
      BY <2>2 DEF TypeOK, NoMutantRunTwice, Queued
    <3> QED BY <1>1, <2>1, <3>1, AppendJobs DEF Queued
  <2>4. InFlight' = InFlight \cup {next} /\ Decided' = Decided
    BY <1>2, <2>1, <2>3 DEF InFlight, Decided
  <2>5. NoMutantRunTwice'
    BY <1>1, <1>2, <1>3, <2>3, <2>4 DEF NoMutantRunTwice, InFlight
  <2>6. NoMutantLost'
    <3>1. \A m \in Mutants : m < next' <=> m < next \/ m = next
      BY <1>1, <1>5
    <3>2. InFlight' \cup Decided' = InFlight \cup Decided \cup {next}
      BY <2>4
    <3> QED BY <1>1, <1>6, <3>1, <3>2 DEF NoMutantLost, Decided
  <2>7. SkippedNeverRun'
    BY <1>1, <1>8, <2>4 DEF SkippedNeverRun, PreDecided, None
  <2> QED BY <1>1, <1>4, <2>5, <2>6, <2>7 DEF ChannelsCloseInOrder
<1> QED BY <1>7, <1>8

LEMMA ReceivePlaces ==
  ASSUME TypeOK, Placed, NEW w \in Workers, Receive(w)
  PROVE  Placed'
<1> USE DEF Placed
<1> DEFINE m == Head(jobs)
<1>1. /\ pc[w] = "idle" /\ jobs # <<>> /\ jobs' = Tail(jobs)
      /\ job' = [job EXCEPT ![w] = m]
      /\ \E to \in {"prepare", "send"} : pc' = [pc EXCEPT ![w] = to]
      /\ UNCHANGED <<next, jobsClosed, done, doneClosed, firstErr, phase, results>>
  BY DEF Receive, Step, dispatchVars, collectVars
<1>2. /\ m \in Queued /\ m \in Mutants
      /\ \A i, k \in DOMAIN jobs' : jobs'[i] = jobs'[k] => i = k
      /\ Queued' = Queued \ {m}
  <2>1. /\ jobs \in Seq(Mutants)
        /\ \A i, k \in DOMAIN jobs : jobs[i] = jobs[k] => i = k
        /\ jobs # <<>>
        /\ jobs' = Tail(jobs)
    BY <1>1 DEF TypeOK, NoMutantRunTwice
  <2>2. /\ Head(jobs) \in Mutants
        /\ Head(jobs) \in Range(jobs)
        /\ \A i, k \in DOMAIN jobs' : jobs'[i] = jobs'[k] => i = k
        /\ Range(jobs') = Range(jobs) \ {Head(jobs)}
    BY ONLY <2>1, TailJobs
  <2> QED BY <2>2 DEF Queued
<1> HIDE DEF m
<1>3. w \notin Busy /\ Busy' = Busy \cup {w}
  BY <1>1 DEF Busy, TypeOK
<1>4. job'[w] = m /\ \A v \in Busy : job'[v] = job[v]
  BY <1>1, <1>3 DEF TypeOK, Busy
<1>5. Held' = Held \cup {m}
  BY <1>3, <1>4 DEF Held
<1>6. Sent' = Sent /\ Decided' = Decided
  BY <1>1 DEF Sent, Decided
<1>7. InFlight' = InFlight
  BY <1>2, <1>5, <1>6 DEF InFlight
<1>8. NoMutantRunTwice'
  <2>1. m \notin Held /\ m \notin Sent
    BY <1>2 DEF NoMutantRunTwice
  <2>2. \A u, v \in Busy' : job'[u] = job'[v] => u = v
    BY <1>3, <1>4, <2>1 DEF NoMutantRunTwice, Held
  <2> QED BY <1>1, <1>2, <1>5, <1>6, <1>7, <2>1, <2>2 DEF NoMutantRunTwice
<1>9. NoMutantLost' /\ SkippedNeverRun'
  BY <1>1, <1>6, <1>7 DEF NoMutantLost, SkippedNeverRun
<1>10. ChannelsCloseInOrder'
  <2>1. \A v \in Workers : pc'[v] # "exited"
    BY <1>1 DEF ChannelsCloseInOrder, TypeOK
  <2> QED BY <1>1, <2>1 DEF ChannelsCloseInOrder
<1> QED BY <1>1, <1>8, <1>9, <1>10

LEMMA RunningPlaces ==
  ASSUME TypeOK, Placed, NEW w \in Workers, Prepare(w) \/ EndTest(w) \/ KillTest(w)
  PROVE  Placed'
<1> USE DEF Placed
<1>1. /\ pc[w] \in {"prepare", "test"}
      /\ \E to \in {"test", "send"} : pc' = [pc EXCEPT ![w] = to]
      /\ UNCHANGED <<next, jobs, jobsClosed, job, done, doneClosed, firstErr, phase,
                     results>>
  BY DEF Prepare, EndTest, KillTest, Step, dispatchVars, collectVars
<1>2. Busy' = Busy
  BY <1>1 DEF Busy, TypeOK
<1>3. Queued' = Queued /\ Held' = Held /\ Sent' = Sent /\ InFlight' = InFlight
      /\ Decided' = Decided
  BY <1>1, <1>2 DEF Queued, Held, Sent, InFlight, Decided
<1>4. \A v \in Workers : pc'[v] = "exited" <=> pc[v] = "exited"
  BY <1>1 DEF TypeOK
<1> QED BY <1>1, <1>2, <1>3, <1>4
      DEF NoMutantRunTwice, NoMutantLost, ChannelsCloseInOrder, SkippedNeverRun

LEMMA SendPlaces ==
  ASSUME TypeOK, Placed, NEW w \in Workers, Send(w)
  PROVE  Placed'
<1> USE DEF Placed
<1> DEFINE e == [index |-> job[w], status |-> outcome[w]]
<1>1. /\ pc[w] = "send" /\ done' = Append(done, e)
      /\ pc' = [pc EXCEPT ![w] = "idle"]
      /\ UNCHANGED <<next, jobs, jobsClosed, job, doneClosed, firstErr, phase, results>>
  BY DEF Send, Step, dispatchVars, collectVars
<1>2. w \in Busy /\ Busy' = Busy \ {w} /\ job[w] \in Held
  BY <1>1 DEF Busy, TypeOK, Held
<1>3. e \in Items /\ e.index = job[w]
  BY <1>1, <1>2 DEF TypeOK, Items
<1>4. job[w] \notin Sent
  BY <1>2 DEF NoMutantRunTwice
<1>5. /\ \A i, k \in DOMAIN done' : done'[i].index = done'[k].index => i = k
      /\ Sent' = Sent \cup {job[w]}
  <2>1. /\ done \in Seq(Items)
        /\ \A i, k \in DOMAIN done : done[i].index = done[k].index => i = k
        /\ e.index \notin Indices(done)
    BY <1>3, <1>4 DEF TypeOK, NoMutantRunTwice, Sent
  <2> HIDE DEF e
  <2> QED BY <1>1, <1>3, <2>1, AppendDone DEF Sent
<1>6. Held' = Held \ {job[w]}
  BY <1>1, <1>2 DEF Held, NoMutantRunTwice
<1>7. Queued' = Queued /\ Decided' = Decided /\ InFlight' = InFlight
  BY <1>1, <1>2, <1>5, <1>6 DEF Queued, Decided, InFlight
<1>8. NoMutantRunTwice'
  BY <1>1, <1>2, <1>5, <1>6, <1>7 DEF NoMutantRunTwice
<1>9. NoMutantLost' /\ SkippedNeverRun'
  BY <1>1, <1>7 DEF NoMutantLost, SkippedNeverRun
<1>10. ChannelsCloseInOrder'
  <2>1. ~doneClosed /\ phase = "running"
    BY <1>1 DEF ChannelsCloseInOrder, TypeOK
  <2>2. \A v \in Workers : pc'[v] = "exited" => pc[v] = "exited"
    BY <1>1 DEF TypeOK
  <2> QED BY <1>1, <2>1, <2>2 DEF ChannelsCloseInOrder
<1> QED BY <1>1, <1>8, <1>9, <1>10

LEMMA CollectPlaces ==
  ASSUME TypeOK, Placed, Collect
  PROVE  Placed'
<1> USE DEF Placed
<1> DEFINE e == Head(done)
<1>1. /\ jobsClosed /\ done # <<>> /\ done' = Tail(done)
      /\ firstErr' = (firstErr \/ e.status = Failed)
      /\ results' = [results EXCEPT ![e.index] = Recorded(e)]
      /\ UNCHANGED <<next, jobs, jobsClosed, pc, job, doneClosed, phase>>
  BY DEF Collect, dispatchVars, workerVars
<1>2. /\ e \in Items /\ e.index \in Sent
      /\ \A i, k \in DOMAIN done' : done'[i].index = done'[k].index => i = k
      /\ Sent' = Sent \ {e.index}
  <2>1. /\ done \in Seq(Items)
        /\ \A i, k \in DOMAIN done : done[i].index = done[k].index => i = k
        /\ done # <<>>
        /\ done' = Tail(done)
    BY <1>1 DEF TypeOK, NoMutantRunTwice
  <2>2. /\ Head(done) \in Items
        /\ Head(done).index \in Indices(done)
        /\ \A i, k \in DOMAIN done' : done'[i].index = done'[k].index => i = k
        /\ Indices(done') = Indices(done) \ {Head(done).index}
    BY ONLY <2>1, TailDone
  <2> QED BY <2>2 DEF Sent
<1> HIDE DEF e
<1>3. e.index \in Mutants /\ e.status \in Status \cup {Failed}
  BY <1>2 DEF Items
<1>4. Queued' = Queued /\ Busy' = Busy /\ Held' = Held
  BY <1>1 DEF Queued, Busy, Held
<1>5. e.index \notin Decided /\ e.index \notin Queued \cup Held
  BY <1>2 DEF NoMutantRunTwice, InFlight
<1>6. InFlight' = InFlight \ {e.index}
  BY <1>2, <1>4, <1>5 DEF InFlight
<1>7. Decided' = IF e.status = Failed THEN Decided ELSE Decided \cup {e.index}
  <2>1. None \notin Status
    BY DEF Status, Tested, None
  <2>2. CASE e.status = Failed
    BY <1>1, <1>3, <1>5, <2>2 DEF Decided, TypeOK, Recorded
  <2>3. CASE e.status # Failed
    BY <1>1, <1>3, <2>1, <2>3 DEF Decided, TypeOK, Recorded
  <2> QED BY <2>2, <2>3
<1>8. NoMutantRunTwice'
  BY <1>1, <1>2, <1>4, <1>6, <1>7 DEF NoMutantRunTwice
<1>9. NoMutantLost'
  BY <1>1, <1>2, <1>6, <1>7 DEF NoMutantLost, InFlight
<1>10. SkippedNeverRun'
  BY <1>6 DEF SkippedNeverRun
<1>11. ChannelsCloseInOrder' /\ (phase' = "ok" => ~firstErr')
  <2>1. phase = "running"
    BY <1>1 DEF ChannelsCloseInOrder
  <2> QED BY <1>1, <2>1 DEF ChannelsCloseInOrder
<1> QED BY <1>8, <1>9, <1>10, <1>11

LEMMA OthersPlace ==
  ASSUME TypeOK, Placed,
         \/ CloseJobs \/ CloseDone \/ Return \/ Expire \/ CallerCancel
         \/ \E w \in Workers : Exit(w)
  PROVE  Placed'
<1> USE DEF Placed, dispatchVars, workerVars, collectVars
<1>1. UNCHANGED <<next, jobs, job, done, firstErr, results>>
  BY DEF CloseJobs, CloseDone, Return, Expire, CallerCancel, Exit
<1>2. Busy' = Busy
  BY DEF CloseJobs, CloseDone, Return, Expire, CallerCancel, Exit, Step, Busy, TypeOK
<1>3. Queued' = Queued /\ Held' = Held /\ Sent' = Sent /\ InFlight' = InFlight
      /\ Decided' = Decided
  BY <1>1, <1>2 DEF Queued, Held, Sent, InFlight, Decided
<1>4. NoMutantRunTwice' /\ NoMutantLost' /\ SkippedNeverRun'
  BY <1>1, <1>2, <1>3 DEF NoMutantRunTwice, NoMutantLost, SkippedNeverRun
<1>5. ChannelsCloseInOrder' /\ (phase' = "ok" => ~firstErr')
  <2>1. CASE CloseJobs
    BY <2>1 DEF CloseJobs, ChannelsCloseInOrder
  <2>2. CASE CloseDone
    BY <2>2 DEF CloseDone, ChannelsCloseInOrder
  <2>3. CASE Return
    BY <2>3 DEF Return, ChannelsCloseInOrder
  <2>4. CASE Expire \/ CallerCancel
    BY <2>4 DEF Expire, CallerCancel, ChannelsCloseInOrder
  <2>5. ASSUME NEW w \in Workers, Exit(w)
        PROVE  ChannelsCloseInOrder' /\ (phase' = "ok" => ~firstErr')
    BY <2>5 DEF Exit, Step, ChannelsCloseInOrder, TypeOK
  <2> QED BY <2>1, <2>2, <2>3, <2>4, <2>5
<1> QED BY <1>4, <1>5

-----------------------------------------------------------------------------
(* The theorems. *)

LEMMA InitPlaces == Init => Placed
<1> SUFFICES ASSUME Init PROVE Placed
  OBVIOUS
<1>1. /\ next = 1 /\ jobs = <<>> /\ done = <<>> /\ phase = "running"
      /\ ~jobsClosed /\ ~doneClosed
      /\ \A w \in Workers : pc[w] = "idle"
      /\ \A m \in Mutants : results[m] = None
  BY DEF Init
<1>2. DOMAIN jobs = {} /\ DOMAIN done = {} /\ Busy = {} /\ Decided = {}
  BY <1>1 DEF Busy, Decided
<1>3. Queued = {} /\ Held = {} /\ Sent = {}
  BY <1>2 DEF Queued, Held, Sent, Range, Indices
<1>4. \A m \in Mutants : ~(m < next)
  BY <1>1, NAssumption DEF Mutants
<1> QED BY <1>1, <1>2, <1>3, <1>4
      DEF Placed, NoMutantRunTwice, NoMutantLost, ChannelsCloseInOrder,
          SkippedNeverRun, InFlight

LEMMA StepPlaces ==
  ASSUME TypeOK, Placed, [Next]_vars
  PROVE  Placed'
<1>1. CASE UNCHANGED vars
  BY <1>1 DEF vars, Placed, NoMutantRunTwice, NoMutantLost, ChannelsCloseInOrder,
              SkippedNeverRun, InFlight, Queued, Held, Sent, Busy, Decided
<1>2. CASE CallerStep
  BY <1>2, DispatchPlaces, CollectPlaces, OthersPlace DEF CallerStep
<1>3. ASSUME NEW w \in Workers, WorkerStep(w)
      PROVE  Placed'
  BY <1>3, ReceivePlaces, RunningPlaces, SendPlaces, OthersPlace DEF WorkerStep
<1>4. CASE CloseDone \/ Expire \/ CallerCancel
  BY <1>4, OthersPlace
<1> QED BY <1>1, <1>2, <1>3, <1>4 DEF Next, Returned

\* No mutant is run twice or lost, the channels close in order and no skipped
\* mutant reaches a worker: the accounting all other results rest on.
THEOREM Accounting == Spec => []IInv
<1>1. Init => IInv
  BY InitType, InitPlaces, IInvPlaced
<1>2. IInv /\ TypeOK' /\ [Next]_vars => IInv'
  BY StepPlaces, IInvPlaced DEF IInv, Placed
<1> QED BY <1>1, <1>2, TypeCorrect, PTL DEF Spec

\* runMutantsParallel runs each mutant at most once.
THEOREM NoMutantIsRunTwice == Spec => []NoMutantRunTwice
<1>1. IInv => NoMutantRunTwice
  BY DEF IInv
<1> QED BY <1>1, Accounting, PTL

LEMMA AccountedSuccess == IInv => SuccessIsComplete
<1> SUFFICES ASSUME IInv, phase = "ok", NEW m \in Mutants
             PROVE  results[m] # None
  BY DEF SuccessIsComplete
<1>1. /\ doneClosed /\ done = <<>> /\ ~firstErr
      /\ \A w \in Workers : pc[w] = "exited"
  BY DEF IInv, ChannelsCloseInOrder
<1>2. jobsClosed /\ jobs = <<>> /\ next = N + 1
  BY <1>1, WorkersAssumption DEF IInv, ChannelsCloseInOrder
<1>3. Held = {}
  BY <1>1 DEF Held, Busy
<1>4. Queued = {} /\ Sent = {}
  BY <1>1, <1>2 DEF Queued, Sent, Range, Indices
<1>5. m < next
  BY <1>2, NAssumption DEF Mutants
<1>6. m \in Decided
  BY <1>1, <1>3, <1>4, <1>5 DEF IInv, NoMutantLost, InFlight
<1> QED BY <1>6 DEF Decided

\* A run that returns without an error has decided every mutant.
THEOREM SuccessfulRunsAreComplete == Spec => []SuccessIsComplete
  BY AccountedSuccess, Accounting, PTL

\* No step overwrites the verdict of a decided mutant.
THEOREM DecidedVerdictsAreFinal == Spec => VerdictsAreFinal
<1>1. ASSUME IInv, [Next]_vars
      PROVE  \A m \in Mutants : results[m] # None => results'[m] = results[m]
  <2> SUFFICES ASSUME NEW m \in Mutants, results[m] # None
               PROVE  results'[m] = results[m]
    OBVIOUS
  <2>1. TypeOK /\ m \in Decided
    BY <1>1 DEF IInv, Decided
  <2>2. CASE Dispatch
    <3>1. m # next
      BY <1>1, <2>1, <2>2, NAssumption DEF Dispatch, IInv, NoMutantLost, Mutants
    <3> QED BY <2>1, <2>2, <3>1 DEF Dispatch, TypeOK
  <2>3. CASE Collect
    <3>1. Head(done).index \in Sent
      BY <1>1, <2>3, TailDone DEF Collect, Sent, IInv, TypeOK, NoMutantRunTwice
    <3>2. m # Head(done).index
      BY <1>1, <2>1, <3>1 DEF IInv, NoMutantRunTwice, InFlight
    <3> QED BY <2>1, <2>3, <3>2 DEF Collect, TypeOK
  <2>4. CASE UNCHANGED results
    BY <2>4
  <2> QED BY <1>1, <2>2, <2>3, <2>4
        DEF Next, CallerStep, WorkerStep, CloseJobs, Return, Receive, Prepare, EndTest,
            KillTest, Send, Exit, CloseDone, Expire, CallerCancel, Returned,
            collectVars, vars
<1> QED BY <1>1, Accounting, PTL DEF Spec, VerdictsAreFinal

-----------------------------------------------------------------------------
(* What the budget leaves pending and what the last checkpoint holds.      *)

\* The statuses a worker may report: only the dispatcher leaves one pending.
Reported == (Status \ {"pending_budget"}) \cup {Failed}

\* Beyond IInv: a worker never reports a mutant as pending, and once a mutant is
\* left pending the budget is spent, so every mutant dispatched after it that is
\* not skipped is left pending too; until a result is collected no report has
\* been written, and afterwards the last one is the result slice.
Cut ==
  /\ outcome \in [Workers -> Reported \cup {None}]
  /\ done \in Seq([index : Mutants, status : Reported])
  /\ \A i \in Mutants :
       results[i] = "pending_budget" =>
         /\ BudgetExhausted
         /\ \A k \in Mutants :
              i < k /\ k < next /\ k \notin Quarantined \cup Suppressed
                => results[k] = "pending_budget"

Checkpointed ==
  \/ jobsClosed /\ partial = results
  \/ /\ partial = [m \in Mutants |-> None]
     /\ \A m \in Mutants :
          results[m] \in {None, "quarantined", "ignored", "pending_budget"}

LEMMA DispatchCuts ==
  ASSUME IInv, Cut, Checkpointed, Dispatch
  PROVE  Cut' /\ Checkpointed'
<1>1. /\ next \in Mutants /\ next' = next + 1 /\ next # N + 1
      /\ UNCHANGED <<outcome, done, expired, partial, jobsClosed>>
  BY NAssumption DEF Dispatch, dispatchVars, workerVars, Mutants
<1>2. Mutants \subseteq Nat /\ results \in [Mutants -> Status \cup {None}]
  BY NAssumption DEF Mutants, IInv, TypeOK
<1>3. \/ results' = results /\ PreDecided(next) = None
      \/ results' = [results EXCEPT ![next] = PreDecided(next)] /\ PreDecided(next) # None
  BY DEF Dispatch
<1>4. \A i \in Mutants : results[i] = "pending_budget" => i < next
  BY <1>2 DEF IInv, NoMutantLost, Decided, None
<1>5. next \notin Quarantined \cup Suppressed =>
        PreDecided(next) = IF BudgetExhausted THEN "pending_budget" ELSE None
  BY DEF PreDecided
<1>6. PreDecided(next) = "pending_budget" => BudgetExhausted
  BY DEF PreDecided, None
<1>7. ASSUME NEW i \in Mutants, results'[i] = "pending_budget"
      PROVE  /\ BudgetExhausted'
             /\ \A k \in Mutants :
                  i < k /\ k < next' /\ k \notin Quarantined \cup Suppressed
                    => results'[k] = "pending_budget"
  <2>1. BudgetExhausted /\ (i = next \/ results[i] = "pending_budget")
    BY <1>2, <1>3, <1>6, <1>7 DEF Cut
  <2>2. BudgetExhausted'
    BY <1>1, <2>1 DEF BudgetExhausted
  <2> SUFFICES ASSUME NEW k \in Mutants, i < k, k < next',
                      k \notin Quarantined \cup Suppressed
               PROVE  results'[k] = "pending_budget"
    BY <2>2
  <2>3. CASE k = next
    BY <1>2, <1>3, <1>5, <2>1, <2>3 DEF None
  <2>4. CASE k # next
    <3>1. k < next /\ i # next
      BY <1>1, <1>2, <2>4
    <3>2. results[k] = "pending_budget"
      BY <2>1, <3>1 DEF Cut
    <3> QED BY <1>2, <1>3, <2>4, <3>2
  <2> QED BY <2>3, <2>4
<1>8. Cut'
  BY <1>1, <1>7 DEF Cut
<1>9. PreDecided(next) \in {None, "quarantined", "ignored", "pending_budget"}
  BY DEF PreDecided
<1>10. ~jobsClosed
  BY <1>1 DEF IInv, ChannelsCloseInOrder
<1>11. Checkpointed'
  BY <1>1, <1>2, <1>3, <1>9, <1>10 DEF Checkpointed
<1> QED BY <1>8, <1>11

LEMMA CollectCuts ==
  ASSUME IInv, Cut, Checkpointed, Collect
  PROVE  Cut' /\ Checkpointed'
<1> DEFINE e == Head(done)
<1>1. /\ jobsClosed /\ jobsClosed' /\ partial' = results' /\ done' = Tail(done)
      /\ done # <<>> /\ results' = [results EXCEPT ![e.index] = Recorded(e)]
      /\ UNCHANGED <<outcome, expired, next>>
  BY DEF Collect, dispatchVars, workerVars
<1>2. /\ e \in [index : Mutants, status : Reported]
      /\ done' \in Seq([index : Mutants, status : Reported])
  BY <1>1, HeadTailProperties DEF Cut
<1>3. e.index \in Sent
  BY <1>1, TailDone DEF Sent, IInv, TypeOK, NoMutantRunTwice
<1>4. e.index \notin Decided
  BY <1>3 DEF IInv, NoMutantRunTwice, InFlight
<1>5. Recorded(e) # "pending_budget"
  BY <1>2 DEF Recorded, Reported, None, Failed
<1>6. e.index \in Mutants /\ results[e.index] = None
  BY <1>2, <1>4 DEF Decided
<1>7. results \in [Mutants -> Status \cup {None}]
  BY DEF IInv, TypeOK
<1> HIDE DEF e
<1>8. \A i \in Mutants : results'[i] = "pending_budget" <=> results[i] = "pending_budget"
  BY <1>1, <1>5, <1>6, <1>7 DEF None
<1>9. Cut'
  BY <1>1, <1>2, <1>8 DEF Cut, BudgetExhausted
<1> QED BY <1>1, <1>9 DEF Checkpointed

LEMMA OthersCut ==
  ASSUME IInv, Cut, Checkpointed,
         \/ CloseJobs \/ Return \/ CloseDone \/ Expire \/ CallerCancel \/ UNCHANGED vars
         \/ \E w \in Workers : WorkerStep(w)
  PROVE  Cut' /\ Checkpointed'
<1> USE DEF Step, dispatchVars, workerVars, collectVars
<1>1. /\ UNCHANGED <<next, results, partial>>
      /\ jobsClosed => jobsClosed'
      /\ expired => expired'
  <2>1. CASE \/ CloseJobs \/ Return \/ CloseDone \/ Expire \/ CallerCancel
             \/ UNCHANGED vars
    BY <2>1 DEF CloseJobs, Return, CloseDone, Expire, CallerCancel, vars
  <2>2. ASSUME NEW w \in Workers, WorkerStep(w)
        PROVE  UNCHANGED <<next, results, partial, jobsClosed, expired>>
    BY <2>2 DEF WorkerStep, Receive, Prepare, EndTest, KillTest, Send, Exit
  <2> QED BY <2>1, <2>2
<1> DEFINE Typed == /\ outcome' \in [Workers -> Reported \cup {None}]
                    /\ done' \in Seq([index : Mutants, status : Reported])
<1>2. Typed
  <2>1. CASE \/ CloseJobs \/ Return \/ CloseDone \/ Expire \/ CallerCancel
             \/ UNCHANGED vars
    BY <2>1 DEF CloseJobs, Return, CloseDone, Expire, CallerCancel, vars, Cut
  <2>2. ASSUME NEW w \in Workers, NEW s \in Reported \cup {None},
               outcome' = [outcome EXCEPT ![w] = s], done' = done
        PROVE  Typed
    BY <2>2 DEF Cut
  <2>3. /\ {"not_covered", "cached", Failed} \cup Tested \subseteq Reported
        /\ {"compile_error", "killed"} \subseteq Tested
    BY DEF Reported, Status, Tested
  <2>4. ASSUME NEW w \in Workers, \/ Receive(w) \/ Prepare(w) \/ EndTest(w)
                                  \/ KillTest(w) \/ Exit(w)
        PROVE  \E s \in Reported \cup {None} :
                 outcome' = [outcome EXCEPT ![w] = s] /\ done' = done
    BY <2>3, <2>4 DEF Receive, Prepare, EndTest, KillTest, Exit
  <2>5. ASSUME NEW w \in Workers, Send(w)
        PROVE  Typed
    <3>1. [index |-> job[w], status |-> outcome[w]] \in [index : Mutants, status : Reported]
      BY <2>5 DEF Send, IInv, TypeOK, Busy, Cut
    <3>2. done' \in Seq([index : Mutants, status : Reported])
      BY <2>5, <3>1, AppendProperties DEF Send, Cut
    <3>3. outcome' \in [Workers -> Reported \cup {None}]
      BY <2>5 DEF Send, Cut
    <3> QED BY <3>2, <3>3
  <2> QED BY <2>1, <2>2, <2>4, <2>5 DEF WorkerStep
<1> QED BY <1>1, <1>2 DEF Cut, Checkpointed, BudgetExhausted

LEMMA CutAlways == Spec => [](IInv /\ Cut /\ Checkpointed)
<1>1. Init => Cut /\ Checkpointed
  <2> SUFFICES ASSUME Init PROVE Cut /\ Checkpointed
    OBVIOUS
  <2>1. <<>> \in Seq([index : Mutants, status : Reported])
    BY EmptySeq
  <2> QED BY <2>1 DEF Init, Cut, Checkpointed, None
<1>2. IInv /\ Cut /\ Checkpointed /\ [Next]_vars => Cut' /\ Checkpointed'
  BY DispatchCuts, CollectCuts, OthersCut DEF Next, CallerStep, Returned
<1> QED BY <1>1, <1>2, Accounting, PTL DEF Spec

\* The budget cuts the schedule once: PreDecided never lets a mutant run after
\* it has left an earlier one pending, whatever the workers do in between.
THEOREM BudgetCutsOnce == Spec => []PendingIsSuffix
<1>1. IInv /\ Cut => PendingIsSuffix
  <2> SUFFICES ASSUME IInv, Cut, NEW i \in Mutants, NEW k \in Mutants, i < k,
                      results[i] = "pending_budget", results[k] # None,
                      k \notin Quarantined \cup Suppressed
               PROVE  results[k] = "pending_budget"
    BY DEF PendingIsSuffix
  <2>1. k < next
    BY DEF IInv, NoMutantLost, Decided
  <2> QED BY <2>1 DEF Cut
<1> QED BY <1>1, CutAlways, PTL

\* The partial report that a successful run leaves behind is the whole result,
\* or there is none because no mutant had to be run.
THEOREM LastCheckpointIsComplete == Spec => []CheckpointIsComplete
<1>1. Checkpointed /\ SuccessIsComplete => CheckpointIsComplete
  BY DEF Checkpointed, SuccessIsComplete, CheckpointIsComplete
<1> QED BY <1>1, CutAlways, SuccessfulRunsAreComplete, PTL

-----------------------------------------------------------------------------
(* ParallelRun implements MutationRun, on top of the accounting above.      *)

\* What a worker may report of mutant m.
Reportable(m, s) ==
  \/ s = Failed
  \/ m \in Uncovered /\ s = "not_covered"
  \/ m \notin Uncovered /\ s \in Tested \cup {"cached"}

\* Whatever is on its way to the collector is such a report.
ReportsAdmissible ==
  /\ \A w \in Workers : pc[w] = "test" => job[w] \notin Uncovered
  /\ \A w \in Workers : pc[w] = "send" => Reportable(job[w], outcome[w])
  /\ \A k \in DOMAIN done : Reportable(done[k].index, done[k].status)

LEMMA DoneElements ==
  ASSUME NEW s \in Seq(Items)
  PROVE  /\ \A e \in Items : \A k \in DOMAIN Append(s, e) :
              Append(s, e)[k] = e \/ \E i \in DOMAIN s : Append(s, e)[k] = s[i]
         /\ s # <<>> => /\ \E i \in DOMAIN s : Head(s) = s[i]
                        /\ \A k \in DOMAIN Tail(s) : \E i \in DOMAIN s : Tail(s)[k] = s[i]
<1>1. ASSUME NEW e \in Items, NEW k \in DOMAIN Append(s, e)
      PROVE  Append(s, e)[k] = e \/ \E i \in DOMAIN s : Append(s, e)[k] = s[i]
  BY AppendProperties, LenProperties
<1>2. ASSUME s # <<>>
      PROVE  /\ \E i \in DOMAIN s : Head(s) = s[i]
             /\ \A k \in DOMAIN Tail(s) : \E i \in DOMAIN s : Tail(s)[k] = s[i]
  <2>1. /\ Len(s) \in Nat \ {0}
        /\ DOMAIN s = 1 .. Len(s)
        /\ Head(s) = s[1]
        /\ DOMAIN Tail(s) = 1 .. Len(s) - 1
        /\ \A k \in DOMAIN Tail(s) : Tail(s)[k] = s[k + 1]
    BY <1>2, HeadTailProperties, LenProperties, EmptySeq
  <2>2. \A k \in DOMAIN Tail(s) : k + 1 \in DOMAIN s
    BY <2>1
  <2> QED BY <2>1, <2>2
<1> QED BY <1>1, <1>2

LEMMA StepReports ==
  ASSUME TypeOK, ReportsAdmissible, [Next]_vars
  PROVE  ReportsAdmissible'
<1> USE DEF ReportsAdmissible
<1>1. CASE UNCHANGED <<pc, job, outcome, done>>
  BY <1>1 DEF Reportable
<1>2. CASE Collect
  <2>1. /\ done # <<>> /\ done' = Tail(done)
        /\ UNCHANGED <<pc, job, outcome>>
    BY <1>2 DEF Collect, workerVars
  <2>2. \A k \in DOMAIN done' : \E i \in DOMAIN done : done'[k] = done[i]
    BY <2>1, DoneElements DEF TypeOK
  <2> QED BY <2>1, <2>2 DEF Reportable
<1>3. ASSUME NEW w \in Workers, Receive(w) \/ Exit(w)
      PROVE  ReportsAdmissible'
  <2>1. /\ done' = done
        /\ \A v \in Workers \ {w} : pc'[v] = pc[v] /\ outcome'[v] = outcome[v] /\ job'[v] = job[v]
    BY <1>3 DEF Receive, Exit, Step, TypeOK
  <2>2. pc'[w] # "test" /\ (pc'[w] = "send" => outcome'[w] = Failed)
    BY <1>3 DEF Receive, Exit, Step, TypeOK
  <2> QED BY <2>1, <2>2 DEF Reportable
<1>4. ASSUME NEW w \in Workers, Prepare(w)
      PROVE  ReportsAdmissible'
  <2>1. /\ UNCHANGED <<job, done>>
        /\ \A v \in Workers \ {w} : pc'[v] = pc[v] /\ outcome'[v] = outcome[v]
    BY <1>4 DEF Prepare, Step, TypeOK
  <2>2. /\ pc'[w] = "test" => job[w] \notin Uncovered
        /\ pc'[w] = "send" => Reportable(job[w], outcome'[w])
    BY <1>4 DEF Prepare, Step, TypeOK, Reportable
  <2> QED BY <2>1, <2>2 DEF Reportable
<1>5. ASSUME NEW w \in Workers, EndTest(w) \/ KillTest(w)
      PROVE  ReportsAdmissible'
  <2>1. PICK s \in Tested : Step(w, "send", s)
    BY <1>5 DEF EndTest, KillTest, Tested
  <2>2. UNCHANGED <<job, done>> /\ job[w] \notin Uncovered
    BY <1>5 DEF EndTest, KillTest
  <2>3. /\ pc'[w] = "send" /\ outcome'[w] = s
        /\ \A v \in Workers \ {w} : pc'[v] = pc[v] /\ outcome'[v] = outcome[v]
    BY <2>1 DEF Step, TypeOK
  <2> QED BY <2>2, <2>3 DEF Reportable
<1>6. ASSUME NEW w \in Workers, Send(w)
      PROVE  ReportsAdmissible'
  <2> DEFINE e == [index |-> job[w], status |-> outcome[w]]
  <2>1. /\ pc[w] = "send" /\ job' = job /\ done' = Append(done, e)
        /\ \A v \in Workers \ {w} : pc'[v] = pc[v] /\ outcome'[v] = outcome[v]
        /\ pc'[w] = "idle"
    BY <1>6 DEF Send, Step, TypeOK
  <2>2. e \in Items /\ Reportable(e.index, e.status)
    BY <2>1 DEF TypeOK, Busy, Items
  <2> HIDE DEF e
  <2>3. \A k \in DOMAIN done' : done'[k] = e \/ \E i \in DOMAIN done : done'[k] = done[i]
    BY <2>1, <2>2, DoneElements DEF TypeOK
  <2> QED BY <2>1, <2>2, <2>3 DEF Reportable
<1> QED BY <1>1, <1>2, <1>3, <1>4, <1>5, <1>6
      DEF Next, CallerStep, WorkerStep, Dispatch, CloseJobs, Return, CloseDone, Expire,
          CallerCancel, Returned, workerVars, vars

LEMMA InitReports == Init => ReportsAdmissible
<1> SUFFICES ASSUME Init PROVE ReportsAdmissible
  OBVIOUS
<1>1. DOMAIN done = {} /\ \A w \in Workers : pc[w] = "idle"
  BY DEF Init
<1> QED BY <1>1 DEF ReportsAdmissible

\* Both modules take their statuses from Verdicts.
LEMMA SameVerdicts == Promise!None = None /\ Promise!Tested = Tested
  BY DEF Promise!None, None, Promise!Tested, Tested

LEMMA PreDecidedAdmissible ==
  ASSUME NEW m \in Mutants, PreDecided(m) # None
  PROVE  PreDecided(m) \in Promise!Admissible(m)
  BY DEF PreDecided, Promise!Admissible

LEMMA ReportAdmissible ==
  ASSUME NEW m \in Mutants \ (Quarantined \cup Suppressed), NEW s,
         Reportable(m, s), s # Failed
  PROVE  s \in Promise!Admissible(m)
  BY SameVerdicts DEF Reportable, Promise!Admissible

LEMMA DispatchKeepsPromise ==
  ASSUME IInv, Dispatch
  PROVE  [Promise!Next]_<<results, phase>>
<1>1. /\ next \in Mutants /\ next # N + 1
      /\ phase' = phase /\ TypeOK
  BY NAssumption DEF Dispatch, Mutants, IInv
<1>2. phase = "running"
  BY <1>1, WorkersAssumption DEF IInv, ChannelsCloseInOrder, TypeOK
<1>3. results[next] = None
  BY <1>1, NAssumption DEF IInv, NoMutantLost, Decided, Mutants
<1>4. CASE PreDecided(next) = None
  BY <1>1, <1>4 DEF Dispatch
<1>5. CASE PreDecided(next) # None
  <2>1. results' = [results EXCEPT ![next] = PreDecided(next)]
    BY <1>5 DEF Dispatch
  <2>2. Promise!Decide(next)
    BY <1>1, <1>2, <1>3, <1>5, <2>1, PreDecidedAdmissible, SameVerdicts DEF Promise!Decide
  <2> QED BY <1>1, <2>2 DEF Promise!Next
<1> QED BY <1>4, <1>5

LEMMA CollectKeepsPromise ==
  ASSUME IInv, ReportsAdmissible, Collect
  PROVE  [Promise!Next]_<<results, phase>>
<1> DEFINE m == Head(done).index
           s == Head(done).status
<1>1. /\ done # <<>> /\ phase' = phase /\ TypeOK
      /\ results' = [results EXCEPT ![m] = Recorded(Head(done))]
  BY DEF Collect, IInv
<1>2. phase = "running"
  BY <1>1 DEF IInv, ChannelsCloseInOrder, TypeOK
<1>3. m \in Mutants /\ m \in Sent
  BY <1>1, TailDone DEF Sent, TypeOK, IInv, NoMutantRunTwice, Items
<1>4. results[m] = None /\ m \notin Quarantined \cup Suppressed
  BY <1>3 DEF IInv, NoMutantRunTwice, SkippedNeverRun, InFlight, Decided
<1>5. Reportable(m, s)
  BY <1>1, DoneElements DEF ReportsAdmissible, TypeOK
<1>6. CASE s = Failed
  <2>1. Recorded(Head(done)) = None
    BY <1>6 DEF Recorded
  <2>2. results' = results
    BY <1>1, <1>3, <1>4, <2>1 DEF TypeOK
  <2> QED BY <1>1, <2>2
<1>7. CASE s # Failed
  <2>1. Recorded(Head(done)) = s /\ s \in Promise!Admissible(m)
    BY <1>3, <1>4, <1>5, <1>7, ReportAdmissible DEF Recorded
  <2>2. Promise!Decide(m)
    BY <1>1, <1>2, <1>3, <1>4, <2>1, SameVerdicts DEF Promise!Decide
  <2> QED BY <1>3, <2>2 DEF Promise!Next
<1> QED BY <1>6, <1>7

LEMMA ReturnKeepsPromise ==
  ASSUME SuccessIsComplete', Return
  PROVE  [Promise!Next]_<<results, phase>>
<1>1. /\ phase = "running" /\ phase' \in {"ok", "error"}
      /\ results' = results
  BY DEF Return
<1>2. CASE phase' = "ok"
  <2>1. \A m \in Mutants : results[m] # None
    BY <1>1, <1>2 DEF SuccessIsComplete
  <2> QED BY <1>1, <1>2, <2>1, SameVerdicts DEF Promise!Succeed, Promise!Next
<1>3. CASE phase' = "error"
  BY <1>1, <1>3 DEF Promise!Fail, Promise!Next
<1> QED BY <1>1, <1>2, <1>3

\* The parallel execution implements the abstract run: each step decides one
\* mutant as its disposition allows, ends the run, or changes nothing of it.
THEOREM ParallelRunKeepsPromise == Spec => KeepsPromise
<1>1. Init => Promise!Init
  BY SameVerdicts DEF Init, Promise!Init
<1>2. IInv /\ IInv' /\ ReportsAdmissible /\ [Next]_vars
        => [Promise!Next]_<<results, phase>>
  <2> SUFFICES ASSUME IInv, IInv', ReportsAdmissible, [Next]_vars
               PROVE  [Promise!Next]_<<results, phase>>
    OBVIOUS
  <2>1. SuccessIsComplete'
    <3>1. IInv' => SuccessIsComplete'
      BY AccountedSuccess, PTL
    <3> QED BY <3>1
  <2>2. CASE Dispatch
    BY <2>2, DispatchKeepsPromise
  <2>3. CASE Collect
    BY <2>3, CollectKeepsPromise
  <2>4. CASE Return
    BY <2>1, <2>4, ReturnKeepsPromise
  <2>5. CASE UNCHANGED <<results, phase>>
    BY <2>5
  <2> QED BY <2>2, <2>3, <2>4, <2>5
        DEF Next, CallerStep, WorkerStep, CloseJobs, Receive, Prepare, EndTest, KillTest,
            Send, Exit, CloseDone, Expire, CallerCancel, Returned, collectVars, vars
<1>3. TypeOK /\ ReportsAdmissible /\ [Next]_vars => ReportsAdmissible'
  BY StepReports
<1>4. QED
  BY <1>1, <1>2, <1>3, InitReports, TypeCorrect, Accounting, PTL
     DEF Spec, KeepsPromise

=============================================================================
