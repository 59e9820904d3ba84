------------------------- MODULE DedupPrepare_proofs -------------------------
(***************************************************************************)
(* Proofs about DedupPrepare, for any number of rows, keys and overlapping *)
(* runs: type correctness, that no row is skipped, and that the job        *)
(* implements IncrementalCopy.                                             *)
(***************************************************************************)
EXTENDS DedupPrepare, FiniteSetTheorems, FunctionTheorems, SequenceTheorems, TLAPS

-----------------------------------------------------------------------------
(* The inductive invariant, one conjunct per place where a time is kept. *)

\* Stamps lie in the past, and a row in flight is not older than MaxLag.
Timely ==
  /\ clock > 0
  /\ \A r \in Rows :
       /\ stage[r] # "absent" => cleaned[r] > 0 /\ cleaned[r] <= clock
       /\ stage[r] = "inflight" => clock <= cleaned[r] + MaxLag

\* A run starts from a mark that is covered ...
StartCovered ==
  \A s \in Slots : pc[s] \in Steps \ {"idle", "seed", "start"} =>
    last[s] < clock /\ PreparedUpTo(last[s])

\* ... closes its window a safety delay behind the clock ...
WindowClosed ==
  \A s \in Slots : pc[s] \in Steps \ {"idle", "seed", "start", "upper"} =>
    upper[s] <= clock - SafetyDelay

\* ... selects every row of it ...
BatchComplete ==
  \A s \in Slots : pc[s] = "commit" =>
    \A r \in Rows :
      stage[r] # "absent" /\ last[s] < cleaned[r] /\ cleaned[r] <= upper[s]
        => r \in batch[s]

\* ... and has stored them before it aggregates.
WindowCovered ==
  \A s \in Slots : pc[s] \in {"aggregate", "watermark", "finish"} =>
    PreparedUpTo(upper[s])

MarksCovered ==
  /\ \A s \in DOMAIN etl : etl[s] < clock /\ PreparedUpTo(etl[s])
  /\ \A i \in DOMAIN mutations :
       mutations[i].ts < clock /\ PreparedUpTo(mutations[i].ts)

IInv ==
  /\ TypeOK
  /\ Timely
  /\ StartCovered
  /\ WindowClosed
  /\ BatchComplete
  /\ WindowCovered
  /\ MarksCovered

-----------------------------------------------------------------------------
(* Lemmas about the operators. *)

\* The versions that one INSERT writes are finitely many and well-formed.
LEMMA VersionsType ==
  ASSUME TypeOK, NEW s \in Slots, NEW rows \in SUBSET Rows
  PROVE  VersionsOf(s, rows) \subseteq Version /\ IsFiniteSet(VersionsOf(s, rows))
<1>1. VersionsOf(s, rows) \subseteq Version
  BY RowsAssumption DEF TypeOK, VersionsOf, Version
<1>2. IsFiniteSet(rows)
  BY RowsAssumption, FS_Subset
<1> DEFINE f == [r \in rows |-> [key |-> KeyOf[r], ptime |-> ptime[s]]]
<1>3. f \in Surjection(rows, VersionsOf(s, rows))
  BY DEF Surjection, VersionsOf
<1>4. IsFiniteSet(VersionsOf(s, rows))
  BY <1>2, <1>3, FS_Surjection
<1>5. QED
  BY <1>1, <1>4

\* What a mutation leaves of the queue.
LEMMA QueueTail ==
  ASSUME TypeOK, mutations # <<>>
  PROVE  /\ Head(mutations) = mutations[1] /\ 1 \in DOMAIN mutations
         /\ Tail(mutations) \in Seq([rows : SUBSET Slots, ts : Int])
         /\ \A i \in DOMAIN Tail(mutations) :
              i + 1 \in DOMAIN mutations /\ Tail(mutations)[i] = mutations[i + 1]
BY HeadTailProperties DEF TypeOK

LEMMA CappedType ==
  ASSUME NEW n \in Nat PROVE Capped(n) \in Nat
BY RunAssumption DEF Capped

-----------------------------------------------------------------------------
(* Type correctness. *)

LEMMA TypeInit == Init => TypeOK
<1>1. IsFiniteSet({})
  BY FS_EmptySet
<1>2. QED
  BY <1>1, TimeAssumption DEF Init, TypeOK, Stages, Steps

LEMMA TypeNext == TypeOK /\ [Next]_vars => TypeOK'
<1> SUFFICES ASSUME TypeOK, [Next]_vars PROVE TypeOK'
  OBVIOUS
<1>1. ASSUME NEW r \in Rows, Arrive(r) PROVE TypeOK'
  BY <1>1 DEF TypeOK, Arrive, metrics, window, Stages
<1>2. ASSUME NEW r \in Rows, Publish(r) PROVE TypeOK'
  BY <1>2 DEF TypeOK, Publish, metrics, window, Stages
<1>3. CASE Tick
  BY <1>3 DEF TypeOK, Tick, source, metrics, window
<1>4. CASE Merge
  <2>1. prepared' \subseteq prepared
    BY <1>4 DEF Merge
  <2>2. IsFiniteSet(prepared')
    BY <2>1, FS_Subset DEF TypeOK
  <2>3. QED
    BY <1>4, <2>1, <2>2 DEF TypeOK, Merge, source, metrics, window
<1>5. CASE ApplyMutation
  <2>1. Head(mutations) \in [rows : SUBSET Slots, ts : Int]
    BY <1>5, HeadTailProperties DEF TypeOK, ApplyMutation
  <2>2. etl' \in [DOMAIN etl' -> Int] /\ DOMAIN etl' = DOMAIN etl
    BY <1>5, <2>1 DEF TypeOK, ApplyMutation
  <2>3. QED
    BY <1>5, <2>2, QueueTail DEF TypeOK, ApplyMutation, source, metrics, window
<1>6. ASSUME NEW s \in Slots, Job(s) PROVE TypeOK'
  <2>1. CASE EnsureCheck(s)
    <3>1. CASE DOMAIN etl = {}
      BY <2>1, <3>1 DEF TypeOK, EnsureCheck, NeedsSeed, Goto, source, metrics, window,
           Steps
    <3>2. CASE DOMAIN etl # {}
      <4>1. /\ pc' = [pc EXCEPT ![s] = "start"]
            /\ attempt' = [attempt EXCEPT ![s] = 0]
            /\ UNCHANGED <<clock, source, prepared, metrics, etl, mutations, window, faults>>
        BY <2>1, <3>2 DEF EnsureCheck, NeedsSeed, Goto
      <4>2. QED
        BY <4>1 DEF TypeOK, source, metrics, window, Steps
    <3>3. QED
      BY <3>1, <3>2
  <2>2. CASE EnsureInsert(s)
    BY <2>2 DEF TypeOK, EnsureInsert, Goto, source, metrics, window, Steps
  <2>3. CASE ReadLast(s)
    <3>1. PICK t \in DOMAIN etl : last' = [last EXCEPT ![s] = etl[t]]
      BY <2>3 DEF ReadLast
    <3>2. last' \in [Slots -> Int]
      BY <3>1 DEF TypeOK
    <3>3. faults' \in Nat
      <4>1. faults' = faults \/ faults' = faults + 1
        BY <2>3 DEF ReadLast
      <4>2. faults \in Nat
        BY DEF TypeOK
      <4>3. QED
        BY <4>1, <4>2
    <3>4. /\ pc' = [pc EXCEPT ![s] = "upper"]
          /\ UNCHANGED <<clock, source, prepared, metrics, etl, mutations,
                         upper, ptime, batch, attempt>>
      BY <2>3 DEF ReadLast, Goto
    <3>5. QED
      BY <3>2, <3>3, <3>4 DEF TypeOK, source, metrics, Steps
  <2>4. CASE ReadUpper(s)
    <3>1. clock - SafetyDelay \in Int
      BY TimeAssumption DEF TypeOK
    <3>2. upper' \in [Slots -> Int]
      BY <2>4, <3>1 DEF TypeOK, ReadUpper, UpperTs
    <3>3. QED
      BY <2>4, <3>2 DEF TypeOK, ReadUpper, Goto, source, metrics, Steps
  <2>5. CASE InsertBegin(s)
    BY <2>5 DEF TypeOK, InsertBegin, Goto, Selected, source, metrics, Steps
  <2>6. CASE InsertCommit(s)
    <3>1. VersionsOf(s, batch[s]) \subseteq Version /\ IsFiniteSet(VersionsOf(s, batch[s]))
      BY VersionsType DEF TypeOK
    <3>2. prepared' \subseteq Version /\ IsFiniteSet(prepared')
      BY <2>6, <3>1, FS_Union DEF TypeOK, InsertCommit
    <3>3. QED
      BY <2>6, <3>2 DEF TypeOK, InsertCommit, Goto, source, metrics, window, Steps
  <2>7. CASE Aggregate(s)
    <3>1. ASSUME NEW k \in Keys
          PROVE  Capped(counted[k] + Cardinality({v \in InWindow(s) : v.key = k})) \in Nat
      <4>1. {v \in InWindow(s) : v.key = k} \in SUBSET prepared
        BY DEF InWindow
      <4>2. Cardinality({v \in InWindow(s) : v.key = k}) \in Nat
        BY <4>1, FS_Subset, FS_CardinalityType DEF TypeOK
      <4>3. counted[k] + Cardinality({v \in InWindow(s) : v.key = k}) \in Nat
        BY <4>2 DEF TypeOK
      <4>4. QED
        BY <4>3, CappedType
    <3>2. BlockOf(s) \in [Groups -> Nat]
      <4>1. ASSUME NEW g \in Groups
            PROVE  Cardinality({v \in InWindow(s) : GroupOf[v.key] = g}) \in Nat
        <5>1. {v \in InWindow(s) : GroupOf[v.key] = g} \in SUBSET prepared
          BY DEF InWindow
        <5>2. QED
          BY <5>1, FS_Subset, FS_CardinalityType DEF TypeOK
      <4>2. QED
        BY <4>1 DEF BlockOf
    <3>3. /\ counted' \in [Keys -> Nat] /\ blocks' \subseteq [Groups -> Nat]
          /\ dropped' \subseteq Keys
      <4>1. CASE /\ UNCHANGED <<counted, blocks>>
                 /\ dropped' = dropped \cup {v.key : v \in InWindow(s)}
        <5>1. {v.key : v \in InWindow(s)} \subseteq Keys
          BY DEF TypeOK, InWindow, Version
        <5>2. QED
          BY <4>1, <5>1 DEF TypeOK
      <4>2. CASE /\ counted' = [k \in Keys |->
                      Capped(counted[k] + Cardinality({v \in InWindow(s) : v.key = k}))]
                 /\ blocks' = IF DropsRepeated THEN blocks \cup {BlockOf(s)} ELSE blocks
                 /\ UNCHANGED dropped
        BY <3>1, <3>2, <4>2 DEF TypeOK
      <4>3. QED
        BY <2>7, <4>1, <4>2 DEF Aggregate
    <3>4. /\ UNCHANGED <<clock, source, prepared, etl, mutations, window, attempt, faults>>
          /\ pc' = [pc EXCEPT ![s] = "watermark"]
      BY <2>7 DEF Aggregate, Goto
    <3>5. QED
      BY <3>3, <3>4 DEF TypeOK, source, window, Steps
  <2>8. CASE UpdateWatermark(s)
    <3>1. [rows |-> DOMAIN etl, ts |-> upper[s]] \in [rows : SUBSET Slots, ts : Int]
      BY DEF TypeOK
    <3>2. mutations' \in Seq([rows : SUBSET Slots, ts : Int])
      BY <2>8, <3>1, AppendProperties DEF TypeOK, UpdateWatermark, NewMark
    <3>3. QED
      BY <2>8, <3>2 DEF TypeOK, UpdateWatermark, Goto, source, metrics, window, Steps
  <2>9. CASE Finish(s)
    BY <2>9 DEF TypeOK, Finish, ClearLocals, Goto, source, metrics, Steps
  <2>10. QED
    BY <1>6, <2>1, <2>2, <2>3, <2>4, <2>5, <2>6, <2>7, <2>8, <2>9 DEF Job
<1>7. ASSUME NEW s \in Slots, FailTask(s) PROVE TypeOK'
  <2>1. prepared' \subseteq Version /\ IsFiniteSet(prepared')
    <3>1. ASSUME NEW part \in SUBSET batch[s],
                 prepared' = prepared \cup VersionsOf(s, part)
          PROVE  prepared' \subseteq Version /\ IsFiniteSet(prepared')
      <4>1. VersionsOf(s, part) \subseteq Version /\ IsFiniteSet(VersionsOf(s, part))
        BY VersionsType DEF TypeOK
      <4>2. QED
        BY <3>1, <4>1, FS_Union DEF TypeOK
    <3>2. QED
      BY <1>7, <3>1 DEF FailTask, TypeOK
  <2>2. pc' \in [Slots -> Steps] /\ attempt' \in [Slots -> Nat]
    <3>1. \/ /\ pc' = [pc EXCEPT ![s] = IF pc[s] = "seed" THEN "idle" ELSE "start"]
             /\ attempt' = [attempt EXCEPT ![s] = @ + 1]
          \/ /\ pc' = [pc EXCEPT ![s] = "idle"]
             /\ attempt' = [attempt EXCEPT ![s] = 0]
      BY <1>7 DEF FailTask, Retry
    <3>2. pc' = [pc EXCEPT ![s] = pc'[s]] /\ pc'[s] \in {"idle", "start"}
      BY <3>1 DEF TypeOK
    <3>3. attempt' \in [Slots -> Nat]
      <4>1. attempt \in [Slots -> Nat]
        BY DEF TypeOK
      <4>2. CASE attempt' = [attempt EXCEPT ![s] = @ + 1]
        BY <4>1, <4>2
      <4>3. CASE attempt' = [attempt EXCEPT ![s] = 0]
        BY <4>1, <4>3
      <4>4. QED
        BY <3>1, <4>2, <4>3
    <3>4. QED
      BY <3>2, <3>3 DEF TypeOK, Steps
  <2>3. /\ UNCHANGED <<clock, stage, cleaned, counted, blocks, dropped, etl, mutations>>
        /\ faults' = faults + 1 /\ ClearLocals(s)
    BY <1>7 DEF FailTask, source, metrics
  <2>4. /\ last' \in [Slots -> Int] /\ upper' \in [Slots -> Int]
        /\ ptime' \in [Slots -> Nat] /\ batch' \in [Slots -> SUBSET Rows]
    BY <2>3 DEF TypeOK, ClearLocals
  <2>5. QED
    BY <2>1, <2>2, <2>3, <2>4 DEF TypeOK
<1>8. CASE UNCHANGED vars
  BY <1>8 DEF TypeOK, vars
<1>9. QED
  BY <1>1, <1>2, <1>3, <1>4, <1>5, <1>6, <1>7, <1>8 DEF Next

\* Type correctness: every variable of the job and of its tables keeps its type,
\* whatever the interleaving of runs, failures and background work.
THEOREM TypeCorrect == Spec => []TypeOK
BY TypeInit, TypeNext, PTL DEF Spec

-----------------------------------------------------------------------------
(* What every step preserves. *)

\* Time does not run backwards.
LEMMA ClockGrows ==
  ASSUME TypeOK, [Next]_vars PROVE clock \in Int /\ clock' \in Int /\ clock <= clock'
<1>1. clock' = clock \/ clock' = clock + 1
  BY DEF Next, vars, Arrive, Publish, Tick, Merge, ApplyMutation, Job, FailTask,
         EnsureCheck, EnsureInsert, ReadLast, ReadUpper, InsertBegin,
         InsertCommit, Aggregate, UpdateWatermark, Finish
<1>2. QED
  BY <1>1 DEF TypeOK

\* A row changes its stamp only when it arrives, and is then stamped with the
\* current time.
LEMMA RowSteps ==
  ASSUME TypeOK, [Next]_vars, NEW r \in Rows
  PROVE  \/ stage'[r] = stage[r] /\ cleaned'[r] = cleaned[r]
         \/ stage[r] = "absent" /\ cleaned'[r] = clock /\ clock' = clock
         \/ stage[r] = "inflight" /\ stage'[r] = "visible" /\ cleaned'[r] = cleaned[r]
            /\ clock' = clock
<1>1. ASSUME NEW q \in Rows, Arrive(q)
      PROVE  \/ stage'[r] = stage[r] /\ cleaned'[r] = cleaned[r]
             \/ stage[r] = "absent" /\ cleaned'[r] = clock /\ clock' = clock
  BY <1>1 DEF Arrive, TypeOK
<1>2. ASSUME NEW q \in Rows, Publish(q)
      PROVE  \/ stage'[r] = stage[r] /\ cleaned'[r] = cleaned[r]
             \/ stage[r] = "inflight" /\ stage'[r] = "visible"
                /\ cleaned'[r] = cleaned[r] /\ clock' = clock
  BY <1>2 DEF Publish, TypeOK
<1>3. ASSUME ~\E q \in Rows : Arrive(q) \/ Publish(q)
      PROVE  UNCHANGED <<stage, cleaned>>
  BY <1>3 DEF Next, vars, source, metrics, Tick, Merge, ApplyMutation, Job, FailTask,
              EnsureCheck, EnsureInsert, ReadLast, ReadUpper, InsertBegin,
              InsertCommit, Aggregate, UpdateWatermark, Finish
<1>4. QED
  BY <1>1, <1>2, <1>3

\* No key is ever lost from prepared_events: a merge keeps the later version.
LEMMA KeysStay ==
  ASSUME TypeOK, [Next]_vars, NEW k, IsPrepared(k) PROVE IsPrepared(k)'
<1>1. CASE Merge
  <2>1. PICK v \in prepared, w \in prepared :
          v.key = w.key /\ v.ptime < w.ptime /\ prepared' = prepared \ {v}
    BY <1>1 DEF Merge
  <2>2. v # w
    BY <2>1 DEF TypeOK, Version
  <2>3. PICK x \in prepared : x.key = k
    BY DEF IsPrepared
  <2>4. CASE x = v
    BY <2>1, <2>2, <2>3, <2>4 DEF IsPrepared
  <2>5. CASE x # v
    BY <2>1, <2>3, <2>5 DEF IsPrepared
  <2>6. QED
    BY <2>4, <2>5
<1>2. CASE ~Merge
  <2>1. prepared \subseteq prepared'
    BY <1>2 DEF Next, vars, Arrive, Publish, Tick, ApplyMutation, Job, FailTask,
           EnsureCheck, EnsureInsert, ReadLast, ReadUpper, InsertBegin,
           InsertCommit, Aggregate, UpdateWatermark, Finish
  <2>2. QED
    BY <2>1 DEF IsPrepared
<1>3. QED
  BY <1>1, <1>2

\* Once the past up to t is covered it stays covered, because rows to come are
\* stamped later.
LEMMA CoverStays ==
  ASSUME TypeOK, [Next]_vars, NEW t \in Int, t < clock, PreparedUpTo(t)
  PROVE  t < clock' /\ PreparedUpTo(t)'
<1>1. t < clock'
  BY ClockGrows
<1>2. ASSUME NEW r \in Rows, stage'[r] # "absent", cleaned'[r] <= t
      PROVE  IsPrepared(KeyOf[r])'
  <2>1. cleaned'[r] # clock
    BY <1>2 DEF TypeOK
  <2>2. stage[r] # "absent" /\ cleaned'[r] = cleaned[r]
    BY <1>2, <2>1, RowSteps
  <2>3. IsPrepared(KeyOf[r])
    BY <1>2, <2>2 DEF PreparedUpTo
  <2>4. QED
    BY <2>3, KeysStay
<1>3. QED
  BY <1>1, <1>2 DEF PreparedUpTo

\* A run changes its own step and locals only.
LEMMA OtherRuns ==
  ASSUME TypeOK, [Next]_vars, NEW t \in Slots, ~Job(t), ~FailTask(t)
  PROVE  /\ pc'[t] = pc[t] /\ last'[t] = last[t] /\ upper'[t] = upper[t]
         /\ ptime'[t] = ptime[t] /\ batch'[t] = batch[t]
<1>1. ASSUME NEW s \in Slots, s # t, Job(s)
      PROVE  /\ pc'[t] = pc[t] /\ last'[t] = last[t] /\ upper'[t] = upper[t]
             /\ ptime'[t] = ptime[t] /\ batch'[t] = batch[t]
  <2>1. pc'[t] = pc[t]
    BY <1>1 DEF TypeOK, Job, Goto, EnsureCheck, EnsureInsert, ReadLast, ReadUpper,
         InsertBegin, InsertCommit, Aggregate, UpdateWatermark, Finish
  <2>2. last'[t] = last[t] /\ upper'[t] = upper[t]
    BY <1>1 DEF TypeOK, Job, EnsureCheck, EnsureInsert, ReadLast, ReadUpper,
         InsertBegin, InsertCommit, Aggregate, UpdateWatermark, Finish,
         ClearLocals, window
  <2>3. ptime'[t] = ptime[t] /\ batch'[t] = batch[t]
    BY <1>1 DEF TypeOK, Job, EnsureCheck, EnsureInsert, ReadLast, ReadUpper,
         InsertBegin, InsertCommit, Aggregate, UpdateWatermark, Finish,
         ClearLocals, window
  <2>4. QED
    BY <2>1, <2>2, <2>3
<1>2. ASSUME NEW s \in Slots, s # t, FailTask(s)
      PROVE  /\ pc'[t] = pc[t] /\ last'[t] = last[t] /\ upper'[t] = upper[t]
             /\ ptime'[t] = ptime[t] /\ batch'[t] = batch[t]
  BY <1>2 DEF TypeOK, FailTask, Retry, ClearLocals
<1>3. ASSUME ~\E s \in Slots : Job(s) \/ FailTask(s)
      PROVE  UNCHANGED <<pc, last, upper, ptime, batch>>
  BY <1>3 DEF Next, vars, window, Arrive, Publish, Tick, Merge, ApplyMutation
<1>4. QED
  BY <1>1, <1>2, <1>3

-----------------------------------------------------------------------------
(* The inductive invariant holds initially and is kept by every step: one  *)
(* lemma per conjunct, in each the actions that can disturb it.            *)

LEMMA IInvInit == Init => IInv
<1> SUFFICES ASSUME Init PROVE IInv
  OBVIOUS
<1>1. TypeOK
  BY TypeInit
<1>2. Timely
  BY TimeAssumption DEF Init, Timely
<1>3. StartCovered /\ WindowClosed /\ BatchComplete /\ WindowCovered
  BY DEF Init, StartCovered, WindowClosed, BatchComplete, WindowCovered, Steps
<1>4. MarksCovered
  BY DEF Init, MarksCovered
<1>5. QED
  BY <1>1, <1>2, <1>3, <1>4 DEF IInv

LEMMA TimelyNext == IInv /\ [Next]_vars => Timely'
<1> SUFFICES ASSUME IInv, [Next]_vars PROVE Timely'
  OBVIOUS
<1> USE DEF IInv
<1>1. ASSUME NEW q \in Rows, Arrive(q) PROVE Timely'
  BY <1>1, TimeAssumption DEF Arrive, Timely, TypeOK
<1>2. ASSUME NEW q \in Rows, Publish(q) PROVE Timely'
  BY <1>2 DEF Publish, Timely, TypeOK
<1>3. CASE Tick
  BY <1>3, TimeAssumption DEF Tick, Timely, TypeOK, source, metrics
<1>4. CASE ~Tick /\ ~\E q \in Rows : Arrive(q) \/ Publish(q)
  <2>1. UNCHANGED <<clock, stage, cleaned>>
    BY <1>4 DEF Next, vars, source, metrics, Merge, ApplyMutation, Job, FailTask,
           EnsureCheck, EnsureInsert, ReadLast, ReadUpper, InsertBegin,
           InsertCommit, Aggregate, UpdateWatermark, Finish
  <2>2. QED
    BY <2>1 DEF Timely
<1>5. QED
  BY <1>1, <1>2, <1>3, <1>4

LEMMA StartCoveredNext == IInv /\ [Next]_vars => StartCovered'
<1> SUFFICES ASSUME IInv, [Next]_vars, NEW t \in Slots,
                    pc'[t] \in Steps \ {"idle", "seed", "start"}
             PROVE  last'[t] < clock' /\ (PreparedUpTo(last[t]))'
  BY DEF StartCovered
<1> USE DEF IInv
<1>1. CASE ReadLast(t)
  <2>1. PICK s \in DOMAIN etl : last' = [last EXCEPT ![t] = etl[s]]
    BY <1>1 DEF ReadLast
  <2>2. PICK e \in Int : e = etl[s]
    BY DEF TypeOK
  <2>3. last'[t] = e
    BY <2>1, <2>2 DEF TypeOK
  <2>4. e < clock /\ PreparedUpTo(e)
    BY <2>2 DEF MarksCovered, PreparedUpTo
  <2>5. e < clock' /\ PreparedUpTo(e)'
    BY <2>4, CoverStays
  <2>6. QED
    BY <2>3, <2>5 DEF PreparedUpTo
<1>2. CASE ~ReadLast(t)
  <2>1. last'[t] = last[t] /\ pc[t] \in Steps \ {"idle", "seed", "start"}
    <3>1. CASE Job(t)
      BY <1>2, <3>1 DEF TypeOK, Job, Goto, EnsureCheck, EnsureInsert, ReadUpper,
         InsertBegin, InsertCommit, Aggregate, UpdateWatermark, Finish, window, Steps
    <3>2. CASE FailTask(t)
      BY <3>2 DEF TypeOK, FailTask, Retry, Steps
    <3>3. CASE ~Job(t) /\ ~FailTask(t)
      BY <3>3, OtherRuns
    <3>4. QED
      BY <3>1, <3>2, <3>3
  <2>2. last[t] < clock /\ PreparedUpTo(last[t])
    BY <2>1 DEF StartCovered
  <2>3. PICK e \in Int : e = last[t]
    BY DEF TypeOK
  <2>4. e < clock /\ PreparedUpTo(e)
    BY <2>2, <2>3 DEF PreparedUpTo
  <2>5. e < clock' /\ PreparedUpTo(e)'
    BY <2>4, CoverStays
  <2>6. last'[t] = e
    BY <2>1, <2>3
  <2>7. QED
    BY <2>5, <2>6 DEF PreparedUpTo
<1>3. QED
  BY <1>1, <1>2

LEMMA WindowClosedNext == IInv /\ [Next]_vars => WindowClosed'
<1> SUFFICES ASSUME IInv, [Next]_vars, NEW t \in Slots,
                    pc'[t] \in Steps \ {"idle", "seed", "start", "upper"}
             PROVE  upper'[t] <= clock' - SafetyDelay
  BY DEF WindowClosed
<1> USE DEF IInv
<1>1. CASE ReadUpper(t)
  BY <1>1, TimeAssumption DEF ReadUpper, UpperTs, TypeOK
<1>2. CASE ~ReadUpper(t)
  <2>1. upper'[t] = upper[t] /\ pc[t] \in Steps \ {"idle", "seed", "start", "upper"}
    <3>1. CASE Job(t)
      BY <1>2, <3>1 DEF TypeOK, Job, Goto, EnsureCheck, EnsureInsert, ReadLast,
         InsertBegin, InsertCommit, Aggregate, UpdateWatermark, Finish, window, Steps
    <3>2. CASE FailTask(t)
      BY <3>2 DEF TypeOK, FailTask, Retry, Steps
    <3>3. CASE ~Job(t) /\ ~FailTask(t)
      BY <3>3, OtherRuns
    <3>4. QED
      BY <3>1, <3>2, <3>3
  <2>2. upper[t] <= clock - SafetyDelay
    BY <2>1 DEF WindowClosed
  <2>3. TypeOK' /\ clock <= clock'
    BY ClockGrows, TypeNext
  <2>4. clock \in Int /\ clock' \in Int /\ upper[t] \in Int
    BY <2>3 DEF TypeOK
  <2>5. QED
    BY <2>1, <2>2, <2>3, <2>4, TimeAssumption
<1>3. QED
  BY <1>1, <1>2

\* A closed window ends strictly before the current time.
LEMMA UpperPast ==
  ASSUME IInv, NEW t \in Slots, pc[t] \in Steps \ {"idle", "seed", "start", "upper"}
  PROVE  upper[t] \in Int /\ upper[t] < clock
<1>1. upper[t] <= clock - SafetyDelay
  BY DEF IInv, WindowClosed
<1>2. upper[t] \in Int /\ clock \in Int
  BY DEF IInv, TypeOK
<1>3. SafetyDelay \in Int /\ SafetyDelay > 0
  BY TimeAssumption, LagAssumption
<1>4. QED
  BY <1>1, <1>2, <1>3

LEMMA BatchCompleteNext == IInv /\ [Next]_vars => BatchComplete'
<1> SUFFICES ASSUME IInv, [Next]_vars, NEW t \in Slots, pc'[t] = "commit",
                    NEW r \in Rows, stage'[r] # "absent",
                    last'[t] < cleaned'[r], cleaned'[r] <= upper'[t]
             PROVE  r \in batch'[t]
  BY DEF BatchComplete
<1> USE DEF IInv
<1>1. CASE InsertBegin(t)
  <2>1. pc[t] = "insert" /\ UNCHANGED <<clock, stage, cleaned, last, upper>>
    BY <1>1 DEF InsertBegin, Goto, source, metrics
  <2>2. upper[t] <= clock - SafetyDelay
    BY <2>1 DEF WindowClosed, Steps
  <2>3. stage[r] # "inflight"
    BY <2>1, <2>2, TimeAssumption, LagAssumption DEF Timely, TypeOK
  <2>4. stage[r] = "visible"
    BY <2>1, <2>3 DEF TypeOK, Stages
  <2>5. r \in Selected(t)
    BY <2>1, <2>4 DEF Selected
  <2>6. QED
    BY <1>1, <2>5 DEF InsertBegin, TypeOK
<1>2. CASE ~InsertBegin(t)
  <2>1. ~Job(t) /\ ~FailTask(t)
    BY <1>2 DEF TypeOK, Job, Goto, FailTask, Retry, EnsureCheck, EnsureInsert,
       ReadLast, ReadUpper, InsertCommit, Aggregate, UpdateWatermark, Finish
  <2>2. /\ pc[t] = "commit" /\ last'[t] = last[t] /\ upper'[t] = upper[t]
        /\ batch'[t] = batch[t]
    BY <2>1, OtherRuns
  <2>3. upper[t] \in Int /\ upper[t] < clock
    BY <2>2, UpperPast DEF Steps
  <2>4. cleaned'[r] # clock
    BY <2>2, <2>3 DEF TypeOK
  <2>5. stage[r] # "absent" /\ cleaned'[r] = cleaned[r]
    BY <2>4, RowSteps
  <2>6. QED
    BY <2>2, <2>5 DEF BatchComplete
<1>3. QED
  BY <1>1, <1>2

LEMMA WindowCoveredNext == IInv /\ [Next]_vars => WindowCovered'
<1> SUFFICES ASSUME IInv, [Next]_vars, NEW t \in Slots,
                    pc'[t] \in {"aggregate", "watermark", "finish"}
             PROVE  (PreparedUpTo(upper[t]))'
  BY DEF WindowCovered
<1> USE DEF IInv
<1>1. CASE InsertCommit(t)
  <2>1. /\ pc[t] = "commit" /\ UNCHANGED <<stage, cleaned, upper>>
        /\ prepared' = prepared \cup VersionsOf(t, batch[t])
    BY <1>1 DEF InsertCommit, Goto, source, metrics, window
  <2>2. PreparedUpTo(last[t])
    BY <2>1 DEF StartCovered, Steps
  <2>3. ASSUME NEW r \in Rows, stage[r] # "absent", cleaned[r] <= upper[t]
        PROVE  IsPrepared(KeyOf[r])'
    <3>1. CASE cleaned[r] <= last[t]
      <4>1. IsPrepared(KeyOf[r])
        BY <2>2, <2>3, <3>1 DEF PreparedUpTo
      <4>2. QED
        BY <4>1, KeysStay
    <3>2. CASE last[t] < cleaned[r]
      <4>1. r \in batch[t]
        BY <2>1, <2>3, <3>2 DEF BatchComplete
      <4>2. [key |-> KeyOf[r], ptime |-> ptime[t]] \in prepared'
        BY <2>1, <4>1 DEF VersionsOf
      <4>3. QED
        BY <4>2 DEF IsPrepared
    <3>3. QED
      BY <3>1, <3>2 DEF TypeOK
  <2>4. QED
    BY <2>1, <2>3 DEF PreparedUpTo
<1>2. CASE ~InsertCommit(t)
  <2>1. upper'[t] = upper[t] /\ pc[t] \in {"aggregate", "watermark", "finish"}
    <3>1. CASE Job(t)
      BY <1>2, <3>1 DEF TypeOK, Job, Goto, EnsureCheck, EnsureInsert, ReadLast,
         ReadUpper, InsertBegin, Aggregate, UpdateWatermark, Finish, window
    <3>2. CASE FailTask(t)
      BY <3>2 DEF TypeOK, FailTask, Retry
    <3>3. CASE ~Job(t) /\ ~FailTask(t)
      BY <3>3, OtherRuns
    <3>4. QED
      BY <3>1, <3>2, <3>3
  <2>2. PICK e \in Int : e = upper[t]
    BY DEF TypeOK
  <2>3. e < clock /\ PreparedUpTo(e)
    <3>1. upper[t] < clock
      BY <2>1, UpperPast DEF Steps
    <3>2. PreparedUpTo(upper[t])
      BY <2>1 DEF WindowCovered
    <3>3. QED
      BY <2>2, <3>1, <3>2 DEF PreparedUpTo
  <2>4. PreparedUpTo(e)'
    BY <2>3, CoverStays
  <2>5. QED
    BY <2>1, <2>2, <2>4 DEF PreparedUpTo
<1>3. QED
  BY <1>1, <1>2

LEMMA MarksCoveredNext == IInv /\ [Next]_vars => MarksCovered'
<1> SUFFICES ASSUME IInv, [Next]_vars PROVE MarksCovered'
  OBVIOUS
<1> USE DEF IInv
<1> DEFINE Covered(e) == e < clock /\ PreparedUpTo(e)
<1>1. ASSUME NEW e \in Int, Covered(e) PROVE Covered(e)'
  BY <1>1, CoverStays
<1>2. /\ \A s \in DOMAIN etl : etl[s] \in Int /\ Covered(etl[s])
      /\ \A i \in DOMAIN mutations : mutations[i].ts \in Int /\ Covered(mutations[i].ts)
  <2>1. \A s \in DOMAIN etl : etl[s] \in Int
    BY DEF TypeOK
  <2>2. ASSUME NEW i \in DOMAIN mutations PROVE mutations[i].ts \in Int
    <3>1. mutations \in Seq([rows : SUBSET Slots, ts : Int])
      BY DEF TypeOK
    <3>2. i \in 1 .. Len(mutations)
      BY <2>2, <3>1, LenProperties
    <3>3. mutations[i] \in [rows : SUBSET Slots, ts : Int]
      BY <3>1, <3>2, ElementOfSeq
    <3>4. QED
      BY <3>3
  <2>3. QED
    BY <2>1, <2>2 DEF MarksCovered
<1>3. SUFFICES
        /\ \A s \in DOMAIN etl' : \E e \in Int : etl'[s] = e /\ Covered(e)
        /\ \A i \in DOMAIN mutations' : \E e \in Int : mutations'[i].ts = e /\ Covered(e)
  <2> HIDE DEF Covered
  <2>1. ASSUME NEW s \in DOMAIN etl' PROVE (Covered(etl[s]))'
    <3>1. PICK e \in Int : etl'[s] = e /\ Covered(e)
      BY <1>3
    <3>2. Covered(e)'
      BY <1>1, <3>1
    <3>3. QED
      BY <3>1, <3>2 DEF Covered, PreparedUpTo
  <2>2. ASSUME NEW i \in DOMAIN mutations' PROVE (Covered(mutations[i].ts))'
    <3>1. PICK e \in Int : mutations'[i].ts = e /\ Covered(e)
      BY <1>3
    <3>2. Covered(e)'
      BY <1>1, <3>1
    <3>3. QED
      BY <3>1, <3>2 DEF Covered, PreparedUpTo
  <2>3. QED
    BY <2>1, <2>2 DEF Covered, MarksCovered
<1> HIDE DEF Covered
<1>4. ASSUME NEW t \in Slots, EnsureInsert(t)
      PROVE  /\ \A s \in DOMAIN etl' : \E e \in Int : etl'[s] = e /\ Covered(e)
             /\ mutations' = mutations
  <2>1. Covered(0)
    BY DEF Covered, Timely, PreparedUpTo, TypeOK
  <2>2. ASSUME NEW s \in DOMAIN etl' PROVE etl'[s] = 0 \/ (s \in DOMAIN etl /\ etl'[s] = etl[s])
    BY <1>4 DEF EnsureInsert
  <2>3. QED
    BY <1>2, <1>4, <2>1, <2>2 DEF EnsureInsert
<1>5. ASSUME ApplyMutation
      PROVE  /\ \A s \in DOMAIN etl' : \E e \in Int : etl'[s] = e /\ Covered(e)
             /\ \A i \in DOMAIN mutations' : \E e \in Int : mutations'[i].ts = e /\ Covered(e)
  <2>1. mutations # <<>> /\ mutations' = Tail(mutations)
    BY <1>5 DEF ApplyMutation
  <2>2. ASSUME NEW s \in DOMAIN etl'
        PROVE  etl'[s] = mutations[1].ts \/ (s \in DOMAIN etl /\ etl'[s] = etl[s])
    BY <1>5, <2>1, QueueTail DEF ApplyMutation
  <2>3. 1 \in DOMAIN mutations
    BY <2>1, QueueTail
  <2>4. \A i \in DOMAIN mutations' :
          i + 1 \in DOMAIN mutations /\ mutations'[i] = mutations[i + 1]
    BY <2>1, QueueTail
  <2>5. QED
    BY <1>2, <2>2, <2>3, <2>4
<1>6. ASSUME NEW t \in Slots, UpdateWatermark(t)
      PROVE  /\ etl' = etl
             /\ \A i \in DOMAIN mutations' : \E e \in Int : mutations'[i].ts = e /\ Covered(e)
  <2>1. /\ pc[t] = "watermark" /\ etl' = etl
        /\ mutations' = Append(mutations, [rows |-> DOMAIN etl, ts |-> upper[t]])
    BY <1>6 DEF UpdateWatermark, NewMark, Goto
  <2>2. upper[t] \in Int /\ Covered(upper[t])
    <3>1. upper[t] \in Int /\ upper[t] < clock
      BY <2>1, UpperPast DEF Steps
    <3>2. PreparedUpTo(upper[t])
      BY <2>1 DEF WindowCovered
    <3>3. QED
      BY <3>1, <3>2 DEF Covered
  <2>3. ASSUME NEW i \in DOMAIN mutations'
        PROVE  \/ i \in DOMAIN mutations /\ mutations'[i] = mutations[i]
               \/ mutations'[i].ts = upper[t]
    <3>1. /\ mutations \in Seq([rows : SUBSET Slots, ts : Int])
          /\ [rows |-> DOMAIN etl, ts |-> upper[t]] \in [rows : SUBSET Slots, ts : Int]
      BY DEF TypeOK
    <3>2. QED
      BY <2>1, <3>1, AppendProperties
  <2>4. QED
    BY <1>2, <2>1, <2>2, <2>3
<1>7. CASE /\ ~ApplyMutation
           /\ ~\E t \in Slots : EnsureInsert(t) \/ UpdateWatermark(t)
  <2>1. UNCHANGED <<etl, mutations>>
    BY <1>7 DEF Next, vars, Arrive, Publish, Tick, Merge, Job, FailTask,
       EnsureCheck, ReadLast, ReadUpper, InsertBegin, InsertCommit, Aggregate, Finish
  <2>2. QED
    BY <1>2, <2>1
<1>8. QED
  BY <1>2, <1>4, <1>5, <1>6, <1>7

-----------------------------------------------------------------------------
(* Nothing is skipped. *)

\* The inductive invariant holds in every behaviour.
THEOREM Inductive == Spec => []IInv
<1>1. IInv /\ [Next]_vars => IInv'
  BY TypeNext, TimelyNext, StartCoveredNext, WindowClosedNext, BatchCompleteNext,
     WindowCoveredNext, MarksCoveredNext DEF IInv
<1>2. QED
  BY <1>1, IInvInit, PTL DEF Spec

\* For any number of runs of the DAG at a time, any failures and retries, any
\* delay of mutations and of merges: no watermark of etl_state, stored or on its
\* way, is at or past a row whose event is not in prepared_events, as long as a
\* row becomes visible within less than safety_delay_sec of its stamp.
THEOREM NothingSkipped == Spec => []NoSkippedRow
<1>1. IInv => NoSkippedRow
  BY DEF IInv, MarksCovered, NoSkippedRow
<1>2. QED
  BY <1>1, Inductive, PTL

-----------------------------------------------------------------------------
(* The job implements IncrementalCopy.                                     *)

\* A row has a stamp exactly when it is written, and an INSERT selects written
\* rows only.
Stamped ==
  /\ \A r \in Rows : stage[r] = "absent" => cleaned[r] = 0
  /\ \A s \in Slots : \A r \in batch[s] : stage[r] = "visible"

LEMMA StampedNext == TypeOK /\ Stamped /\ [Next]_vars => Stamped'
<1> SUFFICES ASSUME TypeOK, Stamped, [Next]_vars PROVE Stamped'
  OBVIOUS
<1>1. ASSUME NEW r \in Rows, stage'[r] = "absent" PROVE cleaned'[r] = 0
  <2>1. ~\E q \in Rows : Arrive(q) /\ q = r
    BY <1>1 DEF Arrive, TypeOK
  <2>2. stage[r] = "absent" /\ cleaned'[r] = cleaned[r]
    <3>1. ASSUME NEW q \in Rows, Arrive(q)
          PROVE  stage[r] = "absent" /\ cleaned'[r] = cleaned[r]
      BY <1>1, <2>1, <3>1 DEF Arrive, TypeOK
    <3>2. ASSUME NEW q \in Rows, Publish(q)
          PROVE  stage[r] = "absent" /\ cleaned'[r] = cleaned[r]
      BY <1>1, <3>2 DEF Publish, TypeOK
    <3>3. ASSUME ~\E q \in Rows : Arrive(q) \/ Publish(q)
          PROVE  stage[r] = "absent" /\ cleaned'[r] = cleaned[r]
      BY <1>1, <3>3 DEF Next, vars, source, metrics, Tick, Merge, ApplyMutation, Job, FailTask,
         EnsureCheck, EnsureInsert, ReadLast, ReadUpper, InsertBegin, InsertCommit,
         Aggregate, UpdateWatermark, Finish
    <3>4. QED
      BY <3>1, <3>2, <3>3
  <2>3. QED
    BY <2>2 DEF Stamped
<1>2. ASSUME NEW t \in Slots, NEW r \in batch'[t] PROVE stage'[r] = "visible"
  <2>1. r \in Rows
    BY TypeNext DEF TypeOK
  <2>2. stage[r] = "visible"
    <3>1. CASE InsertBegin(t)
      BY <3>1 DEF InsertBegin, Selected, TypeOK
    <3>2. CASE ~InsertBegin(t)
      <4>1. batch'[t] = batch[t] \/ batch'[t] = {}
        <5>1. CASE Job(t)
          BY <3>2, <5>1 DEF TypeOK, Job, EnsureCheck, EnsureInsert, ReadLast,
             ReadUpper, InsertCommit, Aggregate, UpdateWatermark, Finish,
             ClearLocals, window
        <5>2. CASE FailTask(t)
          BY <5>2 DEF TypeOK, FailTask, ClearLocals
        <5>3. CASE ~Job(t) /\ ~FailTask(t)
          BY <5>3, OtherRuns
        <5>4. QED
          BY <5>1, <5>2, <5>3
      <4>2. QED
        BY <4>1 DEF Stamped
    <3>3. QED
      BY <3>1, <3>2
  <2>3. stage'[r] = stage[r] \/ stage'[r] = "visible"
    <3>1. ASSUME NEW q \in Rows, Arrive(q) PROVE stage'[r] = stage[r]
      BY <2>1, <2>2, <3>1 DEF Arrive, TypeOK
    <3>2. ASSUME NEW q \in Rows, Publish(q) PROVE stage'[r] = stage[r]
      BY <2>1, <2>2, <3>2 DEF Publish, TypeOK
    <3>3. CASE ~\E q \in Rows : Arrive(q) \/ Publish(q)
      BY <3>3 DEF Next, vars, source, metrics, Tick, Merge, ApplyMutation, Job, FailTask,
         EnsureCheck, EnsureInsert, ReadLast, ReadUpper, InsertBegin, InsertCommit,
         Aggregate, UpdateWatermark, Finish
    <3>4. QED
      BY <3>1, <3>2, <3>3
  <2>4. QED
    BY <2>2, <2>3
<1>3. QED
  BY <1>1, <1>2 DEF Stamped

Copied == {v.key : v \in prepared}
copyVars == <<cleaned, Copied, Watermarks>>

LEMMA CopiedIs == ASSUME NEW k PROVE k \in Copied <=> IsPrepared(k)
BY DEF Copied, IsPrepared

LEMMA AbstractInit == Init => Abstract!Init
BY DEF Init, Abstract!Init, Watermarks

\* An INSERT, whole or cut short, copies keys of written rows.
LEMMA InsertCopies ==
  ASSUME TypeOK, Stamped, Timely, NEW s \in Slots, NEW part \in SUBSET batch[s],
         prepared' = prepared \cup VersionsOf(s, part),
         UNCHANGED <<stage, cleaned, etl, mutations>>
  PROVE  Abstract!Copy
<1>1. Copied \subseteq Copied'
  BY DEF Copied
<1>2. ASSUME NEW k \in Copied'
      PROVE  k \in Copied \cup {KeyOf[r] : r \in Abstract!Written}
  <2>1. PICK v \in prepared' : v.key = k
    BY DEF Copied
  <2>2. CASE v \in prepared
    BY <2>1, <2>2 DEF Copied
  <2>3. CASE v \in VersionsOf(s, part)
    <3>1. PICK r \in part : v = [key |-> KeyOf[r], ptime |-> ptime[s]]
      BY <2>3 DEF VersionsOf
    <3>2. r \in Rows /\ cleaned[r] > 0
      BY <3>1 DEF TypeOK, Stamped, Timely
    <3>3. QED
      BY <2>1, <3>1, <3>2 DEF Abstract!Written
  <2>4. QED
    BY <2>1, <2>2, <2>3
<1>3. QED
  BY <1>1, <1>2 DEF Abstract!Copy, Copied, Watermarks

\* A mark that covers its past in the tables covers it in the abstract view.
LEMMA CoveredIsComplete ==
  ASSUME TypeOK, Stamped, NEW m \in Int, PreparedUpTo(m) PROVE Abstract!Complete(m)
<1>1. ASSUME NEW r \in Abstract!Written, cleaned[r] <= m PROVE KeyOf[r] \in Copied
  <2>1. r \in Rows /\ cleaned[r] > 0
    BY DEF Abstract!Written
  <2>2. stage[r] # "absent"
    BY <2>1 DEF Stamped
  <2>3. QED
    BY <1>1, <2>1, <2>2, CopiedIs DEF PreparedUpTo
<1>2. QED
  BY <1>1 DEF Abstract!Complete, Copied

LEMMA AbstractStep ==
  ASSUME IInv, Stamped, [Next]_vars
  PROVE  [Abstract!Next]_copyVars
<1> USE DEF IInv
<1>1. ASSUME NEW r \in Rows, Arrive(r) PROVE Abstract!Write(r)
  <2>1. cleaned[r] = 0 /\ cleaned' = [cleaned EXCEPT ![r] = clock] /\ clock > 0
    BY <1>1 DEF Arrive, Stamped, Timely
  <2>2. cleaned'[r] = clock /\ cleaned' = [cleaned EXCEPT ![r] = cleaned'[r]]
    BY <2>1 DEF TypeOK
  <2>3. \A m \in Watermarks \cup {0} : m < cleaned'[r]
    BY <2>1, <2>2 DEF Watermarks, MarksCovered
  <2>4. r \notin Abstract!Written
    BY <2>1 DEF Abstract!Written
  <2>5. UNCHANGED <<prepared, etl, mutations>>
    BY <1>1 DEF Arrive
  <2>6. QED
    BY <2>2, <2>3, <2>4, <2>5 DEF Abstract!Write, Watermarks
<1>2. ASSUME NEW r \in Rows, Publish(r) PROVE UNCHANGED copyVars
  BY <1>2 DEF Publish, copyVars, Copied, Watermarks
<1>3. ASSUME Tick PROVE UNCHANGED copyVars
  BY <1>3 DEF Tick, source, metrics, copyVars, Copied, Watermarks
<1>4. ASSUME Merge PROVE UNCHANGED copyVars
  <2>1. prepared' \subseteq prepared /\ UNCHANGED <<cleaned, etl, mutations>>
    BY <1>4 DEF Merge, source, metrics
  <2>2. Copied' \subseteq Copied
    BY <2>1 DEF Copied
  <2>3. Copied \subseteq Copied'
    <3>1. ASSUME NEW k \in Copied PROVE k \in Copied'
      <4>1. IsPrepared(k)'
        BY <3>1, KeysStay, CopiedIs
      <4>2. QED
        BY <4>1 DEF IsPrepared, Copied
    <3>2. QED
      BY <3>1
  <2>4. QED
    BY <2>1, <2>2, <2>3 DEF copyVars, Watermarks
<1>5. ASSUME ApplyMutation PROVE Abstract!Mark
  <2>1. mutations # <<>> /\ mutations' = Tail(mutations) /\ UNCHANGED <<cleaned, prepared>>
    BY <1>5 DEF ApplyMutation, source, metrics
  <2>2. ASSUME NEW s \in DOMAIN etl' PROVE etl'[s] \in Watermarks
    <3>1. etl'[s] = mutations[1].ts \/ (s \in DOMAIN etl /\ etl'[s] = etl[s])
      BY <1>5, <2>1, QueueTail DEF ApplyMutation
    <3>2. QED
      BY <2>1, <3>1, QueueTail DEF Watermarks
  <2>3. ASSUME NEW i \in DOMAIN mutations' PROVE mutations'[i].ts \in Watermarks
    BY <2>1, QueueTail DEF Watermarks
  <2>4. Watermarks' \subseteq Watermarks
    BY <2>2, <2>3 DEF Watermarks
  <2>5. QED
    BY <2>1, <2>4 DEF Abstract!Mark, Watermarks
<1>6. ASSUME NEW s \in Slots, EnsureInsert(s) PROVE Abstract!Mark
  <2>1. UNCHANGED <<cleaned, prepared, mutations>>
    BY <1>6 DEF EnsureInsert, source, metrics
  <2>2. ASSUME NEW t \in DOMAIN etl' PROVE etl'[t] \in Watermarks \cup {0}
    BY <1>6 DEF EnsureInsert, Watermarks
  <2>3. Watermarks' \subseteq Watermarks \cup {0}
    BY <2>1, <2>2 DEF Watermarks
  <2>4. Abstract!Complete(0)
    <3>1. PreparedUpTo(0)
      BY DEF PreparedUpTo, Timely, TypeOK
    <3>2. QED
      BY <3>1, CoveredIsComplete
  <2>5. QED
    BY <2>1, <2>3, <2>4 DEF Abstract!Mark, Watermarks
<1>7. ASSUME NEW s \in Slots, InsertCommit(s) PROVE Abstract!Copy
  BY <1>7, InsertCopies DEF InsertCommit, source, metrics
<1>8. ASSUME NEW s \in Slots, UpdateWatermark(s) PROVE Abstract!Mark
  <2>1. /\ pc[s] = "watermark" /\ UNCHANGED <<cleaned, prepared, etl>>
        /\ mutations' = Append(mutations, [rows |-> DOMAIN etl, ts |-> upper[s]])
    BY <1>8 DEF UpdateWatermark, NewMark, Goto, source, metrics
  <2>2. ASSUME NEW i \in DOMAIN mutations'
        PROVE  mutations'[i].ts \in Watermarks \cup {upper[s]}
    BY <2>1, AppendProperties DEF TypeOK, Watermarks
  <2>3. Watermarks' \subseteq Watermarks \cup {upper[s]}
    BY <2>1, <2>2 DEF Watermarks
  <2>4. Abstract!Complete(upper[s])
    <3>1. PreparedUpTo(upper[s]) /\ upper[s] \in Int
      BY <2>1 DEF WindowCovered, TypeOK
    <3>2. QED
      BY <3>1, CoveredIsComplete
  <2>5. QED
    BY <2>1, <2>3, <2>4 DEF Abstract!Mark, Watermarks
<1>9. ASSUME NEW s \in Slots, FailTask(s)
      PROVE  Abstract!Copy \/ UNCHANGED copyVars
  <2>1. UNCHANGED <<stage, cleaned, etl, mutations>>
    BY <1>9 DEF FailTask, source, metrics
  <2>2. ASSUME NEW part \in SUBSET batch[s], prepared' = prepared \cup VersionsOf(s, part)
        PROVE  Abstract!Copy
    BY <2>1, <2>2, InsertCopies
  <2>3. CASE UNCHANGED prepared
    BY <2>1, <2>3 DEF copyVars, Copied, Watermarks
  <2>4. QED
    BY <1>9, <2>2, <2>3 DEF FailTask
<1>10. ASSUME NEW s \in Slots,
              \/ EnsureCheck(s) \/ ReadLast(s) \/ ReadUpper(s) \/ InsertBegin(s)
              \/ Aggregate(s) \/ Finish(s)
       PROVE  UNCHANGED copyVars
  <2>1. UNCHANGED <<cleaned, prepared, etl, mutations>>
    BY <1>10 DEF EnsureCheck, ReadLast, ReadUpper, InsertBegin, Aggregate, Finish, source, metrics
  <2>2. QED
    BY <2>1 DEF copyVars, Copied, Watermarks
<1>11. ASSUME UNCHANGED vars PROVE UNCHANGED copyVars
  BY <1>11 DEF vars, copyVars, Copied, Watermarks
<1>12. QED
  BY <1>1, <1>2, <1>3, <1>4, <1>5, <1>6, <1>7, <1>8, <1>9, <1>10, <1>11
     DEF Next, Job, Abstract!Next

\* Every behaviour of the job, seen through the stamps of its rows, the keys of
\* prepared_events and the watermarks in force, is one of IncrementalCopy.
THEOREM Implements == Spec => ImplementsIncrementalCopy
<1>1. Init => Stamped
  BY DEF Init, Stamped
<1>2. Spec => []Stamped
  BY <1>1, StampedNext, TypeCorrect, PTL DEF Spec
<1>3. Spec => [][Abstract!Next]_copyVars
  BY AbstractStep, Inductive, <1>2, PTL DEF Spec
<1>4. Spec => Abstract!Init
  BY AbstractInit DEF Spec
<1>5. QED
  BY <1>3, <1>4, PTL DEF ImplementsIncrementalCopy, Abstract!Spec, copyVars, Copied
=============================================================================
