------------------------ MODULE DedupCounting_proofs ------------------------
(***************************************************************************)
(* What DAG 02 counts when its runs do not overlap, for any rows and keys, *)
(* any number of failures, retries, late mutations and merges: the         *)
(* watermark never goes back, no version that it has passed is left out of *)
(* the aggregates, and none is counted twice without a failure.            *)
(***************************************************************************)
EXTENDS DedupPrepare_proofs

\* One run at a time, which the schedule suggests and nothing enforces.
OneSlot == \E s \in Slots : Slots = {s}
TheSlot == CHOOSE s \in Slots : TRUE

HasUpper == {"insert", "commit", "aggregate", "watermark"}
HasLast == {"upper"} \cup HasUpper

-----------------------------------------------------------------------------
(* The watermark advances: the values in force are in the order in which they *)
(* will be stored, and the end of the window under way is not before them.    *)

InOrder ==
  /\ clock > SafetyDelay
  /\ \A t \in DOMAIN etl : etl[t] <= clock - SafetyDelay
  /\ \A i \in DOMAIN mutations :
       /\ mutations[i].ts <= clock - SafetyDelay
       /\ \A t \in DOMAIN etl : etl[t] <= mutations[i].ts
       /\ \A j \in DOMAIN mutations : i <= j => mutations[i].ts <= mutations[j].ts

\* A run has read a row of etl_state, or else there is none and nothing to apply.
Seeded ==
  \A s \in Slots : DOMAIN etl = {} => pc[s] \in {"idle", "seed"} /\ mutations = <<>>

SeedOnce == \A s \in Slots : pc[s] = "seed" => DOMAIN etl = {}

WindowAhead ==
  \A s \in Slots : pc[s] \in HasUpper =>
    /\ \A t \in DOMAIN etl : etl[t] <= upper[s]
    /\ \A i \in DOMAIN mutations : mutations[i].ts <= upper[s]

OrderInv == InOrder /\ Seeded /\ SeedOnce /\ WindowAhead

-----------------------------------------------------------------------------
(* Nothing is left uncounted. *)

CountedUpTo(t) == \A v \in prepared : v.ptime <= t => HasCount(v.key)

GroupCounted(k) == \E j \in Keys : GroupOf[j] = GroupOf[k] /\ counted[j] > 0

\* A group that a block shows has a counted event, so the one that a repeated block
\* shows has, too.
BlocksCounted ==
  DropsRepeated =>
    \A b \in blocks, k \in Keys : b[GroupOf[k]] > 0 => GroupCounted(k)

\* The times up to which everything is counted: the watermarks in force and those
\* that a run has read or will write.
Marks ==
  {0} \cup {etl[t] : t \in DOMAIN etl} \cup {mutations[i].ts : i \in DOMAIN mutations}
      \cup {last[s] : s \in {q \in Slots : pc[q] \in HasLast}}
      \cup {upper[s] : s \in {q \in Slots : pc[q] = "watermark"}}

\* What a run is storing lies behind all of them.
CommitLater ==
  \A s \in Slots : pc[s] = "commit" => \A x \in Marks : x < ptime[s]

CountingInv == BlocksCounted /\ CommitLater /\ \A x \in Marks : CountedUpTo(x)

-----------------------------------------------------------------------------
(* Nothing is counted twice while nothing fails. *)

\* The watermark in force, and how far copying and counting have come.
Marked ==
  IF mutations # <<>> THEN mutations[1].ts
  ELSE IF DOMAIN etl = {} THEN 0 ELSE etl[TheSlot]
CopiedTo == IF pc[TheSlot] \in {"aggregate", "watermark"} THEN upper[TheSlot] ELSE Marked
CountedTo == IF pc[TheSlot] = "watermark" THEN upper[TheSlot] ELSE Marked

Uncounted(k) == {v \in prepared : v.key = k /\ v.ptime > CountedTo}
CopiesOf(k) == {r \in Rows : KeyOf[r] = k /\ stage[r] # "absent" /\ cleaned[r] <= CopiedTo}

\* A version is counted or uncounted, and a row of its own stands for it.
Budget(k) == counted[k] + Cardinality(Uncounted(k)) <= Cardinality(CopiesOf(k))

Times == Marked \in Int /\ CopiedTo \in Int /\ CountedTo \in Int

Undisturbed ==
  /\ Len(mutations) <= 1
  /\ \A i \in DOMAIN mutations : mutations[i].rows = {TheSlot}
  /\ pc[TheSlot] \in HasLast => mutations = <<>> /\ last[TheSlot] = Marked
  /\ pc[TheSlot] = "commit" =>
       \A r \in batch[TheSlot] :
         stage[r] # "absent" /\ last[TheSlot] < cleaned[r] /\ cleaned[r] <= upper[TheSlot]

OnceInv == faults = 0 => Undisturbed /\ \A k \in Keys : Budget(k)

-----------------------------------------------------------------------------
(* The watermark advances. *)

NotBack == \A s \in DOMAIN etl : etl'[s] >= etl[s]

LEMMA TheOnly == OneSlot => Slots = {TheSlot}
  BY DEF OneSlot, TheSlot

\* What ends a run, or has it try again, leaves no step with a window.
LEMMA FailSteps ==
  ASSUME TypeOK, NEW s \in Slots, FailTask(s)
  PROVE  /\ pc' = [pc EXCEPT ![s] = pc'[s]]
         /\ pc'[s] \in {"idle", "start"}
         /\ pc'[s] = "start" => pc[s] \notin {"idle", "seed"}
         /\ faults' = faults + 1
         /\ UNCHANGED <<clock, stage, cleaned, counted, blocks, etl, mutations>>
<1>1. \/ pc' = [pc EXCEPT ![s] = IF pc[s] = "seed" THEN "idle" ELSE "start"]
      \/ pc' = [pc EXCEPT ![s] = "idle"]
  BY DEF FailTask, Retry
<1>2. /\ pc' = [pc EXCEPT ![s] = pc'[s]]
      /\ pc'[s] \in {"idle", "start"}
      /\ pc'[s] = "start" => pc[s] # "seed"
  BY <1>1 DEF TypeOK
<1>3. QED
  BY <1>2 DEF FailTask, source, metrics

LEMMA MarksTyped ==
  ASSUME TypeOK PROVE \A i \in DOMAIN mutations : mutations[i].ts \in Int
<1>1. \A i \in DOMAIN mutations : mutations[i] \in [rows : SUBSET Slots, ts : Int]
  BY ElementOfSeq, LenProperties DEF TypeOK
<1>2. QED
  BY <1>1

LEMMA OrderInit == Init => OrderInv
  BY TimeAssumption DEF Init, OrderInv, InOrder, Seeded, SeedOnce, WindowAhead, HasUpper

\* Steps that change neither etl_state nor a run.
LEMMA OrderKept ==
  ASSUME TypeOK, OrderInv, clock \in Int, clock' \in Int, clock <= clock',
         UNCHANGED <<etl, mutations, pc, upper>>
  PROVE  OrderInv'
<1>1. SafetyDelay \in Int /\ \A t \in DOMAIN etl : etl[t] \in Int
  BY TimeAssumption DEF TypeOK
<1>2. \A i \in DOMAIN mutations : mutations[i].ts \in Int
  BY MarksTyped
<1>3. InOrder'
  BY <1>1, <1>2 DEF OrderInv, InOrder
<1>4. QED
  BY <1>3 DEF OrderInv, Seeded, SeedOnce, WindowAhead

\* Steps of a run that change neither etl_state nor the end of its window.
LEMMA OrderRun ==
  ASSUME OneSlot, TypeOK, OrderInv, NEW s \in Slots,
         UNCHANGED <<clock, etl, mutations>>,
         pc' = [pc EXCEPT ![s] = pc'[s]],
         pc'[s] = "seed" => DOMAIN etl = {},
         DOMAIN etl = {} => pc'[s] \in {"idle", "seed"},
         pc'[s] \in HasUpper => pc[s] \in HasUpper /\ upper' = upper
  PROVE  OrderInv'
<1>1. \A q \in Slots : q = s
  BY DEF OneSlot
<1>2. InOrder'
  BY DEF OrderInv, InOrder
<1>3. Seeded' /\ SeedOnce' /\ WindowAhead'
  BY <1>1 DEF OrderInv, Seeded, SeedOnce, WindowAhead
<1>4. QED
  BY <1>2, <1>3 DEF OrderInv

\* The oldest mutation is the lowest, and not below what it replaces.
LEMMA OrderApply ==
  ASSUME TypeOK, OrderInv, ApplyMutation
  PROVE  OrderInv' /\ NotBack
<1> USE DEF NotBack
<1> DEFINE h == mutations[1]
<1>1. /\ Head(mutations) = h /\ 1 \in DOMAIN mutations
      /\ \A i \in DOMAIN mutations' :
           i + 1 \in DOMAIN mutations /\ mutations'[i] = mutations[i + 1] /\ i \in Nat
      /\ mutations' \in Seq([rows : SUBSET Slots, ts : Int])
  BY QueueTail DEF ApplyMutation, TypeOK
<1>2. /\ etl' = [t \in DOMAIN etl |-> IF t \in h.rows THEN h.ts ELSE etl[t]]
      /\ UNCHANGED <<clock, pc, upper>>
  BY <1>1 DEF ApplyMutation, window
<1>3. /\ h.ts \in Int /\ clock \in Int /\ SafetyDelay \in Int
      /\ \A t \in DOMAIN etl : etl[t] \in Int
      /\ \A i \in DOMAIN mutations : mutations[i].ts \in Int /\ h.ts <= mutations[i].ts
  <2>1. \A i \in DOMAIN mutations : i \in Nat /\ 1 <= i
    BY LenProperties DEF TypeOK
  <2>2. \A i \in DOMAIN mutations : h.ts <= mutations[i].ts
    BY <1>1, <2>1 DEF OrderInv, InOrder
  <2>3. \A i \in DOMAIN mutations : mutations[i].ts \in Int
    BY MarksTyped
  <2> HIDE DEF h
  <2>4. clock \in Int /\ SafetyDelay \in Int /\ \A t \in DOMAIN etl : etl[t] \in Int
    BY TimeAssumption DEF TypeOK
  <2>5. QED
    BY <1>1, <2>2, <2>3, <2>4 DEF h
<1>4. \A t \in DOMAIN etl : etl'[t] \in {etl[t], h.ts} /\ etl[t] <= h.ts
  BY <1>1, <1>2 DEF OrderInv, InOrder
<1>5. DOMAIN etl' = DOMAIN etl
  BY <1>2
<1> HIDE DEF h
<1>6. InOrder'
  <2>1. clock' > SafetyDelay
    BY <1>2 DEF OrderInv, InOrder
  <2>2. \A t \in DOMAIN etl' : etl'[t] <= clock' - SafetyDelay
    BY <1>2, <1>3, <1>4, <1>5, <1>1 DEF OrderInv, InOrder, h
  <2>3. \A i \in DOMAIN mutations' : mutations'[i].ts <= clock' - SafetyDelay
    BY <1>1, <1>2 DEF OrderInv, InOrder
  <2>4. ASSUME NEW i \in DOMAIN mutations', NEW t \in DOMAIN etl'
        PROVE  etl'[t] <= mutations'[i].ts
    BY <1>1, <1>3, <1>4, <1>5
  <2>5. ASSUME NEW i \in DOMAIN mutations', NEW j \in DOMAIN mutations', i <= j
        PROVE  mutations'[i].ts <= mutations'[j].ts
    BY <1>1, <2>5 DEF OrderInv, InOrder
  <2>6. QED
    BY <2>1, <2>2, <2>3, <2>4, <2>5 DEF InOrder
<1>7. Seeded' /\ SeedOnce'
  BY <1>1, <1>2, <1>5 DEF OrderInv, Seeded, SeedOnce
<1>8. WindowAhead'
  <2>1. ASSUME NEW s \in Slots, pc'[s] \in HasUpper, NEW t \in DOMAIN etl'
        PROVE  etl'[t] <= upper'[s]
    BY <1>1, <1>2, <1>4, <1>5, <2>1 DEF OrderInv, WindowAhead, h
  <2>2. ASSUME NEW s \in Slots, pc'[s] \in HasUpper, NEW i \in DOMAIN mutations'
        PROVE  mutations'[i].ts <= upper'[s]
    BY <1>1, <1>2, <2>2 DEF OrderInv, WindowAhead
  <2>3. QED
    BY <2>1, <2>2 DEF WindowAhead
<1>9. QED
  BY <1>3, <1>4, <1>6, <1>7, <1>8 DEF OrderInv

\* The watermark of a run is not below those before it.
LEMMA OrderMark ==
  ASSUME OneSlot, IInv, OrderInv, NEW s \in Slots, UpdateWatermark(s)
  PROVE  OrderInv'
<1>1. /\ pc[s] = "watermark" /\ pc' = [pc EXCEPT ![s] = "finish"]
      /\ mutations' = Append(mutations, [rows |-> DOMAIN etl, ts |-> upper[s]])
      /\ UNCHANGED <<clock, etl, upper>>
  BY DEF UpdateWatermark, Goto, NewMark, window
<1>2. /\ upper[s] \in Int /\ upper[s] <= clock - SafetyDelay
      /\ mutations \in Seq([rows : SUBSET Slots, ts : Int])
      /\ pc \in [Slots -> Steps]
  BY <1>1 DEF IInv, TypeOK, WindowClosed, Steps
<1>3. /\ \A t \in DOMAIN etl : etl[t] <= upper[s]
      /\ \A i \in DOMAIN mutations : mutations[i].ts <= upper[s]
  BY <1>1 DEF OrderInv, WindowAhead, HasUpper
<1>4. /\ DOMAIN mutations = 1 .. Len(mutations) /\ Len(mutations) \in Nat
      /\ DOMAIN mutations' = 1 .. Len(mutations) + 1
      /\ \A i \in DOMAIN mutations : mutations'[i] = mutations[i]
      /\ mutations'[Len(mutations) + 1] = [rows |-> DOMAIN etl, ts |-> upper[s]]
  BY <1>1, <1>2, AppendProperties, LenProperties
<1>5. InOrder'
  <2>1. ASSUME NEW i \in DOMAIN mutations', NEW j \in DOMAIN mutations', i <= j
        PROVE  mutations'[i].ts <= mutations'[j].ts
    <3>1. CASE j \in DOMAIN mutations
      BY <1>4, <2>1, <3>1 DEF OrderInv, InOrder
    <3>2. CASE j \notin DOMAIN mutations
      <4>1. mutations'[j].ts = upper[s]
        BY <1>4, <3>2
      <4>2. mutations'[i].ts <= upper[s]
        BY <1>2, <1>3, <1>4
      <4>3. QED
        BY <4>1, <4>2
    <3>3. QED
      BY <3>1, <3>2
  <2>2. ASSUME NEW i \in DOMAIN mutations'
        PROVE  /\ mutations'[i].ts <= clock' - SafetyDelay
               /\ \A t \in DOMAIN etl' : etl'[t] <= mutations'[i].ts
    <3>1. CASE i \in DOMAIN mutations
      BY <1>1, <1>4, <3>1 DEF OrderInv, InOrder
    <3>2. CASE i \notin DOMAIN mutations
      BY <1>1, <1>2, <1>3, <1>4, <3>2
    <3>3. QED
      BY <3>1, <3>2
  <2>3. QED
    BY <1>1, <2>1, <2>2 DEF OrderInv, InOrder
<1>6. \A q \in Slots : q = s
  BY DEF OneSlot
<1>7. Seeded' /\ SeedOnce' /\ WindowAhead'
  BY <1>1, <1>2, <1>6 DEF OrderInv, Seeded, SeedOnce, WindowAhead, HasUpper
<1>8. QED
  BY <1>5, <1>7 DEF OrderInv

LEMMA OrderNext ==
  ASSUME OneSlot, IInv, OrderInv, [Next]_vars
  PROVE  OrderInv' /\ NotBack
<1>1. TypeOK /\ pc \in [Slots -> Steps] /\ \A t \in DOMAIN etl : etl[t] \in Int
  BY DEF IInv, TypeOK
<1>2. clock \in Int /\ clock' \in Int /\ clock <= clock'
  BY <1>1, ClockGrows
<1>3. ASSUME UNCHANGED etl, OrderInv' PROVE OrderInv' /\ NotBack
  BY <1>1, <1>3 DEF NotBack
<1>4. CASE \/ \E r \in Rows : Arrive(r) \/ Publish(r)
           \/ Tick \/ Merge \/ UNCHANGED vars
  <2>1. UNCHANGED <<etl, mutations, pc, upper>>
    BY <1>4 DEF Arrive, Publish, Tick, Merge, window, vars
  <2>2. QED
    BY <1>1, <1>2, <1>3, <2>1, OrderKept
<1>5. CASE ApplyMutation
  BY <1>1, <1>5, OrderApply
<1>6. ASSUME NEW s \in Slots, Job(s) \/ FailTask(s)
      PROVE  OrderInv' /\ NotBack
  <2>1. CASE EnsureCheck(s)
    <3>1. UNCHANGED <<clock, etl, mutations, upper>>
      BY <2>1 DEF EnsureCheck, window
    <3>2. \/ pc' = [pc EXCEPT ![s] = "seed"] /\ DOMAIN etl = {}
          \/ pc' = [pc EXCEPT ![s] = "start"] /\ DOMAIN etl # {}
      BY <2>1 DEF EnsureCheck, Goto, NeedsSeed
    <3>3. QED
      BY <1>1, <1>3, <3>1, <3>2, OrderRun DEF HasUpper
  <2>2. CASE EnsureInsert(s)
    <3>1. DOMAIN etl = {} /\ mutations = <<>>
      BY <2>2 DEF EnsureInsert, Goto, OrderInv, SeedOnce, Seeded
    <3>2. /\ etl' = [t \in {s} |-> 0] /\ pc' = [pc EXCEPT ![s] = "start"]
          /\ UNCHANGED <<clock, mutations, upper>>
      BY <2>2, <3>1 DEF EnsureInsert, Goto, window
    <3>3. \A q \in Slots : q = s
      BY DEF OneSlot
    <3>4. InOrder'
      BY <1>2, <3>1, <3>2, TimeAssumption DEF OrderInv, InOrder
    <3>5. Seeded' /\ SeedOnce' /\ WindowAhead'
      BY <1>1, <3>2, <3>3 DEF Seeded, SeedOnce, WindowAhead, HasUpper
    <3>6. QED
      BY <3>1, <3>4, <3>5 DEF OrderInv, NotBack
  <2>3. CASE ReadLast(s)
    <3>1. UNCHANGED <<clock, etl, mutations, upper>> /\ pc' = [pc EXCEPT ![s] = "upper"]
          /\ DOMAIN etl # {}
      BY <2>3 DEF ReadLast, Goto
    <3>2. QED
      BY <1>1, <1>3, <3>1, OrderRun DEF HasUpper
  <2>4. CASE ReadUpper(s)
    <3>1. /\ UNCHANGED <<clock, etl, mutations>>
          /\ upper' = [upper EXCEPT ![s] = clock - SafetyDelay]
          /\ pc[s] = "upper" /\ pc' = [pc EXCEPT ![s] = "insert"]
      BY <2>4 DEF ReadUpper, Goto, UpperTs
    <3>2. \A q \in Slots : q = s
      BY DEF OneSlot
    <3>3. InOrder'
      BY <3>1 DEF OrderInv, InOrder
    <3>4. Seeded' /\ SeedOnce'
      BY <1>1, <3>1, <3>2 DEF OrderInv, Seeded, SeedOnce
    <3>5. WindowAhead'
      <4>1. upper'[s] = clock - SafetyDelay
        BY <3>1 DEF IInv, TypeOK
      <4>2. QED
        BY <3>1, <3>2, <4>1 DEF OrderInv, InOrder, WindowAhead
    <3>6. QED
      BY <1>3, <3>1, <3>3, <3>4, <3>5 DEF OrderInv
  <2>5. CASE InsertBegin(s) \/ InsertCommit(s) \/ Aggregate(s)
    <3>1. UNCHANGED <<clock, etl, mutations, upper>>
      BY <2>5 DEF InsertBegin, InsertCommit, Aggregate, window
    <3>2. /\ pc[s] \in {"insert", "commit", "aggregate"}
          /\ \E to \in {"commit", "aggregate", "watermark"} : pc' = [pc EXCEPT ![s] = to]
      BY <2>5 DEF InsertBegin, InsertCommit, Aggregate, Goto
    <3>3. QED
      <4>1. PICK to \in {"commit", "aggregate", "watermark"} : pc' = [pc EXCEPT ![s] = to]
        BY <3>2
      <4>2. pc' = [pc EXCEPT ![s] = pc'[s]] /\ pc'[s] = to
        BY <1>1, <4>1
      <4>3. DOMAIN etl # {}
        BY <3>2 DEF OrderInv, Seeded
      <4>4. QED
        BY <1>1, <1>3, <3>1, <3>2, <4>2, <4>3, OrderRun DEF HasUpper
  <2>6. CASE UpdateWatermark(s)
    <3>1. UNCHANGED etl
      BY <2>6 DEF UpdateWatermark
    <3>2. QED
      BY <1>3, <2>6, <3>1, OrderMark
  <2>7. CASE Finish(s)
    <3>1. UNCHANGED <<clock, etl, mutations>> /\ pc' = [pc EXCEPT ![s] = "idle"]
      BY <2>7 DEF Finish, Goto
    <3>2. QED
      BY <1>1, <1>3, <3>1, OrderRun DEF HasUpper
  <2>8. CASE FailTask(s)
    <3>1. /\ pc' = [pc EXCEPT ![s] = pc'[s]]
          /\ pc'[s] \in {"idle", "start"}
          /\ pc'[s] = "start" => pc[s] \notin {"idle", "seed"}
          /\ UNCHANGED <<clock, etl, mutations>>
      BY <1>1, <2>8, FailSteps
    <3>2. DOMAIN etl = {} => pc'[s] \in {"idle", "seed"}
      BY <3>1 DEF OrderInv, Seeded
    <3>3. QED
      BY <1>1, <1>3, <3>1, <3>2, OrderRun DEF HasUpper
  <2>9. QED
    BY <1>6, <2>1, <2>2, <2>3, <2>4, <2>5, <2>6, <2>7, <2>8 DEF Job
<1>7. QED
  BY <1>4, <1>5, <1>6 DEF Next

\* A run that follows another, retried or not, never sets the watermark back,
\* however late the mutations are applied, as long as runs do not overlap.
THEOREM WatermarkGrows == ASSUME OneSlot PROVE Spec => WatermarkAdvances
<1>1. Spec => []OrderInv
  BY OrderInit, OrderNext, Inductive, PTL DEF Spec
<1>2. IInv /\ OrderInv /\ [Next]_vars => NotBack
  BY OrderNext
<1>3. Spec => [][NotBack]_vars
  BY <1>1, <1>2, Inductive, PTL DEF Spec
<1>4. QED
  BY <1>3, PTL DEF WatermarkAdvances, NotBack

-----------------------------------------------------------------------------
(* Nothing is left uncounted. *)

\* The parts of the window that the aggregate query counts.
LEMMA PartsOfWindow ==
  ASSUME TypeOK, NEW s \in Slots, NEW S, S \subseteq InWindow(s)
  PROVE  IsFiniteSet(S) /\ Cardinality(S) \in Nat /\ (Cardinality(S) > 0 <=> S # {})
<1>1. S \subseteq prepared
  BY DEF InWindow
<1>2. IsFiniteSet(S) /\ Cardinality(S) \in Nat
  BY <1>1, FS_Subset, FS_CardinalityType DEF TypeOK
<1>3. Cardinality(S) = 0 <=> S = {}
  BY <1>2, FS_EmptySet
<1>4. QED
  BY <1>2, <1>3

LEMMA CapKeepsPositive ==
  ASSUME CountCap > 0, NEW n \in Nat, n > 0 PROVE Capped(n) > 0
  BY RunAssumption DEF Capped

\* What was counted stays counted, and the aggregate query counts its window.
LEMMA AggregateCounts ==
  ASSUME CountCap > 0, TypeOK, NEW s \in Slots,
         counted' = [k \in Keys |->
           Capped(counted[k] + Cardinality({v \in InWindow(s) : v.key = k}))]
  PROVE  /\ \A k \in Keys : counted[k] > 0 => counted'[k] > 0
         /\ \A v \in InWindow(s) : counted'[v.key] > 0
<1> DEFINE Of(k) == {v \in InWindow(s) : v.key = k}
<1>1. ASSUME NEW k \in Keys, counted[k] > 0 \/ Of(k) # {} PROVE counted'[k] > 0
  <2>1. Of(k) \subseteq InWindow(s)
    OBVIOUS
  <2>2. Cardinality(Of(k)) \in Nat /\ (Cardinality(Of(k)) > 0 <=> Of(k) # {})
    BY <2>1, PartsOfWindow
  <2>3. counted[k] \in Nat
    BY DEF TypeOK
  <2>4. counted[k] + Cardinality(Of(k)) \in Nat /\ counted[k] + Cardinality(Of(k)) > 0
    BY <1>1, <2>2, <2>3
  <2>5. counted'[k] = Capped(counted[k] + Cardinality(Of(k)))
    OBVIOUS
  <2>6. QED
    BY <2>4, <2>5, CapKeepsPositive
<1>2. \A v \in InWindow(s) : v.key \in Keys /\ v \in Of(v.key)
  BY DEF InWindow, TypeOK, Version
<1>3. QED
  BY <1>1, <1>2

LEMMA CountsStay ==
  ASSUME CountCap > 0, TypeOK, [Next]_vars, NEW k \in Keys, counted[k] > 0
  PROVE  counted'[k] > 0
<1>1. ASSUME NEW s \in Slots, Aggregate(s) PROVE counted'[k] > 0
  <2>1. CASE UNCHANGED counted
    BY <2>1
  <2>2. CASE ~UNCHANGED counted
    BY <1>1, <2>2, AggregateCounts DEF Aggregate
  <2>3. QED
    BY <2>1, <2>2
<1>2. ASSUME ~\E s \in Slots : Aggregate(s) PROVE counted' = counted
  BY <1>2 DEF Next, vars, metrics, Arrive, Publish, Tick, Merge, ApplyMutation, Job, FailTask,
              EnsureCheck, EnsureInsert, ReadLast, ReadUpper, InsertBegin, InsertCommit,
              UpdateWatermark, Finish
<1>3. QED
  BY <1>1, <1>2

LEMMA SharesStay ==
  ASSUME CountCap > 0, TypeOK, [Next]_vars, NEW k \in Keys
  PROVE  (GroupCounted(k) => GroupCounted(k)') /\ (HasCount(k) => HasCount(k)')
<1>1. dropped \subseteq dropped'
  BY DEF Next, vars, metrics, Arrive, Publish, Tick, Merge, ApplyMutation, Job, FailTask,
         EnsureCheck, EnsureInsert, ReadLast, ReadUpper, InsertBegin, InsertCommit,
         Aggregate, UpdateWatermark, Finish
<1>2. GroupCounted(k) => GroupCounted(k)'
  BY CountsStay DEF GroupCounted
<1>3. QED
  BY <1>1, <1>2, CountsStay DEF HasCount, GroupCounted

\* A version becomes visible at the end of an INSERT, with the time of its beginning.
LEMMA NewVersions ==
  ASSUME TypeOK, [Next]_vars, NEW v \in prepared', v \notin prepared
  PROVE  \E s \in Slots : pc[s] = "commit" /\ v.ptime = ptime[s]
<1>1. ASSUME NEW s \in Slots, NEW rows \in SUBSET batch[s],
             prepared' = prepared \cup VersionsOf(s, rows)
      PROVE  v.ptime = ptime[s]
  BY <1>1 DEF VersionsOf
<1>2. ASSUME NEW s \in Slots, InsertCommit(s)
      PROVE  pc[s] = "commit" /\ v.ptime = ptime[s]
  BY <1>1, <1>2 DEF InsertCommit, Goto
<1>3. ASSUME NEW s \in Slots, FailTask(s)
      PROVE  pc[s] = "commit" /\ v.ptime = ptime[s]
  BY <1>1, <1>3 DEF FailTask
<1>4. ASSUME ~\E s \in Slots : InsertCommit(s) \/ FailTask(s) PROVE prepared' \subseteq prepared
  BY <1>4 DEF Next, vars, Arrive, Publish, Tick, Merge, ApplyMutation, Job,
              EnsureCheck, EnsureInsert, ReadLast, ReadUpper, InsertBegin,
              Aggregate, UpdateWatermark, Finish
<1>5. QED
  BY <1>2, <1>3, <1>4

\* What is counted up to a time stays so, as no version of an earlier time appears.
LEMMA CountedStays ==
  ASSUME CountCap > 0, TypeOK, [Next]_vars, NEW t \in Int, CountedUpTo(t),
         \A s \in Slots : pc[s] = "commit" => t < ptime[s]
  PROVE  CountedUpTo(t)'
<1>1. ASSUME NEW v \in prepared', v.ptime <= t PROVE HasCount(v.key)'
  <2>1. CASE v \in prepared
    <3>1. HasCount(v.key) /\ v.key \in Keys
      BY <1>1, <2>1 DEF CountedUpTo, TypeOK, Version
    <3>2. QED
      BY <3>1, SharesStay
  <2>2. CASE v \notin prepared
    <3>1. PICK s \in Slots : pc[s] = "commit" /\ v.ptime = ptime[s]
      BY <2>2, NewVersions
    <3>2. t < ptime[s] /\ ptime[s] \in Int
      BY <3>1 DEF TypeOK
    <3>3. QED
      BY <1>1, <3>1, <3>2
  <2>3. QED
    BY <2>1, <2>2
<1>2. QED
  BY <1>1 DEF CountedUpTo

\* A new block is inserted, and what it shows is counted.
LEMMA BlocksStay ==
  ASSUME CountCap > 0, TypeOK, BlocksCounted, [Next]_vars
  PROVE  BlocksCounted'
<1> SUFFICES ASSUME DropsRepeated, NEW b \in blocks', NEW k \in Keys, b[GroupOf[k]] > 0
             PROVE  GroupCounted(k)'
  BY DEF BlocksCounted
<1>1. CASE b \in blocks
  BY <1>1, SharesStay DEF BlocksCounted
<1>2. CASE b \notin blocks
  <2>1. PICK s \in Slots :
          /\ counted' = [l \in Keys |->
               Capped(counted[l] + Cardinality({v \in InWindow(s) : v.key = l}))]
          /\ b = BlockOf(s)
    <3>1. ASSUME ~\E s \in Slots : Aggregate(s) PROVE blocks' = blocks
      BY <3>1 DEF Next, vars, metrics, Arrive, Publish, Tick, Merge, ApplyMutation, Job, FailTask,
                  EnsureCheck, EnsureInsert, ReadLast, ReadUpper, InsertBegin, InsertCommit,
                  UpdateWatermark, Finish
    <3>2. PICK s \in Slots : Aggregate(s)
      BY <1>2, <3>1
    <3>3. QED
      BY <1>2, <3>2 DEF Aggregate, metrics
  <2> DEFINE S == {v \in InWindow(s) : GroupOf[v.key] = GroupOf[k]}
  <2>2. b[GroupOf[k]] = Cardinality(S)
    BY <2>1, GroupsAssumption DEF BlockOf
  <2>3. S \subseteq InWindow(s)
    OBVIOUS
  <2>4. PICK v \in InWindow(s) : GroupOf[v.key] = GroupOf[k]
    BY <2>2, <2>3, PartsOfWindow
  <2>5. v.key \in Keys
    BY <2>4 DEF InWindow, TypeOK, Version
  <2>6. QED
    BY <2>1, <2>4, <2>5, AggregateCounts DEF GroupCounted
<1>3. QED
  BY <1>1, <1>2

\* The aggregate query leaves nothing of its window uncounted but what is dropped.
LEMMA WindowCounted ==
  ASSUME CountCap > 0, TypeOK, BlocksCounted, [Next]_vars,
         NEW s \in Slots, Aggregate(s), CountedUpTo(last[s])
  PROVE  CountedUpTo(upper[s])'
<1>1. prepared' = prepared /\ upper' = upper
  BY DEF Aggregate, window
<1>2. ASSUME NEW v \in prepared, v.ptime <= upper[s] PROVE HasCount(v.key)'
  <2>1. v.key \in Keys /\ v.ptime \in Int /\ last[s] \in Int
    BY DEF TypeOK, Version
  <2>2. CASE v.ptime <= last[s]
    BY <2>1, <2>2, SharesStay DEF CountedUpTo
  <2>3. CASE ~(v.ptime <= last[s])
    <3>1. v \in InWindow(s)
      BY <1>2, <2>1, <2>3 DEF InWindow
    <3>2. CASE counted' = [k \in Keys |->
                 Capped(counted[k] + Cardinality({w \in InWindow(s) : w.key = k}))]
      BY <3>1, <3>2, AggregateCounts DEF HasCount
    <3>3. CASE /\ DropsRepeated /\ BlockOf(s) \in blocks
               /\ dropped' = dropped \cup {w.key : w \in InWindow(s)}
               /\ UNCHANGED <<counted, blocks>>
      <4> DEFINE S == {w \in InWindow(s) : GroupOf[w.key] = GroupOf[v.key]}
      <4>1. BlockOf(s)[GroupOf[v.key]] = Cardinality(S)
        BY <2>1, GroupsAssumption DEF BlockOf
      <4>2. S \subseteq InWindow(s) /\ S # {}
        BY <3>1
      <4>3. Cardinality(S) > 0
        BY <4>2, PartsOfWindow
      <4>4. GroupCounted(v.key)
        BY <2>1, <3>3, <4>1, <4>3 DEF BlocksCounted
      <4>5. v.key \in dropped'
        BY <3>1, <3>3
      <4>6. QED
        BY <3>3, <4>4, <4>5 DEF GroupCounted, HasCount
    <3>4. QED
      BY <3>2, <3>3 DEF Aggregate
  <2>4. QED
    BY <2>2, <2>3
<1>3. QED
  BY <1>1, <1>2 DEF CountedUpTo

LEMMA MarksAreTimes ==
  ASSUME IInv, OrderInv, NEW x \in Marks
  PROVE  x \in Int /\ x < clock
<1>1. clock \in Int /\ SafetyDelay \in Nat /\ SafetyDelay > 0 /\ clock > SafetyDelay
  BY LagAssumption, TimeAssumption DEF IInv, TypeOK, OrderInv, InOrder
<1>2. CASE x = 0
  BY <1>1, <1>2
<1>3. ASSUME NEW t \in DOMAIN etl, x = etl[t] PROVE x \in Int /\ x < clock
  <2>1. x \in Int /\ x <= clock - SafetyDelay
    BY <1>3 DEF IInv, TypeOK, OrderInv, InOrder
  <2>2. QED
    BY <1>1, <2>1
<1>4. ASSUME NEW i \in DOMAIN mutations, x = mutations[i].ts PROVE x \in Int /\ x < clock
  <2>1. x \in Int /\ x <= clock - SafetyDelay
    BY <1>4, MarksTyped DEF IInv, OrderInv, InOrder
  <2>2. QED
    BY <1>1, <2>1
<1>5. ASSUME NEW s \in Slots, pc[s] \in HasLast, x = last[s] PROVE x \in Int /\ x < clock
  BY <1>5 DEF IInv, TypeOK, StartCovered, HasLast, HasUpper, Steps
<1>6. ASSUME NEW s \in Slots, pc[s] = "watermark", x = upper[s] PROVE x \in Int /\ x < clock
  <2>1. x \in Int /\ x <= clock - SafetyDelay
    BY <1>6 DEF IInv, TypeOK, WindowClosed, Steps
  <2>2. QED
    BY <1>1, <2>1
<1>7. QED
  BY <1>2, <1>3, <1>4, <1>5, <1>6 DEF Marks

\* Where a mark comes from: from another one, or from the aggregate query.
LEMMA MarksNext ==
  ASSUME OneSlot, TypeOK, OrderInv, [Next]_vars, NEW x \in Marks'
  PROVE  x \in Marks \/ \E s \in Slots : Aggregate(s) /\ x = upper[s]
<1>1. pc \in [Slots -> Steps] /\ last \in [Slots -> Int] /\ upper \in [Slots -> Int]
  BY DEF TypeOK
<1>2. \A s, q \in Slots : s = q
  BY DEF OneSlot
<1>3. ASSUME UNCHANGED <<etl, mutations, pc, last, upper>> PROVE x \in Marks
  BY <1>3 DEF Marks
<1>4. CASE \/ \E r \in Rows : Arrive(r) \/ Publish(r)
           \/ Tick \/ Merge \/ UNCHANGED vars
  <2>1. UNCHANGED <<etl, mutations, pc, last, upper>>
    BY <1>4 DEF Arrive, Publish, Tick, Merge, window, vars
  <2>2. QED
    BY <1>3, <2>1
<1>5. CASE ApplyMutation
  <2>1. /\ Head(mutations) = mutations[1] /\ 1 \in DOMAIN mutations
        /\ mutations' = Tail(mutations)
        /\ \A i \in DOMAIN mutations' :
             i + 1 \in DOMAIN mutations /\ mutations'[i] = mutations[i + 1]
    BY <1>5, QueueTail DEF ApplyMutation
  <2>2. \A t \in DOMAIN etl' : t \in DOMAIN etl /\ etl'[t] \in {etl[t], mutations[1].ts}
    BY <1>5, <2>1 DEF ApplyMutation
  <2>3. UNCHANGED <<pc, last, upper>>
    BY <1>5 DEF ApplyMutation, window
  <2>4. CASE \E t \in DOMAIN etl' : x = etl'[t]
    BY <2>1, <2>2, <2>4 DEF Marks
  <2>5. CASE \E i \in DOMAIN mutations' : x = mutations'[i].ts
    BY <2>1, <2>5 DEF Marks
  <2>6. CASE ~(\E t \in DOMAIN etl' : x = etl'[t]) /\ ~\E i \in DOMAIN mutations' : x = mutations'[i].ts
    BY <2>3, <2>6 DEF Marks
  <2>7. QED
    BY <2>4, <2>5, <2>6
<1>6. ASSUME NEW s \in Slots, Job(s) \/ FailTask(s)
      PROVE  x \in Marks \/ (Aggregate(s) /\ x = upper[s])
  \* Steps that change neither etl_state nor what is on its way there.
  <2>1. ASSUME UNCHANGED <<etl, mutations>>, pc' = [pc EXCEPT ![s] = pc'[s]],
               pc'[s] \in HasLast => last'[s] \in Marks,
               pc'[s] = "watermark" => upper'[s] \in Marks
        PROVE  x \in Marks
    BY <1>2, <2>1 DEF Marks
  <2>2. CASE EnsureCheck(s)
    <3>1. /\ UNCHANGED <<etl, mutations>> /\ pc' = [pc EXCEPT ![s] = pc'[s]]
          /\ pc'[s] \in {"seed", "start"}
      BY <1>1, <2>2 DEF EnsureCheck, Goto
    <3>2. QED
      BY <2>1, <3>1 DEF HasLast, HasUpper
  <2>3. CASE EnsureInsert(s)
    <3>1. DOMAIN etl = {}
      BY <2>3 DEF EnsureInsert, Goto, OrderInv, SeedOnce
    <3>2. /\ etl' = [t \in {s} |-> 0] /\ pc' = [pc EXCEPT ![s] = "start"]
          /\ UNCHANGED mutations
      BY <2>3, <3>1 DEF EnsureInsert, Goto
    <3>3. \A q \in Slots : pc'[q] = "start"
      BY <1>1, <1>2, <3>2
    <3>4. QED
      BY <3>2, <3>3 DEF Marks, HasLast, HasUpper
  <2>4. CASE ReadLast(s)
    <3>1. PICK t \in DOMAIN etl : last' = [last EXCEPT ![s] = etl[t]]
      BY <2>4 DEF ReadLast
    <3>2. last'[s] = etl[t] /\ etl[t] \in Marks
      BY <1>1, <3>1 DEF Marks
    <3>3. UNCHANGED <<etl, mutations>> /\ pc' = [pc EXCEPT ![s] = pc'[s]] /\ pc'[s] = "upper"
      BY <1>1, <2>4 DEF ReadLast, Goto
    <3>4. QED
      BY <2>1, <3>2, <3>3
  <2>5. CASE ReadUpper(s) \/ InsertBegin(s) \/ InsertCommit(s)
    <3>1. /\ UNCHANGED <<etl, mutations, last>> /\ pc[s] \in HasLast
          /\ \E to \in {"insert", "commit", "aggregate"} : pc' = [pc EXCEPT ![s] = to]
      BY <2>5 DEF ReadUpper, InsertBegin, InsertCommit, Goto, window, HasLast, HasUpper
    <3>2. pc' = [pc EXCEPT ![s] = pc'[s]] /\ pc'[s] # "watermark"
      BY <1>1, <3>1
    <3>3. QED
      BY <2>1, <3>1, <3>2 DEF Marks
  <2>6. CASE Aggregate(s)
    <3>1. UNCHANGED <<etl, mutations, last, upper>> /\ pc[s] = "aggregate"
          /\ pc' = [pc EXCEPT ![s] = "watermark"]
      BY <2>6 DEF Aggregate, Goto, window
    <3>2. CASE x = upper'[s]
      BY <2>6, <3>1, <3>2
    <3>3. CASE x # upper'[s]
      BY <1>1, <1>2, <3>1, <3>3 DEF Marks, HasLast, HasUpper
    <3>4. QED
      BY <3>2, <3>3
  <2>7. CASE UpdateWatermark(s)
    <3>1. /\ UNCHANGED <<etl, last, upper>> /\ pc[s] = "watermark"
          /\ pc' = [pc EXCEPT ![s] = "finish"]
          /\ mutations' = Append(mutations, [rows |-> DOMAIN etl, ts |-> upper[s]])
      BY <2>7 DEF UpdateWatermark, Goto, NewMark, window
    <3>2. \A i \in DOMAIN mutations' :
            \/ mutations'[i].ts = upper[s]
            \/ i \in DOMAIN mutations /\ mutations'[i] = mutations[i]
      BY <3>1, AppendProperties DEF TypeOK
    <3>3. upper[s] \in Marks
      BY <3>1 DEF Marks
    <3>4. CASE \E i \in DOMAIN mutations' : x = mutations'[i].ts
      BY <3>2, <3>3, <3>4 DEF Marks
    <3>5. CASE ~\E i \in DOMAIN mutations' : x = mutations'[i].ts
      BY <1>1, <1>2, <3>1, <3>5 DEF Marks, HasLast, HasUpper
    <3>6. QED
      BY <3>4, <3>5
  <2>8. CASE Finish(s)
    <3>1. UNCHANGED <<etl, mutations>> /\ pc' = [pc EXCEPT ![s] = pc'[s]] /\ pc'[s] = "idle"
      BY <1>1, <2>8 DEF Finish, Goto
    <3>2. QED
      BY <2>1, <3>1 DEF HasLast, HasUpper
  <2>9. CASE FailTask(s)
    <3>1. /\ pc' = [pc EXCEPT ![s] = pc'[s]] /\ pc'[s] \in {"idle", "start"}
          /\ UNCHANGED <<etl, mutations>>
      BY <2>9, FailSteps
    <3>2. QED
      BY <2>1, <3>1 DEF HasLast, HasUpper
  <2>10. QED
    BY <1>6, <2>2, <2>3, <2>4, <2>5, <2>6, <2>7, <2>8, <2>9 DEF Job
<1>7. QED
  BY <1>4, <1>5, <1>6 DEF Next

\* An INSERT takes its time when every mark is past.
LEMMA CommitLaterNext ==
  ASSUME OneSlot, IInv, OrderInv, CommitLater, [Next]_vars
  PROVE  CommitLater'
<1> SUFFICES ASSUME NEW s \in Slots, pc'[s] = "commit", NEW x \in Marks' PROVE x < ptime'[s]
  BY DEF CommitLater
<1>1. TypeOK /\ pc \in [Slots -> Steps] /\ ptime \in [Slots -> Nat] /\ \A q \in Slots : q = s
  BY DEF IInv, TypeOK, OneSlot
<1>2. CASE InsertBegin(s)
  <2>1. ptime'[s] = clock /\ ~Aggregate(s)
    BY <1>1, <1>2 DEF InsertBegin, Aggregate, Goto
  <2>2. x \in Marks
    BY <1>1, <2>1, MarksNext
  <2>3. QED
    BY <2>1, <2>2, MarksAreTimes
<1>3. CASE ~InsertBegin(s)
  <2>1. pc[s] = "commit" /\ ptime'[s] = ptime[s]
    <3>1. ASSUME Job(s) \/ FailTask(s) PROVE FALSE
      <4>1. \A q \in {"seed", "start", "upper", "insert", "aggregate", "watermark", "finish", "idle"} :
              pc' # [pc EXCEPT ![s] = q]
        BY <1>1
      <4>2. ~FailTask(s)
        BY <1>1, FailSteps
      <4>3. QED
        BY <1>3, <3>1, <4>1, <4>2 DEF Job, EnsureCheck, EnsureInsert, ReadLast, ReadUpper,
           InsertCommit, Aggregate, UpdateWatermark, Finish, Goto
    <3>2. UNCHANGED <<pc, ptime>>
      BY <1>1, <3>1 DEF Next, vars, window, Arrive, Publish, Tick, Merge, ApplyMutation
    <3>3. QED
      BY <3>2
  <2>2. ~Aggregate(s)
    BY <2>1 DEF Aggregate, Goto
  <2>3. x \in Marks
    BY <1>1, <2>2, MarksNext
  <2>4. QED
    BY <2>1, <2>3 DEF CommitLater
<1>4. QED
  BY <1>2, <1>3

LEMMA CountingInit == Init => CountingInv
<1> SUFFICES ASSUME Init PROVE CountingInv
  OBVIOUS
<1>1. prepared = {} /\ blocks = {} /\ \A s \in Slots : pc[s] = "idle"
  BY DEF Init
<1>2. QED
  BY <1>1 DEF CountingInv, BlocksCounted, CommitLater, CountedUpTo

LEMMA CountingNext ==
  ASSUME OneSlot, CountCap > 0, IInv, OrderInv, CountingInv, [Next]_vars
  PROVE  CountingInv'
<1>1. TypeOK
  BY DEF IInv
<1>2. BlocksCounted' /\ CommitLater'
  BY <1>1, BlocksStay, CommitLaterNext DEF CountingInv
<1>3. ASSUME NEW x \in Marks' PROVE CountedUpTo(x)'
  <2>1. CASE x \in Marks
    <3>1. x \in Int
      BY <2>1, MarksAreTimes
    <3>2. CountedUpTo(x) /\ \A s \in Slots : pc[s] = "commit" => x < ptime[s]
      BY <2>1 DEF CountingInv, CommitLater
    <3>3. QED
      BY <1>1, <3>1, <3>2, CountedStays
  <2>2. ASSUME NEW s \in Slots, Aggregate(s), x = upper[s] PROVE CountedUpTo(x)'
    <3>1. last[s] \in Marks /\ upper' = upper
      BY <2>2 DEF Aggregate, Goto, window, Marks, HasLast, HasUpper
    <3>2. CountedUpTo(upper[s])'
      BY <1>1, <2>2, <3>1, WindowCounted DEF CountingInv
    <3>3. QED
      BY <2>2, <3>1, <3>2 DEF CountedUpTo
  <2>3. QED
    BY <1>1, <2>1, <2>2, MarksNext
<1>4. QED
  BY <1>2, <1>3 DEF CountingInv

\* As long as runs do not overlap, every event with a version that the watermark has
\* passed was counted, whatever failed in between, or was in a block that the table
\* dropped as a repetition, and then another event of its group was counted.
THEOREM NothingUncounted ==
  ASSUME OneSlot, CountCap > 0
  PROVE  Spec => []NoUncountedVersion
<1>1. Spec => []OrderInv
  BY OrderInit, OrderNext, Inductive, PTL DEF Spec
<1>2. Spec => []CountingInv
  BY <1>1, CountingInit, CountingNext, Inductive, PTL DEF Spec
<1>3. CountingInv => NoUncountedVersion
  BY DEF CountingInv, Marks, CountedUpTo, NoUncountedVersion
<1>4. QED
  BY <1>2, <1>3, PTL

-----------------------------------------------------------------------------
(* Nothing is counted twice while nothing fails. *)

LEMMA OnceTimes ==
  ASSUME OneSlot, TypeOK PROVE Times
<1>1. TheSlot \in Slots /\ upper[TheSlot] \in Int /\ DOMAIN etl \subseteq {TheSlot}
  BY TheOnly DEF TypeOK
<1>2. CASE mutations # <<>>
  <2>1. 1 \in DOMAIN mutations
    BY <1>2, QueueTail
  <2>2. mutations[1].ts \in Int
    BY <2>1, MarksTyped
  <2>3. Marked = mutations[1].ts
    BY <1>2 DEF Marked
  <2>4. Marked \in Int
    BY <2>2, <2>3
  <2>5. QED
    BY <1>1, <2>4 DEF Times, CopiedTo, CountedTo
<1>3. CASE mutations = <<>>
  <2>1. DOMAIN etl # {} => etl[TheSlot] \in Int
    BY <1>1 DEF TypeOK
  <2>2. Marked = IF DOMAIN etl = {} THEN 0 ELSE etl[TheSlot]
    BY <1>3 DEF Marked
  <2>3. Marked \in Int
    BY <2>1, <2>2
  <2>4. QED
    BY <1>1, <2>3 DEF Times, CopiedTo, CountedTo
<1>4. QED
  BY <1>2, <1>3

LEMMA OnceSets ==
  ASSUME TypeOK, NEW k \in Keys
  PROVE  /\ IsFiniteSet(Uncounted(k)) /\ Cardinality(Uncounted(k)) \in Nat
         /\ IsFiniteSet(CopiesOf(k)) /\ Cardinality(CopiesOf(k)) \in Nat
         /\ counted[k] \in Nat
<1>1. Uncounted(k) \subseteq prepared /\ CopiesOf(k) \subseteq Rows
  BY DEF Uncounted, CopiesOf
<1>2. QED
  BY <1>1, RowsAssumption, FS_Subset, FS_CardinalityType DEF TypeOK

LEMMA OnceSetsNext ==
  ASSUME TypeOK', NEW k \in Keys
  PROVE  /\ IsFiniteSet(Uncounted(k)') /\ Cardinality(Uncounted(k)') \in Nat
         /\ IsFiniteSet(CopiesOf(k)') /\ Cardinality(CopiesOf(k)') \in Nat
         /\ counted'[k] \in Nat
<1>1. Uncounted(k)' \subseteq prepared' /\ CopiesOf(k)' \subseteq Rows
  BY DEF Uncounted, CopiesOf
<1>2. QED
  BY <1>1, RowsAssumption, FS_Subset, FS_CardinalityType DEF TypeOK

\* A row, once stamped, keeps its stamp.
LEMMA CopiesStay ==
  ASSUME TypeOK, Times, Times', [Next]_vars, CopiedTo <= CopiedTo', NEW k \in Keys
  PROVE  CopiesOf(k) \subseteq CopiesOf(k)'
<1>1. CopiedTo \in Int /\ CopiedTo' \in Int
  BY DEF Times
<1>2. ASSUME NEW r \in Rows, stage[r] # "absent"
      PROVE  stage'[r] # "absent" /\ cleaned'[r] = cleaned[r] /\ cleaned[r] \in Int
  <2>1. cleaned[r] \in Int
    BY DEF TypeOK
  <2>2. CASE \E q \in Rows : Arrive(q) \/ Publish(q)
    BY <1>2, <2>1, <2>2 DEF Arrive, Publish, TypeOK
  <2>3. CASE ~\E q \in Rows : Arrive(q) \/ Publish(q)
    <3>1. UNCHANGED source
      BY <2>3 DEF Next, vars, source, Tick, Merge, ApplyMutation, Job, FailTask, EnsureCheck,
                  EnsureInsert, ReadLast, ReadUpper, InsertBegin, InsertCommit, Aggregate,
                  UpdateWatermark, Finish
    <3>2. QED
      BY <1>2, <2>1, <3>1 DEF source
  <2>4. QED
    BY <2>2, <2>3
<1>3. QED
  BY <1>1, <1>2 DEF CopiesOf

\* Steps that write no version and count none.
LEMMA BudgetStays ==
  ASSUME OneSlot, TypeOK, TypeOK', Times, Times', [Next]_vars, NEW k \in Keys, Budget(k),
         counted'[k] = counted[k], prepared' \subseteq prepared,
         CopiedTo <= CopiedTo', CountedTo <= CountedTo'
  PROVE  Budget(k)'
<1>1. CountedTo \in Int /\ CountedTo' \in Int
  BY DEF Times
<1>2. \A v \in prepared : v.ptime \in Int
  BY DEF TypeOK, Version
<1>3. Uncounted(k)' \subseteq Uncounted(k)
  BY <1>1, <1>2 DEF Uncounted
<1>4. Cardinality(Uncounted(k)') <= Cardinality(Uncounted(k))
  BY <1>3, OnceSets, FS_Subset
<1>5. Cardinality(CopiesOf(k)) <= Cardinality(CopiesOf(k)')
  BY CopiesStay, OnceSetsNext, FS_Subset
<1>6. QED
  BY <1>4, <1>5, OnceSets, OnceSetsNext DEF Budget

\* The INSERT adds at most one version of a key, and a row of that key that no
\* earlier window had.
LEMMA BudgetInsert ==
  ASSUME OneSlot, TypeOK, TypeOK', Times, Times', [Next]_vars, NEW k \in Keys, Budget(k),
         Undisturbed, InsertCommit(TheSlot), Marked <= upper[TheSlot]
  PROVE  Budget(k)'
<1> DEFINE s == TheSlot
           v == [key |-> k, ptime |-> ptime[s]]
<1>1. /\ s \in Slots /\ pc[s] = "commit" /\ pc'[s] = "aggregate"
      /\ prepared' = prepared \cup VersionsOf(s, batch[s])
      /\ UNCHANGED <<counted, stage, cleaned, etl, mutations, last, upper>>
      /\ last[s] = Marked
  BY TheOnly DEF InsertCommit, Goto, TypeOK, metrics, source, window, Undisturbed, HasLast, HasUpper
<1>2. Marked' = Marked /\ CopiedTo = Marked /\ CopiedTo' = upper[s]
      /\ CountedTo = Marked /\ CountedTo' = Marked
  BY <1>1 DEF Marked, CopiedTo, CountedTo
<1>3. CopiedTo \in Int /\ CopiedTo' \in Int
  BY DEF Times
<1>4. CopiesOf(k) \subseteq CopiesOf(k)'
  BY <1>2, CopiesStay
<1>5. CASE \E r \in batch[s] : KeyOf[r] = k
  <2>1. PICK r \in batch[s] : KeyOf[r] = k
    BY <1>5
  <2>2. r \in Rows /\ stage[r] # "absent" /\ last[s] < cleaned[r] /\ cleaned[r] <= upper[s]
        /\ cleaned[r] \in Int
    BY <1>1, <2>1 DEF Undisturbed, TypeOK
  <2>3. r \in CopiesOf(k)' /\ r \notin CopiesOf(k)
    BY <1>1, <1>2, <1>3, <2>1, <2>2 DEF CopiesOf
  <2>4. Cardinality(CopiesOf(k)) + 1 <= Cardinality(CopiesOf(k)')
    <3>1. Cardinality(CopiesOf(k) \cup {r}) = Cardinality(CopiesOf(k)) + 1
      BY <2>3, OnceSets, FS_AddElement
    <3>2. CopiesOf(k) \cup {r} \subseteq CopiesOf(k)'
      BY <1>4, <2>3
    <3>3. Cardinality(CopiesOf(k) \cup {r}) <= Cardinality(CopiesOf(k)')
      BY <3>2, OnceSetsNext, FS_Subset
    <3>4. QED
      BY <3>1, <3>3
  <2>5. Uncounted(k)' \subseteq Uncounted(k) \cup {v}
    BY <1>1, <1>2 DEF Uncounted, VersionsOf
  <2>6. Cardinality(Uncounted(k)') <= Cardinality(Uncounted(k)) + 1
    <3>1. /\ IsFiniteSet(Uncounted(k) \cup {v})
          /\ Cardinality(Uncounted(k) \cup {v}) <= Cardinality(Uncounted(k)) + 1
      <4>1. IsFiniteSet(Uncounted(k)) /\ Cardinality(Uncounted(k)) \in Nat
        BY OnceSets
      <4> HIDE DEF v
      <4>2. /\ IsFiniteSet(Uncounted(k) \cup {v})
            /\ Cardinality(Uncounted(k) \cup {v})
                 = IF v \in Uncounted(k) THEN Cardinality(Uncounted(k))
                   ELSE Cardinality(Uncounted(k)) + 1
        BY <4>1, FS_AddElement
      <4>3. QED
        BY <4>1, <4>2
    <3>2. Cardinality(Uncounted(k)') <= Cardinality(Uncounted(k) \cup {v})
          /\ Cardinality(Uncounted(k) \cup {v}) \in Nat
      BY <2>5, <3>1, FS_Subset, FS_CardinalityType
    <3>3. QED
      BY <3>1, <3>2, OnceSets, OnceSetsNext
  <2>7. QED
    BY <1>1, <2>4, <2>6, OnceSets, OnceSetsNext DEF Budget
<1>6. CASE ~\E r \in batch[s] : KeyOf[r] = k
  <2>1. Uncounted(k)' \subseteq Uncounted(k)
    BY <1>1, <1>2, <1>6 DEF Uncounted, VersionsOf
  <2>2. Cardinality(Uncounted(k)') <= Cardinality(Uncounted(k))
    BY <2>1, OnceSets, FS_Subset
  <2>3. Cardinality(CopiesOf(k)) <= Cardinality(CopiesOf(k)')
    BY <1>4, OnceSetsNext, FS_Subset
  <2>4. QED
    BY <1>1, <2>2, <2>3, OnceSets, OnceSetsNext DEF Budget
<1>7. QED
  BY <1>5, <1>6

\* The aggregate query turns uncounted versions into counted ones.
LEMMA BudgetAggregate ==
  ASSUME OneSlot, TypeOK, TypeOK', Times, Times', [Next]_vars, NEW k \in Keys, Budget(k),
         Undisturbed, Aggregate(TheSlot), Marked <= upper[TheSlot]
  PROVE  Budget(k)'
<1> DEFINE s == TheSlot
           W == {v \in InWindow(s) : v.key = k}
<1>1. /\ s \in Slots /\ pc[s] = "aggregate" /\ pc'[s] = "watermark"
      /\ UNCHANGED <<prepared, stage, cleaned, etl, mutations, last, upper>>
      /\ last[s] = Marked
  BY TheOnly DEF Aggregate, Goto, TypeOK, source, window, Undisturbed, HasLast, HasUpper
<1>2. Marked' = Marked /\ CopiedTo = upper[s] /\ CopiedTo' = upper[s]
      /\ CountedTo = Marked /\ CountedTo' = upper[s]
  BY <1>1 DEF Marked, CopiedTo, CountedTo
<1>3. CountedTo \in Int /\ CountedTo' \in Int /\ CopiedTo \in Int
  BY DEF Times
<1>4. CASE UNCHANGED counted
  BY <1>1, <1>2, <1>3, <1>4, BudgetStays
<1>5. CASE counted' = [l \in Keys |->
             Capped(counted[l] + Cardinality({v \in InWindow(s) : v.key = l}))]
  <2>1. IsFiniteSet(W) /\ Cardinality(W) \in Nat
    <3>1. W \subseteq prepared
      BY DEF InWindow
    <3>2. QED
      BY <3>1, FS_Subset, FS_CardinalityType DEF TypeOK
  <2>2. \A v \in prepared : v.ptime \in Int
    BY DEF TypeOK, Version
  <2>3. Uncounted(k) = W \cup Uncounted(k)'
    BY <1>1, <1>2, <1>3, <2>2 DEF Uncounted, InWindow
  <2>4. W \cap Uncounted(k)' = {}
    BY <1>1, <1>2, <1>3, <2>2 DEF Uncounted, InWindow
  <2>5. Cardinality(Uncounted(k)) = Cardinality(W) + Cardinality(Uncounted(k)')
    <3>1. Cardinality(W \cup Uncounted(k)')
            = Cardinality(W) + Cardinality(Uncounted(k)') - Cardinality(W \cap Uncounted(k)')
      BY <2>1, OnceSetsNext, FS_Union
    <3>2. Cardinality(W \cap Uncounted(k)') = 0
      BY <2>4, FS_EmptySet
    <3>3. Cardinality(Uncounted(k)') \in Nat
      BY OnceSetsNext
    <3> HIDE DEF W
    <3>4. QED
      BY <2>1, <2>3, <3>1, <3>2, <3>3
  <2>6. counted'[k] <= counted[k] + Cardinality(W)
    BY <1>5, <2>1, OnceSets, RunAssumption DEF Capped
  <2>7. CopiesOf(k)' = CopiesOf(k)
    BY <1>1, <1>2 DEF CopiesOf
  <2>8. QED
    BY <2>1, <2>5, <2>6, <2>7, OnceSets, OnceSetsNext DEF Budget
<1>6. QED
  BY <1>4, <1>5 DEF Aggregate

LEMMA OnceInit == OneSlot /\ Init => OnceInv
<1> SUFFICES ASSUME OneSlot, Init PROVE OnceInv
  OBVIOUS
<1>1. /\ TheSlot \in Slots /\ pc[TheSlot] = "idle" /\ mutations = <<>>
      /\ prepared = {} /\ \A k \in Keys : counted[k] = 0
  BY TheOnly DEF Init
<1>2. Undisturbed
  BY <1>1 DEF Undisturbed, HasLast, HasUpper
<1>3. ASSUME NEW k \in Keys PROVE Budget(k)
  <2>1. Uncounted(k) = {} /\ CopiesOf(k) \subseteq Rows
    BY <1>1 DEF Uncounted, CopiesOf
  <2>2. Cardinality(Uncounted(k)) = 0 /\ Cardinality(CopiesOf(k)) \in Nat
    BY <2>1, FS_EmptySet, FS_Subset, FS_CardinalityType, RowsAssumption
  <2>3. QED
    BY <1>1, <2>2 DEF Budget
<1>4. QED
  BY <1>2, <1>3 DEF OnceInv

\* The windows of undisturbed runs follow each other: a run starts where the last
\* one ended, and the watermark in force says how far copying and counting came.
LEMMA OnceNext ==
  ASSUME OneSlot, IInv, IInv', Times, Times', OrderInv, OnceInv, [Next]_vars, faults' = 0
  PROVE  Undisturbed' /\ \A k \in Keys : Budget(k)'
<1> DEFINE s == TheSlot
<1>1. /\ TypeOK /\ TypeOK' /\ pc \in [Slots -> Steps] /\ last \in [Slots -> Int]
      /\ batch \in [Slots -> SUBSET Rows] /\ s \in Slots /\ \A q \in Slots : q = s
      /\ faults \in Nat /\ DOMAIN etl \subseteq {s}
      /\ mutations \in Seq([rows : SUBSET Slots, ts : Int])
  BY TheOnly DEF IInv, TypeOK
<1>2. faults = 0
  <2>1. faults' = faults \/ faults' = faults + 1
    BY DEF Next, vars, Arrive, Publish, Tick, Merge, ApplyMutation, Job, EnsureCheck,
           EnsureInsert, ReadLast, ReadUpper, InsertBegin, InsertCommit, Aggregate,
           UpdateWatermark, Finish, FailTask
  <2>2. QED
    BY <1>1, <2>1
<1>3. Undisturbed /\ \A k \in Keys : Budget(k)
  BY <1>2 DEF OnceInv
\* Steps that neither copy nor count, and change no watermark.
<1>4. ASSUME UNCHANGED <<counted, upper>>, prepared' \subseteq prepared, Marked' = Marked,
             pc'[s] \in {"aggregate", "watermark"} <=> pc[s] \in {"aggregate", "watermark"},
             pc'[s] = "watermark" <=> pc[s] = "watermark"
      PROVE  \A k \in Keys : Budget(k)'
  <2>1. CopiedTo' = CopiedTo /\ CountedTo' = CountedTo
    BY <1>4 DEF CopiedTo, CountedTo
  <2>2. CopiedTo <= CopiedTo' /\ CountedTo <= CountedTo'
    BY <2>1 DEF Times
  <2>3. QED
    BY <1>1, <1>3, <1>4, <2>2, BudgetStays
<1>5. CASE \/ \E r \in Rows : Arrive(r) \/ Publish(r)
           \/ Tick \/ Merge \/ UNCHANGED vars
  <2>1. /\ UNCHANGED <<counted, etl, mutations, pc, last, upper, batch>>
        /\ prepared' \subseteq prepared
    BY <1>5 DEF Arrive, Publish, Tick, Merge, metrics, window, vars
  <2>2. Marked' = Marked
    BY <2>1 DEF Marked
  <2>3. \A r \in Rows : stage[r] # "absent" => stage'[r] # "absent" /\ cleaned'[r] = cleaned[r]
    BY <1>1, <1>5 DEF Arrive, Publish, Tick, Merge, source, vars, TypeOK
  <2>4. Undisturbed'
    BY <1>1, <1>3, <2>1, <2>2, <2>3 DEF Undisturbed
  <2>5. QED
    BY <1>4, <2>1, <2>2, <2>4
<1>6. CASE ApplyMutation
  <2>1. /\ mutations # <<>> /\ Head(mutations) = mutations[1] /\ 1 \in DOMAIN mutations
        /\ etl' = [t \in DOMAIN etl |->
                     IF t \in mutations[1].rows THEN mutations[1].ts ELSE etl[t]]
        /\ UNCHANGED <<prepared, counted, pc, last, upper, batch, stage>>
    BY <1>1, <1>6, QueueTail DEF ApplyMutation, metrics, window, source
  <2>2. mutations' = <<>> /\ pc[s] \notin HasLast
    <3>1. Len(mutations) <= 1 /\ Len(mutations) \in Nat /\ Len(mutations) # 0
      BY <1>1, <1>3, <2>1, EmptySeq, LenProperties DEF Undisturbed
    <3>2. /\ Len(Tail(mutations)) = Len(mutations) - 1
          /\ Tail(mutations) \in Seq([rows : SUBSET Slots, ts : Int])
      BY <1>1, <2>1, HeadTailProperties
    <3>3. Tail(mutations) = <<>>
      BY <3>1, <3>2, EmptySeq
    <3>4. QED
      BY <1>3, <1>6, <2>1, <3>3 DEF ApplyMutation, Undisturbed
  <2>3. Marked' = Marked
    <3>1. DOMAIN etl = {s} /\ mutations[1].rows = {s}
      BY <1>1, <1>3, <2>1 DEF Undisturbed, OrderInv, Seeded
    <3>2. etl' = [t \in {s} |-> mutations[1].ts]
      BY <2>1, <3>1
    <3>3. QED
      BY <2>1, <2>2, <3>1, <3>2 DEF Marked
  <2>4. Undisturbed'
    BY <2>1, <2>2, EmptySeq DEF Undisturbed, HasLast, HasUpper
  <2>5. QED
    BY <1>4, <2>1, <2>3, <2>4
<1>7. CASE EnsureCheck(s)
  <2>1. /\ UNCHANGED <<counted, prepared, etl, mutations, last, upper, batch, stage>>
        /\ pc[s] = "idle" /\ pc'[s] \in {"seed", "start"}
    BY <1>1, <1>7 DEF EnsureCheck, Goto, metrics, window, source
  <2>2. Marked' = Marked
    BY <2>1 DEF Marked
  <2>3. Undisturbed'
    BY <1>3, <2>1 DEF Undisturbed, HasLast, HasUpper
  <2>4. QED
    BY <1>4, <2>1, <2>2, <2>3
<1>8. CASE EnsureInsert(s)
  <2>1. /\ DOMAIN etl = {} /\ mutations = <<>>
        /\ UNCHANGED <<counted, prepared, mutations, last, upper, batch, stage>>
        /\ pc[s] = "seed" /\ pc'[s] = "start"
    BY <1>1, <1>8 DEF EnsureInsert, Goto, metrics, window, source, OrderInv, SeedOnce, Seeded
  <2>2. etl' = [t \in {s} |-> 0]
    BY <1>8, <2>1 DEF EnsureInsert
  <2>3. Marked' = Marked
    BY <2>1, <2>2 DEF Marked
  <2>4. Undisturbed'
    BY <1>3, <2>1 DEF Undisturbed, HasLast, HasUpper
  <2>5. QED
    BY <1>4, <2>1, <2>3, <2>4
<1>9. CASE ReadLast(s)
  <2>1. /\ mutations = <<>>
        /\ UNCHANGED <<counted, prepared, etl, mutations, upper, batch, stage>>
        /\ pc[s] = "start" /\ pc'[s] = "upper"
        /\ \E t \in DOMAIN etl : last' = [last EXCEPT ![s] = etl[t]]
    <3>1. mutations = <<>>
      BY <1>2, <1>9 DEF ReadLast
    <3>2. pc[s] = "start" /\ pc'[s] = "upper"
      BY <1>1, <1>9 DEF ReadLast, Goto
    <3>3. QED
      BY <1>9, <3>1, <3>2 DEF ReadLast, metrics, source
  <2>2. Marked' = Marked
    BY <2>1 DEF Marked
  <2>3. last'[s] = Marked
    BY <1>1, <2>1 DEF Marked
  <2>4. Undisturbed'
    BY <1>3, <2>1, <2>2, <2>3 DEF Undisturbed
  <2>5. QED
    BY <1>4, <2>1, <2>2, <2>4
<1>10. CASE ReadUpper(s) \/ InsertBegin(s)
  <2>1. /\ UNCHANGED <<counted, prepared, etl, mutations, last, stage, cleaned>>
        /\ pc[s] \in {"upper", "insert"} /\ pc'[s] \in {"insert", "commit"}
        /\ pc'[s] = "commit" => InsertBegin(s) /\ UNCHANGED upper
    BY <1>1, <1>10 DEF ReadUpper, InsertBegin, Goto, metrics, source
  <2>2. Marked' = Marked
    BY <2>1 DEF Marked
  <2>3. Undisturbed'
    <3>1. pc'[s] = "commit" => batch'[s] = Selected(s)
      BY <1>1, <2>1 DEF InsertBegin
    <3>2. QED
      BY <1>3, <2>1, <2>2, <3>1 DEF Undisturbed, HasLast, HasUpper, Selected
  <2>4. CopiedTo' = CopiedTo /\ CountedTo' = CountedTo
    BY <2>1, <2>2 DEF CopiedTo, CountedTo
  <2>5. CopiedTo <= CopiedTo' /\ CountedTo <= CountedTo'
    BY <2>4 DEF Times
  <2>6. QED
    BY <1>1, <1>3, <2>1, <2>3, <2>5, BudgetStays
<1>11. CASE InsertCommit(s) \/ Aggregate(s)
  <2>1. /\ UNCHANGED <<etl, mutations, last, upper, batch>>
        /\ pc[s] \in {"commit", "aggregate"} /\ pc'[s] \in {"aggregate", "watermark"}
    BY <1>1, <1>11 DEF InsertCommit, Aggregate, Goto, window
  <2>2. mutations = <<>> /\ DOMAIN etl = {s} /\ etl[s] <= upper[s]
    <3>1. mutations = <<>> /\ DOMAIN etl # {}
      BY <1>1, <1>3, <2>1 DEF Undisturbed, HasLast, HasUpper, OrderInv, Seeded
    <3>2. DOMAIN etl = {s}
      BY <1>1, <3>1
    <3>3. QED
      BY <1>1, <2>1, <3>1, <3>2 DEF OrderInv, WindowAhead, HasUpper
  <2>3. Marked <= upper[s] /\ Marked' = Marked
    BY <2>1, <2>2 DEF Marked
  <2>4. Undisturbed'
    BY <1>3, <2>1, <2>3 DEF Undisturbed, HasLast, HasUpper
  <2>5. QED
    BY <1>1, <1>3, <1>11, <2>3, <2>4, BudgetInsert, BudgetAggregate
<1>12. CASE UpdateWatermark(s)
  <2>1. /\ UNCHANGED <<counted, prepared, etl, last, upper, batch, stage>>
        /\ pc[s] = "watermark" /\ pc'[s] = "finish" /\ mutations = <<>> /\ DOMAIN etl = {s}
        /\ mutations' = Append(mutations, [rows |-> DOMAIN etl, ts |-> upper[s]])
    <3>1. pc[s] = "watermark" /\ mutations = <<>> /\ DOMAIN etl # {} /\ DOMAIN etl \subseteq {s}
      BY <1>1, <1>3, <1>12 DEF UpdateWatermark, Goto, Undisturbed, HasLast, HasUpper,
                               OrderInv, Seeded
    <3>2. QED
      BY <1>1, <1>12, <3>1 DEF UpdateWatermark, Goto, NewMark, metrics, window, source
  <2>2. mutations' = <<[rows |-> {s}, ts |-> upper[s]]>>
    BY <2>1
  <2>3. /\ mutations' # <<>> /\ Len(mutations') = 1 /\ DOMAIN mutations' = {1}
        /\ mutations'[1].rows = {s} /\ mutations'[1].ts = upper[s]
    BY <2>2
  <2>4. Marked' = upper[s]
    BY <2>3 DEF Marked
  <2>5. Undisturbed'
    BY <2>1, <2>3 DEF Undisturbed, HasLast, HasUpper
  <2>6. CopiedTo' = CopiedTo /\ CountedTo' = CountedTo
    BY <2>1, <2>4 DEF CopiedTo, CountedTo
  <2>7. CopiedTo <= CopiedTo' /\ CountedTo <= CountedTo'
    BY <2>6 DEF Times
  <2>8. QED
    BY <1>1, <1>3, <2>1, <2>5, <2>7, BudgetStays
<1>13. CASE Finish(s)
  <2>1. /\ UNCHANGED <<counted, prepared, etl, mutations, stage>>
        /\ pc[s] = "finish" /\ pc'[s] = "idle"
    BY <1>1, <1>13 DEF Finish, Goto, metrics, source
  <2>2. Marked' = Marked
    BY <2>1 DEF Marked
  <2>3. Undisturbed'
    BY <1>3, <2>1 DEF Undisturbed, HasLast, HasUpper
  <2>4. CopiedTo' = CopiedTo /\ CountedTo' = CountedTo
    BY <2>1, <2>2 DEF CopiedTo, CountedTo
  <2>5. CopiedTo <= CopiedTo' /\ CountedTo <= CountedTo'
    BY <2>4 DEF Times
  <2>6. QED
    BY <1>1, <1>3, <2>1, <2>3, <2>5, BudgetStays
<1>14. ~FailTask(s)
  <2>1. FailTask(s) => faults' = faults + 1
    BY DEF FailTask
  <2>2. QED
    BY <1>1, <2>1
<1>15. CASE \E q \in Slots : Job(q) \/ FailTask(q)
  <2>1. Job(s)
    BY <1>1, <1>14, <1>15
  <2>2. QED
    BY <1>7, <1>8, <1>9, <1>10, <1>11, <1>12, <1>13, <2>1 DEF Job
<1>16. QED
  BY <1>5, <1>6, <1>15 DEF Next

\* As long as runs do not overlap, no task fails and none reads a stale watermark,
\* an event is counted no more often than copies of it arrived.
THEOREM NoCopyCountedTwice ==
  ASSUME OneSlot PROVE Spec => []CountedOncePerCopy
<1>1. Spec => []IInv /\ []OrderInv
  BY OrderInit, OrderNext, Inductive, PTL DEF Spec
<1>2. IInv => Times
  BY OnceTimes DEF IInv
<1>3. OneSlot /\ IInv /\ IInv' /\ Times /\ Times' /\ OrderInv /\ OnceInv /\ [Next]_vars => OnceInv'
  BY OnceNext DEF OnceInv
<1>4. Init => OnceInv
  BY OnceInit
<1>5. Spec => []OnceInv
  BY <1>1, <1>2, <1>3, <1>4, PTL DEF Spec
<1>6. ASSUME IInv, OnceInv, faults = 0, NEW k \in Keys
      PROVE  counted[k] <= Cardinality({r \in Rows : KeyOf[r] = k /\ stage[r] # "absent"})
  <2> DEFINE C == {r \in Rows : KeyOf[r] = k /\ stage[r] # "absent"}
  <2>1. TypeOK /\ Budget(k)
    BY <1>6 DEF IInv, OnceInv
  <2>2. CopiesOf(k) \subseteq C /\ IsFiniteSet(C)
    BY FS_Subset, RowsAssumption DEF CopiesOf
  <2>3. Cardinality(CopiesOf(k)) <= Cardinality(C) /\ Cardinality(C) \in Nat
    BY <2>2, FS_Subset, FS_CardinalityType
  <2>4. QED
    BY <2>1, <2>3, OnceSets DEF Budget
<1>7. IInv /\ OnceInv => CountedOncePerCopy
  BY <1>6 DEF CountedOncePerCopy
<1>8. QED
  BY <1>1, <1>5, <1>7, PTL
=============================================================================
