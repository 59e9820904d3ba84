---------------------------- MODULE DedupPrepare ----------------------------
(***************************************************************************)
(* DAG 02, airflow/dags/dag_02_dedup_prepare_aggregate.py: the incremental *)
(* job that copies valid_events into prepared_events, aggregates           *)
(* prepared_events into session_metrics_5m and advances a watermark kept   *)
(* in etl_state.                                                           *)
(*                                                                         *)
(* Each query of the job is one action, because Airflow runs them one by   *)
(* one against a database that others write to in between: ingestion adds  *)
(* rows, background merges drop superseded versions, mutations are applied *)
(* later than they are accepted, another run of the same DAG may be under  *)
(* way, and a task may fail after any query and be tried again from its    *)
(* first line.                                                             *)
(*                                                                         *)
(* A definition named X_Y is X with the defect Y: no action uses it; it is *)
(* there to show that the properties tell X from it.                       *)
(***************************************************************************)
EXTENDS Integers, FiniteSets, Sequences

CONSTANTS
  Rows,            \* rows that the pipeline may write to valid_events
  Keys,            \* values of dedup_key
  KeyOf,           \* [Rows -> Keys]: redelivered copies of an event share one
  Groups,          \* what an aggregated row tells of an event: session, 5 minutes, kind
  GroupOf,         \* [Keys -> Groups]
  Slots,           \* runs of the DAG that may be active at the same time
  Retries,         \* default_args["retries"]
  SafetyDelay,     \* safety_delay_sec
  MaxLag,          \* longest time between the stamp of a valid row and its visibility
  DropsRepeated,   \* TRUE: a replicated table may drop a block that it already has
  FirstTime,       \* the time at which the system starts; 0 stands for 1970-01-01
  MaxClock,        \* bound on the clock
  ArriveBy,        \* bound: no row is written after this time
  MaxFaults,       \* bound on the task failures and late mutations
  MaxPending,      \* bound on the mutations accepted and not yet applied
  CountCap         \* bound: counting stops here

ASSUME RowsAssumption == IsFiniteSet(Rows) /\ KeyOf \in [Rows -> Keys]
ASSUME GroupsAssumption == GroupOf \in [Keys -> Groups]
ASSUME TimeAssumption ==
  /\ SafetyDelay \in Nat /\ MaxLag \in Nat
  /\ FirstTime \in Nat /\ MaxClock \in Nat /\ ArriveBy \in Nat
  /\ FirstTime > SafetyDelay
\* The one premise of the job that its code does not enforce: a row becomes
\* visible sooner than the window that should contain it closes.
ASSUME LagAssumption == MaxLag < SafetyDelay
ASSUME RunAssumption ==
  /\ Retries \in Nat /\ MaxFaults \in Nat /\ DropsRepeated \in BOOLEAN
  /\ MaxPending \in Nat /\ CountCap \in Nat

VARIABLES
  clock,       \* now64(3)
  stage,       \* [Rows -> Stages]: where the row is on its way into valid_events
  cleaned,     \* [Rows -> time]: cleaned_time, set when the view evaluates the row
  prepared,    \* prepared_events: the versions stored, [key, ptime]
  counted,     \* [Keys -> Nat]: how often session_metrics_5m counted the key
  blocks,      \* the blocks inserted into session_metrics_5m
  dropped,     \* the keys in the blocks that it dropped as repetitions of those
  etl,         \* etl_state: [slots that seeded a row -> last_ts]
  mutations,   \* ALTER UPDATEs accepted and not yet applied, oldest first
  pc,          \* [Slots -> Steps]: the next query of the run
  last,        \* [Slots -> time]: last_ts
  upper,       \* [Slots -> time]: upper_ts
  ptime,       \* [Slots -> time]: now64(3) of the INSERT into prepared_events
  batch,       \* [Slots -> SUBSET Rows]: the rows that INSERT selected
  attempt,     \* [Slots -> Nat]: retries used by the current task
  faults       \* task failures, and reads of etl_state that a mutation came too late for

vars == <<clock, stage, cleaned, prepared, counted, blocks, dropped, etl, mutations,
          pc, last, upper, ptime, batch, attempt, faults>>
source == <<stage, cleaned>>
metrics == <<counted, blocks, dropped>>
window == <<last, upper, ptime, batch>>

Stages == {"absent", "inflight", "visible"}
Steps == {"idle", "seed", "start", "upper", "insert", "commit", "aggregate",
          "watermark", "finish"}
Version == [key : Keys, ptime : Nat]

Capped(n) == IF n > CountCap THEN CountCap ELSE n

-----------------------------------------------------------------------------
(* Initial state: the migration has run, nothing was ingested. *)

Init ==
  /\ clock = FirstTime
  /\ stage = [r \in Rows |-> "absent"]
  /\ cleaned = [r \in Rows |-> 0]
  /\ prepared = {}
  /\ counted = [k \in Keys |-> 0]
  /\ blocks = {} /\ dropped = {}
  /\ etl = [s \in {} |-> 0]
  /\ mutations = <<>>
  /\ pc = [s \in Slots |-> "idle"]
  /\ last = [s \in Slots |-> 0]
  /\ upper = [s \in Slots |-> 0]
  /\ ptime = [s \in Slots |-> 0]
  /\ batch = [s \in Slots |-> {}]
  /\ attempt = [s \in Slots |-> 0]
  /\ faults = 0

-----------------------------------------------------------------------------
(* The database around the job. *)

\* mv_raw_to_valid evaluates a row of raw_events and stamps cleaned_time ...
Arrive(r) ==
  /\ stage[r] = "absent"
  /\ clock <= ArriveBy
  /\ stage' = [stage EXCEPT ![r] = "inflight"]
  /\ cleaned' = [cleaned EXCEPT ![r] = clock]
  /\ UNCHANGED <<clock, prepared, metrics, etl, mutations, pc, window, attempt, faults>>

\* ... and the part that holds it becomes visible to readers of valid_events.
Publish(r) ==
  /\ stage[r] = "inflight"
  /\ stage' = [stage EXCEPT ![r] = "visible"]
  /\ UNCHANGED <<clock, cleaned, prepared, metrics, etl, mutations, pc, window, attempt, faults>>

\* Time passes, but never beyond the latest time a row may become visible.
Tick ==
  /\ clock < MaxClock
  /\ \A r \in Rows : stage[r] = "inflight" => clock < cleaned[r] + MaxLag
  /\ clock' = clock + 1
  /\ UNCHANGED <<source, prepared, metrics, etl, mutations, pc, window, attempt, faults>>

\* A background merge of ReplacingMergeTree(prepared_time) drops a version that
\* a later one of the same key supersedes.
Merge ==
  /\ \E v, w \in prepared :
       /\ v.key = w.key /\ v.ptime < w.ptime
       /\ prepared' = prepared \ {v}
  /\ UNCHANGED <<clock, source, metrics, etl, mutations, pc, window, attempt, faults>>

\* The oldest accepted mutation is applied to the rows it found.
ApplyMutation ==
  /\ mutations # <<>>
  /\ etl' = [s \in DOMAIN etl |->
               IF s \in Head(mutations).rows THEN Head(mutations).ts ELSE etl[s]]
  /\ mutations' = Tail(mutations)
  /\ UNCHANGED <<clock, source, prepared, metrics, pc, window, attempt, faults>>

-----------------------------------------------------------------------------
(* The job. *)

Goto(s, from, to) ==
  /\ pc[s] = from
  /\ pc' = [pc EXCEPT ![s] = to]

\* ensure_tables, the NOT EXISTS subquery. The check and the INSERT that depends
\* on it are two steps: nothing locks etl_state.
NeedsSeed_Always == TRUE
NeedsSeed == DOMAIN etl = {}

EnsureCheck(s) ==
  /\ \/ NeedsSeed /\ Goto(s, "idle", "seed") /\ UNCHANGED attempt
     \/ ~NeedsSeed /\ Goto(s, "idle", "start") /\ attempt' = [attempt EXCEPT ![s] = 0]
  /\ UNCHANGED <<clock, source, prepared, metrics, etl, mutations, window, faults>>

\* The row of a run that lost the race equals the one there is.
EnsureInsert(s) ==
  /\ Goto(s, "seed", "start")
  /\ \/ etl' = [t \in DOMAIN etl \cup {s} |-> IF t = s THEN 0 ELSE etl[t]]
     \/ DropsRepeated /\ DOMAIN etl # {} /\ UNCHANGED etl
  /\ attempt' = [attempt EXCEPT ![s] = 0]
  /\ UNCHANGED <<clock, source, prepared, metrics, mutations, window, faults>>

\* SELECT last_ts ... LIMIT 1: any of the rows, of which an accepted mutation may
\* not have been applied yet.
ReadLast(s) ==
  /\ Goto(s, "start", "upper")
  /\ \/ mutations = <<>> /\ UNCHANGED faults
     \/ mutations # <<>> /\ faults < MaxFaults /\ faults' = faults + 1
  /\ \E t \in DOMAIN etl : last' = [last EXCEPT ![s] = etl[t]]
  /\ UNCHANGED <<clock, source, prepared, metrics, etl, mutations, upper, ptime, batch, attempt>>

\* SELECT now64(3) - INTERVAL 10 SECOND.
UpperTs_NoDelay == clock
UpperTs == clock - SafetyDelay

ReadUpper(s) ==
  /\ Goto(s, "upper", "insert")
  /\ upper' = [upper EXCEPT ![s] = UpperTs]
  /\ UNCHANGED <<clock, source, prepared, metrics, etl, mutations, last, ptime, batch, attempt, faults>>

\* The visible rows of (last_ts, upper_ts].
Selected_OpenEnd(s) ==
  {r \in Rows : stage[r] = "visible" /\ last[s] < cleaned[r] /\ cleaned[r] < upper[s]}
Selected(s) ==
  {r \in Rows : stage[r] = "visible" /\ last[s] < cleaned[r] /\ cleaned[r] <= upper[s]}

\* INSERT INTO prepared_events begins: its snapshot of valid_events and its
\* now64(3) are fixed ...
InsertBegin(s) ==
  /\ Goto(s, "insert", "commit")
  /\ batch' = [batch EXCEPT ![s] = Selected(s)]
  /\ ptime' = [ptime EXCEPT ![s] = clock]
  /\ UNCHANGED <<clock, source, prepared, metrics, etl, mutations, last, upper, attempt, faults>>

\* Copies of an event selected by one INSERT have the same key and the same
\* prepared_time: they are one version.
VersionsOf_NoKey(s, rows) == {[key |-> r, ptime |-> ptime[s]] : r \in rows}
VersionsOf(s, rows) == {[key |-> KeyOf[r], ptime |-> ptime[s]] : r \in rows}

\* ... and its part becomes visible.
InsertCommit(s) ==
  /\ Goto(s, "commit", "aggregate")
  /\ prepared' = prepared \cup VersionsOf(s, batch[s])
  /\ UNCHANGED <<clock, source, metrics, etl, mutations, window, attempt, faults>>

\* The versions that the aggregate query reads: by prepared_time, without FINAL.
InWindow_OpenEnd(s) == {v \in prepared : last[s] < v.ptime /\ v.ptime < upper[s]}
InWindow(s) == {v \in prepared : last[s] < v.ptime /\ v.ptime <= upper[s]}

\* The block that the aggregate query inserts: it shows groups and numbers, not keys.
BlockOf(s) == [g \in Groups |-> Cardinality({v \in InWindow(s) : GroupOf[v.key] = g})]

\* INSERT INTO session_metrics_5m SELECT ... count() ... GROUP BY; the
\* SummingMergeTree adds the new counts to the old, unless the table, being
\* replicated, takes the block for a repetition of an earlier one.
Aggregate(s) ==
  /\ Goto(s, "aggregate", "watermark")
  /\ \/ /\ counted' = [k \in Keys |->
             Capped(counted[k] + Cardinality({v \in InWindow(s) : v.key = k}))]
        /\ blocks' = IF DropsRepeated THEN blocks \cup {BlockOf(s)} ELSE blocks
        /\ UNCHANGED dropped
     \/ /\ DropsRepeated /\ BlockOf(s) \in blocks
        /\ dropped' = dropped \cup {v.key : v \in InWindow(s)}
        /\ UNCHANGED <<counted, blocks>>
  /\ UNCHANGED <<clock, source, prepared, etl, mutations, window, attempt, faults>>

\* ALTER TABLE etl_state UPDATE: accepted now, applied later.
NewMark_Now(s) == clock
NewMark_Old(s) == last[s]
NewMark(s) == upper[s]

UpdateWatermark(s) ==
  /\ Goto(s, "watermark", "finish")
  /\ Len(mutations) < MaxPending
  /\ mutations' = Append(mutations, [rows |-> DOMAIN etl, ts |-> NewMark(s)])
  /\ UNCHANGED <<clock, source, prepared, metrics, etl, window, attempt, faults>>

\* The locals of dedup_prepare_aggregate die with the call.
ClearLocals(s) ==
  /\ last' = [last EXCEPT ![s] = 0]
  /\ upper' = [upper EXCEPT ![s] = 0]
  /\ ptime' = [ptime EXCEPT ![s] = 0]
  /\ batch' = [batch EXCEPT ![s] = {}]

Finish(s) ==
  /\ Goto(s, "finish", "idle")
  /\ attempt' = [attempt EXCEPT ![s] = 0]
  /\ ClearLocals(s)
  /\ UNCHANGED <<clock, source, prepared, metrics, etl, mutations, faults>>

\* Airflow tries a failed task again from its first line, Retries times; then
\* the run is over and the next scheduled one starts afresh.
Retry(s) ==
  \/ /\ attempt[s] < Retries
     /\ pc' = [pc EXCEPT ![s] = IF pc[s] = "seed" THEN "idle" ELSE "start"]
     /\ attempt' = [attempt EXCEPT ![s] = @ + 1]
  \/ /\ attempt[s] >= Retries
     /\ pc' = [pc EXCEPT ![s] = "idle"]
     /\ attempt' = [attempt EXCEPT ![s] = 0]

\* The task fails before, after or half way through a query: of the versions an
\* unfinished INSERT writes, any part may be stored.
FailTask(s) ==
  /\ pc[s] # "idle"
  /\ faults < MaxFaults
  /\ faults' = faults + 1
  /\ Retry(s)
  /\ \/ pc[s] # "commit" /\ UNCHANGED prepared
     \/ /\ pc[s] = "commit"
        /\ \E part \in SUBSET batch[s] : prepared' = prepared \cup VersionsOf(s, part)
  /\ ClearLocals(s)
  /\ UNCHANGED <<clock, source, metrics, etl, mutations>>

-----------------------------------------------------------------------------

Job(s) ==
  \/ EnsureCheck(s) \/ EnsureInsert(s)
  \/ ReadLast(s) \/ ReadUpper(s)
  \/ InsertBegin(s) \/ InsertCommit(s)
  \/ Aggregate(s) \/ UpdateWatermark(s) \/ Finish(s)

Next ==
  \/ \E r \in Rows : Arrive(r) \/ Publish(r)
  \/ Tick \/ Merge \/ ApplyMutation
  \/ \E s \in Slots : Job(s) \/ FailTask(s)

Spec == Init /\ [][Next]_vars

\* Airflow keeps scheduling runs and executes the queries of each, ClickHouse
\* applies mutations and makes rows visible, the clock advances. A failure, a
\* merge or an arrival need never happen.
Fairness ==
  /\ \A r \in Rows : WF_vars(Publish(r))
  /\ WF_vars(Tick) /\ WF_vars(ApplyMutation)
  /\ \A s \in Slots : WF_vars(Job(s))

FairSpec == Spec /\ Fairness

-----------------------------------------------------------------------------
(* What the job promises. *)

TypeOK ==
  /\ clock \in Nat
  /\ stage \in [Rows -> Stages]
  /\ cleaned \in [Rows -> Nat]
  /\ prepared \subseteq Version /\ IsFiniteSet(prepared)
  /\ counted \in [Keys -> Nat] /\ blocks \subseteq [Groups -> Nat]
  /\ dropped \subseteq Keys
  /\ DOMAIN etl \subseteq Slots /\ etl \in [DOMAIN etl -> Int]
  /\ mutations \in Seq([rows : SUBSET Slots, ts : Int])
  /\ pc \in [Slots -> Steps]
  /\ last \in [Slots -> Int]
  /\ upper \in [Slots -> Int]
  /\ ptime \in [Slots -> Nat]
  /\ batch \in [Slots -> SUBSET Rows]
  /\ attempt \in [Slots -> Nat]
  /\ faults \in Nat

IsPrepared(k) == \E v \in prepared : v.key = k

\* Every row stamped up to t, visible or not, has its event in prepared_events.
PreparedUpTo(t) ==
  \A r \in Rows : stage[r] # "absent" /\ cleaned[r] <= t => IsPrepared(KeyOf[r])

\* Nothing is skipped: no watermark, stored or accepted, is at or past a row
\* whose event is not in prepared_events. Such a row would never be selected
\* again. It must survive overlapping runs, retries, a watermark that a slower
\* run moves back, late mutations, and two rows in etl_state.
NoSkippedRow ==
  /\ \A s \in DOMAIN etl : PreparedUpTo(etl[s])
  /\ \A i \in DOMAIN mutations : PreparedUpTo(mutations[i].ts)

\* An event was counted, or else the table took a block with it for a repetition of
\* an earlier one, and that one counted an event of the same group.
HasCount(k) ==
  \/ counted[k] > 0
  \/ k \in dropped /\ \E j \in Keys : GroupOf[j] = GroupOf[k] /\ counted[j] > 0

\* Nothing is left out of the aggregates but by a dropped block: of a version of
\* prepared_events whose prepared_time the watermark has passed, the event was
\* counted, or was in a block dropped as a repetition of one about its group. The
\* aggregate query looks at prepared_time, which is always newer than the window of
\* the run that wrote it, so a later run has to count it, whatever failed before.
\* It holds of runs that do not overlap.
NoUncountedVersion ==
  \A v \in prepared :
    (\E s \in DOMAIN etl : v.ptime <= etl[s]) => HasCount(v.key)

\* As long as no task failed and no run read a stale watermark, the windows of
\* consecutive runs are disjoint, so an event is counted no more often than copies
\* of it arrived.
CountedOncePerCopy ==
  faults = 0 => \A k \in Keys :
    counted[k] <= Cardinality({r \in Rows : KeyOf[r] = k /\ stage[r] # "absent"})

\* A run that follows another, retried or not, never moves the watermark back.
WatermarkAdvances ==
  [][\A s \in DOMAIN etl : etl'[s] >= etl[s]]_vars

\* A visible row is eventually prepared, however many runs fail in between
\* within the bound, whoever moves the watermark.
EventuallyPrepared ==
  \A r \in Rows : stage[r] = "visible" ~> IsPrepared(KeyOf[r])

\* The last instant that a window of this bounded clock can reach.
Horizon == MaxClock - SafetyDelay

\* A prepared event is eventually counted, or in a block dropped as the repetition
\* of one about its group, unless a later version of it lies beyond the horizon of
\* the model.
EventuallyCounted ==
  \A k \in Keys :
    IsPrepared(k) ~> \/ HasCount(k)
                     \/ \E v \in prepared : v.key = k /\ v.ptime > Horizon

\* The watermarks in force: the rows of etl_state and the values on their way
\* into it.
Watermarks ==
  {etl[s] : s \in DOMAIN etl} \cup {mutations[i].ts : i \in DOMAIN mutations}

\* The job implements the abstract incremental copy: its tables, seen as the
\* time stamps written, the keys copied and the marks in force, change only as
\* IncrementalCopy allows. In particular rows are stamped past every watermark,
\* merges and failed INSERTs lose no key, and a watermark is accepted only when
\* the rows up to it are copied.
Abstract == INSTANCE IncrementalCopy WITH
  stamp <- cleaned, copied <- {v.key : v \in prepared}, marks <- Watermarks

ImplementsIncrementalCopy == Abstract!Spec

\* README.md:235 names deduplication among the results of the project: an event
\* that was delivered twice is one event in the aggregates.
NoKeyCountedTwice == \A k \in Keys : counted[k] <= 1
=============================================================================
