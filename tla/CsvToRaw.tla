------------------------------ MODULE CsvToRaw ------------------------------
(***************************************************************************)
(* DAG 01, airflow/dags/dag_01_csv_to_raw.py: the csv objects of a bucket  *)
(* are inserted into raw_events, each of them once as far as the ledger    *)
(* ingested_objects tells. Three things make that hard: the insert and its *)
(* mark are two statements; every statement goes to the first host that    *)
(* answers, and the ledger, unlike raw_events, is created on that host     *)
(* alone and is not replicated; and a failed task is tried again with the  *)
(* list of objects that an earlier task left in XCom.                      *)
(*                                                                         *)
(* An object stands for all its rows: its block is written as a whole.     *)
(*                                                                         *)
(* A definition named X_Y is X with the defect Y: no action uses it; it is *)
(* there to show that the properties tell X from it.                       *)
(***************************************************************************)
EXTENDS Integers, FiniteSets

CONSTANTS
  NumObjects,    \* csv objects, numbered in the order of a listing
  NumHosts,      \* CLICKHOUSE_HOSTS, in the order in which they are tried
  Slots,         \* runs of the DAG that may be active at the same time
  Retries,       \* default_args["retries"]
  Repeatable,    \* objects of which a repeated INSERT makes the same block, which
                 \* raw_events, being replicated, may drop
  MaxDowns,      \* bound on the number of outages of a host
  MaxFailures,   \* bound on the number of task failures with all hosts well
  CopyCap        \* bound: counting of copies stops here

Objects == 1 .. NumObjects
Hosts == 1 .. NumHosts

ASSUME SizesAssumption ==
  /\ NumObjects \in Nat /\ NumHosts \in Nat \ {0} /\ CopyCap \in Nat \ {0}
  /\ Retries \in Nat /\ MaxDowns \in Nat /\ MaxFailures \in Nat
  /\ IsFiniteSet(Slots)
ASSUME RepeatableAssumption == Repeatable \subseteq Objects

VARIABLES
  bucket,     \* the objects in MinIO
  up,         \* [Hosts -> BOOLEAN]: the host answers
  created,    \* [Hosts -> BOOLEAN]: ingested_objects exists there
  ledger,     \* [Hosts -> SUBSET Objects]: ingested_objects
  raw,        \* [Objects -> Nat]: how often the rows are in raw_events
  classified, \* [Objects -> Nat]: how often the views passed them to valid/invalid_events
  pc,         \* [Slots -> Steps]
  listed,     \* [Slots -> SUBSET Objects]: the XCom value of list_minio
  toLoad,     \* [Slots -> SUBSET Objects]: to_load, less what is done
  mine,       \* [Slots -> SUBSET Objects]: stored under this run's ingest_run_id
  attempt,    \* [Slots -> Nat]: retries used by the current task
  downs, failures

database == <<created, ledger, raw, classified>>
run == <<pc, listed, toLoad, mine, attempt>>
faults == <<downs, failures>>
vars == <<bucket, up, database, run, faults>>

Steps == {"idle", "list", "read", "insert", "mark"}

Init ==
  /\ bucket = {}
  /\ up = [h \in Hosts |-> TRUE]
  /\ created = [h \in Hosts |-> FALSE]
  /\ ledger = [h \in Hosts |-> {}]
  /\ raw = [o \in Objects |-> 0]
  /\ classified = [o \in Objects |-> 0]
  /\ pc = [s \in Slots |-> "idle"]
  /\ listed = [s \in Slots |-> {}]
  /\ toLoad = [s \in Slots |-> {}]
  /\ mine = [s \in Slots |-> {}]
  /\ attempt = [s \in Slots |-> 0]
  /\ downs = 0 /\ failures = 0

-----------------------------------------------------------------------------
(* The surroundings. *)

\* The generator uploads an object under a new name.
Put(o) ==
  /\ o \notin bucket
  /\ bucket' = bucket \cup {o}
  /\ UNCHANGED <<up, database, run, faults>>

HostDown(h) ==
  /\ up[h] /\ downs < MaxDowns
  /\ up' = [up EXCEPT ![h] = FALSE]
  /\ downs' = downs + 1
  /\ UNCHANGED <<bucket, database, run, failures>>

HostUp(h) ==
  /\ ~up[h]
  /\ up' = [up EXCEPT ![h] = TRUE]
  /\ UNCHANGED <<bucket, database, run, faults>>

-----------------------------------------------------------------------------
(* The DAG. *)

First(S) == CHOOSE x \in S : \A y \in S : x <= y

\* _get_client, called for every statement.
Reachable == \E h \in Hosts : up[h]
Chosen == First({h \in Hosts : up[h]})

LedgerExists == Reachable /\ created[Chosen]

Goto(s, from, to) ==
  /\ pc[s] = from
  /\ pc' = [pc EXCEPT ![s] = to]

\* Task 0. CREATE TABLE IF NOT EXISTS, without ON CLUSTER.
Ensure(s) ==
  /\ Goto(s, "idle", "list")
  /\ Reachable
  /\ created' = [created EXCEPT ![Chosen] = TRUE]
  /\ UNCHANGED <<bucket, up, ledger, raw, classified, listed, toLoad, mine, attempt, faults>>

\* Task 1.
List(s) ==
  /\ Goto(s, "list", "read")
  /\ listed' = [listed EXCEPT ![s] = bucket]
  /\ attempt' = [attempt EXCEPT ![s] = 0]
  /\ UNCHANGED <<bucket, up, database, toLoad, mine, faults>>

\* Task 2 reads the ledger ...
Known_None == {}
Known_Seen == bucket
Known == ledger[Chosen]

ReadExisting(s) ==
  /\ Goto(s, "read", "insert")
  /\ LedgerExists
  /\ toLoad' = [toLoad EXCEPT ![s] = listed[s] \ Known]
  /\ UNCHANGED <<bucket, up, database, listed, mine, attempt, faults>>

\* ... inserts the next object: views and table in one statement, unless
\* raw_events has the same block of this run and drops it ...
Plus(count, o) == [count EXCEPT ![o] = IF @ < CopyCap THEN @ + 1 ELSE @]

Store(s, o) ==
  \/ /\ o \in Repeatable /\ o \in mine[s]
     /\ UNCHANGED <<raw, classified, mine>>
  \/ /\ raw' = Plus(raw, o)
     /\ classified' = Plus(classified, o)
     /\ mine' = [mine EXCEPT ![s] = @ \cup {o}]

Insert(s) ==
  /\ Goto(s, "insert", "mark")
  /\ toLoad[s] # {} /\ Reachable
  /\ Store(s, First(toLoad[s]))
  /\ UNCHANGED <<bucket, up, created, ledger, listed, toLoad, attempt, faults>>

\* ... and marks it.
Marked_All(s) == toLoad[s]
Marked(s) == {First(toLoad[s])}

Mark(s) ==
  /\ Goto(s, "mark", "insert")
  /\ LedgerExists
  /\ ledger' = [ledger EXCEPT ![Chosen] = @ \cup Marked(s)]
  /\ toLoad' = [toLoad EXCEPT ![s] = @ \ {First(@)}]
  /\ UNCHANGED <<bucket, up, created, raw, classified, listed, mine, attempt, faults>>

\* The run is over: its values are gone and its ingest_run_id is not used again.
EndRun(s) ==
  /\ pc' = [pc EXCEPT ![s] = "idle"]
  /\ listed' = [listed EXCEPT ![s] = {}]
  /\ toLoad' = [toLoad EXCEPT ![s] = {}]
  /\ mine' = [mine EXCEPT ![s] = {}]
  /\ attempt' = [attempt EXCEPT ![s] = 0]

\* Nothing is left to load; task 3 counts and prints.
Finish(s) ==
  /\ pc[s] = "insert" /\ toLoad[s] = {}
  /\ EndRun(s)
  /\ UNCHANGED <<bucket, up, database, faults>>

\* What a statement that raises may have done: nothing, all of it, or, for an
\* insert, all but the work of the views.
Effects == {"nothing", "all", "table only"}

Effect(s, e) ==
  \/ /\ e = "nothing"
     /\ UNCHANGED <<ledger, raw, classified>>
  \/ /\ e # "nothing" /\ pc[s] = "insert" /\ toLoad[s] # {}
     /\ First(toLoad[s]) \in Repeatable \cap mine[s]
     /\ UNCHANGED <<ledger, raw, classified>>
  \/ /\ e # "nothing" /\ pc[s] = "insert" /\ toLoad[s] # {}
     /\ raw' = Plus(raw, First(toLoad[s]))
     /\ classified' = IF e = "all" THEN Plus(classified, First(toLoad[s])) ELSE classified
     /\ UNCHANGED ledger
  \/ /\ e = "all" /\ pc[s] = "mark" /\ LedgerExists
     /\ ledger' = [ledger EXCEPT ![Chosen] = @ \cup Marked(s)]
     /\ UNCHANGED <<raw, classified>>

MineAfter(s, e) ==
  IF pc[s] = "insert" /\ e # "nothing" THEN mine[s] \cup {First(toLoad[s])} ELSE mine[s]

\* The task starts again from its first line; only its XCom input survives. When
\* the retries are used up, the run has failed.
RetriesLeft_OneMore(s) == attempt[s] <= Retries
RetriesLeft(s) == attempt[s] < Retries

Retry(s, e) ==
  \/ /\ RetriesLeft(s)
     /\ pc' = [pc EXCEPT ![s] = IF @ = "list" THEN "list" ELSE "read"]
     /\ attempt' = [attempt EXCEPT ![s] = @ + 1]
     /\ mine' = [mine EXCEPT ![s] = MineAfter(s, e)]
     /\ toLoad' = [toLoad EXCEPT ![s] = {}]
     /\ UNCHANGED listed
  \/ ~RetriesLeft(s) /\ EndRun(s)

\* A statement fails for a reason of its own ...
FailStatement(s) ==
  /\ pc[s] # "idle" /\ Reachable
  /\ failures < MaxFailures
  /\ failures' = failures + 1
  /\ \E e \in Effects : Effect(s, e) /\ Retry(s, e)
  /\ UNCHANGED <<bucket, up, created, downs>>

\* ... or because no host answers, or because the one that does has no ledger.
FailUnavailable(s) ==
  /\ \/ pc[s] \in {"read", "mark"} /\ ~LedgerExists
     \/ pc[s] = "insert" /\ toLoad[s] # {} /\ ~Reachable
  /\ Retry(s, "nothing")
  /\ UNCHANGED <<bucket, up, database, faults>>

-----------------------------------------------------------------------------

Task(s) == Ensure(s) \/ List(s) \/ ReadExisting(s) \/ Insert(s) \/ Mark(s) \/ Finish(s)

Next ==
  \/ \E o \in Objects : Put(o)
  \/ \E h \in Hosts : HostDown(h) \/ HostUp(h)
  \/ \E s \in Slots : Task(s) \/ FailStatement(s) \/ FailUnavailable(s)

Spec == Init /\ [][Next]_vars

\* Airflow keeps starting runs and carries each on, to its next statement or to
\* the failure it cannot avoid; a host that is down comes back.
FairSpec ==
  /\ Spec
  /\ \A s \in Slots : WF_vars(Task(s) \/ FailUnavailable(s))
  /\ \A h \in Hosts : WF_vars(HostUp(h))

-----------------------------------------------------------------------------
(* Properties. *)

TypeOK ==
  /\ bucket \subseteq Objects
  /\ up \in [Hosts -> BOOLEAN] /\ created \in [Hosts -> BOOLEAN]
  /\ ledger \in [Hosts -> SUBSET Objects]
  /\ \A h \in Hosts : ledger[h] # {} => created[h]
  /\ raw \in [Objects -> 0 .. CopyCap] /\ classified \in [Objects -> 0 .. CopyCap]
  /\ pc \in [Slots -> Steps]
  /\ listed \in [Slots -> SUBSET bucket]
  /\ toLoad \in [Slots -> SUBSET bucket] /\ mine \in [Slots -> SUBSET bucket]
  /\ \A s \in Slots : toLoad[s] \subseteq listed[s] /\ mine[s] \subseteq listed[s]
  /\ \A s \in Slots : pc[s] = "mark" => toLoad[s] # {}
  /\ attempt \in [Slots -> 0 .. Retries]
  /\ downs \in 0 .. MaxDowns /\ failures \in 0 .. MaxFailures

\* No object is marked before its rows are stored: a marked object is never
\* loaded again. Marks of other runs, failures between the insert and the mark
\* and fail-over to a host with another ledger do not change that. Its rows have
\* passed the views as well, unless the block of the retry is dropped as a
\* repetition, which leaves the views out; and each object that is stored and not
\* classified has a failed task of its own: without failures there is none, and
\* no later run, outage or overlap adds to them.
Unclassified == {o \in Objects : raw[o] > 0 /\ classified[o] = 0}

MarkedIsDone ==
  /\ \A h \in Hosts : \A o \in ledger[h] :
       raw[o] > 0 /\ (classified[o] > 0 \/ o \in Repeatable)
  /\ Cardinality(Unclassified) <= failures

\* Rows are stored again only for a reason: each task failure may repeat one
\* insert, and overlapping runs and each change to another host, away or back,
\* one per run.
CopiesExplained ==
  \A o \in Objects :
    raw[o] <= failures + Cardinality(Slots) * (1 + 2 * downs)

\* Every object is eventually loaded and marked, whatever fails in between.
EventuallyMarked ==
  \A o \in Objects : o \in bucket ~> \E h \in Hosts : o \in ledger[h]
=============================================================================
