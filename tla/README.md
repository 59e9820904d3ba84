# Clickstream pipeline: TLA+ specifications

This directory holds TLA+ models of the clickstream system in `src/`, the TLC
configurations that check them on small instances, and proofs that TLAPS checks.
The models follow the code, not its documentation; where the two disagree, a run
shows it (see *Where the documentation says something else*).

* [1. The system](#1-the-system)
* [2. Modules, and how they correspond to the code](#2-modules-and-how-they-correspond-to-the-code)
* [3. What the runs check](#3-what-the-runs-check)
* [4. Fairness](#4-fairness)
* [5. What is proved](#5-what-is-proved)
* [6. What is not modelled](#6-what-is-not-modelled)
* [7. Plan](#7-plan)

## 1. The system

A generator produces events. They reach the ClickHouse table `raw_events` on three
paths; two views split them into `valid_events` and `invalid_events`; three Airflow
DAGs load, deduplicate and aggregate.

```
generator-http  --POST /events-->  API server --INSERT, failover-->  raw_events
generator-kafka --topic-->  raw_events_kafka, mv_kafka_to_raw  --->  raw_events
generator-csv   --mc cp--> MinIO bucket --DAG 01, ledger ingested_objects--> raw_events

raw_events --mv_raw_to_valid-->   valid_events --DAG 02, watermark--> prepared_events
           --mv_raw_to_invalid--> invalid_events                        |
                                            DAG 02: session_metrics_5m <+> DAG 03: five marts
```

| component | state it keeps | operations | who else touches it | what makes it correct |
|---|---|---|---|---|
| DAG 02 `dag_02_dedup_prepare_aggregate.py` | `etl_state` (watermark), `prepared_events`, `session_metrics_5m`, locals of the task | seed the watermark, read it, close a window, copy, aggregate, advance the watermark | the views write `valid_events`; merges and mutations run in the background; other runs of the DAG | no row is skipped for ever; every prepared version is aggregated; the watermark advances |
| API server `http_server.cpp`, `event_handler.cpp`, `json.cpp` | the connection being served | accept, read once, parse, validate the batch, insert row by row, respond | clients; ClickHouse | what a response says is true of `raw_events`; every request is answered |
| ClickHouse client `clickhouse_client.cpp` | `current_`, the url that worked last | insert a row, failing over along a ring of urls | the two ClickHouse servers | success means stored; no url is tried twice; it gives up last |
| Generator, HTTP `main.cpp`, `http_client.cpp` | batch, counters `ok`, `fail` | produce, post, account | the API | counters mean what they say |
| Generator, CSV `main.cpp` | local file, stream state, counter | write, rotate (upload, truncate), final upload | MinIO; the restart policy | rows are uploaded; an object is never overwritten |
| Generator, Kafka `kafka_producer.cpp` | librdkafka's queue, counters | queue, deliver, expire, flush | brokers | what is counted as sent is accounted for |
| Kafka ingestion `001_init.sql` | committed offset, block under way | poll, insert, commit, rebalance | both ClickHouse nodes | committed means stored |
| DAG 01 `dag_01_csv_to_raw.py` | `ingested_objects` on one host, XCom list, `to_load` | create the ledger, list, read the ledger, insert, mark | the generator uploads; hosts go down; overlapping runs | marked means stored; every object is loaded |
| Views `mv_raw_to_valid`, `mv_raw_to_invalid` | none | classify and stamp a row | every writer of `raw_events` | the same verdict on every path |
| DAG 03 `dag_03_fill_analytics_marts.py` | five marts, a watermark no query reads | recompute a window of days, mart by mart | DAG 02 and the views write what it reads; overlapping runs; midnight | a run leaves the marts as computed anew; older numbers do not come back |
| Events on the wire `event.cpp`, `event_utils.hpp` | none | build an event, check it, turn it into a row | API, `mv_kafka_to_raw`, DAG 01 | the same event is the same row on every path |
| Metrics `metrics.cpp` | counters | count, print | the API server | |

What is hard about it:

* *Time*. DAG 02 relies on `cleaned_time`, which a row gets when the view runs, before
  the row is visible. A window that closes in between would skip the row for ever;
  `safety_delay_sec = 10` is there to prevent it.
* *Overlap and retries*. Nothing sets `max_active_runs`, so runs of a DAG may overlap.
  Tasks are retried twice, from their first line, after a failure anywhere.
* *Asynchrony of ClickHouse*. `ALTER ... UPDATE` is accepted now and applied later;
  merges remove superseded versions at any time; replicated tables drop repeated blocks.
* *Ambiguous outcomes*. A lost reply of ClickHouse, of MinIO or of a Kafka broker leaves
  the work done and the caller believing that it is not.
* *State on one host*. The ledger of DAG 01 is not replicated, while every statement goes
  to the first host that answers.
* *One thread*. The API server serves one connection at a time, with blocking calls, one
  of them a `curl` that is given no time limit.
* *The same rule written several times*. What a valid event is, is said by the API, by two
  views and by an error message; which key holds a field, by the API, `mv_kafka_to_raw` and
  DAG 01.
* *A second is long*. The marts keep, of two rows with one key, the one with the later
  `calculated_at`, which has no fractions of a second.

`PROJECT.json` lists these hazards one by one, each at its line, with the properties
that would notice it going wrong.

## 2. Modules, and how they correspond to the code

In every module an operator named `X_Y` is `X` with the defect `Y`
(`UpperTs_NoDelay`, `Marked_All`). No action uses it. Replacing `X` by it violates a
property, which shows that the property depends on the code doing `X`.

### `DedupPrepare` (DAG 02), `IncrementalCopy` (what it promises)

One action per query of the job, because others write between any two of them.

| action | code |
|---|---|
| `EnsureCheck`, `EnsureInsert` | `ensure_tables`: `INSERT ... WHERE NOT EXISTS`, a check and an act |
| `ReadLast`, `ReadUpper` | the watermark and `now64(3) - INTERVAL 10 SECOND` |
| `InsertBegin`, `InsertCommit` | the copy into `prepared_events`: snapshot and `now64(3)`, then the part |
| `Aggregate` | the insert into `session_metrics_5m`, selecting by `prepared_time`, without `FINAL` |
| `UpdateWatermark`, `ApplyMutation` | `ALTER TABLE etl_state UPDATE`, accepted and applied |
| `FailTask`, `Finish` | a failure before, after or half way through a query, with its retry; the end |
| `Arrive`, `Publish`, `Tick`, `Merge` | the views, the visibility of a row, the clock, merges |

`Slots` are the runs that may be active at a time. A row is an element of `Rows`; its
`dedup_key` is `KeyOf`. Two rows with one key are two deliveries of one event.
`GroupOf` maps a key to what an aggregated row tells of it (session, 5 minutes, kind):
blocks of `session_metrics_5m` are compared by groups and numbers. `faults` counts task
failures and reads of a watermark that an accepted mutation had not reached yet.
Columns that only carry data, and the ClickHouse host chosen for a query, are left out.

`IncrementalCopy` is the promise: rows with increasing stamps are written, their keys
are copied and never removed, and a mark is set only when all rows up to it are copied.
`ImplementsIncrementalCopy` maps `cleaned` to `stamp`, the keys of `prepared_events` to
`copied`, and the values in `etl_state` or on their way into it to `marks`.

### `ClickHouseClient` (one insert) and `HttpIngest` (the HTTP path)

`ClickHouseClient` is the loop of `insert_raw_event` over `urls_`. An outcome is one of
seven: stored and acknowledged, refused, stored but unheard, rejected with another error,
stored in `raw_events` with a failing view, and, with the row stored or not, a `curl` that
never ends, because the other side accepted the connection and does not answer: the call is
`hung` from then on, and with it the server. The list of retryable errors decides only
whether the loop goes on, so two of the seven are retryable.

`HttpIngest` takes it as an instance and holds the assumptions on its constants. Clients are the loop of the generator: produce,
`Connect`, `Send`, then `Receive` (a response, or a connection that broke) or
`ConnectFails`, each of which accounts for the whole batch. The server is the accept loop: `Accept`,
`ReadAndValidate`, `InsertNext`/`InsertAttempt`/`InsertReturn`, `InsertDone`, `Respond`.
One `read` of at most 8191 bytes returns a prefix of the batch. `Parsed` is what
`parse_json_array` makes of it: the events that are complete, and possibly the inner
object of the event that was cut, which has the wrong keys. `WholeReads` are the clients
whose requests fit into one read.

### `CsvRotation` (CSV sink) and `CsvToRaw` (DAG 01)

`CsvRotation` is the loop of the generator with `maybe_upload_rotate`: `WriteRow`
(which may hit a failing disk), `SkipRotation`, `Upload`, `UploadFails` (with or without
the object stored), `Truncate`, `Restart`. The name of an object is a triple of seconds,
counter and salt, as in the code.

`CsvToRaw` has one action per statement: `Ensure`, `List`, `ReadExisting`, `Insert`,
`Mark`, `Finish`; `FailStatement` and `FailUnavailable` with `Retry`; `HostDown`,
`HostUp`, `Put`. An object stands for all its rows. `Chosen` is `_get_client`.
`Repeatable` are the objects of which a repeated insert makes an equal block, which the
replicated `raw_events` may drop.

### `KafkaIngest` (Kafka path)

`Send` is `KafkaProducer::send`; `Deliver`, `Expire`, `StartFlush`, `FlushDone` and
`FlushTimeout` are librdkafka as the code uses it, without a delivery callback.
`Assign`, `Poll`, `Insert`, `Commit` and `InsertFails` are the Kafka table of two nodes in
one consumer group. librdkafka, the broker and the Kafka engine are not part of the
repository; they are modelled as the code configures them and marked external in
`PROJECT.json`. The topic is one partition: offsets of different partitions do not
interact, and the events of one partition have an order.

### `Validation` (what becomes of the contents)

The other modules treat an event as a name. Here it is a record of the fields that some
check looks at, each reduced to the values the checks tell apart (`user_id` is absent, a
text or a number; `event_type` is an allowed type, an alias such as `PAGE_VIEW`, another
one or absent; `device_id` is the one sent, the API's default or, from csv, the
`device_type`). Nothing fails: faults belong to the modules of the paths.

| definition | code |
|---|---|
| `MakeRandomEvent`, `EventToJson`, `CsvRow`, `GeneratorSends` | what the generator puts on each path |
| `ApiError`, `ErrorsOf`, `ApiRow`, `HandleEvent` | the loop of `handle_events`: one turn per event |
| `Refuse`, `InsertRows` | its end: 400 with at most five details, or the inserts, which stop at the first row that ClickHouse cannot read |
| `KafkaRow`, `KafkaToRaw` | `mv_kafka_to_raw`, with what its functions yield (`JSONExtractString` of a number is `''`, never NULL) |
| `CsvToRawRow`, `CsvObjectToRaw` | the `INSERT ... SELECT` of DAG 01 |
| `ToValid`, `ToInvalid`, `ErrorMessage`, `InsertRaw` | `raw_events` and the two views, which run with every insert |

### `Marts` (DAG 03)

A row of a mart is described by the events it was computed from (`from`), those it shows
besides (`beside`: the invalid events of the day, the total of the day, the new users) and
`at`, its `calculated_at`; its numbers are a function of these. `Replace` is
ReplacingMergeTree: the later `at` wins, and among equals the row inserted last.

| action | code |
|---|---|
| `EnsureState`, `ReadWindow` | task `ensure_state`; `upper_ts`, `end_day`, `start_day` and the early returns |
| `Begin`, `Write` | `INSERT INTO ... SELECT`: what is read, and with which `now()`; then the block |
| `UpdateMark` | the watermark, here the set of events it promises |
| `Fail` with `Retry` | a failure before or after the effect of a statement |
| `Tick`, `Arrive` | the clock, over midnight; an event stored by DAG 02 or a view, with any `event_time` |

`fullDaysOnly` is `CLICKSTREAM_MARTS_FULL_DAYS`. The initial rows are the seed of
`001_init.sql`. Two things the model inherits from the code: `last_ts` is read and printed
but selects nothing, and the branch for an empty `prepared_events` is never taken, because
`min()` over no rows is 1970-01-01 in ClickHouse, not NULL.

### `MC_DedupPrepare`, `MC_HttpIngest`, `MC_Marts`, `MC_Validation`

Values of function constants, inputs and symmetry sets for TLC. The other modules are
checked directly.

## 3. What the runs check

Sizes are distinct states.

| run | instance | what it shows |
|---|---|---|
| `dedup_overlap` (1.6 million) | 1 row, 2 runs at a time, 1 retry, 2 faults, clock 3..5 | `NoSkippedRow`, and that the job implements `IncrementalCopy`, under every overlap of two runs, including both of them seeding `etl_state` |
| `dedup_serial` (0.6 million) | 2 events of one group, 1 run at a time, 1 retry, 2 faults, clock 3..8 | `NoUncountedVersion`: what the watermark has passed is aggregated, whatever failed, but for what a dropped block takes with it. `WatermarkAdvances`. `CountedOncePerCopy` while nothing failed. `EventuallyPrepared`, `EventuallyCounted` |
| `dedup_twice` | 3 rows, 2 keys, no faults | a violation: an event delivered twice is counted twice |
| `http_faults` (0.2 million) | 2 clients with 3 events each, batches of 2, 2 urls, all seven outcomes; c1 read in part, c2 whole; one invalid event | `ReplyTruthful`: 200, 400 and 502 are true of `raw_events`. `StoredIsPrefix`, `CopiesWithinUrls`, `OkIsStored`. `EveryRequestAnswered`: only a call of `curl` that never ends keeps a request from being answered. `FailsOverInRing`: no url is tried twice in a call, wherever it starts, and none is left out after network errors |
| `http_accepted` | 1 client, 1 batch of 2 | a violation: 200 for a part of the batch |
| `http_silent` | 2 clients | a violation: a silent client stops the server |
| `csv_overlap` (0.9 million) | 2 objects, 2 hosts, 2 runs at a time, 1 retry, 1 failure, 1 outage | `MarkedIsDone`: marked is stored, and each object that has not passed the views has a failed task of its own. `CopiesExplained`, and `EventuallyMarked` in every overlap of the runs |
| `csv_rotate` (35 thousand) | `--count 0` with up to 6 rows, or `--count 3`; chunks of 2; 2 faults, 1 restart, 2 seconds | `NoRowLost`, `CopiesExplained`, `ObjectsImmutable`, `FinishedIsUploaded`, `EventuallyUploaded`. `LossBounded`: a crash loses at most the rows of one interval and of one more for each failed upload, and a failed write no more than that |
| `kafka_faults` (0.1 million) | 3 events, 2 nodes, queue of 2, polls of 2, 1 lost acknowledgement, 1 expiry, 2 faults | `CommittedIsStored`, `CopiesExplained`, `OkIsAccountedFor`, `EventuallyStored` |
| `validation` (0.6 million) | every combination of fields on each path; batches of up to three of five sample events, and one of seven invalid ones; three events of the generator on all paths at once | `OnePlace`: the views divide the rows. `StoredIsValid`: what the API accepts, the views accept, but for an empty `user_id`. `RepliesTell`: 400, 502 and 200 say what is stored. `SameOnEveryPath`: an event of the generator is the same valid row by HTTP, Kafka and csv, but for its payload, which Kafka loses, and its `device_id`, where csv has the `device_type` |
| `marts` (2 runs at a time) | 4 events over two days, one of them invalid; 1 failure, 1 retry; clock 0..3 with days of 2 seconds, a window of 2 days; both settings of full days | `MarkCovers`: what the watermark promises is in every mart. `QuietRunAgrees`: after an undisturbed run the marts are what a computation from nothing gives, whatever went wrong before. `NeverBack`: no mart forgets an event it showed, but within one second |
| `marts_seeds` | 1 run at a time | a violation: seed rows stay |

Each component's first run also checks its `TypeOK`.

**Bounds, and why they are enough.**
`MaxClock`, `MaxNow`, `ArriveBy`, `MaxFaults`, `MaxPending`, `MaxFailures`, `MaxDowns`, `MaxRuns`,
`MaxProduced`, `MaxLostAcks` and `MaxExpiries` end the behaviours. `CountCap`, `CopyCap`
and `MaxCopies` stop counters above the largest value a property tells apart.
For DAG 02 the ratio of times matters, not the unit: with `SafetyDelay = 2` and
`MaxLag = 1` a row is stamped, becomes visible and falls into a window, each at a time of
its own. Clock 3..5 in `dedup_overlap` gives two runs room to select a row of time 3, to
overtake each other and to repeat windows; rows after it only repeat the pattern, and
`NothingSkipped` is proved for all sizes anyway. `dedup_serial` needs a longer clock: a
version is written behind the window that it is counted in, so two complete windows must
follow the row, and another for the second event to be alone in a block that is dropped;
3..8 gives four.
Two urls are those of `CLICKHOUSE_HTTP_URLS` in `docker-compose.yml`. Two hosts are those of
`CLICKHOUSE_HOSTS`. Batches of 2 instead of 100 have a first, a last, and a place to cut.
Three events make a full batch and a rest. `RotateEvery = 2` instead of 5000 has a chunk
that is not full after a failed upload; 6 rows are three chunks, one more than the two
uploads that may fail. Two runs of the generator tell one salt from another.
In `marts` a day of two seconds lets midnight fall between any two statements, a tie of
`calculated_at` happen or not, and an event arrive late, in time or ahead; a window of two
days has a first and a last one. No statement reads a mart, so the sequence of five is
checked in three parts (`MartOrders`), each with at most two marts.
`validation` needs no bound on the fields: the records are enumerated. Batches of three
have an event before and behind the one that differs; seven errors are more than the five
that a response lists.

**Symmetry** is used in `dedup_overlap` and `marts`, on the slots. These runs check
invariants and properties of single steps only, and no formula names a slot.

**Deadlock** is checked for DAG 01 and DAG 02. It is not for `HttpIngest` (clients stop when
they have produced all events), `CsvRotation` and `KafkaIngest` (bounded production ends),
`Validation` (everything sent has been handled) and `Marts` (the bounded clock ends).

**Premises worth knowing.**
* `NoSkippedRow` needs `MaxLag < SafetyDelay` (`LagAssumption`). The code does not enforce
  it; a view or a replica that takes longer than 10 seconds loses the row.
* `NoUncountedVersion`, `WatermarkAdvances` and `CountedOncePerCopy` hold of runs that do not
  overlap. With two slots TLC finds each violated: a slow run sets the watermark back, a run
  that reads a watermark ahead of its own window leaves versions uncounted, and two runs with
  the same window count what it holds twice (`MaxClock = 7`, `DropsRepeated = FALSE`).
* `NoUncountedVersion` and `EventuallyCounted` take for counted what was in a dropped block
  (`HasCount`): `session_metrics_5m` takes the block of another event of the same group for
  a repetition and drops it. With `counted[k] > 0` in its place TLC finds `NoUncountedVersion`
  violated in `dedup_serial`. So an event is missing from the aggregates only if another of its session,
  window and kind is in them.
* `MarkedIsDone` allows an object of `Repeatable`, which is practically every one that the
  generator writes, to be marked without having passed the views: a failed view is not made
  up for if the retry is dropped as a repeated block. It bounds their number by that of the
  failures, so that without failures there is none.
* `EveryRequestAnswered` exempts the requests behind a `curl` that never ends: no limit is
  set on it (`clickhouse_client.cpp:119`), and one such call stops the server.
* `LossBounded` is about endless runs. A bounded run uploads once, at the end, so all of its
  rows are in the file until then. Rows of earlier runs are not followed; what a crash takes
  is what the file held at that moment.
* `OkIsStored` is about the clients of `WholeReads`; `http_accepted` shows the others.
* `MarkCovers` and `NeverBack` leave `session_quality_daily` aside. A session is counted on
  the day of its first event within the window, so the row of a day loses a session when an
  earlier event arrives or the window begins later; if all sessions leave, no query writes
  the day again and the old row stays. `QuietRunAgrees` says how much is left of it.
* `MarkCovers` needs `SafetyDelay > 0` (`MartsAssumption`); the code has 10. Without a delay
  two runs of one second may fill a mart in either order, and one may not know the event.
* `StoredIsValid` has one exception, an empty `user_id`: the API answers 200 and the views
  put the event into `invalid_events`.

**Where the documentation says something else.** Four runs expect a violation:
* `dedup_twice`: `README.md:235` lists deduplication by ReplacingMergeTree; the aggregate
  query reads `prepared_events` without `FINAL`, and versions counted before a merge stay
  counted.
* `http_accepted`: `docs/diagrams/sequence.puml:22` answers a valid batch with
  `accepted: N`; only what one `read` returned is counted.
* `http_silent`: `README.md:92` says epoll and asynchronous handling; the server is one
  thread with blocking `accept` and `read`.
* `marts_seeds`: `001_init.sql:453` says that the test data of the marts are deleted when
  real ones are filled in; a run inserts only, and a row stays unless a new one has its key.

One more was met and has no run: the docstring of `dedup_prepare_aggregate` says that a run
processes `(last_ts, upper_ts]` of `cleaned_time`, while the aggregate query selects by
`prepared_time`, which is later than `upper_ts` for every version the run itself wrote. The
next run counts them (`NoUncountedVersion`, `EventuallyCounted`).

## 4. Fairness

Weak fairness is assumed of what the surroundings keep doing, never of a fault.

* `DedupPrepare`: Airflow schedules a run every two minutes and executes the queries of
  each (`Job`); ClickHouse applies mutations and makes rows visible; the clock advances.
  No fairness for arrivals, merges or failures. `EventuallyCounted` stops at `Horizon`:
  beyond it the bounded clock leaves no window.
* `HttpIngest`: `ServerFair` is the server thread and a client that receives. It does not
  say that a call of `curl` returns: to hang is an outcome of its own, after which no step
  of the server is enabled. Of a call that does return, fairness says that it is followed up.
  `EveryRequestAnswered` needs `FairSpec`, in which connected clients send; without it
  `http_silent` is violated. That is the point of the two runs.
* `CsvToRaw`: Airflow carries runs on to their next statement, or to the failure they
  cannot avoid; a host that is down comes back.
* `CsvRotation`: the loop goes on. `EventuallyUploaded` is about rows that are followed by
  more rotations than there are faults (`LastSureRow`), in a run that lives.
* `KafkaIngest`: an ownerless partition is assigned and nodes keep consuming. Nothing is
  assumed of delivery.
* `Validation` and `Marts` have safety properties only.

## 5. What is proved

TLAPS checks the modules `*_proofs` for every value of the constants that satisfies the
assumptions named below; TLC evaluates these assumptions in the runs.

| module | theorem | statement |
|---|---|---|
| `DedupPrepare_proofs` | `TypeCorrect` | `Spec => []TypeOK` |
| | `Inductive` | `Spec => []IInv` |
| | `NothingSkipped` | `Spec => []NoSkippedRow` |
| | `Implements` | `Spec => ImplementsIncrementalCopy` |
| `DedupCounting_proofs` | `WatermarkGrows` | `Spec => WatermarkAdvances`, if `OneSlot` |
| | `NothingUncounted` | `Spec => []NoUncountedVersion`, if `OneSlot`, `CountCap > 0` |
| | `NoCopyCountedTwice` | `Spec => []CountedOncePerCopy`, if `OneSlot` |
| `Marts_proofs` | `Inductive` | `Spec => []IInv` |
| | `PromiseKept` | `Spec => []MarkCovers` |
| | `NothingForgotten` | `Spec => NeverBack` |
| | `TypeCorrect` | `Spec => []TypeOK` |
| | `QuietRunShows` | `Spec => []QuietRunAgrees` |
| `HttpIngest_proofs` | `Inductive` | `Spec => []IInv` |
| | `TriesEachUrl` | `Spec => []FailsOverInRing` |
| | `RepliesTruthful` | `Spec => []ReplyTruthful` |
| | `StoredArePrefix` | `Spec => []StoredIsPrefix` |
| | `SuccessesStored` | `Spec => []OkIsStored` |
| | `CopiesBounded` | `Spec => []CopiesWithinUrls` |
| | `TypeCorrect` | `Spec => []TypeOK` |
| `KafkaIngest_proofs` | `Inductive` | `Spec => []IInv` |
| | `TypeCorrect` | `Spec => []TypeOK` |
| | `NothingSkippedByGroup` | `Spec => []CommittedIsStored` |
| | `CopiesCounted` | `Spec => []CopiesExplained` |
| | `SentIsAccountedFor` | `Spec => []OkIsAccountedFor` |
| `CsvRotation_proofs` | `Inductive` | `Spec => []IInv` |
| | `TypeCorrect` | `Spec => []TypeOK` |
| | `RowsKept` | `Spec => []NoRowLost` |
| | `CopiesCounted` | `Spec => []CopiesExplained` |
| | `LossIsBounded` | `Spec => []LossBounded` |
| | `AllUploaded` | `Spec => []FinishedIsUploaded` |
| | `NothingOverwritten` | `Spec => ObjectsImmutable` |
| `CsvToRaw_proofs` | `Inductive` | `Spec => []IInv` |
| | `TypeCorrect` | `Spec => []TypeOK` |
| | `NoMarkBeforeLoad` | `Spec => []MarkedIsDone` |
| | `EveryCopyExplained` | `Spec => []CopiesExplained` |
| `Validation_proofs` | `RowsDivided` | `Spec => []OnePlace` |
| | `TypeCorrect` | `Spec => []TypeOK` |
| | `AcceptedIsValid` | `Spec => []StoredIsValid` |
| | `ResponsesTell` | `Spec => []RepliesTell` |
| | `PathsAgree` | `Spec => []SameOnEveryPath` |

So each property that a run of section 3 finds true is a theorem as well, but for liveness.

### DAG 02

*Assumptions.* `RowsAssumption`, `GroupsAssumption`, `RunAssumption` and `TimeAssumption`
say that the constants have their types (the rows are finitely many) and that the system
starts after the epoch plus the delay; `LagAssumption` is the premise `MaxLag < SafetyDelay`.

*The argument.* `NoSkippedRow` says that no watermark is at or past a row that is not
prepared. It is not inductive: it does not say why the watermark a run is about to write
is safe. `IInv` follows a time through the job, one conjunct per place that keeps it:

1. `Timely`: stamps lie in the past, and a row in flight is at most `MaxLag` old. Hence a
   row that is stamped up to `clock - SafetyDelay` is visible.
2. `StartCovered`: `last_ts` was read from a covered watermark, so rows up to it are
   prepared, whatever other runs did since, because keys are never removed and later rows
   are stamped later.
3. `WindowClosed`: `upper_ts` stays a safety delay behind the clock.
4. `BatchComplete`: therefore the INSERT selected every row of the window. This is the
   step that fails without the delay.
5. `WindowCovered`: after the INSERT everything up to `upper_ts` is prepared: below
   `last_ts` by 2, above it by 4.
6. `MarksCovered`: a watermark, stored or accepted, is an `upper_ts` of a finished INSERT,
   or 0. It is also in the past, so no row to come is stamped at or before it.

Failures, retries, overlap, late mutations and merges preserve each part separately, which
is why the theorem needs no bound on them. A merge removes a version only when a later one
of the same key stays (`IsPrepared` is kept). `Implements` follows from the same invariant:
`MarksCovered` gives the step of `Mark`, `Timely` with `MarksCovered` that of `Write`.

*Counting.* What DAG 02 aggregates is true of runs that do not overlap only (section 3), so
the three theorems of `DedupCounting_proofs` say so: `OneSlot` is a single slot, with any
number of runs one after another, of failures and retries. They build on `IInv`.

* `OrderInv`: the watermarks in force, the stored one and then those accepted, are in the
  order in which they will be applied, and none is past the end of the window under way. So
  a mutation that is applied late does not set the watermark back. `Seeded` and `SeedOnce`
  are about the first run, which inserts the only row of `etl_state`.
* `CountingInv`: up to each of these times every version is counted, and what a run is
  storing lies behind all of them (`CommitLater`). Hence a retry may read any of them and
  leave nothing out. A block that is dropped as a repetition equals one that was stored, so
  each of its keys shares its group with a key that was counted with that block
  (`BlocksCounted`), and that stays so (`SharesStay`). Nothing is assumed of how keys are grouped. `CountCap > 0`: the
  model's counter tells counted from not counted.
* `OnceInv`: while nothing failed, what is counted of a key and the versions that still wait
  to be counted are no more than the rows of the key that were copied (`Budget`). A row adds
  one version at most, and a version that is counted falls behind the watermark before the
  next window.

### DAG 03

*Assumptions.* `MartsAssumption`, of which `SafetyDelay > 0` matters; `EventsAssumption`,
days are numbers; `OrdersAssumption`, an order of the marts is a sequence of names that is
not empty.

*The argument.* The rows of a mart are replaced by rows with the same or a later
`calculated_at`, from whichever run, and a slow run may write a row that it computed before
an event was there. Such a row must not replace the row that a watermark relies on.

1. `RowsInv` relates the rows that are written and those that are only computed: each is
   computed from events that were stored at that time, and a later one knows what an earlier
   one knows (`Ordered`). A computed row that lacks an event was computed before the event
   was stored (`Aged`: at least `age` ago).
2. `Computed`: what a run promises is a safety delay old when the run begins. So a row
   without it was computed strictly before the row of this run, which is where
   `SafetyDelay > 0` is needed: with equal seconds the last one written would stay.
3. `Firm`: once the run has written its row, no computed row can replace it by one without
   the event. It remains so, since rows to come are computed from at least as many events.
4. `Progress`: `Firm` holds of the marts the run has done, `Computed` of the one it is
   writing; at the end of the run all marts are done, and the watermark may be written.

`MarkCovers` is `Firm` of what the watermark has passed, and `NeverBack` is `Ordered` with
one row per key (`Unique`). The sessions are left aside as in the properties.

`QuietRunShows` is about all marts, sessions included. `ShowInv` says that as long as nothing
disturbs a run (no step of another run, no failure, no event that arrives and no midnight)
the window it has read is the one that it would read now (`StartDay`, `EndDay`), that what it
computed agrees with a computation from nothing but for the time, and that no row is newer
than what it is about to write; so its rows stay, and the marts it has done show what is
expected.

### The HTTP path

*Assumptions.* `BatchAssumption`, `InvalidAssumption` and `ClientAssumption`: the constants
have their types. The urls are any number but 0, so that `(current + i) % NumUrls` is reasoned about,
not computed.

*The argument.* `RingInv` says that a call under way has tried the urls from `current` on,
in their order. For each client `IInv` says which of its events are where: the numbers of a
batch follow those of the batch before, the batch of a client that waits is not stored, that
of the client being served is stored up to the row that is being inserted, and a response was
made from what the server had stored. `CopiesBounded` adds that a row under way has at most
one copy for each url tried, and every other row at most `NumUrls`. (Copies are counted up to
`MaxCopies`; the theorem holds however large that is.) `TypeCorrect` needs `BoundsInv`, the
generator's books: each event it produced is in the batch or was counted once, as ok or as
failed, and the server answers for no more rows than a batch has.

### The Kafka path

*Assumptions.* `KafkaAssumption`: the constants have their types, the nodes are finitely many.

*The argument.* `CommittedIsStored` needs `BlockAt`: the block that a node polled as a member
begins at the committed offset as long as it is a member, because no one else is, and what is
inserted of it is stored. A node that lost the partition keeps its block, may still insert
it, and cannot commit. For `CopiesExplained`, `CopyInv` counts the copies that are stored
together with the nodes that may still insert one: their number exceeds the number of faults
only by 1, and only if the offset is committed or a member has it in its block (`Covered`).
`OkIsAccountedFor` follows from a count of where the events that were produced are.

### The csv path

*Assumptions.* `CsvAssumption`, `SizesAssumption` and `RepeatableAssumption`: the constants
have their types, and the slots are finitely many.

*The argument.* For the sink, `Fresh`: the names of a run bear its salt and a row number that
grows between rotations, so an upload finds its name unused; `ObjectsImmutable` follows. With
`TruncateSafe` (the file is emptied only when its rows are in an object) a row is always in
one or the other, and with `CopiesOf` a row that waits in the file owes its copies to uploads
of unknown outcome. For DAG 01, `MarkReady`: an object that a run is about to mark is loaded,
on whichever host that was; and `MineStored`: a block that is dropped as a repetition is
there. Counts of copies only grow, so other runs, outages and retries preserve both. Only a
statement that fails adds to the objects that are stored and not classified, one at most,
hence their bound in `MarkedIsDone`.

`LossBounded` is an argument about chunks. The file holds rows produced since row
`k * RotateEvery`, where the last upload was reported as done (`Chunk`). The chunk has passed
a rotation point only where an upload failed, so it is no longer than `Interval`. While the
stream is good no row of the chunk is lost; after a failed write, which is one of
`writeFaults`, at most the chunk is (`ChunkLoss`), and the next reported upload starts a new
one with a good stream.

`EveryCopyExplained` is an argument of credit. For an object, `CreditInv` adds up its copies,
the runs that have it on their list (`Holding`) and those that may yet put it there when they
read the ledger of the host in charge (`Missing`), and bounds the sum by what was paid: one
for each slot, one for each failure, and for each outage one per slot when it begins and one
when it ends, since both may change the host in charge and with it the ledger. An insert
turns a held object into a copy, and a failure after it pays for the insert of the retry.
Between two changes of hosts a ledger only grows, so a run that does not miss an object does
not come to miss it, unless it has marked it, and then the ledger knows. (Copies are counted
up to `CopyCap`; the theorem holds however large that is.)

### Validation

*Assumption.* `InputsAssumption`: what is sent are events, and what the generator makes are
its events.

*The argument.* `ViewsUpToDate`: what the views wrote insert by insert is what they would
make of all of `raw_events` at once, and of one row that is one place, with a reason if it is
`invalid_events`. `VInv` says where every row comes from: `RawInv`, an event that was read
and, if it came by HTTP, passed the API's checks; `HandlerInv`, no error is noted exactly if
every event read so far passes alone, and then the rows are those of the events, in order;
`ReplyInv`, the rows of a request are stored with its response. `AcceptedIsValid` and
`PathsAgree` then compare the functions of the paths, field by field.

### Only model-checked

Liveness (`EventuallyPrepared`, `EventuallyCounted`, `EveryRequestAnswered`,
`EventuallyMarked`, `EventuallyUploaded`, `EventuallyStored`), which these provers do not
handle under fairness. The violations are counterexamples and need no proof. That `OneSlot`
is needed is shown by TLC (section 3).

## 6. What is not modelled

* Replica lag: `DedupPrepare` has one copy of each table. A fail-over to a replica that
  lags shows old rows of `prepared_events` and `etl_state`.
* The grammar of the JSON parser beyond complete and cut arrays; routes other than
  `POST /events`; a `read` that returns 0 because the client left.
* `SIGPIPE`: `send` without `MSG_NOSIGNAL` may end the generator. `CsvRotation` has the
  death of the process, not this cause of it.
* The metrics registry: counters of one thread, which nobody sees between two steps. That
  each unknown path makes new counters for ever is not covered.
* The TTLs of the tables: `invalid_events` are dropped after 30 days, while DAG 03 computes
  120 days again, so that a recomputed old day shows no invalid events.
* Versions in `prepared_events` and rows of the marts that are not merged yet, as DAG 03 and
  the dashboards read them, without `FINAL`.
* Changes between the five queries with which DAG 03 reads its window
  (`dag_03_fill_analytics_marts.py:86`): `Marts` reads it in one step, `ReadWindow`.
* The empty batch, which `Validation` does not send, and columns that are not required and
  that every path copies alike. (`device_id` is modelled; `data_quality.sql` groups by it,
  and shows a `device_type` for what came by csv.)
* `source_row_number` of a repeated csv insert, which decides whether copies share a
  `dedup_key`.
* Random event generation, formatting of times and CSV quoting, which carry data only;
  dashboards, compose files and ClickHouse configuration, which are static; scripts, test
  suites and the data set.

## 7. Plan

Done: `DedupPrepare` with `IncrementalCopy` (the heart of the pipeline, whose
errors are silent and permanent), the three ingestion paths, DAG 01 and its producer, what
becomes of the contents of an event (`Validation`), DAG 03 (`Marts`), and proofs about each
of them.

Next, in this order:

1. `Pipeline`: `CsvRotation` and `CsvToRaw` composed, later with `KafkaIngest` and
   `DedupPrepare`: an abstract specification of at-least-once delivery from the generator
   to `prepared_events`, shown to be implemented by each path.
2. Replica lag in `DedupPrepare`: two copies of `etl_state` and `prepared_events`.
