------------------------------- MODULE Marts -------------------------------
(***************************************************************************)
(* DAG 03, airflow/dags/dag_03_fill_analytics_marts.py: the days of the    *)
(* backfill window are computed again from prepared_events and             *)
(* invalid_events and inserted into five marts, one statement after the    *)
(* other. A mart is a ReplacingMergeTree: of the rows with one key the one *)
(* with the latest calculated_at stays, which has a resolution of a        *)
(* second, and among equals the one inserted last.                         *)
(*                                                                         *)
(* A row is described by the events it was computed from: its numbers are  *)
(* a function of them. Versions of an event in prepared_events that are    *)
(* not merged yet are left out (see DedupPrepare), and so are the rows of  *)
(* the marts that a merge will remove.                                     *)
(*                                                                         *)
(* A definition named X_Y is X with the defect Y: no action uses it; it is *)
(* there to show that the properties tell X from it.                       *)
(***************************************************************************)
EXTENDS Integers, FiniteSets, Sequences

CONSTANTS
  Attributes,    \* events: records of day (of event_time), user_id, session_id,
                 \* page_path, referrer and valid (it is in prepared_events)
  MartOrders,    \* sequences of marts, in the order of the statements: a run fills
                 \* the marts of one of them. The code has one sequence of five; no
                 \* statement reads a mart, so parts of it may be looked at apart.
  Early,         \* events that are stored before the DAG first runs
  Slots,         \* runs of the DAG that may be active at the same time
  BackfillDays,  \* CLICKSTREAM_MARTS_BACKFILL_DAYS
  SafetyDelay,   \* safety_delay_sec
  DayLength,     \* seconds of a day
  Retries,       \* default_args["retries"]
  MaxNow,        \* bound on the clock
  MaxFailures    \* bound on the number of task failures

ASSUME MartsAssumption ==
  /\ BackfillDays \in Nat \ {0} /\ SafetyDelay \in Nat \ {0} /\ DayLength \in Nat \ {0}
  /\ Retries \in Nat /\ MaxNow \in Nat /\ MaxFailures \in Nat
ASSUME EventsAssumption == \A e \in Attributes : e.day \in Nat
ASSUME OrdersAssumption == \A o \in MartOrders : o \in Seq(STRING) /\ o # <<>>

Events == Attributes
Valid == { e \in Events : e.valid }

VARIABLES
  now,           \* the clock, in seconds
  fullDaysOnly,  \* CLICKSTREAM_MARTS_FULL_DAYS = "1"
  order,         \* the element of MartOrders
  age,           \* [Events -> seconds since it was stored, SafetyDelay for more, or Absent]
  rows,          \* the rows of the marts, one for each mart and key
  mark,          \* last_ts of etl_state: the events it promises, those of the window
                 \* of the run that were stored up to it
  run,           \* [Slots -> the locals of the run]
  failures

settings == <<fullDaysOnly, order>>
vars == <<now, settings, age, rows, mark, run, failures>>

Absent == -1
Today == now \div DayLength

\* toDate of the epoch: what min() yields for an empty prepared_events.
Epoch == -BackfillDays - 1

Idle == [pc |-> "idle", upper |-> {}, first |-> 0, last |-> 0, next |-> 1, result |-> {},
         attempt |-> 0, quiet |-> FALSE]

Marts == { order[i] : i \in DOMAIN order }
Stored == { e \in Events : age[e] # Absent }

\* The seed of 001_init.sql: rows of past days, for keys of its own in pages_daily
\* and referrer_daily, that no event stands behind.
Keyed == {"pages_daily", "referrer_daily"}
Seeds ==
  { [mart |-> m, day |-> 0, key |-> IF m \in Keyed THEN "seed" ELSE "", at |-> 0,
     from |-> {}, beside |-> {}] : m \in Marts }

Init ==
  /\ now = 0
  /\ fullDaysOnly \in BOOLEAN
  /\ order \in MartOrders
  /\ age = [e \in Events |-> IF e \in Early THEN SafetyDelay ELSE Absent]
  /\ rows = Seeds
  /\ mark = {}
  /\ run = [s \in Slots |-> Idle]
  /\ failures = 0

-----------------------------------------------------------------------------
(* The five queries. *)

Least(S) == CHOOSE x \in S : \A y \in S : x <= y
Larger(a, b) == IF a < b THEN b ELSE a

InWindow(first, last) == { e \in Stored : e.day \in first .. last }

\* A session belongs to the day of its first event within the window.
SessionDay(e, W) == Least({ f.day : f \in { g \in W : g.session_id = e.session_id } })

\* user_first looks at all of prepared_events.
FirstDay(u) == Least({ e.day : e \in { f \in Stored \cap Valid : f.user_id = u } })

Day(m, e, W) == IF m = "session_quality_daily" THEN SessionDay(e, W) ELSE e.day

Key(m, e) ==
  CASE m = "pages_daily" -> e.page_path
    [] m = "referrer_daily" -> IF e.referrer = "" THEN "(direct)" ELSE e.referrer
    [] OTHER -> ""

\* What a row shows besides its own events: the invalid events of the day, the
\* total of the day, or the new users. A day with invalid events only has no row.
Beside(m, day, W) ==
  CASE m = "kpi_daily" -> { e \in W \ Valid : e.day = day }
    [] m = "referrer_daily" -> { e \in W \cap Valid : e.day = day }
    [] m = "user_cohorts_daily" ->
         { e \in W \cap Valid : e.day = day /\ FirstDay(e.user_id) = day }
    [] OTHER -> {}

Query(m, first, last) ==
  LET all == InWindow(first, last)
      W == all \cap Valid
  IN  { [mart |-> m, day |-> Day(m, e, W), key |-> Key(m, e), at |-> now,
         from |-> { f \in W : Day(m, f, W) = Day(m, e, W) /\ Key(m, f) = Key(m, e) },
         beside |-> Beside(m, Day(m, e, W), all)] : e \in W }

SameKey(r, q) == r.mart = q.mart /\ r.day = q.day /\ r.key = q.key

\* ReplacingMergeTree(calculated_at).
Replace_Appends(old, new) == old \cup new
Replace_LastInserted(old, new) ==
  new \cup { r \in old : \A n \in new : ~SameKey(r, n) }
Replace(old, new) ==
  { n \in new : \A r \in old : SameKey(r, n) => r.at <= n.at }
  \cup { r \in old : \A n \in new : SameKey(r, n) => r.at > n.at }

-----------------------------------------------------------------------------
(* The surroundings. *)

\* What another slot, the data or the calendar does while a run is active.
Disturbed(S) == [s \in Slots |-> [run[s] EXCEPT !.quiet = @ /\ s \notin S]]

Tick ==
  /\ now < MaxNow
  /\ now' = now + 1
  /\ age' = [e \in Events |-> IF age[e] \in {Absent, SafetyDelay} THEN age[e] ELSE age[e] + 1]
  /\ run' = IF (now + 1) \div DayLength = Today THEN run ELSE Disturbed(Slots)
  /\ UNCHANGED <<settings, rows, mark, failures>>

\* DAG 02, or a view, stores an event. Its event_time may be far back, or ahead.
Arrive(e) ==
  /\ age[e] = Absent
  /\ age' = [age EXCEPT ![e] = 0]
  /\ run' = Disturbed(Slots)
  /\ UNCHANGED <<now, settings, rows, mark, failures>>

-----------------------------------------------------------------------------
(* The DAG. *)

Step(s, r) == run' = [Disturbed(Slots \ {s}) EXCEPT ![s] = r]

\* Task ensure_state. The row it inserts, if there is none, is of 1970: it promises
\* no event.
EnsureState(s) ==
  /\ run[s].pc = "idle"
  /\ Step(s, [Idle EXCEPT !.pc = "read"])
  /\ UNCHANGED <<now, settings, age, rows, mark, failures>>

\* now64() - INTERVAL safety_delay_sec SECOND: the events stored by then.
UpperTs_NoDelay == Stored
UpperTs == { e \in Stored : age[e] >= SafetyDelay }

EndDay == IF fullDaysOnly THEN Today - 1 ELSE Today

MinDayPrepared ==
  IF Stored \cap Valid = {} THEN Epoch ELSE Least({ e.day : e \in Stored \cap Valid })

StartDay_Short == Larger(EndDay - (BackfillDays - 2), MinDayPrepared)
StartDay == Larger(EndDay - (BackfillDays - 1), MinDayPrepared)

\* Task fill_analytics_marts: the window. last_ts is read and used only for
\* printing. min() over an empty table is not NULL in ClickHouse, so the branch
\* for None is never taken; if start_day > end_day nothing is inserted.
ReadWindow(s) ==
  /\ run[s].pc = "read"
  /\ Step(s, [pc |-> IF StartDay > EndDay THEN "mark" ELSE "query",
              upper |-> { e \in UpperTs : e.day \in StartDay .. EndDay },
              first |-> StartDay, last |-> EndDay, next |-> 1, result |-> {},
              attempt |-> run[s].attempt, quiet |-> TRUE])
  /\ UNCHANGED <<now, settings, age, rows, mark, failures>>

\* INSERT INTO ... SELECT ... now() begins ...
Begin(s) ==
  /\ run[s].pc = "query"
  /\ Step(s, [run[s] EXCEPT !.pc = "insert",
                            !.result = Query(order[run[s].next], run[s].first, run[s].last)])
  /\ UNCHANGED <<now, settings, age, rows, mark, failures>>

\* ... and its block is written.
AfterInsert(r) ==
  [r EXCEPT !.pc = IF r.next = Len(order) THEN "mark" ELSE "query",
            !.next = IF r.next = Len(order) THEN 1 ELSE r.next + 1,
            !.result = {}]

Write(s) ==
  /\ run[s].pc = "insert"
  /\ rows' = Replace(rows, run[s].result)
  /\ Step(s, AfterInsert(run[s]))
  /\ UNCHANGED <<now, settings, age, mark, failures>>

\* The run is over; only whether it was disturbed is remembered.
Finish(s, undisturbed) == Step(s, [Idle EXCEPT !.quiet = undisturbed])

UpdateMark(s) ==
  /\ run[s].pc = "mark"
  /\ mark' = run[s].upper
  /\ Finish(s, run[s].quiet)
  /\ UNCHANGED <<now, settings, age, rows, failures>>

\* A statement raises, before or after it has taken effect; the task starts again
\* from its first line, at another time, or the run is lost.
Retry(s) ==
  IF run[s].attempt < Retries
  THEN Step(s, [Idle EXCEPT !.pc = "read", !.attempt = run[s].attempt + 1])
  ELSE Finish(s, FALSE)

Fail(s) ==
  /\ run[s].pc # "idle"
  /\ failures < MaxFailures
  /\ failures' = failures + 1
  /\ \/ UNCHANGED <<rows, mark>>
     \/ /\ run[s].pc = "insert"
        /\ rows' = Replace(rows, run[s].result)
        /\ UNCHANGED mark
     \/ /\ run[s].pc = "mark" /\ mark' = run[s].upper
        /\ UNCHANGED rows
  /\ Retry(s)
  /\ UNCHANGED <<now, settings, age>>

-----------------------------------------------------------------------------

Next ==
  \/ Tick
  \/ \E e \in Events : Arrive(e)
  \/ \E s \in Slots : EnsureState(s) \/ ReadWindow(s) \/ Begin(s) \/ Write(s)
                      \/ UpdateMark(s) \/ Fail(s)

Spec == Init /\ [][Next]_vars

-----------------------------------------------------------------------------
(* Properties. *)

\* Each mart has one row for a key, computed from events that are stored.
TypeOK ==
  /\ now \in 0 .. MaxNow /\ fullDaysOnly \in BOOLEAN /\ order \in MartOrders
  /\ age \in [Events -> {Absent} \cup 0 .. SafetyDelay] /\ mark \subseteq Stored
  /\ \A r \in rows : /\ r.mart \in Marts /\ r.at \in 0 .. now
                     /\ r.from \subseteq Stored /\ r.beside \subseteq Stored
                     /\ \A q \in rows : SameKey(r, q) => q = r
  /\ \A s \in Slots :
       /\ run[s].pc \in {"idle", "read", "query", "insert", "mark"}
       /\ run[s].next \in DOMAIN order /\ run[s].attempt \in 0 .. Retries
       /\ run[s].pc \in {"query", "insert"} => run[s].first <= run[s].last
  /\ failures \in 0 .. MaxFailures

\* An event stored up to the watermark is counted in each mart, if its day is in
\* the window of the run that wrote the watermark: overlapping runs, the order in
\* which their blocks are written and ties of calculated_at do not lose it.
\* The sessions are left aside: see QuietRunAgrees.
MarkCovers ==
  \A e \in mark \cap Valid, m \in Marts \ {"session_quality_daily"} :
      \E r \in rows : r.mart = m /\ r.day = e.day /\ r.key = Key(m, e) /\ e \in r.from

\* After a run that nothing disturbed, whatever failed or overlapped before it, the
\* marts show what is stored of the last BackfillDays days: rows with other
\* contents are left only for keys without events, from the seed or for a day
\* whose sessions all turned out to have begun earlier.
Window == (EndDay - BackfillDays + 1) .. EndDay

QuietRunAgrees ==
  (\E s \in Slots : run[s].pc = "idle" /\ run[s].quiet) =>
    \A m \in Marts :
      LET computed == Query(m, EndDay - BackfillDays + 1, EndDay)
      IN  /\ \A q \in computed : \E r \in rows : [r EXCEPT !.at = now] = q
          /\ \A r \in rows :
               r.mart = m /\ r.day \in Window /\ (\A q \in computed : ~SameKey(r, q)) =>
                 r \in Seeds \/ m = "session_quality_daily"

\* An event that a mart shows for its day it goes on showing, unless the row is
\* replaced by one of the same second: no slow run brings older numbers back.
\* (Again without the sessions, whose contents depend on the window.)
NeverBack ==
  [][ \A r \in rows, q \in rows' :
        SameKey(r, q) /\ r.mart # "session_quality_daily" =>
          r.from \subseteq q.from \/ r.at = q.at ]_vars

\* "тестовые данные для Superset (удаляются при реальном заполнении)"
\* (001_init.sql:453): when a run has filled the marts, no row of the seed is left.
SeedsGone == mark \cap Valid # {} => rows \cap Seeds = {}
=============================================================================
